------------------------------- MODULE FmtInt -------------------------------
(***************************************************************************)
(* How fmt's BasicWriter writes integers and strings: it counts the        *)
(* characters, grows the buffer once, fills in prefix and padding, and     *)
(* then writes the digits backwards from the place it computed for the     *)
(* last one.  A character is a string of length one.                       *)
(*                                                                         *)
(* A format specification is a record with the fields width, fill, align,  *)
(* flags, precision (-1 for none) and type ("" for none).                  *)
(***************************************************************************)
EXTENDS Integers, Sequences, SequencesExt

CONSTANTS IntBits,       \* bits of the integers that are written
          Separator      \* thousands separator of the locale

ASSUME FmtIntAssumption == IntBits \in 1..64

Gap == "gap"             \* a character of the buffer not written yet
DecimalDigits == <<"0", "1", "2", "3", "4", "5", "6", "7", "8", "9">>
HexDigits == [x |-> DecimalDigits \o <<"a", "b", "c", "d", "e", "f">>,
              X |-> DecimalDigits \o <<"A", "B", "C", "D", "E", "F">>]

Repeat(c, n) == [i \in 1..n |-> c]

(* base^e.                                                                 *)
Power(base, e) ==
    LET power[k \in 0..64] == IF k = 0 THEN 1 ELSE base * power[k - 1] IN power[e]

NoSpec == [width |-> 0, fill |-> " ", align |-> "default", flags |-> {},
           precision |-> -1, type |-> ""]

(* 64 - clz(n | 1).                                                        *)
BitLength(n) ==
    LET m == IF n % 2 = 0 THEN n + 1 ELSE n
    IN  CHOOSE b \in 1..64 : Power(2, b - 1) <= m /\ m < Power(2, b)

POWERS_OF_10(t) == IF t = 0 THEN 0 ELSE Power(10, t)

(* The variant with __builtin_clz: t is the number of digits or one less.  *)
count_digits(n) ==
    LET t == (BitLength(n) * 1233) \div 4096
    IN  t - (IF n < POWERS_OF_10(t) THEN 1 ELSE 0) + 1

(* What is written before digit number k, counted from the right.          *)
ThousandsSep(sep, k) == IF k % 3 = 0 THEN sep ELSE << >>

(* The characters format_decimal leaves before buffer: two digits at a     *)
(* time, the separator after every third digit but not before the first.   *)
format_decimal(value, sep) ==
    LET Put(text, k, d) == ThousandsSep(sep, k) \o <<DecimalDigits[d + 1]>> \o text
        Lead(text, k, v) ==
            IF v < 10 THEN <<DecimalDigits[v + 1]>> \o text
            ELSE <<DecimalDigits[v \div 10 + 1]>> \o Put(text, k, v % 10)
        pairs == CHOOSE p \in 0..9 : /\ value \div Power(100, p) < 100
                                     /\ \A q \in 0..p - 1 : value \div Power(100, q) >= 100
        text[p \in 0..pairs] ==
            IF p = 0 THEN << >>
            ELSE LET v == value \div Power(100, p - 1) IN
                 Put(Put(text[p - 1], 2 * p - 1, v % 10), 2 * p, (v \div 10) % 10)
    IN  Lead(text[pairs], 2 * pairs + 1, value \div Power(100, pairs))

(* The digits of n in base 2^shift, as the do-while loops write them.      *)
format_bits(n, shift, digits) ==
    LET base == Power(2, shift)
        count == CHOOSE c \in 1..64 :
                    /\ n \div Power(base, c - 1) < base
                    /\ \A b \in 1..c - 1 : n \div Power(base, b - 1) >= base
    IN  [i \in 1..count |-> digits[1 + ((n \div Power(base, count - i)) % base)]]

(* fill_padding: the content is in the middle, the odd character right.    *)
fill_padding(total, content) == (total - content) \div 2

(* The buffer number_buffer grows has prefix and padding in place and      *)
(* Gaps for the digits; last is where the last digit goes.                 *)
number_buffer(num_digits, width, fill, align, prefix) ==
    LET size == Len(prefix) + num_digits
        gaps == Repeat(Gap, num_digits)
        pad == Repeat(fill, width - size)
        left == fill_padding(width, size)
    IN  CASE width <= size -> [buf |-> prefix \o gaps, last |-> size]
          [] width > size /\ align = "left" ->
               [buf |-> prefix \o gaps \o pad, last |-> size]
          [] width > size /\ align = "center" ->
               [buf |-> SubSeq(pad, 1, left) \o prefix \o gaps
                        \o SubSeq(pad, left + 1, Len(pad)),
                last |-> left + size]
          [] width > size /\ align = "numeric" ->
               [buf |-> prefix \o pad \o gaps, last |-> width]
          [] OTHER -> [buf |-> pad \o prefix \o gaps, last |-> width]

(* With a precision the number is first padded with zeros, the prefix 0 of *)
(* an octal number counting as one of them, and then padded to the width.  *)
prepare_int_buffer(num_digits, spec, prefix) ==
    IF spec.precision <= num_digits
    THEN number_buffer(num_digits, spec.width, spec.fill, spec.align, prefix)
    ELSE LET kept == IF prefix # << >> /\ prefix[Len(prefix)] = "0"
                     THEN SubSeq(prefix, 1, Len(prefix) - 1) ELSE prefix
             number_size == Len(kept) + spec.precision
             number == number_buffer(num_digits, number_size, "0", "numeric", kept)
             pad == Repeat(spec.fill, spec.width - number_size)
         IN  IF number_size >= spec.width THEN number
             ELSE IF spec.align = "left"
             THEN [number EXCEPT !.buf = @ \o pad]
             ELSE [buf |-> pad \o number.buf, last |-> Len(pad) + number.last]

(* The digits go backwards from the place of the last one.                 *)
PutDigits(place, text) ==
    LET first == place.last - Len(text) + 1 IN
    [i \in DOMAIN place.buf |->
        IF i \in first..place.last THEN text[i - first + 1] ELSE place.buf[i]]

is_negative(value) == value < 0
Modulus == Power(2, IntBits)
abs_value(value) ==
    IF is_negative(value) THEN (0 - (value % Modulus)) % Modulus ELSE value % Modulus

SignPrefix(value, spec) ==
    IF is_negative(value) THEN <<"-">>
    ELSE IF "sign" \in spec.flags
    THEN <<IF "plus" \in spec.flags THEN "+" ELSE " ">> ELSE << >>

FormatError == <<"error">>

write_int(value, spec) ==
    LET n == abs_value(value)
        sign == SignPrefix(value, spec)
        hash == "hash" \in spec.flags
        Base(p, digits) ==
            LET prefix == IF hash THEN sign \o p ELSE sign IN
            PutDigits(prepare_int_buffer(Len(digits), spec, prefix), digits)
    IN  CASE spec.type \in {"", "d"} ->
               PutDigits(prepare_int_buffer(count_digits(n), spec, sign),
                         format_decimal(n, << >>))
          [] spec.type \in {"x", "X"} ->
               Base(<<"0", spec.type>>, format_bits(n, 4, HexDigits[spec.type]))
          [] spec.type \in {"b", "B"} ->
               Base(<<"0", spec.type>>, format_bits(n, 1, DecimalDigits))
          [] spec.type = "o" -> Base(<<"0">>, format_bits(n, 3, DecimalDigits))
          [] spec.type = "n" ->
               LET digits == count_digits(n)
                   size == digits + Len(Separator) * ((digits - 1) \div 3)
               IN  PutDigits(prepare_int_buffer(size, spec, sign),
                             format_decimal(n, Separator))
          [] OTHER -> FormatError

(* pad(value, width, fill): the way the flag formatters write numbers.     *)
pad(value, width, fill) == write_int(value, [NoSpec EXCEPT !.width = width, !.fill = fill])

(* write_str on characters: cut to the precision, then padded to width.    *)
write_str(chars, spec) ==
    LET cut == IF spec.precision >= 0 /\ spec.precision < Len(chars)
               THEN SubSeq(chars, 1, spec.precision) ELSE chars
        room == spec.width - Len(cut)
        left == CASE spec.align = "right" -> room
                  [] spec.align = "center" -> fill_padding(spec.width, Len(cut))
                  [] OTHER -> 0
    IN  IF spec.type \notin {"", "s"} THEN FormatError
        ELSE IF room <= 0 THEN cut
        ELSE Repeat(spec.fill, left) \o cut \o Repeat(spec.fill, room - left)

-----------------------------------------------------------------------------
(* What the documentation of the format specification asks for.            *)
DigitsOf(n, base, digits) ==
    LET count == CHOOSE c \in 1..64 :
                    n \div Power(base, c - 1) < base /\ \A b \in 1..c - 1 : n >= Power(base, b)
    IN  [i \in 1..count |-> digits[1 + ((n \div Power(base, count - i)) % base)]]

Grouped(chars) == FlattenSeq([i \in DOMAIN chars |->
    IF i > 1 /\ ((Len(chars) - i + 1) % 3) = 0 THEN Separator \o <<chars[i]>> ELSE <<chars[i]>>])

Padded(prefix, body, spec) ==
    LET room == spec.width - Len(prefix) - Len(body)
        Fill(n) == Repeat(spec.fill, n)
    IN  IF room <= 0 THEN prefix \o body
        ELSE CASE spec.align = "left" -> prefix \o body \o Fill(room)
               [] spec.align = "center" ->
                    Fill(room \div 2) \o prefix \o body \o Fill(room - room \div 2)
               [] spec.align = "numeric" -> prefix \o Fill(room) \o body
               [] OTHER -> Fill(room) \o prefix \o body

IntAsMeant(value, spec) ==
    LET n == IF value < 0 THEN 0 - value ELSE value
        t == spec.type
        sign == IF value < 0 THEN <<"-">> ELSE IF "plus" \in spec.flags THEN <<"+">>
                ELSE IF "sign" \in spec.flags THEN <<" ">> ELSE << >>
        digits == CASE t \in {"", "d"} -> DigitsOf(n, 10, DecimalDigits)
                    [] t = "n" -> Grouped(DigitsOf(n, 10, DecimalDigits))
                    [] t \in {"x", "X"} -> DigitsOf(n, 16, HexDigits[t])
                    [] t \in {"b", "B"} -> DigitsOf(n, 2, DecimalDigits)
                    [] OTHER -> DigitsOf(n, 8, DecimalDigits)
        base == IF "hash" \notin spec.flags \/ t \in {"", "d", "n"} THEN << >>
                ELSE IF t = "o" THEN <<"0">> ELSE <<"0", t>>
    IN  Padded(sign \o base, digits, spec)
=============================================================================

----------------------------- MODULE FmtFormat -----------------------------
(***************************************************************************)
(* fmt's BasicFormatter::format, which every call of a logger goes         *)
(* through: one pass over the format string, each replacement field parsed *)
(* part by part into a specification and its argument then written.  Any   *)
(* part can throw FormatError, which ends the call.                        *)
(*                                                                         *)
(* The string is a sequence of characters that ends in Nul; the pointer s  *)
(* is an index.  An argument is a record of type, value and name; double   *)
(* and custom arguments are left out.                                      *)
(***************************************************************************)
EXTENDS FmtInt

CONSTANTS FormatCalls,   \* calls: records of the string, the arguments and
                         \* what the string stands for, or Unspecified
          Unspecified,
          UIntModulus    \* 2^32 in the code

ASSUME FormatAssumption == \A c \in FormatCalls : c.str \in Seq(STRING)

VARIABLES call, fpc, s, start, next_arg_index, arg, spec, writer

fvars == <<call, fpc, s, start, next_arg_index, arg, spec, writer>>

Nul == ""
CharAt(i) == IF i \in DOMAIN call.str THEN call.str[i] ELSE Nul
Digits == ToSet(DecimalDigits)
(* The letters of the strings that are formatted, and the underscore.      *)
is_name_start(c) == c \in {"a", "b", "c", "d", "n", "o", "p", "s", "x", "B", "X", "_"}
DigitValue(c) == CHOOSE d \in 0..9 : DecimalDigits[d + 1] = c
NoArg == [type |-> "none", value |-> 0, name |-> << >>]

FInit ==
    /\ call \in FormatCalls
    /\ fpc = "text" /\ s = 1 /\ start = 1
    /\ next_arg_index = 0 /\ arg = NoArg /\ spec = NoSpec
    /\ writer = << >>

Throw == fpc' = "error" /\ UNCHANGED <<call, s, start, next_arg_index, arg, spec, writer>>

(* The characters from..to-1 as they stand.                                *)
Literal(from, to) == SubSeq(call.str, from, to - 1)

Text ==
    /\ fpc = "text"
    /\ LET c == CharAt(s) IN
       \/ /\ c = Nul
          /\ writer' = writer \o Literal(start, s)
          /\ fpc' = "done" /\ UNCHANGED <<s, start>>
       \/ /\ c \notin {Nul, "{", "}"}
          /\ s' = s + 1 /\ UNCHANGED <<fpc, start, writer>>
       \/ /\ c \in {"{", "}"} /\ CharAt(s + 1) = c
          /\ writer' = writer \o Literal(start, s + 1)
          /\ s' = s + 2 /\ start' = s + 2 /\ UNCHANGED fpc
       \/ /\ c = "}" /\ CharAt(s + 1) # c
          /\ fpc' = "error" /\ UNCHANGED <<s, start, writer>>
       \/ /\ c = "{" /\ CharAt(s + 1) # c
          /\ writer' = writer \o Literal(start, s)
          /\ s' = s + 1 /\ fpc' = "argument" /\ UNCHANGED start
    /\ UNCHANGED <<call, next_arg_index, arg, spec>>

(* parse_nonnegative_int at i: the value modulo the width of unsigned, and *)
(* where it ends; wrapping around is noticed when the value gets smaller.  *)
parse_nonnegative_int(i) ==
    LET run == CHOOSE n \in 0..Len(call.str) :
                  /\ \A k \in 0..n - 1 : CharAt(i + k) \in Digits
                  /\ CharAt(i + n) \notin Digits
        acc[k \in 0..run] == IF k = 0 THEN 0
            ELSE (acc[k - 1] * 10 + DigitValue(CharAt(i + k - 1))) % UIntModulus
    IN  [value |-> acc[run], end |-> i + run,
         error |-> \/ \E k \in 1..run : acc[k] < acc[k - 1]
                   \/ acc[run] > UIntModulus \div 2 - 1]

(* The argument at an index, and the first one with a name.                *)
do_get_arg(k) == IF k < Len(call.args) THEN call.args[k + 1] ELSE NoArg
ArgMap(name) ==
    LET named == {k \in DOMAIN call.args : call.args[k].name = name}
    IN  IF named = {} THEN NoArg
        ELSE call.args[CHOOSE k \in named : \A j \in named : k <= j]

(* A string uses automatic or manual indexing, never both: next_arg_index  *)
(* is -1 once a field was numbered or named.                               *)
check_no_auto_index == next_arg_index <= 0
next_arg == IF next_arg_index >= 0 THEN do_get_arg(next_arg_index) ELSE NoArg

(* The argument a field that begins at i asks for, where the name or index *)
(* ends, and what becomes of next_arg_index.                               *)
Found(a, end, next) == [arg |-> a, end |-> end, next |-> next, error |-> a.type = "none"]

parse_arg_index(i) ==
    LET index == parse_nonnegative_int(i) IN
    IF CharAt(i) \in Digits
    THEN Found(IF check_no_auto_index /\ ~ index.error THEN do_get_arg(index.value)
               ELSE NoArg, index.end, -1)
    ELSE Found(next_arg, i, next_arg_index + 1)

parse_arg_name(i) ==
    LET end == CHOOSE e \in i..Len(call.str) + 1 :
                  /\ \A k \in i..e - 1 : is_name_start(CharAt(k)) \/ CharAt(k) \in Digits
                  /\ ~ is_name_start(CharAt(e)) /\ CharAt(e) \notin Digits
    IN  Found(IF check_no_auto_index THEN ArgMap(Literal(i, end)) ELSE NoArg, end, -1)

parse_argument(i) ==
    IF is_name_start(CharAt(i)) THEN parse_arg_name(i) ELSE parse_arg_index(i)

Argument ==
    /\ fpc = "argument"
    /\ LET p == parse_argument(s) IN
       \/ p.error /\ Throw
       \/ /\ ~ p.error
          /\ arg' = p.arg /\ s' = p.end /\ next_arg_index' = p.next
          /\ spec' = NoSpec
          /\ fpc' = IF CharAt(p.end) = ":" THEN "align" ELSE "close"
          /\ UNCHANGED <<call, start, writer>>

-----------------------------------------------------------------------------
Integral == {"int", "uint", "bool", "char"}   \* up to LAST_INTEGER_TYPE
Numeric == Integral                           \* and the doubles
require_numeric_argument == arg.type \in Numeric
check_sign == require_numeric_argument /\ arg.type # "uint"
Aligns == [c \in {"<", ">", "=", "^"} |->
             CASE c = "<" -> "left" [] c = ">" -> "right"
               [] c = "=" -> "numeric" [] OTHER -> "center"]

(* One part of a specification: read at s, it changes the specification    *)
(* and leaves s at end, or throws.                                         *)
Part(now, next, error, end, new) ==
    /\ fpc = now
    /\ \/ error /\ Throw
       \/ /\ ~ error
          /\ s' = end /\ spec' = new /\ fpc' = next
          /\ UNCHANGED <<call, start, next_arg_index, arg, writer>>

(* Fill and alignment: the character after the next one decides first. *)
Align ==
    LET i == s + 1           \* after the colon
        c == CharAt(i)
        filled == c # Nul /\ CharAt(i + 1) \in DOMAIN Aligns
        alone == c # Nul /\ ~ filled /\ c \in DOMAIN Aligns
        align == IF filled THEN Aligns[CharAt(i + 1)] ELSE Aligns[c]
    IN  IF filled /\ c = "}"
        THEN Part("align", "sign", FALSE, i, [spec EXCEPT !.align = align])
        ELSE IF filled
        THEN Part("align", "sign", c = "{" \/ (align = "numeric" /\ ~ require_numeric_argument),
                  i + 2, [spec EXCEPT !.align = align, !.fill = c])
        ELSE IF alone
        THEN Part("align", "sign", align = "numeric" /\ ~ require_numeric_argument,
                  i + 1, [spec EXCEPT !.align = align])
        ELSE Part("align", "sign", FALSE, i, spec)

Sign ==
    LET c == CharAt(s)
        wrong == ~ check_sign
        flags == CASE c = "+" -> {"sign", "plus"} [] c = "-" -> {"minus"} [] OTHER -> {"sign"}
    IN  IF c \in {"+", "-", " "}
        THEN Part("sign", "hash", wrong, s + 1, [spec EXCEPT !.flags = @ \cup flags])
        ELSE Part("sign", "hash", FALSE, s, spec)

Hash ==
    IF CharAt(s) = "#"
    THEN Part("hash", "zero", ~ require_numeric_argument, s + 1,
              [spec EXCEPT !.flags = @ \cup {"hash"}])
    ELSE Part("hash", "zero", FALSE, s, spec)

Zero ==
    IF CharAt(s) = "0"
    THEN Part("zero", "width", ~ require_numeric_argument, s + 1,
              [spec EXCEPT !.align = "numeric", !.fill = "0"])
    ELSE Part("zero", "width", FALSE, s, spec)

(* A width or precision given by an argument of its own, {} or {n}.        *)
Nested(i) ==
    LET p == parse_argument(i + 1) IN
    [value |-> p.arg.value, end |-> p.end + 1, next |-> p.next,
     error |-> \/ p.error \/ CharAt(p.end) # "}" \/ p.arg.type \notin {"int", "uint"}
               \/ p.arg.value < 0 \/ p.arg.value > UIntModulus \div 2 - 1]

Width_ForgetsNext ==
    LET n == parse_nonnegative_int(s)
        p == Nested(s)
    IN  \/ /\ CharAt(s) \in Digits
           /\ Part("width", "precision", n.error, n.end, [spec EXCEPT !.width = n.value])
        \/ /\ CharAt(s) = "{" /\ fpc = "width" /\ p.error /\ Throw
        \/ /\ CharAt(s) = "{" /\ fpc = "width" /\ ~ p.error
           /\ spec' = [spec EXCEPT !.width = p.value]
           /\ s' = p.end /\ fpc' = "precision"
           /\ UNCHANGED <<call, start, next_arg_index, arg, writer>>
        \/ /\ CharAt(s) \notin Digits \cup {"{"}
           /\ Part("width", "precision", FALSE, s, spec)

Width ==
    LET n == parse_nonnegative_int(s)
        p == Nested(s)
    IN  \/ /\ CharAt(s) \in Digits
           /\ Part("width", "precision", n.error, n.end, [spec EXCEPT !.width = n.value])
        \/ /\ CharAt(s) = "{" /\ fpc = "width" /\ p.error /\ Throw
        \/ /\ CharAt(s) = "{" /\ fpc = "width" /\ ~ p.error
           /\ spec' = [spec EXCEPT !.width = p.value]
           /\ s' = p.end /\ next_arg_index' = p.next /\ fpc' = "precision"
           /\ UNCHANGED <<call, start, arg, writer>>
        \/ /\ CharAt(s) \notin Digits \cup {"{"}
           /\ Part("width", "precision", FALSE, s, spec)

Precision ==
    LET n == parse_nonnegative_int(s + 1)
        p == Nested(s + 1)
        refused == arg.type \in Integral \cup {"pointer"}
    IN  \/ /\ CharAt(s) # "."
           /\ Part("precision", "type", FALSE, s, spec)
        \/ /\ CharAt(s) = "." /\ CharAt(s + 1) \in Digits
           /\ Part("precision", "type", n.error \/ refused, n.end,
                   [spec EXCEPT !.precision = n.value])
        \/ /\ CharAt(s) = "." /\ CharAt(s + 1) = "{" /\ fpc = "precision"
           /\ \/ (p.error \/ refused) /\ Throw
              \/ /\ ~ p.error /\ ~ refused
                 /\ spec' = [spec EXCEPT !.precision = p.value]
                 /\ s' = p.end /\ next_arg_index' = p.next /\ fpc' = "type"
                 /\ UNCHANGED <<call, start, arg, writer>>
        \/ /\ CharAt(s) = "." /\ CharAt(s + 1) \notin Digits \cup {"{"}
           /\ Part("precision", "type", TRUE, s, spec)

Type ==
    IF CharAt(s) \notin {"}", Nul}
    THEN Part("type", "close", FALSE, s + 1, [spec EXCEPT !.type = CharAt(s)])
    ELSE Part("type", "close", FALSE, s, spec)

-----------------------------------------------------------------------------
(* ArgFormatter: what the argument is written as.                          *)
write_pointer(p) == write_int(p, [spec EXCEPT !.flags = {"hash"}, !.type = "x"])

visit_bool(b) ==
    IF spec.type # "" THEN write_int(IF b THEN 1 ELSE 0, spec)
    ELSE write_str(IF b THEN <<"t", "r", "u", "e">> ELSE <<"f", "a", "l", "s", "e">>, spec)

(* A character is its code, here its digit, unless it is asked for as c.   *)
visit_char(c) ==
    IF spec.type \notin {"", "c"} THEN write_int(DigitValue(c), spec)
    ELSE IF spec.align = "numeric" \/ spec.flags # {} THEN FormatError
    ELSE write_str(<<c>>, [spec EXCEPT !.type = "", !.precision = -1])

visit(a) ==
    CASE a.type \in {"int", "uint"} -> write_int(a.value, spec)
      [] a.type = "bool" -> visit_bool(a.value)
      [] a.type = "char" -> visit_char(a.value)
      [] a.type = "string" -> write_str(a.value, spec)
      [] a.type = "pointer" ->
           IF spec.type \in {"", "p"} THEN write_pointer(a.value) ELSE FormatError

Close ==
    /\ fpc = "close"
    /\ LET text == visit(arg) IN
       \/ (CharAt(s) # "}" \/ text = FormatError) /\ Throw
       \/ /\ CharAt(s) = "}" /\ text # FormatError
          /\ writer' = writer \o text
          /\ s' = s + 1 /\ start' = s + 1 /\ fpc' = "text"
          /\ UNCHANGED <<call, next_arg_index, arg, spec>>

FNext ==
    \/ Text \/ Argument \/ Align \/ Sign \/ Hash \/ Zero
    \/ Width \/ Precision \/ Type \/ Close

FSpec == FInit /\ [][FNext]_fvars

-----------------------------------------------------------------------------
(* The parser never reads past the end of the string, and what it copies   *)
(* begins before it ends, whatever the string is.                          *)
StaysInString == 1 <= start /\ start <= s /\ s <= Len(call.str) + 1

(* A string that was put together from texts and fields is written as      *)
(* those ask for, whatever mix of fill, alignment, sign, width, precision  *)
(* and type they have, and no string makes the parser read past its end.   *)
FormatsAsMeant ==
    /\ StaysInString
    /\ call.meant # Unspecified =>
         /\ fpc # "error"
         /\ fpc = "done" => writer = call.meant
=============================================================================

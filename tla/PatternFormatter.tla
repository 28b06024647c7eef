-------------------------- MODULE PatternFormatter --------------------------
(***************************************************************************)
(* pattern_formatter: a pattern is compiled once into a sequence of flag   *)
(* formatters, and each message is then formatted by all of them in order. *)
(* Names, levels and texts are single tokens, numbers are their digits.    *)
(***************************************************************************)
EXTENDS FmtInt

CONSTANTS Patterns,   \* patterns: sequences of characters
          LogMsgs     \* messages: records of the fields of log_msg and of tm

ASSUME DigitsAssumption == IntBits >= 30  \* an int holds the nanoseconds of a second
ASSUME PatternAssumption == Patterns \subseteq Seq(STRING)

(* The fields of tm are in their ranges, from 1900 on, and the offset from *)
(* UTC is a number of whole minutes less than a hundred hours.             *)
ASSUME MsgAssumption == LogMsgs \subseteq
    [logger_name : STRING, level : 0..6, raw : STRING, thread_id : Nat, pid : Nat,
     year : Nat, mon : 0..11, mday : 1..31, wday : 0..6, hour : 0..23, min : 0..59,
     sec : 0..60, nanos : Nat, gmtoff : Int]
ASSUME NanosAssumption == \A m \in LogMsgs : m.nanos < 1000000000
ASSUME WidthAssumption == \A m \in LogMsgs :
    m.thread_id < Modulus /\ m.pid < Modulus /\ m.year + 1900 < Modulus
ASSUME OffsetAssumption == \A m \in LogMsgs :
    m.gmtoff % 60 = 0 /\ m.gmtoff > -360000 /\ m.gmtoff < 360000

VARIABLES pattern, log_msg, ppc,
          it,            \* the place in the pattern
          user_chars,    \* characters collected so far, << >> for none
          formatters,    \* _formatters
          formatted      \* msg.formatted

pvars == <<pattern, log_msg, ppc, it, user_chars, formatters, formatted>>

PInit ==
    /\ pattern \in Patterns /\ log_msg \in LogMsgs
    /\ ppc = "compile" /\ it = 1
    /\ user_chars = << >> /\ formatters = << >> /\ formatted = << >>

-----------------------------------------------------------------------------
level_names == <<"trace", "debug", "info", "warning", "error", "critical", "off">>
short_level_names == <<"T", "D", "I", "W", "E", "C", "O">>
to_str(level) == level_names[level + 1]
to_short_str(level) == short_level_names[level + 1]

ampm(m) == IF m.hour >= 12 THEN "PM" ELSE "AM"
to12h(m) == IF m.hour > 12 THEN m.hour - 12 ELSE m.hour

days == <<"Sun", "Mon", "Tue", "Wed", "Thu", "Fri", "Sat">>
full_days == <<"Sunday", "Monday", "Tuesday", "Wednesday", "Thursday", "Friday", "Saturday">>
months == <<"Jan", "Feb", "Mar", "Apr", "May", "June",
            "July", "Aug", "Sept", "Oct", "Nov", "Dec">>
full_months == <<"January", "February", "March", "April", "May", "June", "July",
                 "August", "September", "October", "November", "December">>

Two(n) == pad(n, 2, "0")
Plain(n) == write_int(n, NoSpec)
pad_n_join(numbers, sep) == FlattenSeq([i \in DOMAIN numbers |->
    IF i = 1 THEN Two(numbers[i]) ELSE <<sep>> \o Two(numbers[i])])

NameFields(m) == [n |-> <<m.logger_name>>, l |-> <<to_str(m.level)>>,
                  L |-> <<to_short_str(m.level)>>]

DayFields(m) == [a |-> <<days[m.wday + 1]>>, A |-> <<full_days[m.wday + 1]>>,
                 b |-> <<months[m.mon + 1]>>, B |-> <<full_months[m.mon + 1]>>]

DateFields(m) ==
    [c |-> <<days[m.wday + 1], " ", months[m.mon + 1], " ">> \o Plain(m.mday) \o <<" ">>
           \o pad_n_join(<<m.hour, m.min, m.sec>>, ":") \o <<" ">> \o Plain(m.year + 1900),
     C |-> Two(m.year % 100),
     D |-> pad_n_join(<<m.mon + 1, m.mday, m.year % 100>>, "/"),
     Y |-> Plain(m.year + 1900),
     m |-> Two(m.mon + 1),
     d |-> Two(m.mday)]

TimeFields(m) == [H |-> Two(m.hour), I |-> Two(to12h(m)), M |-> Two(m.min), S |-> Two(m.sec)]

(* The time of the message is kept in nanoseconds of its second.           *)
FractionFields(m) == [e |-> pad(m.nanos \div 1000000, 3, "0"),
                      f |-> pad(m.nanos \div 1000, 6, "0"),
                      F |-> pad(m.nanos, 9, "0")]

ClockFields(m) ==
    [p |-> <<ampm(m)>>,
     r |-> pad_n_join(<<to12h(m), m.min, m.sec>>, ":") \o <<" ", ampm(m)>>,
     R |-> pad_n_join(<<m.hour, m.min>>, ":"),
     T |-> pad_n_join(<<m.hour, m.min, m.sec>>, ":")]

(* Divided as C++ does, towards zero.                                      *)
utc_minutes_offset(m) ==
    IF m.gmtoff < 0 THEN 0 - ((0 - m.gmtoff) \div 60) ELSE m.gmtoff \div 60

OffsetFields_SignOfHours(m) ==
    LET minutes == utc_minutes_offset(m)
        size == IF minutes < 0 THEN 0 - minutes ELSE minutes
    IN  [z |-> <<IF minutes <= -60 THEN "-" ELSE "+">>
               \o pad_n_join(<<size \div 60, size % 60>>, ":")]

OffsetFields(m) ==
    LET minutes == utc_minutes_offset(m)
        size == IF minutes < 0 THEN 0 - minutes ELSE minutes
    IN  [z |-> <<IF minutes < 0 THEN "-" ELSE "+">>
               \o pad_n_join(<<size \div 60, size % 60>>, ":")]

OtherFields(m) == [t |-> Plain(m.thread_id), P |-> Plain(m.pid), v |-> <<m.raw>>]

FullField(m) ==
    <<"[">> \o Plain(m.year + 1900) \o <<"-">> \o Two(m.mon + 1) \o <<"-">> \o Two(m.mday)
    \o <<" ">> \o Two(m.hour) \o <<":">> \o Two(m.min) \o <<":">> \o Two(m.sec)
    \o <<".">> \o pad(m.nanos \div 1000000, 3, "0") \o <<"]", " ">>
    \o <<"[", m.logger_name, "]", " ">>
    \o <<"[", to_str(m.level), "]", " ">> \o <<m.raw>>

(* The formatter of a flag; several flags share one.                       *)
FieldOf(flag, m) ==
    CASE flag \in {"n", "l", "L"} -> NameFields(m)[flag]
      [] flag \in {"a", "A", "b", "B"} -> DayFields(m)[flag]
      [] flag \in {"c", "C", "D", "Y", "m", "d"} -> DateFields(m)[flag]
      [] flag \in {"H", "I", "M", "S"} -> TimeFields(m)[flag]
      [] flag \in {"e", "f", "F"} -> FractionFields(m)[flag]
      [] flag \in {"p", "r", "R", "T"} -> ClockFields(m)[flag]
      [] flag = "z" -> OffsetFields(m)[flag]
      [] flag \in {"t", "P", "v"} -> OtherFields(m)[flag]
      [] flag = "+" -> FullField(m)

Flags == {"n", "l", "L", "t", "v", "a", "A", "b", "B", "c", "C", "Y", "D", "m", "d", "H",
          "I", "M", "S", "e", "f", "F", "p", "r", "R", "T", "z", "+", "P"}
SameAs == [h |-> "b", x |-> "D", X |-> "T"]

-----------------------------------------------------------------------------
(* A formatter is the record of its flag, or "chars" and the characters.   *)
Chars(cs) == [flag |-> "chars", chars |-> cs]
handle_flag(flag) ==
    IF flag \in Flags THEN <<[flag |-> flag, chars |-> << >>]>>
    ELSE IF flag \in DOMAIN SameAs THEN <<[flag |-> SameAs[flag], chars |-> << >>]>>
    ELSE <<Chars(<<"%">>), Chars(<<flag>>)>>

(* user_chars is moved into the list when a flag or the end is met.        *)
Collected == IF user_chars = << >> THEN formatters ELSE Append(formatters, Chars(user_chars))

compile_pattern ==
    /\ ppc = "compile"
    /\ IF it > Len(pattern)
       THEN /\ formatters' = Collected /\ user_chars' = << >>
            /\ ppc' = "format" /\ it' = 1
       ELSE IF pattern[it] # "%"
       THEN /\ user_chars' = Append(user_chars, pattern[it])
            /\ it' = it + 1
            /\ UNCHANGED <<ppc, formatters>>
       ELSE /\ formatters' = IF it < Len(pattern)
                             THEN Collected \o handle_flag(pattern[it + 1]) ELSE Collected
            /\ user_chars' = << >>
            /\ it' = it + 2
            /\ UNCHANGED ppc
    /\ UNCHANGED <<pattern, log_msg, formatted>>

format_line ==
    /\ ppc = "format"
    /\ IF it > Len(formatters)
       THEN /\ formatted' = Append(formatted, "eol")
            /\ ppc' = "formatted" /\ UNCHANGED it
       ELSE LET f == formatters[it] IN
            /\ formatted' = formatted \o
                 (IF f.flag = "chars" THEN f.chars ELSE FieldOf(f.flag, log_msg))
            /\ it' = it + 1 /\ UNCHANGED ppc
    /\ UNCHANGED <<pattern, log_msg, user_chars, formatters>>

PNext == compile_pattern \/ format_line
PSpec == PInit /\ [][PNext]_pvars

-----------------------------------------------------------------------------
(* What a line should be, character by character of the pattern: one after *)
(* a % that is not itself a flag is a flag.                                *)
FlagAt[i \in 0..Len(pattern)] ==
    /\ i > 1
    /\ pattern[i - 1] = "%" /\ ~ FlagAt[i - 1]

(* A number in decimal, with zeros before it up to width digits; 0 for as  *)
(* many digits as it has.                                                  *)
InDigits(n, width) ==
    LET digits == DigitsOf(n, 10, DecimalDigits)
    IN  IF width <= Len(digits) THEN digits ELSE Repeat("0", width - Len(digits)) \o digits

(* The hour of a clock that goes from 1 to 12.                             *)
On12Hours(hour) == CHOOSE h \in 1..12 : (hour - h) % 12 = 0

(* What the comments at the formatters say each flag is: a name, a number  *)
(* of a number of digits, or several of these.                             *)
NameMeant(m) ==
    [n |-> <<m.logger_name>>, l |-> <<level_names[m.level + 1]>>,
     L |-> <<short_level_names[m.level + 1]>>,
     a |-> <<days[m.wday + 1]>>, A |-> <<full_days[m.wday + 1]>>,
     b |-> <<months[m.mon + 1]>>, B |-> <<full_months[m.mon + 1]>>,
     p |-> IF m.hour < 12 THEN <<"AM">> ELSE <<"PM">>, v |-> <<m.raw>>]

NumberMeant(m) ==
    [Y |-> InDigits(m.year + 1900, 4), C |-> InDigits((m.year + 1900) % 100, 2),
     m |-> InDigits(m.mon + 1, 2), d |-> InDigits(m.mday, 2),
     H |-> InDigits(m.hour, 2), I |-> InDigits(On12Hours(m.hour), 2),
     M |-> InDigits(m.min, 2), S |-> InDigits(m.sec, 2),
     e |-> InDigits(m.nanos \div 1000000, 3), f |-> InDigits(m.nanos \div 1000, 6),
     F |-> InDigits(m.nanos, 9), t |-> InDigits(m.thread_id, 0), P |-> InDigits(m.pid, 0)]

Then(separator, text) == <<separator>> \o text
JoinedMeant(m) ==
    LET N == NumberMeant(m)
        size == IF m.gmtoff < 0 THEN 0 - m.gmtoff ELSE m.gmtoff
    IN  [c |-> <<days[m.wday + 1], " ", months[m.mon + 1], " ">> \o InDigits(m.mday, 0)
               \o <<" ">> \o (N.H \o Then(":", N.M) \o Then(":", N.S)) \o <<" ">> \o N.Y,
         D |-> N.m \o Then("/", N.d) \o Then("/", N.C),
         R |-> N.H \o Then(":", N.M),
         T |-> N.H \o Then(":", N.M) \o Then(":", N.S),
         r |-> N.I \o Then(":", N.M) \o Then(":", N.S)
               \o <<" ", IF m.hour < 12 THEN "AM" ELSE "PM">>,
         z |-> <<IF m.gmtoff < 0 THEN "-" ELSE "+">>
               \o (InDigits(size \div 3600, 2) \o Then(":", InDigits((size \div 60) % 60, 2)))]

(* [%Y-%m-%d %H:%M:%S.%e] [%n] [%l] %v                                     *)
FullMeant(m) ==
    LET N == NumberMeant(m) IN
    <<"[">> \o N.Y \o <<"-">> \o N.m \o <<"-">> \o N.d \o <<" ">> \o N.H \o <<":">> \o N.M
    \o <<":">> \o N.S \o <<".">> \o N.e \o <<"]", " ">> \o <<"[", m.logger_name, "]", " ">>
    \o <<"[", level_names[m.level + 1], "]", " ">> \o <<m.raw>>

FieldMeant(flag, m) ==
    CASE flag \in {"n", "l", "L", "a", "A", "b", "B", "p", "v"} -> NameMeant(m)[flag]
      [] flag \in {"Y", "C", "m", "d", "H", "I", "M", "S", "e", "f", "F", "t", "P"} ->
           NumberMeant(m)[flag]
      [] flag \in {"c", "D", "R", "T", "r", "z"} -> JoinedMeant(m)[flag]
      [] flag = "+" -> FullMeant(m)

LineMeant ==
    FlattenSeq([i \in 1..Len(pattern) |->
        IF FlagAt[i]
        THEN IF pattern[i] \in Flags THEN FieldMeant(pattern[i], log_msg)
             ELSE IF pattern[i] \in DOMAIN SameAs
             THEN FieldMeant(SameAs[pattern[i]], log_msg)
             ELSE <<"%", pattern[i]>>
        ELSE IF pattern[i] = "%" THEN << >> ELSE <<pattern[i]>>]) \o <<"eol">>

(* to12h makes the hour after midnight 0, where the comment at %I says     *)
(* "1-12" and the one at %r has a 12 hour clock: nothing is asked of the   *)
(* lines with these flags in that hour.                                    *)
Disputed(flag, m) == flag \in {"I", "r"} /\ m.hour = 0

(* Every character of the pattern is kept or replaced by what its flag is  *)
(* said to be, in order, whatever precedes and follows it: compile_pattern *)
(* splits flags from text, the numbers have their digits and zeros, the 12 *)
(* hour clock and AM/PM turn at noon, and the offset from UTC keeps its    *)
(* sign within the first hour.                                             *)
LinesAsMeant ==
    ppc = "formatted" /\ (\A i \in 1..Len(pattern) : ~(FlagAt[i] /\ Disputed(pattern[i], log_msg)))
        => formatted = LineMeant
=============================================================================

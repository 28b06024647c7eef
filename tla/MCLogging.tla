----------------------------- MODULE MCLogging -----------------------------
(* The logging library: registry and loggers, the file sinks, the pattern  *)
(* formatter and fmt.  focus is the component that moves in a behaviour;   *)
(* they share no state.                                                    *)
EXTENDS RotatingFile, DailyFile, LogRegistry, PatternFormatter, FmtFormat, TLC

CONSTANTS c1, c2, n1, n2, k1, k2

VARIABLE focus
vars == <<focus, rvars, dvars, gvars, pvars, fvars>>

MCSinkLists == {<<k1, k2>>}
MCSeparator == <<",">>
Symmetry == Permutations({c1, c2}) \cup Permutations({n1, n2})

(* Patterns of up to four characters of a few kinds, and each flag alone.  *)
PatternChars == {"%", "n", "h", "q", "."}
MCPatterns == UNION {[1..n -> PatternChars] : n \in 0..4}
              \cup {<<"%", f>> : f \in Flags \cup DOMAIN SameAs}
              \cup {<<"[", "%", "+", "]", "%">>}

Moment == [logger_name |-> "name", level |-> 3, raw |-> "text", thread_id |-> 7, pid |-> 123,
           year |-> 105, mon |-> 8, mday |-> 3, wday |-> 6, hour |-> 0, min |-> 5, sec |-> 59,
           nanos |-> 7000009, gmtoff |-> 0]
MCLogMsgs == {Moment,
              [Moment EXCEPT !.hour = 12, !.gmtoff = -1800, !.nanos = 0],
              [Moment EXCEPT !.hour = 13, !.gmtoff = 20700, !.mon = 11, !.nanos = 999999999],
              [Moment EXCEPT !.hour = 23, !.gmtoff = -43200, !.level = 0, !.wday = 0]}

-----------------------------------------------------------------------------
(* Format strings put together from their parts.                           *)
IntArg(n) == [type |-> "int", value |-> n, name |-> << >>]
Text3 == [type |-> "string", value |-> <<"a", "b", "c">>, name |-> << >>]

AlignTexts == {<< >>, <<"<">>, <<"*", ">">>, <<"^">>, <<"*", "=">>, <<"}", "<">>}
AlignOf(t) == IF t = << >> THEN "default" ELSE Aligns[t[Len(t)]]
FillOf(t) == IF Len(t) = 2 THEN t[1] ELSE " "
SignOf(t) == CASE t = << >> -> {} [] t = <<"+">> -> {"sign", "plus"}
               [] t = <<"-">> -> {"minus"} [] OTHER -> {"sign"}
WidthTexts == [n \in {0, 2, 8} |-> IF n = 0 THEN << >> ELSE <<DecimalDigits[n + 1]>>]

IntCall(n, a, sign, hash, zero, w, t) ==
    [str |-> <<"x", "{", ":">> \o a \o sign \o hash \o zero \o WidthTexts[w] \o t \o <<"}">>,
     args |-> <<IntArg(n)>>,
     meant |-> <<"x">> \o IntAsMeant(n, [width |-> w,
         fill |-> IF zero # << >> THEN "0" ELSE FillOf(a),
         align |-> IF zero # << >> THEN "numeric" ELSE AlignOf(a),
         flags |-> SignOf(sign) \cup (IF hash # << >> THEN {"hash"} ELSE {}),
         precision |-> -1, type |-> IF t = << >> THEN "" ELSE t[1]])]
IntCalls == {IntCall(n, a, sign, hash, zero, w, t) :
    n \in {-12345, 100, 0}, a \in AlignTexts \ {<<"}", "<">>},
    sign \in {<< >>, <<"+">>, <<" ">>}, hash \in {<< >>, <<"#">>},
    zero \in {<< >>, <<"0">>}, w \in {0, 8}, t \in {<< >>, <<"d">>, <<"x">>, <<"o">>, <<"n">>}}
  \cup {IntCall(n, << >>, << >>, << >>, << >>, 0, t) :
    n \in {-536870912, 536870911, 999, 1000, 999999, 7, 8, 1023, 1024}, t \in {<< >>, <<"B">>, <<"X">>, <<"n">>}}

StrCall(a, w, p, t) ==
    LET cut == IF p = << >> THEN Text3.value ELSE SubSeq(Text3.value, 1, 2)
        room == w - Len(cut)
        left == CASE AlignOf(a) = "right" -> room [] AlignOf(a) = "center" -> room \div 2
                  [] OTHER -> 0
    IN  [str |-> <<"{", "0", ":">> \o a \o WidthTexts[w] \o p \o t \o <<"}", "y">>,
         args |-> <<Text3>>,
         meant |-> (IF room <= 0 THEN cut
                    ELSE Repeat(FillOf(a), left) \o cut \o Repeat(FillOf(a), room - left))
                   \o <<"y">>]
StrCalls == {StrCall(a, w, p, t) : a \in AlignTexts \ {<<"*", "=">>, <<"}", "<">>},
    w \in {0, 2, 8}, p \in {<< >>, <<".", "2">>}, t \in {<< >>, <<"s">>}}

(* Several fields: automatic, numbered and named ones, nested widths.      *)
SomeArgs == <<IntArg(4), IntArg(5), [IntArg(6) EXCEPT !.name = <<"a", "1">>]>>
FieldCalls == {
    [str |-> <<"{", "{", "{", "}", "}", "}", "{", "}">>, args |-> SomeArgs,
     meant |-> <<"{", "4", "}", "5">>],
    [str |-> <<"{", ":", "{", "}", "}", "{", "}">>, args |-> SomeArgs,
     meant |-> <<" ", " ", " ", " ", "4", "6">>],
    [str |-> <<"{", "1", ":", "{", "0", "}", "}", "{", "0", "}">>, args |-> SomeArgs,
     meant |-> <<" ", " ", " ", "5", "4">>],
    [str |-> <<"{", "a", "1", "}", "{", "0", "}">>, args |-> SomeArgs, meant |-> <<"6", "4">>],
    [str |-> <<"{", ":", ".", "{", "}", "}">>, args |-> <<Text3, IntArg(1)>>, meant |-> <<"a">>],
    [str |-> <<"{", "}", "{", ":", "c", "}", "{", ":", ">", "3", "}">>,
     args |-> <<[type |-> "bool", value |-> TRUE, name |-> << >>],
                [type |-> "char", value |-> "7", name |-> << >>],
                [type |-> "char", value |-> "9", name |-> << >>]>>,
     meant |-> <<"t", "r", "u", "e", "7", " ", " ", "9">>],
    [str |-> <<"{", ":", "d", "}", "{", ":", "p", "}">>,
     args |-> <<[type |-> "bool", value |-> TRUE, name |-> << >>],
                [type |-> "pointer", value |-> 255, name |-> << >>]>>,
     meant |-> <<"1", "0", "x", "f", "f">>]}

AnyCalls == {[str |-> <<"{">> \o t, args |-> a, meant |-> Unspecified] :
    t \in UNION {[1..n -> {"{", "}", ":", ".", "<", "0", "9", "a", "#"}] : n \in 0..4},
    a \in {SomeArgs}}
MCFormatCalls == IntCalls \cup StrCalls \cup FieldCalls \cup AnyCalls
SomeCall == CHOOSE f \in FieldCalls : TRUE

-----------------------------------------------------------------------------
Init ==
    \E f \in {"rotating", "daily", "registry", "pattern", "fmt"} :
        /\ focus = f
        /\ RInit /\ GInit
        /\ DInit /\ (f # "daily" => clock = 0 /\ rotation_time = 0)
        /\ PInit /\ (f # "pattern" => pattern = << >> /\ log_msg = Moment)
        /\ IF f = "fmt" THEN FInit
           ELSE /\ call = SomeCall /\ fpc = "done" /\ s = 1 /\ start = 1
                /\ next_arg_index = 0 /\ arg = NoArg /\ spec = NoSpec /\ writer = SomeCall.meant

Next ==
    /\ UNCHANGED focus
    /\ \/ focus = "rotating" /\ RNext /\ UNCHANGED <<dvars, gvars, pvars, fvars>>
       \/ focus = "daily" /\ DNext /\ UNCHANGED <<rvars, gvars, pvars, fvars>>
       \/ focus = "registry" /\ GNext /\ UNCHANGED <<rvars, dvars, pvars, fvars>>
       \/ focus = "pattern" /\ PNext /\ UNCHANGED <<rvars, dvars, gvars, fvars>>
       \/ focus = "fmt" /\ FNext /\ UNCHANGED <<rvars, dvars, gvars, pvars>>

Spec == Init /\ [][Next]_vars
=============================================================================

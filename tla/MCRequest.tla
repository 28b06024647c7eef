----------------------------- MODULE MCRequest -----------------------------
(***************************************************************************)
(* Instances of RequestHistory for TLC, over the alphabet of MCRequestBytes. *)
(***************************************************************************)
EXTENDS RequestHistory, MCRequestBytes
LOCAL INSTANCE FiniteSets

Blanks == <<"CR", "LF">>

(* A key of two bytes, so that a read can end inside a word. *)
KeyAB == <<"a", "b">>
KeyC == <<"c">>

Ask(cmd, ks) == Asked(cmd, ks, <<>>, FALSE)
SetLine(n) == <<"set", "SP">> \o KeyAB \o <<"SP", "0", "SP", "0", "SP", n>>

(* Well-formed messages and what they ask for.  The payload <<"LF", "d">>   *)
(* has a blank in it, and <<>> is empty.                                    *)
Plain ==
  SetLine("2") \o Blanks \o <<"LF", "d">> \o Blanks :> Asked("SET", <<KeyAB>>, <<"LF", "d">>, FALSE)
  @@ SetLine("0") \o Blanks \o Blanks :> Ask("SET", <<KeyAB>>)
  @@ <<"add", "SP", "c", "SP", "0", "SP", "0", "SP", "1", "CR", "LF", "d", "CR", "LF">>
       :> Asked("ADD", <<KeyC>>, <<"d">>, FALSE)
  @@ <<"get", "SP">> \o KeyAB \o Blanks :> Ask("GET", <<KeyAB>>)
  @@ <<"gets", "SP">> \o KeyAB \o <<"SP", "c">> \o Blanks :> Ask("GETS", <<KeyAB, KeyC>>)
  @@ <<"delete", "SP", "c">> \o Blanks :> Ask("DELETE", <<KeyC>>)
  @@ <<"ping">> \o Blanks :> Ask("PING", <<>>)
  @@ <<"quit">> \o Blanks :> Ask("QUIT", <<>>)

Silent ==
  SetLine("1") \o <<"SP", "noreply">> \o Blanks \o <<"d">> \o Blanks
    :> Asked("SET", <<KeyAB>>, <<"d">>, TRUE)
  @@ <<"delete", "SP", "c", "SP", "noreply">> \o Blanks :> Asked("DELETE", <<KeyC>>, <<>>, TRUE)

AllMeanings == Plain @@ Silent
AllMessages == DOMAIN AllMeanings

(* These messages are among those the theorem about ParsedAsSent is for: the *)
(* line ends where two blanks meet.                                          *)
BlanksOf(m) == {p \in 1..Len(m) : m[p] \in WhiteSpace}
WordsOf(m) == Cardinality({p \in BlanksOf(m) : \A q \in BlanksOf(m) : q < p => q + 1 \notin BlanksOf(m)})
LayoutOf(m) == [i \in 0..WordsOf(m) |-> IF i = 0 THEN 0
                ELSE CHOOSE p \in BlanksOf(m) : Cardinality({q \in BlanksOf(m) : q <= p}) = i]
ASSUME MessagesAreCareful ==
  /\ Paced /\ KeepTogether >= 3 /\ MaxBytes = 0
  /\ \A m \in Messages : WellFormed(m, WordsOf(m), LayoutOf(m))
=============================================================================

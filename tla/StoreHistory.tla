---------------------------- MODULE StoreHistory ----------------------------
(***************************************************************************)
(* StoreCommands with a history of the database: window[t][k] is the set   *)
(* of values key k has had since the request of thread t arrived.  It lets *)
(* an answer be compared with what was true while the request was open,    *)
(* which is all a client can ask for when requests of other clients run at *)
(* the same time.                                                          *)
(***************************************************************************)
EXTENDS StoreCommands, Naturals

VARIABLE window

hvars == <<vars, window>>

HInit == Init /\ window = [t \in Threads |-> [k \in Keys |-> {}]]

Observe ==
  window' = [t \in Threads |-> [k \in Keys |->
               IF pc'[t] = "idle" THEN {} ELSE window[t][k] \cup {db'[k]}]]

HNext == Next /\ Observe

HSpec == HInit /\ [][HNext]_hvars

(* The operating system keeps running every thread that can run.  Nothing *)
(* makes std::mutex serve waiting threads in turn.                        *)
HFairSpec == HSpec /\ \A t \in Threads : WF_vars(Work(t))

WindowOK == window \in [Threads -> [Keys -> SUBSET (Values \cup {NoValue})]]

-----------------------------------------------------------------------------
(* The key of a command that has one key. *)
SawAbsent(t) == NoValue \in window[t][Key(t)]
SawPresent(t) == \E v \in Values : v \in window[t][Key(t)]

(* Answers that report an effect or a value tell the truth about some       *)
(* moment of the request, with every mix of commands, with database errors  *)
(* and with exceptions:                                                     *)
(*   - a value returned by get, gets or GET /key was the key's value;       *)
(*   - add answers STORED only if the key was absent, NOT_STORED only if it *)
(*     was there;                                                           *)
(*   - DELETED means that the key was there and then was not.               *)
PositiveAnswersTrue ==
  \A t \in Threads :
    /\ \A i \in 1..Len(items[t]) : items[t][i][2] \in window[t][items[t][i][1]]
    /\ command[t] = "ADD" /\ code[t] = "STORED" => SawAbsent(t)
    /\ code[t] = "NOT_STORED" => SawPresent(t)
    /\ code[t] = "DELETED" => SawPresent(t) /\ SawAbsent(t)

(* Answers that say a key is missing: NOT_FOUND of a delete and the 404 of  *)
(* the REST API.                                                            *)
NotFoundMeansAbsent ==
  \A t \in Threads : code[t] \in {"NOT_FOUND", "404"} => SawAbsent(t)
=============================================================================

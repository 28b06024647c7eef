-------------------------- MODULE StatsdAggregator --------------------------
(***************************************************************************)
(* The statsd aggregator: every thread of the process records metrics in   *)
(* four maps, each behind a mutex; a background thread runs the epoch      *)
(* callbacks, takes each map away in turn and sends what it held, one      *)
(* datagram per metric, and sleeps.  The destructor asks the thread to     *)
(* stop and joins it.                                                      *)
(*                                                                         *)
(* A critical section of the code is one step.  A metric that is not in a  *)
(* map has the value Missing.  Values of timers, gauges and sets are the   *)
(* numbers of the calls that recorded them, so that an old one can be told *)
(* from a new one; a counter holds its sum.                                *)
(***************************************************************************)
EXTENDS Naturals, Sequences

CONSTANTS Names,        \* names of metrics
          EpochNames,   \* the gauges an epoch callback records
          Missing,      \* no entry in a map
          MaxRecords,   \* bound on the calls that record a metric
          SendFaults    \* whether sending a datagram may throw

ASSUME StatsAssumption ==
    /\ Missing \notin Nat
    /\ MaxRecords \in Nat
    /\ SendFaults \in BOOLEAN
    /\ EpochNames \subseteq Names

VARIABLES maps,         \* _sets, _timers, _gauges, _counters
          hand,         \* the map the background thread took away
          bg,           \* where the background thread is
          round,        \* the map it is at, an index of Kinds
          running,      \* _background_running
          epochCalls,   \* number of callbacks in _epoch_calls
          calls,        \* records so far: the next value of a gauge
          recorded,     \* history: per counter, the sum of the increments
          sent          \* history: per kind and name, what was sent last,
                        \* for counters the sum of what was sent

svars == <<maps, hand, bg, round, running, epochCalls, calls, recorded, sent>>

Kinds == <<"set", "timer", "gauge", "counter">>
KindSet == {Kinds[i] : i \in DOMAIN Kinds}
Empty == [n \in Names |-> Missing]
Amount(v) == IF v = Missing THEN 0 ELSE v

SInit ==
    /\ maps = [k \in KindSet |-> Empty]
    /\ hand = Empty
    /\ bg = "none"
    /\ round = 1
    /\ running = FALSE
    /\ epochCalls = 0
    /\ calls = 0
    /\ recorded = [n \in Names |-> 0]
    /\ sent = [k \in KindSet |-> [n \in Names |-> 0]]

(* The constructor: everything empty, then the thread is started.          *)
Construct ==
    /\ bg = "none"
    /\ bg' = "test"
    /\ running' = TRUE
    /\ UNCHANGED <<maps, hand, round, epochCalls, calls, recorded, sent>>

-----------------------------------------------------------------------------
(* Recording.  The object is used by its owners only, who have not         *)
(* destroyed it.                                                           *)
Usable == bg # "none" /\ running

counter_Overwrites(n) ==
    /\ Usable /\ calls < MaxRecords
    /\ calls' = calls + 1
    /\ maps' = [maps EXCEPT !["counter"][n] = 1]
    /\ recorded' = [recorded EXCEPT ![n] = @ + 1]
    /\ UNCHANGED <<hand, bg, round, running, epochCalls, sent>>

(* counter(name, 1), the only increment the program uses: added to the     *)
(* entry, or the entry is made.                                            *)
counter(n) ==
    /\ Usable /\ calls < MaxRecords
    /\ calls' = calls + 1
    /\ maps' = [maps EXCEPT !["counter"][n] = Amount(@) + 1]
    /\ recorded' = [recorded EXCEPT ![n] = @ + 1]
    /\ UNCHANGED <<hand, bg, round, running, epochCalls, sent>>

(* timer, gauge and set replace the entry.                                 *)
Replace(k, n) ==
    /\ Usable /\ calls < MaxRecords
    /\ calls' = calls + 1
    /\ maps' = [maps EXCEPT ![k][n] = calls + 1]
    /\ UNCHANGED <<hand, bg, round, running, epochCalls, recorded, sent>>

timer(n) == Replace("timer", n)
gauge(n) == Replace("gauge", n)
set(n) == Replace("set", n)

(* on_epoch waits for _epochs_mutex, which the thread holds while it runs  *)
(* the callbacks.                                                          *)
on_epoch ==
    /\ Usable /\ bg # "epochs"
    /\ epochCalls' = epochCalls + 1
    /\ UNCHANGED <<maps, hand, bg, round, running, calls, recorded, sent>>

-----------------------------------------------------------------------------
(* The background thread.                                                  *)
LoopTest ==
    /\ bg = "test"
    /\ bg' = IF running THEN "epochs" ELSE "done"
    /\ round' = 1
    /\ UNCHANGED <<maps, hand, running, epochCalls, calls, recorded, sent>>

(* The callbacks, with _epochs_mutex held: each records gauges.            *)
RunEpochs ==
    /\ bg = "epochs"
    /\ IF epochCalls > 0 /\ calls < MaxRecords
       THEN /\ calls' = calls + 1
            /\ maps' = [maps EXCEPT !["gauge"] = [n \in Names |->
                           IF n \in EpochNames THEN calls + 1 ELSE @[n]]]
       ELSE UNCHANGED <<calls, maps>>
    /\ bg' = "swap"
    /\ UNCHANGED <<hand, round, running, epochCalls, recorded, sent>>

SwapMap_Copies ==
    /\ bg = "swap"
    /\ hand' = maps[Kinds[round]]
    /\ bg' = "send"
    /\ UNCHANGED <<maps, round, running, epochCalls, calls, recorded, sent>>

(* The map is exchanged with an empty one, under its mutex.                *)
SwapMap ==
    /\ bg = "swap"
    /\ hand' = maps[Kinds[round]]
    /\ maps' = [maps EXCEPT ![Kinds[round]] = Empty]
    /\ bg' = "send"
    /\ UNCHANGED <<round, running, epochCalls, calls, recorded, sent>>

SendStat_KeepsEntry(n) ==
    /\ bg = "send" /\ hand[n] # Missing
    /\ sent' = [sent EXCEPT ![Kinds[round]][n] =
                   IF Kinds[round] = "counter" THEN @ + hand[n] ELSE hand[n]]
    /\ \/ UNCHANGED hand
       \/ hand' = [hand EXCEPT ![n] = Missing]
    /\ UNCHANGED <<maps, bg, round, running, epochCalls, calls, recorded>>

(* One datagram: the value is formatted and given to send_to.              *)
SendStat(n) ==
    /\ bg = "send" /\ hand[n] # Missing
    /\ sent' = [sent EXCEPT ![Kinds[round]][n] =
                   IF Kinds[round] = "counter" THEN @ + hand[n] ELSE hand[n]]
    /\ hand' = [hand EXCEPT ![n] = Missing]
    /\ UNCHANGED <<maps, bg, round, running, epochCalls, calls, recorded>>

(* A message that does not fit its buffer, or a socket error: the          *)
(* exception leaves the thread's function and std::terminate ends the      *)
(* process.                                                                *)
SendThrows ==
    /\ SendFaults
    /\ bg = "send" /\ hand # Empty
    /\ bg' = "threw"
    /\ UNCHANGED <<maps, hand, round, running, epochCalls, calls, recorded, sent>>

NextMap_ForgetsLast ==
    /\ bg = "send" /\ hand = Empty
    /\ IF round + 1 < Len(Kinds)
       THEN bg' = "swap" /\ round' = round + 1
       ELSE bg' = "sleep" /\ round' = round
    /\ UNCHANGED <<maps, hand, running, epochCalls, calls, recorded, sent>>

(* The map is sent: the next one, or to sleep after the last.              *)
NextMap ==
    /\ bg = "send" /\ hand = Empty
    /\ IF round < Len(Kinds)
       THEN bg' = "swap" /\ round' = round + 1
       ELSE bg' = "sleep" /\ round' = round
    /\ UNCHANGED <<maps, hand, running, epochCalls, calls, recorded, sent>>

WakeUp ==
    /\ bg = "sleep"
    /\ bg' = "test"
    /\ UNCHANGED <<maps, hand, round, running, epochCalls, calls, recorded, sent>>

Background ==
    \/ LoopTest \/ RunEpochs \/ SwapMap \/ NextMap \/ WakeUp
    \/ \E n \in Names : SendStat(n)

-----------------------------------------------------------------------------
(* The destructor: the flag, then the join, which is over when the thread  *)
(* is; what was recorded since the last swap is not sent any more.         *)
RequestStop ==
    /\ Usable
    /\ running' = FALSE
    /\ UNCHANGED <<maps, hand, bg, round, epochCalls, calls, recorded, sent>>

Joined == bg = "done"

SNext ==
    \/ Construct
    \/ \E n \in Names : counter(n) \/ timer(n) \/ gauge(n) \/ set(n)
    \/ on_epoch /\ epochCalls = 0
    \/ Background
    \/ SendThrows
    \/ RequestStop

SSpec == SInit /\ [][SNext]_svars /\ WF_svars(Background)

-----------------------------------------------------------------------------
STypeOK ==
    /\ maps \in [KindSet -> [Names -> Nat \cup {Missing}]]
    /\ hand \in [Names -> Nat \cup {Missing}]
    /\ bg \in {"none", "test", "epochs", "swap", "send", "sleep", "done", "threw"}
    /\ round \in DOMAIN Kinds
    /\ running \in BOOLEAN
    /\ epochCalls \in Nat
    /\ calls \in Nat
    /\ recorded \in [Names -> Nat]
    /\ sent \in [KindSet -> [Names -> Nat]]

(* What the thread holds of a counter and has not sent.                    *)
InHand(n) == IF bg \in {"send", "threw"} /\ Kinds[round] = "counter"
             THEN Amount(hand[n]) ELSE 0
Pending(n) == Amount(maps["counter"][n])

(* Every increment any thread has recorded is in exactly one place: in the *)
(* map, with the background thread, or sent.  None is lost between the     *)
(* swap and the sends, and none is sent twice.                             *)
CountsConserved == \A n \in Names :
    recorded[n] = sent["counter"][n] + InHand(n) + Pending(n)

(* What waits to be sent is newer than what was sent: a gauge, timer or    *)
(* set never falls back to an older value, whatever was recorded while its *)
(* map was away.                                                           *)
NewerWaits == \A n \in Names : \A i \in 1..3 :
    LET k == Kinds[i] IN
    /\ maps[k][n] # Missing => maps[k][n] > sent[k][n]
    /\ (bg \in {"send", "threw"} /\ round = i /\ hand[n] # Missing) =>
          /\ hand[n] > sent[k][n]
          /\ maps[k][n] # Missing => maps[k][n] > hand[n]

(* The aggregator carries out the report its callers are promised.         *)
Report == INSTANCE MetricsReport WITH
             unsent <- [n \in Names |-> InHand(n) + Pending(n)],
             reported <- sent["counter"]
ReportsOnce == Report!MSpec

(* While nobody stops the aggregator, what was counted gets sent.          *)
CountsArrive == \A n \in Names : \A c \in 1..MaxRecords :
    recorded[n] >= c ~> (sent["counter"][n] >= c \/ ~running \/ bg = "threw")

=============================================================================

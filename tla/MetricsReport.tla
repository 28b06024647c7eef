--------------------------- MODULE MetricsReport ---------------------------
(***************************************************************************)
(* What the aggregator promises its callers about counters: an increment   *)
(* that was recorded is reported to the statsd server once, possibly       *)
(* together with others and in portions, or still waits.  Nothing is       *)
(* reported that was not recorded.  When the reporting ends, what still    *)
(* waits is not reported any more.                                         *)
(***************************************************************************)
EXTENDS Naturals

CONSTANT Names

VARIABLES unsent,    \* per counter, what is recorded and not yet reported
          reported   \* per counter, the sum of what was reported

mvars == <<unsent, reported>>

MInit == /\ unsent = [n \in Names |-> 0]
         /\ reported = [n \in Names |-> 0]

Record(n) ==
    /\ unsent' = [unsent EXCEPT ![n] = @ + 1]
    /\ UNCHANGED reported

Report(n) == \E p \in 0..unsent[n] :
    /\ unsent' = [unsent EXCEPT ![n] = @ - p]
    /\ reported' = [reported EXCEPT ![n] = @ + p]

MNext == \E n \in Names : Record(n) \/ Report(n)

MSpec == MInit /\ [][MNext]_mvars

=============================================================================

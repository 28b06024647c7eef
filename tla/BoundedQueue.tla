---------------------------- MODULE BoundedQueue ----------------------------
(***************************************************************************)
(* A bounded first-in first-out queue shared by threads: an item enters at *)
(* the back while there is room, and a thread that takes one gets the item *)
(* at the front.                                                           *)
(***************************************************************************)
EXTENDS Naturals, Sequences

CONSTANTS QThreads, QItems, QSize, QNothing

VARIABLES queue,   \* the items, oldest first
          out      \* per thread, the last item it took

qvars == <<queue, out>>

QInit == queue = << >> /\ out = [t \in QThreads |-> QNothing]

Put == /\ Len(queue) < QSize
       /\ \E x \in QItems : queue' = Append(queue, x)
       /\ UNCHANGED out

Take(t) == /\ queue # << >>
           /\ out' = [out EXCEPT ![t] = Head(queue)]
           /\ queue' = Tail(queue)

(* A thread begins anew and forgets what it took.                          *)
Forget(t) == /\ out' = [out EXCEPT ![t] = QNothing]
             /\ UNCHANGED queue

QNext == Put \/ \E t \in QThreads : Take(t) \/ Forget(t)

QSpec == QInit /\ [][QNext]_qvars

=============================================================================

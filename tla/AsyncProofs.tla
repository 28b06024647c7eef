---------------------------- MODULE AsyncProofs ----------------------------
(***************************************************************************)
(* Proofs about the asynchronous logger and its ring, for any number of    *)
(* threads, cells, sinks and messages: the ring has no data race and is    *)
(* first in, first out, and what it accepted reaches the sinks.            *)
(***************************************************************************)
EXTENDS AsyncLog, TLAPS

(* What a step of the logger does to the ring.  Beside the calls of        *)
(* QueueNext, a client calls enqueue again as soon as a call has returned. *)
RingStep(t) ==
    \/ \E x \in Items : at[t] \in {"idle"} \cup Results /\ EnqueueCall(t, x)
    \/ DequeueBegin(t) \/ QueueWork(t) \/ QueueReturn(t)

-----------------------------------------------------------------------------
(* Positions and cells.                                                    *)

LEMMA CellRange == \A p \in Nat : Cell(p) \in Cells
BY QueueAssumption DEF Cell, Cells

LEMMA Division ==
  ASSUME NEW p \in Nat, NEW n \in Nat, n > 0
  PROVE  /\ p \div n \in Nat /\ p % n \in Nat /\ p % n < n
         /\ p = n * (p \div n) + (p % n)
OBVIOUS

(* Quotient and remainder are unique.                                      *)
LEMMA Multiples ==
  ASSUME NEW n \in Nat, NEW a \in Nat, NEW b \in Nat, a < b
  PROVE  n * a + n <= n * b
<1>1. PICK c \in Nat : b = a + 1 + c
  <2> WITNESS b - a - 1 \in Nat
  <2> QED OBVIOUS
<1>2. n * b = n * a + n + n * c
  BY <1>1
<1>3. n * c \in Nat /\ n * a \in Nat
  OBVIOUS
<1> QED BY <1>2, <1>3

LEMMA Remainders ==
  ASSUME NEW n \in Nat, NEW a \in Nat, NEW b \in Nat, NEW r \in Nat, NEW s \in Nat,
         r < n, s < n, n * a + r = n * b + s
  PROVE  a = b /\ r = s
<1>1. n * a \in Nat /\ n * b \in Nat
  OBVIOUS
<1>2. ~ a < b
  BY <1>1, Multiples
<1>3. ~ b < a
  BY <1>1, Multiples
<1> QED BY <1>1, <1>2, <1>3

LEMMA CellShift == \A p \in Nat : Cell(p + Capacity) = Cell(p)
<1> SUFFICES ASSUME NEW p \in Nat PROVE (p + Capacity) % Capacity = p % Capacity
  BY DEF Cell
<1>1. Capacity \in Nat /\ Capacity > 0
  BY QueueAssumption
<1> DEFINE a == p \div Capacity  r == p % Capacity
           b == (p + Capacity) \div Capacity  s == (p + Capacity) % Capacity
<1>2. /\ a \in Nat /\ r \in Nat /\ r < Capacity /\ p = Capacity * a + r
      /\ b \in Nat /\ s \in Nat /\ s < Capacity /\ p + Capacity = Capacity * b + s
  BY <1>1, Division
<1> HIDE DEF a, r, b, s
<1>3. Capacity * (a + 1) + r = Capacity * b + s
  BY <1>1, <1>2
<1>4. r = s
  BY <1>1, <1>2, <1>3, Remainders
<1> QED BY <1>4 DEF r, s

(* Positions less than a round apart have cells of their own.              *)
LEMMA CellInjective ==
  \A p, q \in Nat : p < q /\ q < p + Capacity => Cell(p) # Cell(q)
<1> SUFFICES ASSUME NEW p \in Nat, NEW q \in Nat, p < q, q < p + Capacity,
                    p % Capacity = q % Capacity
             PROVE  FALSE
  BY DEF Cell
<1>1. Capacity \in Nat /\ Capacity > 0
  BY QueueAssumption
<1> DEFINE a == p \div Capacity  r == p % Capacity  b == q \div Capacity
<1>2. /\ a \in Nat /\ r \in Nat /\ p = Capacity * a + r
      /\ b \in Nat /\ q = Capacity * b + r
  BY <1>1, Division
<1> HIDE DEF a, r, b
<1>3. Capacity * a \in Nat /\ Capacity * b \in Nat
  BY <1>1, <1>2
<1>4. ~ a < b
  BY <1>1, <1>2, <1>3, Multiples
<1>5. ~ b < a
  BY <1>1, <1>2, <1>3, Multiples
<1> QED BY <1>2, <1>4, <1>5

LEMMA CapacityIs == Capacity \in Nat /\ Capacity >= 2
BY QueueAssumption

-----------------------------------------------------------------------------
(* The inductive invariant.  Positions from dequeue_pos to enqueue_pos are *)
(* queued, the rest of the round is free.                                  *)

PosTypes ==
    /\ enqueue_pos \in Nat /\ dequeue_pos \in Nat
    /\ sequence \in [Cells -> Nat]
    /\ at \in [Threads -> {"idle"} \cup EnqueueAt \cup DequeueAt \cup Results]
    /\ pos \in [Threads -> Nat]

(* The cell of a queued position has its item or waits for it; that of a   *)
(* free one was given back or still belongs to the reader of the last      *)
(* round.                                                                  *)
Ring ==
    /\ dequeue_pos <= enqueue_pos /\ enqueue_pos <= dequeue_pos + Capacity
    /\ \A p \in Nat : (dequeue_pos <= p /\ p < enqueue_pos) =>
          sequence[Cell(p)] = p \/ sequence[Cell(p)] = p + 1
    /\ \A p \in Nat : (enqueue_pos <= p /\ p < dequeue_pos + Capacity) =>
          sequence[Cell(p)] = p \/ sequence[Cell(p)] + Capacity = p + 1

(* Where threads that claimed a position stand, and what a thread about to *)
(* claim one has seen.                                                     *)
OwnerOK(t) ==
    /\ Writing(t) => /\ dequeue_pos <= pos[t] /\ pos[t] < enqueue_pos
                     /\ sequence[Cell(pos[t])] = pos[t]
    /\ Reading(t) => /\ pos[t] < dequeue_pos /\ enqueue_pos <= pos[t] + Capacity
                     /\ sequence[Cell(pos[t])] = pos[t] + 1
    /\ at[t] \in {"e_seq", "e_cas"} => pos[t] <= enqueue_pos
    /\ at[t] \in {"d_seq", "d_cas"} => pos[t] <= dequeue_pos
    /\ (at[t] = "e_cas" /\ pos[t] = enqueue_pos) => sequence[Cell(pos[t])] = pos[t]
    /\ (at[t] = "d_cas" /\ pos[t] = dequeue_pos) => sequence[Cell(pos[t])] = pos[t] + 1

Owners == \A t \in Threads : OwnerOK(t)

Distinct == \A t, u \in Threads :
    (t # u /\ ((Writing(t) /\ Writing(u)) \/ (Reading(t) /\ Reading(u)))) => pos[t] # pos[u]

QInv == PosTypes /\ Ring /\ Owners /\ Distinct

(* Claimed positions lie in one round, so their cells differ.              *)
LEMMA OwnersApart == QInv => NoDataRace
<1> SUFFICES ASSUME QInv, NEW t \in Threads, NEW u \in Threads, t # u,
                    Writing(t) \/ Reading(t), Writing(u) \/ Reading(u)
             PROVE  Cell(pos[t]) # Cell(pos[u])
  BY DEF NoDataRace
<1>1. pos[t] \in Nat /\ pos[u] \in Nat /\ pos[t] # pos[u]
  BY DEF QInv, PosTypes, Distinct, Owners, OwnerOK
<1>2. pos[t] < pos[u] + Capacity /\ pos[u] < pos[t] + Capacity
  BY CapacityIs DEF QInv, PosTypes, Ring, Owners, OwnerOK
<1>3. pos[t] < pos[u] \/ pos[u] < pos[t]
  BY <1>1
<1> QED BY <1>1, <1>2, <1>3, CellInjective

LEMMA QInvInit == QueueInit => QInv
<1> SUFFICES ASSUME QueueInit PROVE QInv
  OBVIOUS
<1>1. PosTypes
  BY CapacityIs DEF QueueInit, PosTypes, Cells
<1>2. \A p \in Nat : p < Capacity => Cell(p) = p
  BY CapacityIs DEF Cell
<1>3. Ring
  BY <1>2, CapacityIs DEF QueueInit, Ring, Cells
<1>4. Owners /\ Distinct
  BY DEF QueueInit, Owners, OwnerOK, Distinct, Writing, Reading
<1> QED BY <1>1, <1>3, <1>4 DEF QInv

LEMMA TypesStep == ASSUME QInv, NEW t \in Threads, RingStep(t) PROVE PosTypes'
<1> USE DEF QInv, PosTypes, Goto
<1>0. Cell(pos[t]) \in Cells
  BY CellRange
<1>1. CASE \E x \in Items : EnqueueCall(t, x)
  BY <1>1 DEF EnqueueCall, EnqueueAt
<1>2. CASE DequeueBegin(t)
  BY <1>2 DEF DequeueBegin, DequeueAt
<1>3. CASE EnqueueLook(t)
  BY <1>3 DEF EnqueueLook, EnqueueAt, Results
<1>4. CASE EnqueueLoad(t) \/ EnqueueRetry(t)
  BY <1>4 DEF EnqueueLoad, EnqueueRetry, EnqueueAt
<1>5. CASE EnqueueClaim(t) \/ EnqueueWrite(t)
  BY <1>5 DEF EnqueueClaim, EnqueueWrite, EnqueueAt
<1>6. CASE EnqueuePublish(t)
  BY <1>6, <1>0 DEF EnqueuePublish, Results
<1>7. CASE DequeueLook(t)
  BY <1>7 DEF DequeueLook, DequeueAt, Results
<1>8. CASE DequeueLoad(t) \/ DequeueRetry(t)
  BY <1>8 DEF DequeueLoad, DequeueRetry, DequeueAt
<1>9. CASE DequeueClaim(t) \/ DequeueRead(t)
  BY <1>9 DEF DequeueClaim, DequeueRead, DequeueAt
<1>10. CASE DequeueRelease(t)
  BY <1>10, <1>0, CapacityIs DEF DequeueRelease, Results
<1>11. CASE QueueReturn(t)
  BY <1>11 DEF QueueReturn
<1> HIDE DEF QInv, PosTypes, Goto
<1> QED
  BY <1>1, <1>2, <1>3, <1>4, <1>5, <1>6, <1>7, <1>8, <1>9, <1>10, <1>11
  DEF RingStep, QueueWork

(* Facts about the step that claims or gives on a cell.                    *)
LEMMA ClaimFacts ==
  ASSUME QInv, NEW t \in Threads, EnqueueClaim(t)
  PROVE  /\ pos[t] = enqueue_pos /\ sequence[Cell(enqueue_pos)] = enqueue_pos
         /\ enqueue_pos < dequeue_pos + Capacity
         /\ \A u \in Threads : Reading(u) => enqueue_pos < pos[u] + Capacity
<1>1. pos[t] = enqueue_pos /\ sequence[Cell(enqueue_pos)] = enqueue_pos
  BY DEF EnqueueClaim, QInv, Owners, OwnerOK
<1>2. enqueue_pos < dequeue_pos + Capacity
  <2> SUFFICES ASSUME enqueue_pos = dequeue_pos + Capacity PROVE FALSE
    BY CapacityIs DEF QInv, PosTypes, Ring
  <2>1. Cell(enqueue_pos) = Cell(dequeue_pos)
    BY CellShift DEF QInv, PosTypes
  <2> QED BY <1>1, <2>1, CapacityIs DEF QInv, PosTypes, Ring
<1>3. ASSUME NEW u \in Threads, Reading(u) PROVE enqueue_pos < pos[u] + Capacity
  <2>1. enqueue_pos # pos[u] + Capacity
    BY <1>1, <1>3, CellShift, CapacityIs DEF QInv, PosTypes, Owners, OwnerOK
  <2> QED BY <1>3, <2>1, CapacityIs DEF QInv, PosTypes, Owners, OwnerOK
<1> QED BY <1>1, <1>2, <1>3

LEMMA TakeFacts ==
  ASSUME QInv, NEW t \in Threads, DequeueClaim(t)
  PROVE  /\ pos[t] = dequeue_pos /\ sequence[Cell(dequeue_pos)] = dequeue_pos + 1
         /\ dequeue_pos < enqueue_pos
         /\ \A u \in Threads : Writing(u) => dequeue_pos < pos[u]
<1>1. pos[t] = dequeue_pos /\ sequence[Cell(dequeue_pos)] = dequeue_pos + 1
  BY DEF DequeueClaim, QInv, Owners, OwnerOK
<1>2. dequeue_pos < enqueue_pos
  BY <1>1, CapacityIs DEF QInv, PosTypes, Ring
<1>3. \A u \in Threads : Writing(u) => dequeue_pos < pos[u]
  BY <1>1 DEF QInv, PosTypes, Owners, OwnerOK
<1> QED BY <1>1, <1>2, <1>3

(* The store of a writer changes the sequence number of its own position   *)
(* and of no other in the round.                                           *)
LEMMA PublishFacts ==
  ASSUME QInv, NEW t \in Threads, EnqueuePublish(t)
  PROVE  /\ dequeue_pos <= pos[t] /\ pos[t] < enqueue_pos
         /\ sequence'[Cell(pos[t])] = pos[t] + 1
         /\ \A p \in Nat : (dequeue_pos <= p /\ p < dequeue_pos + Capacity /\ p # pos[t]) =>
               sequence'[Cell(p)] = sequence[Cell(p)]
<1>1. pos[t] \in Nat /\ Cell(pos[t]) \in Cells /\ dequeue_pos <= pos[t] /\ pos[t] < enqueue_pos
  BY CellRange DEF QInv, PosTypes, Owners, OwnerOK, Writing, EnqueuePublish
<1>2. sequence'[Cell(pos[t])] = pos[t] + 1
  BY <1>1 DEF EnqueuePublish, QInv, PosTypes
<1>3. ASSUME NEW p \in Nat, dequeue_pos <= p, p < dequeue_pos + Capacity, p # pos[t]
      PROVE  sequence'[Cell(p)] = sequence[Cell(p)]
  <2>1. p < pos[t] + Capacity /\ pos[t] < p + Capacity
    BY <1>1, <1>3, CapacityIs DEF QInv, PosTypes, Ring
  <2>2. Cell(p) # Cell(pos[t])
    BY <1>1, <1>3, <2>1, CellInjective
  <2> QED BY <2>2, CellRange DEF EnqueuePublish, QInv, PosTypes
<1> QED BY <1>1, <1>2, <1>3

LEMMA ReleaseFacts ==
  ASSUME QInv, NEW t \in Threads, DequeueRelease(t)
  PROVE  /\ pos[t] < dequeue_pos /\ enqueue_pos <= pos[t] + Capacity
         /\ Cell(pos[t] + Capacity) = Cell(pos[t])
         /\ sequence'[Cell(pos[t])] = pos[t] + Capacity
         /\ \A p \in Nat : (dequeue_pos <= p /\ p < dequeue_pos + Capacity
                               /\ p # pos[t] + Capacity) =>
               sequence'[Cell(p)] = sequence[Cell(p)]
<1>1. /\ pos[t] \in Nat /\ Cell(pos[t]) \in Cells
      /\ pos[t] < dequeue_pos /\ enqueue_pos <= pos[t] + Capacity
  BY CellRange DEF QInv, PosTypes, Owners, OwnerOK, Reading, DequeueRelease
<1>2. sequence'[Cell(pos[t])] = pos[t] + Capacity
  BY <1>1 DEF DequeueRelease, QInv, PosTypes
<1>3. Cell(pos[t] + Capacity) = Cell(pos[t])
  BY <1>1, CellShift
<1>4. ASSUME NEW p \in Nat, dequeue_pos <= p, p < dequeue_pos + Capacity, p # pos[t] + Capacity
      PROVE  sequence'[Cell(p)] = sequence[Cell(p)]
  <2> DEFINE q == pos[t] + Capacity
  <2>1. q \in Nat /\ p < q + Capacity /\ q < p + Capacity /\ p # q
    BY <1>1, <1>4, CapacityIs DEF QInv, PosTypes, Ring
  <2> HIDE DEF q
  <2>2. Cell(p) # Cell(q)
    BY <1>4, <2>1, CellInjective
  <2> QED BY <1>3, <2>2, CellRange DEF q, DequeueRelease, QInv, PosTypes
<1> QED BY <1>1, <1>2, <1>3, <1>4

(* Claiming moves a border of the ring, giving on moves a sequence number. *)
LEMMA RingStepRing == ASSUME QInv, NEW t \in Threads, RingStep(t) PROVE Ring'
<1>1. CASE UNCHANGED <<enqueue_pos, dequeue_pos, sequence>>
  BY <1>1 DEF QInv, Ring
<1>2. CASE EnqueueClaim(t)
  <2>1. enqueue_pos' = enqueue_pos + 1 /\ UNCHANGED <<dequeue_pos, sequence>>
    BY <1>2, ClaimFacts DEF EnqueueClaim
  <2> QED BY <1>2, <2>1, ClaimFacts, CapacityIs DEF QInv, PosTypes, Ring
<1>3. CASE DequeueClaim(t)
  <2>1. dequeue_pos' = dequeue_pos + 1 /\ UNCHANGED <<enqueue_pos, sequence>>
    BY <1>3, TakeFacts DEF DequeueClaim
  <2>2. Cell(dequeue_pos + Capacity) = Cell(dequeue_pos)
    BY CellShift DEF QInv, PosTypes
  <2> QED BY <1>3, <2>1, <2>2, TakeFacts, CapacityIs DEF QInv, PosTypes, Ring
<1>4. CASE EnqueuePublish(t)
  <2>1. UNCHANGED <<enqueue_pos, dequeue_pos>>
    BY <1>4 DEF EnqueuePublish
  <2> QED BY <1>4, <2>1, PublishFacts, CapacityIs DEF QInv, PosTypes, Ring
<1>5. CASE DequeueRelease(t)
  <2>1. UNCHANGED <<enqueue_pos, dequeue_pos>>
    BY <1>5 DEF DequeueRelease
  <2> QED BY <1>5, <2>1, ReleaseFacts, CapacityIs DEF QInv, PosTypes, Ring
<1> QED
  BY <1>1, <1>2, <1>3, <1>4, <1>5
  DEF RingStep, QueueWork, EnqueueCall, DequeueBegin, QueueReturn, EnqueueLook, EnqueueLoad,
      EnqueueRetry, EnqueueWrite, DequeueLook, DequeueLoad, DequeueRetry, DequeueRead

LEMMA OthersStand ==
  ASSUME QInv, NEW t \in Threads, RingStep(t), NEW u \in Threads, u # t
  PROVE  at'[u] = at[u] /\ pos'[u] = pos[u]
BY DEF QInv, PosTypes, Goto, RingStep, QueueWork, EnqueueCall, DequeueBegin, QueueReturn,
   EnqueueLook, EnqueueLoad, EnqueueRetry, EnqueueWrite, EnqueueClaim, EnqueuePublish,
   DequeueLook, DequeueLoad, DequeueRetry, DequeueRead, DequeueClaim, DequeueRelease

(* The thread that moves.                                                  *)
LEMMA OwnSelf == ASSUME QInv, NEW t \in Threads, RingStep(t) PROVE OwnerOK(t)'
<1> USE DEF QInv, PosTypes, Goto, OwnerOK, Writing, Reading
<1>1. CASE \E x \in Items : EnqueueCall(t, x)
  BY <1>1 DEF EnqueueCall
<1>2. CASE DequeueBegin(t)
  BY <1>2 DEF DequeueBegin
<1>3. CASE EnqueueLook(t)
  <2>1. sequence[Cell(pos[t])] \in Nat
    BY CellRange
  <2>2. at'[t] \in {"e_cas", "e_full", "e_load"}
        /\ (at'[t] = "e_cas" => sequence[Cell(pos[t])] = pos[t])
    BY <1>3, <2>1 DEF EnqueueLook
  <2> QED BY <1>3, <2>2 DEF EnqueueLook, Owners
<1>4. CASE EnqueueLoad(t) \/ EnqueueRetry(t)
  BY <1>4 DEF EnqueueLoad, EnqueueRetry
<1>5. CASE EnqueueClaim(t)
  <2>1. UNCHANGED <<dequeue_pos, sequence, pos>> /\ enqueue_pos' = enqueue_pos + 1
        /\ at'[t] = "e_write"
    BY <1>5, ClaimFacts DEF EnqueueClaim
  <2> QED BY <1>5, <2>1, ClaimFacts DEF Ring
<1>6. CASE EnqueueWrite(t)
  BY <1>6 DEF EnqueueWrite, Owners, OwnerOK
<1>7. CASE EnqueuePublish(t)
  BY <1>7 DEF EnqueuePublish
<1>8. CASE DequeueLook(t)
  <2>1. sequence[Cell(pos[t])] \in Nat
    BY CellRange
  <2>2. at'[t] \in {"d_cas", "d_empty", "d_load"}
        /\ (at'[t] = "d_cas" => sequence[Cell(pos[t])] = pos[t] + 1)
    BY <1>8, <2>1 DEF DequeueLook
  <2> QED BY <1>8, <2>2 DEF DequeueLook, Owners
<1>9. CASE DequeueLoad(t) \/ DequeueRetry(t)
  BY <1>9 DEF DequeueLoad, DequeueRetry
<1>10. CASE DequeueClaim(t)
  <2>1. UNCHANGED <<enqueue_pos, sequence, pos>> /\ dequeue_pos' = dequeue_pos + 1
        /\ at'[t] = "d_read"
    BY <1>10, TakeFacts DEF DequeueClaim
  <2> QED BY <1>10, <2>1, TakeFacts DEF Ring
<1>11. CASE DequeueRead(t)
  BY <1>11 DEF DequeueRead, Owners, OwnerOK
<1>12. CASE DequeueRelease(t)
  BY <1>12 DEF DequeueRelease
<1>13. CASE QueueReturn(t)
  BY <1>13 DEF QueueReturn
<1> HIDE DEF QInv, PosTypes, Goto, OwnerOK, Writing, Reading
<1> QED
  BY <1>1, <1>2, <1>3, <1>4, <1>5, <1>6, <1>7, <1>8, <1>9, <1>10, <1>11, <1>12, <1>13
  DEF RingStep, QueueWork

(* The other threads.                                                      *)
LEMMA OwnOthers ==
  ASSUME QInv, NEW t \in Threads, RingStep(t), NEW u \in Threads, u # t
  PROVE  OwnerOK(u)'
<1>0. at'[u] = at[u] /\ pos'[u] = pos[u] /\ OwnerOK(u) /\ pos[u] \in Nat /\ pos[t] \in Nat
  BY OthersStand DEF QInv, PosTypes, Owners, OwnerOK
<1>1. CASE UNCHANGED <<enqueue_pos, dequeue_pos, sequence>>
  BY <1>0, <1>1 DEF OwnerOK, Writing, Reading
<1>2. CASE EnqueueClaim(t)
  <2>1. enqueue_pos' = enqueue_pos + 1 /\ UNCHANGED <<dequeue_pos, sequence>>
    BY <1>2, ClaimFacts DEF EnqueueClaim
  <2> QED BY <1>0, <1>2, <2>1, ClaimFacts, CapacityIs DEF QInv, PosTypes, OwnerOK, Writing, Reading
<1>3. CASE DequeueClaim(t)
  <2>1. dequeue_pos' = dequeue_pos + 1 /\ UNCHANGED <<enqueue_pos, sequence>>
    BY <1>3, TakeFacts DEF DequeueClaim
  <2> QED BY <1>0, <1>3, <2>1, TakeFacts, CapacityIs DEF QInv, PosTypes, OwnerOK, Writing, Reading
<1>4. CASE EnqueuePublish(t)
  <2>1. UNCHANGED <<enqueue_pos, dequeue_pos>> /\ Writing(t)
        /\ sequence' = [sequence EXCEPT ![Cell(pos[t])] = pos[t] + 1]
    BY <1>4 DEF EnqueuePublish, Writing
  <2>2. Cell(pos[u]) = Cell(pos[t]) => sequence[Cell(pos[u])] = pos[t]
    BY <2>1 DEF QInv, Owners, OwnerOK
  <2>3. (Writing(u) \/ Reading(u)) => Cell(pos[u]) # Cell(pos[t])
    BY <2>1, OwnersApart DEF NoDataRace
  <2>4. (at[u] = "e_cas" /\ pos[u] = enqueue_pos) => Cell(pos[u]) # Cell(pos[t])
    BY <1>0, <2>1, <2>2 DEF QInv, PosTypes, Owners, OwnerOK
  <2>5. (at[u] = "d_cas" /\ pos[u] = dequeue_pos) => Cell(pos[u]) # Cell(pos[t])
    <3> SUFFICES ASSUME at[u] = "d_cas", pos[u] = dequeue_pos, Cell(pos[u]) = Cell(pos[t])
                 PROVE  FALSE
      OBVIOUS
    <3>1. pos[t] = pos[u] + 1
      BY <2>2, <1>0 DEF OwnerOK, QInv, PosTypes
    <3> QED BY <1>0, <3>1, CellInjective, CapacityIs
  <2>6. Cell(pos[u]) # Cell(pos[t]) => sequence'[Cell(pos[u])] = sequence[Cell(pos[u])]
    BY <2>1, <1>0, CellRange DEF QInv, PosTypes
  <2> QED BY <1>0, <2>1, <2>3, <2>4, <2>5, <2>6 DEF OwnerOK, Writing, Reading
<1>5. CASE DequeueRelease(t)
  <2>1. UNCHANGED <<enqueue_pos, dequeue_pos>> /\ Reading(t)
        /\ sequence' = [sequence EXCEPT ![Cell(pos[t])] = pos[t] + Capacity]
    BY <1>5 DEF DequeueRelease, Reading
  <2>2. Cell(pos[u]) = Cell(pos[t]) => sequence[Cell(pos[u])] = pos[t] + 1
    BY <2>1 DEF QInv, Owners, OwnerOK
  <2>3. (Writing(u) \/ Reading(u)) => Cell(pos[u]) # Cell(pos[t])
    BY <2>1, OwnersApart DEF NoDataRace
  <2>4. (at[u] = "e_cas" /\ pos[u] = enqueue_pos) => Cell(pos[u]) # Cell(pos[t])
    <3> SUFFICES ASSUME at[u] = "e_cas", pos[u] = enqueue_pos, Cell(pos[u]) = Cell(pos[t])
                 PROVE  FALSE
      OBVIOUS
    <3>1. pos[u] = pos[t] + 1
      BY <2>2, <1>0 DEF OwnerOK, QInv, PosTypes
    <3> QED BY <1>0, <3>1, CellInjective, CapacityIs
  <2>5. (at[u] = "d_cas" /\ pos[u] = dequeue_pos) => Cell(pos[u]) # Cell(pos[t])
    BY <1>0, <2>1, <2>2 DEF QInv, PosTypes, Owners, OwnerOK
  <2>6. Cell(pos[u]) # Cell(pos[t]) => sequence'[Cell(pos[u])] = sequence[Cell(pos[u])]
    BY <2>1, <1>0, CellRange DEF QInv, PosTypes
  <2> QED BY <1>0, <2>1, <2>3, <2>4, <2>5, <2>6 DEF OwnerOK, Writing, Reading
<1> QED
  BY <1>1, <1>2, <1>3, <1>4, <1>5
  DEF RingStep, QueueWork, EnqueueCall, DequeueBegin, QueueReturn, EnqueueLook, EnqueueLoad,
      EnqueueRetry, EnqueueWrite, DequeueLook, DequeueLoad, DequeueRetry, DequeueRead

LEMMA DistinctStep == ASSUME QInv, NEW t \in Threads, RingStep(t) PROVE Distinct'
<1>1. CASE EnqueueClaim(t)
  <2>1. /\ pos' = pos /\ at' = [at EXCEPT ![t] = "e_write"] /\ pos[t] = enqueue_pos
        /\ \A u \in Threads : Writing(u) => pos[u] < enqueue_pos
    BY <1>1 DEF EnqueueClaim, Goto, QInv, Owners, OwnerOK
  <2> QED BY <2>1 DEF QInv, PosTypes, Distinct, Writing, Reading
<1>2. CASE DequeueClaim(t)
  <2>1. /\ pos' = pos /\ at' = [at EXCEPT ![t] = "d_read"] /\ pos[t] = dequeue_pos
        /\ \A u \in Threads : Reading(u) => pos[u] < dequeue_pos
    BY <1>2 DEF DequeueClaim, Goto, QInv, Owners, OwnerOK
  <2> QED BY <2>1 DEF QInv, PosTypes, Distinct, Writing, Reading
<1>3. CASE EnqueueWrite(t) \/ DequeueRead(t)
  BY <1>3 DEF EnqueueWrite, DequeueRead, Goto, QInv, PosTypes, Distinct, Writing, Reading
<1>4. CASE ~(Writing(t)') /\ ~(Reading(t)')
  BY <1>4, OthersStand DEF QInv, Distinct, Writing, Reading
<1> QED
  BY <1>1, <1>2, <1>3, <1>4
  DEF RingStep, QueueWork, EnqueueCall, DequeueBegin, QueueReturn, EnqueueLook, EnqueueLoad,
      EnqueueRetry, EnqueuePublish, DequeueLook, DequeueLoad, DequeueRetry, DequeueRelease,
      QInv, PosTypes, Goto, Writing, Reading

LEMMA QInvStep == ASSUME QInv, NEW t \in Threads, RingStep(t) PROVE QInv'
<1>1. Owners'
  BY OwnSelf, OwnOthers DEF Owners, OwnerOK
<1> QED BY <1>1, TypesStep, RingStepRing, DistinctStep DEF QInv

-----------------------------------------------------------------------------
(* What the cells hold.  claimed has one item per claimed position; a cell *)
(* whose sequence number says so has the item of its position, and the     *)
(* threads that own a cell know the same.                                  *)

DataTypes ==
    /\ data \in [Cells -> Items \cup {NoItem}]
    /\ item \in [Threads -> Items \cup {NoItem}]
    /\ got \in [Threads -> Items \cup {NoItem}]
    /\ claimed \in Seq(Items) /\ Len(claimed) = enqueue_pos

HasItem == \A t \in Threads : at[t] \in EnqueueAt \cup {"e_full"} => item[t] \in Items

Content ==
    /\ \A p \in Nat : (dequeue_pos <= p /\ p < enqueue_pos /\ sequence[Cell(p)] = p + 1) =>
          data[Cell(p)] = claimed[p + 1]
    /\ \A t \in Threads : /\ Writing(t) => item[t] = claimed[pos[t] + 1]
                          /\ at[t] = "e_publish" => data[Cell(pos[t])] = item[t]
                          /\ at[t] = "d_read" => data[Cell(pos[t])] = claimed[pos[t] + 1]

DInv == QInv /\ DataTypes /\ HasItem /\ Content

LEMMA DInvInit == QueueInit => DInv
<1> SUFFICES ASSUME QueueInit PROVE DInv
  OBVIOUS
<1>1. QInv
  BY QInvInit
<1>2. DataTypes
  BY DEF QueueInit, DataTypes
<1>3. HasItem /\ Content
  BY DEF QueueInit, HasItem, Content, EnqueueAt, Writing
<1> QED BY <1>1, <1>2, <1>3 DEF DInv

LEMMA DataTypesStep ==
  ASSUME DInv, NEW t \in Threads, RingStep(t) PROVE DataTypes' /\ HasItem'
<1> USE DEF DInv, DataTypes, HasItem, QInv, PosTypes, Goto
<1>0. Cell(pos[t]) \in Cells
  BY CellRange
<1>1. CASE \E x \in Items : EnqueueCall(t, x)
  BY <1>1 DEF EnqueueCall
<1>2. CASE DequeueBegin(t)
  BY <1>2 DEF DequeueBegin, EnqueueAt
<1>3. CASE EnqueueLook(t)
  BY <1>3 DEF EnqueueLook, EnqueueAt
<1>4. CASE EnqueueLoad(t) \/ EnqueueRetry(t)
  BY <1>4 DEF EnqueueLoad, EnqueueRetry, EnqueueAt
<1>5. CASE EnqueueClaim(t)
  <2>1. item[t] \in Items
    BY <1>5 DEF EnqueueClaim, EnqueueAt
  <2>2. claimed' \in Seq(Items) /\ Len(claimed') = enqueue_pos'
    BY <1>5, <2>1 DEF EnqueueClaim
  <2> QED BY <1>5, <2>1, <2>2 DEF EnqueueClaim, EnqueueAt
<1>6. CASE EnqueueWrite(t)
  BY <1>6, <1>0 DEF EnqueueWrite, EnqueueAt
<1>7. CASE EnqueuePublish(t)
  BY <1>7 DEF EnqueuePublish, EnqueueAt
<1>8. CASE DequeueLook(t)
  BY <1>8 DEF DequeueLook, EnqueueAt
<1>9. CASE DequeueLoad(t) \/ DequeueRetry(t) \/ DequeueClaim(t)
  BY <1>9 DEF DequeueLoad, DequeueRetry, DequeueClaim, EnqueueAt
<1>10. CASE DequeueRead(t)
  BY <1>10, <1>0 DEF DequeueRead, EnqueueAt
<1>11. CASE DequeueRelease(t)
  BY <1>11 DEF DequeueRelease, EnqueueAt
<1>12. CASE QueueReturn(t)
  BY <1>12 DEF QueueReturn, EnqueueAt
<1> HIDE DEF DInv, DataTypes, HasItem, QInv, PosTypes, Goto
<1> QED
  BY <1>1, <1>2, <1>3, <1>4, <1>5, <1>6, <1>7, <1>8, <1>9, <1>10, <1>11, <1>12
  DEF RingStep, QueueWork

(* An owner that writes into its cell, or empties it, touches no item that *)
(* is queued and no cell of another owner.                                 *)
LEMMA OwnCell ==
  ASSUME DInv, NEW t \in Threads, Writing(t) \/ Reading(t), NEW x,
         data' = [data EXCEPT ![Cell(pos[t])] = x]
  PROVE  /\ data'[Cell(pos[t])] = x
         /\ \A p \in Nat : (dequeue_pos <= p /\ p < enqueue_pos /\ sequence[Cell(p)] = p + 1) =>
               data'[Cell(p)] = data[Cell(p)]
         /\ \A u \in Threads : (u # t /\ (Writing(u) \/ Reading(u))) =>
               data'[Cell(pos[u])] = data[Cell(pos[u])]
<1> USE DEF DInv, QInv, PosTypes, DataTypes
<1>1. pos[t] \in Nat /\ Cell(pos[t]) \in Cells
  BY CellRange
<1>2. ASSUME NEW p \in Nat, dequeue_pos <= p, p < enqueue_pos, sequence[Cell(p)] = p + 1
      PROVE  data'[Cell(p)] = data[Cell(p)]
  <2>1. p # pos[t] /\ p < pos[t] + Capacity /\ pos[t] < p + Capacity
    BY <1>1, <1>2, CapacityIs DEF Ring, Owners, OwnerOK
  <2>2. Cell(p) # Cell(pos[t])
    BY <1>1, <1>2, <2>1, CellInjective
  <2> QED BY <2>2, CellRange
<1>3. ASSUME NEW u \in Threads, u # t, Writing(u) \/ Reading(u)
      PROVE  data'[Cell(pos[u])] = data[Cell(pos[u])]
  <2>1. Cell(pos[u]) # Cell(pos[t])
    BY <1>3, OwnersApart DEF NoDataRace
  <2> QED BY <2>1, CellRange
<1> QED BY <1>1, <1>2, <1>3

LEMMA ContentStep == ASSUME DInv, NEW t \in Threads, RingStep(t) PROVE Content'
<1>0. QInv /\ PosTypes /\ DataTypes /\ Content
  BY DEF DInv, QInv
<1>1. ASSUME NEW u \in Threads, u # t
      PROVE  at'[u] = at[u] /\ pos'[u] = pos[u] /\ pos[u] \in Nat
  BY <1>0, <1>1, OthersStand DEF PosTypes
<1>2. CASE EnqueueClaim(t)
  <2>1. /\ enqueue_pos' = enqueue_pos + 1 /\ pos[t] = enqueue_pos
        /\ UNCHANGED <<dequeue_pos, sequence, data, pos, item>>
        /\ at' = [at EXCEPT ![t] = "e_write"] /\ claimed' = Append(claimed, item[t])
    BY <1>0, <1>2, ClaimFacts DEF EnqueueClaim, Goto
  <2>2. /\ item[t] \in Items /\ claimed'[enqueue_pos + 1] = item[t]
        /\ \A p \in Nat : p < enqueue_pos => claimed'[p + 1] = claimed[p + 1]
    BY <1>0, <1>2, <2>1 DEF DataTypes, PosTypes, DInv, HasItem, EnqueueAt, EnqueueClaim
  <2>3. \A p \in Nat : (dequeue_pos <= p /\ p < enqueue_pos' /\ sequence[Cell(p)] = p + 1) =>
          p < enqueue_pos
    BY <1>0, <1>2, <2>1, ClaimFacts DEF PosTypes
  <2>4. \A u \in Threads : /\ Writing(u) => pos[u] < enqueue_pos
                           /\ Reading(u) => pos[u] < enqueue_pos
    BY <1>0 DEF QInv, PosTypes, Owners, OwnerOK, Ring
  <2> QED BY <1>0, <2>1, <2>2, <2>3, <2>4 DEF Content, PosTypes, Writing, Reading
<1>3. CASE DequeueClaim(t)
  <2>1. /\ dequeue_pos' = dequeue_pos + 1 /\ pos[t] = dequeue_pos
        /\ UNCHANGED <<enqueue_pos, sequence, data, pos, item, claimed>>
        /\ at' = [at EXCEPT ![t] = "d_read"]
    BY <1>0, <1>3, TakeFacts DEF DequeueClaim, Goto
  <2>2. data[Cell(dequeue_pos)] = claimed[dequeue_pos + 1]
    BY <1>0, <1>3, TakeFacts DEF Content, PosTypes
  <2> QED BY <1>0, <2>1, <2>2 DEF Content, PosTypes, Writing
<1>4. CASE EnqueueWrite(t)
  <2>1. /\ UNCHANGED <<enqueue_pos, dequeue_pos, sequence, pos, item, claimed>>
        /\ at' = [at EXCEPT ![t] = "e_publish"] /\ Writing(t)
        /\ data' = [data EXCEPT ![Cell(pos[t])] = item[t]]
    BY <1>4 DEF EnqueueWrite, Goto, Writing
  <2>2. /\ data'[Cell(pos[t])] = item[t]
        /\ \A p \in Nat : (dequeue_pos <= p /\ p < enqueue_pos /\ sequence[Cell(p)] = p + 1) =>
              data'[Cell(p)] = data[Cell(p)]
        /\ \A u \in Threads : (u # t /\ (Writing(u) \/ Reading(u))) =>
              data'[Cell(pos[u])] = data[Cell(pos[u])]
    BY <2>1, OwnCell
  <2> QED BY <1>0, <2>1, <2>2 DEF Content, PosTypes, Writing, Reading
<1>5. CASE DequeueRead(t)
  <2>1. /\ UNCHANGED <<enqueue_pos, dequeue_pos, sequence, pos, item, claimed>>
        /\ at' = [at EXCEPT ![t] = "d_release"] /\ Reading(t)
        /\ data' = [data EXCEPT ![Cell(pos[t])] = NoItem]
    BY <1>5 DEF DequeueRead, Goto, Reading
  <2>2. /\ data'[Cell(pos[t])] = NoItem
        /\ \A p \in Nat : (dequeue_pos <= p /\ p < enqueue_pos /\ sequence[Cell(p)] = p + 1) =>
              data'[Cell(p)] = data[Cell(p)]
        /\ \A u \in Threads : (u # t /\ (Writing(u) \/ Reading(u))) =>
              data'[Cell(pos[u])] = data[Cell(pos[u])]
    BY <2>1, OwnCell
  <2> QED BY <1>0, <2>1, <2>2 DEF Content, PosTypes, Writing, Reading
<1>6. CASE EnqueuePublish(t)
  <2>1. /\ UNCHANGED <<enqueue_pos, dequeue_pos, data, pos, item, claimed>>
        /\ at' = [at EXCEPT ![t] = "e_ok"] /\ at[t] = "e_publish" /\ pos[t] \in Nat
    BY <1>0, <1>6 DEF EnqueuePublish, Goto, PosTypes
  <2>2. data[Cell(pos[t])] = claimed[pos[t] + 1]
    BY <1>0, <2>1 DEF Content, Writing
  <2>3. \A p \in Nat : (dequeue_pos <= p /\ p < enqueue_pos /\ p # pos[t]) =>
          sequence'[Cell(p)] = sequence[Cell(p)]
    BY <1>0, <1>6, PublishFacts, CapacityIs DEF QInv, Ring, PosTypes
  <2> QED BY <1>0, <2>1, <2>2, <2>3 DEF Content, PosTypes, Writing
<1>7. CASE DequeueRelease(t)
  <2>1. /\ UNCHANGED <<enqueue_pos, dequeue_pos, data, pos, item, claimed>>
        /\ at' = [at EXCEPT ![t] = "d_ok"] /\ pos[t] \in Nat
    BY <1>0, <1>7 DEF DequeueRelease, Goto, PosTypes
  <2>2. \A p \in Nat : (dequeue_pos <= p /\ p < enqueue_pos) =>
          sequence'[Cell(p)] = sequence[Cell(p)]
    BY <1>0, <1>7, ReleaseFacts, CapacityIs DEF QInv, Ring, PosTypes
  <2> QED BY <1>0, <2>1, <2>2 DEF Content, PosTypes, Writing
<1>8. ASSUME UNCHANGED <<enqueue_pos, dequeue_pos, sequence, data, claimed>>,
             \A u \in Threads : u # t => item'[u] = item[u],
             at'[t] \notin {"e_write", "e_publish", "d_read"}
      PROVE  Content'
  BY <1>0, <1>1, <1>8 DEF Content, Writing
<1>9. CASE \E x \in Items : EnqueueCall(t, x)
  BY <1>0, <1>8, <1>9 DEF EnqueueCall, Goto, PosTypes, DataTypes
<1>10. CASE DequeueBegin(t) \/ QueueReturn(t)
  BY <1>0, <1>8, <1>10 DEF DequeueBegin, QueueReturn, Goto, PosTypes
<1>11. CASE EnqueueLook(t) \/ DequeueLook(t)
  BY <1>0, <1>8, <1>11 DEF EnqueueLook, DequeueLook, Goto, PosTypes
<1>12. CASE EnqueueLoad(t) \/ EnqueueRetry(t) \/ DequeueLoad(t) \/ DequeueRetry(t)
  BY <1>0, <1>8, <1>12 DEF EnqueueLoad, EnqueueRetry, DequeueLoad, DequeueRetry, Goto, PosTypes
<1> QED
  BY <1>2, <1>3, <1>4, <1>5, <1>6, <1>7, <1>9, <1>10, <1>11, <1>12 DEF RingStep, QueueWork

LEMMA DInvStep == ASSUME DInv, NEW t \in Threads, RingStep(t) PROVE DInv'
BY QInvStep, DataTypesStep, ContentStep DEF DInv

-----------------------------------------------------------------------------
(* The logger's steps are steps of the ring.                               *)

CallTypes == calls \in [Clients -> 0..Budget]

LEMMA LogItems ==
  /\ \A t \in Clients, n \in 1..Budget, lvl \in MsgLevels : Message("log", t, n, lvl) \in Items
  /\ Flush \in Items /\ Terminate \in Items
BY AsyncAssumption DEF AllMessages, LogMessages

LEMMA AsyncSteps ==
  ASSUME CallTypes, HasItem, AsyncNext
  PROVE  /\ CallTypes'
         /\ (\E t \in Threads : RingStep(t)) \/ UNCHANGED mqvars
<1>0. Clients \subseteq Threads /\ Worker \in Threads /\ Owner \in Clients /\ Budget \in Nat
  BY AsyncAssumption DEF Clients
<1>1. CASE \E t \in Clients, lvl \in MsgLevels : log(t, lvl)
  <2>1. PICK t \in Clients, lvl \in MsgLevels : log(t, lvl)
    BY <1>1
  <2>2. CallTypes' /\ calls'[t] \in 1..Budget
    BY <1>0, <2>1 DEF log, Free, CallTypes
  <2>3. Message("log", t, calls'[t], lvl) \in Items
    BY <2>2, LogItems
  <2>4. at[t] = "idle" /\ EnqueueCall(t, Message("log", t, calls'[t], lvl))
    BY <2>1 DEF log, EnqueueBegin
  <2>5. RingStep(t)
    BY <2>3, <2>4 DEF RingStep
  <2> QED BY <1>0, <2>2, <2>5
<1>2. CASE \E t \in Clients : flush(t)
  <2>1. PICK t \in Clients : flush(t)
    BY <1>2
  <2>2. CallTypes'
    BY <1>0, <2>1 DEF flush, Free, CallTypes
  <2>3. RingStep(t)
    BY <2>1, LogItems DEF flush, EnqueueBegin, RingStep
  <2> QED BY <1>0, <2>2, <2>3
<1>3. CASE destroy
  <2>1. CallTypes' /\ RingStep(Owner)
    BY <1>3, LogItems DEF destroy, EnqueueBegin, RingStep, CallTypes
  <2> QED BY <1>0, <2>1
<1>4. CASE \E t \in Clients : push_msg_ok(t)
  <2>1. PICK t \in Clients : push_msg_ok(t)
    BY <1>4
  <2>2. CallTypes' /\ RingStep(t)
    BY <2>1, LogItems DEF push_msg_ok, Pushed, RingStep, Results, CallTypes
  <2> QED BY <1>0, <2>2
<1>5. CASE \E t \in Clients : push_msg_full(t)
  <2>1. PICK t \in Clients : push_msg_full(t)
    BY <1>5
  <2>2. item[t] \in Items
    BY <1>0, <2>1 DEF push_msg_full, HasItem
  <2>3. CallTypes' /\ RingStep(t)
    BY <2>1, <2>2, LogItems DEF push_msg_full, Pushed, RingStep, Results, CallTypes
  <2> QED BY <1>0, <2>3
<1>6. CASE \E t \in Clients : wait_load(t) \/ wait_compare(t)
  BY <1>6 DEF wait_load, wait_compare, CallTypes
<1>7. CASE \E t \in Threads : QueueStep(t)
  BY <1>7 DEF QueueStep, avars, RingStep, CallTypes
<1>8. CASE join \/ sink_log \/ sink_flush \/ sink_throws
  BY <1>8 DEF join, sink_log, sink_flush, sink_throws, callvars, CallTypes
<1>9. CASE process_begin
  BY <1>0, <1>9 DEF process_begin, avars, RingStep, CallTypes
<1>10. CASE process_flush \/ process_terminate \/ process_log \/ process_empty
  <2>1. QueueReturn(Worker) /\ UNCHANGED calls
    BY <1>10 DEF process_flush, process_terminate, process_log, process_empty, Process, callvars
  <2> QED BY <1>0, <2>1 DEF RingStep, CallTypes
<1> QED
  BY <1>0, <1>1, <1>2, <1>3, <1>4, <1>5, <1>6, <1>7, <1>8, <1>9, <1>10
  DEF AsyncNext, WorkerNext, ClientNext

LEMMA RingInitial == AsyncInit => DInv /\ CallTypes
BY DInvInit, AsyncAssumption DEF AsyncInit, CallTypes

LEMMA RingStepKeeps ==
  ASSUME DInv, CallTypes, [AsyncNext]_vars PROVE DInv' /\ CallTypes'
<1>1. ASSUME UNCHANGED mqvars PROVE DInv'
  BY <1>1 DEF mqvars, DInv, QInv, PosTypes, Ring, Owners, OwnerOK, Distinct, DataTypes,
              HasItem, Content, Writing, Reading
<1>2. CASE AsyncNext
  <2>1. CallTypes' /\ ((\E t \in Threads : RingStep(t)) \/ UNCHANGED mqvars)
    BY <1>2, AsyncSteps DEF DInv
  <2> QED BY <1>1, <2>1, DInvStep
<1>3. CASE UNCHANGED vars
  BY <1>1, <1>3 DEF vars, avars, CallTypes
<1> QED BY <1>2, <1>3

LEMMA AInvAlways == AsyncSpec => [](DInv /\ CallTypes)
<1>1. DInv /\ CallTypes /\ [AsyncNext]_vars => DInv' /\ CallTypes'
  BY RingStepKeeps
<1> QED BY <1>1, RingInitial, PTL DEF AsyncSpec

(* For every number of threads and cells, the threads that claimed a       *)
(* position of the ring have its cell for themselves: enqueue and dequeue  *)
(* move messages in and out of data_ without a lock.                       *)
THEOREM CellsHaveOneOwner == AsyncSpec => []NoDataRace
<1>1. DInv => NoDataRace
  BY OwnersApart DEF DInv
<1> QED BY <1>1, AInvAlways, PTL

-----------------------------------------------------------------------------
(* The ring implements the bounded queue.                                  *)

Waiting == [i \in 1..(enqueue_pos - dequeue_pos) |-> claimed[dequeue_pos + i]]
Taken == [t \in Threads |-> IF at[t] = "d_read" THEN claimed[pos[t] + 1] ELSE got[t]]

LEMMA WaitingType ==
  ASSUME DInv
  PROVE  Waiting \in Seq(Items) /\ Len(Waiting) = enqueue_pos - dequeue_pos
<1>1. enqueue_pos - dequeue_pos \in Nat
  BY DEF DInv, QInv, PosTypes, Ring
<1>2. \A i \in 1..(enqueue_pos - dequeue_pos) : claimed[dequeue_pos + i] \in Items
  BY DEF DInv, QInv, PosTypes, Ring, DataTypes
<1> QED BY <1>1, <1>2 DEF Waiting

LEMMA ClaimPuts ==
  ASSUME DInv, DInv', NEW t \in Threads, EnqueueClaim(t)
  PROVE  Len(Waiting) < Capacity /\ item[t] \in Items /\ Waiting' = Append(Waiting, item[t])
<1>1. /\ enqueue_pos' = enqueue_pos + 1 /\ dequeue_pos' = dequeue_pos
      /\ claimed' = Append(claimed, item[t]) /\ enqueue_pos < dequeue_pos + Capacity
  BY ClaimFacts DEF EnqueueClaim, DInv
<1>2. item[t] \in Items
  BY DEF DInv, HasItem, EnqueueClaim, EnqueueAt
<1> DEFINE n == enqueue_pos - dequeue_pos
<1>3. n \in Nat /\ Waiting \in Seq(Items) /\ Len(Waiting) = n
  BY WaitingType DEF DInv, QInv, PosTypes, Ring
<1>4. enqueue_pos' - dequeue_pos' = n + 1
  BY <1>1 DEF DInv, QInv, PosTypes
<1>5. \A i \in 1..(n + 1) : claimed'[dequeue_pos + i] = Append(Waiting, item[t])[i]
  <2> SUFFICES ASSUME NEW i \in 1..(n + 1)
               PROVE  claimed'[dequeue_pos + i] = Append(Waiting, item[t])[i]
    OBVIOUS
  <2>1. CASE i \in 1..n
    <3>1. Append(Waiting, item[t])[i] = claimed[dequeue_pos + i]
      BY <1>2, <1>3, <2>1 DEF Waiting
    <3>2. dequeue_pos + i \in 1..Len(claimed)
      BY <2>1 DEF DInv, QInv, PosTypes, DataTypes, Ring
    <3> QED BY <1>1, <1>2, <3>1, <3>2 DEF DInv, DataTypes
  <2>2. CASE i = n + 1
    <3>1. Append(Waiting, item[t])[i] = item[t]
      BY <1>2, <1>3, <2>2
    <3>2. dequeue_pos + i = Len(claimed) + 1
      BY <2>2 DEF DInv, QInv, PosTypes, DataTypes, Ring
    <3> QED BY <1>1, <1>2, <3>1, <3>2 DEF DInv, DataTypes
  <2> QED BY <1>3, <2>1, <2>2
<1>6. Append(Waiting, item[t]) \in Seq(Items) /\ Len(Append(Waiting, item[t])) = n + 1
  BY <1>2, <1>3
<1>7. Waiting' = [i \in 1..(n + 1) |-> claimed'[dequeue_pos + i]]
  BY <1>1, <1>4 DEF Waiting
<1> HIDE DEF n
<1>8. Waiting' = Append(Waiting, item[t])
  BY <1>3, <1>5, <1>6, <1>7
<1> QED BY <1>1, <1>2, <1>3, <1>8, CapacityIs DEF n, DInv, QInv, PosTypes

LEMMA ClaimTakes ==
  ASSUME DInv, DInv', NEW t \in Threads, DequeueClaim(t)
  PROVE  /\ Waiting # << >> /\ Head(Waiting) = claimed[pos[t] + 1]
         /\ Waiting' = Tail(Waiting)
<1>1. /\ dequeue_pos' = dequeue_pos + 1 /\ enqueue_pos' = enqueue_pos
      /\ claimed' = claimed /\ pos[t] = dequeue_pos /\ dequeue_pos < enqueue_pos
  BY TakeFacts DEF DequeueClaim, DInv
<1> DEFINE n == enqueue_pos - dequeue_pos
<1>2. n \in Nat /\ n > 0 /\ Waiting \in Seq(Items) /\ Len(Waiting) = n
  BY <1>1, WaitingType DEF DInv, QInv, PosTypes, Ring
<1>3. enqueue_pos' - dequeue_pos' = n - 1
  BY <1>1 DEF DInv, QInv, PosTypes
<1>4. Waiting # << >> /\ Head(Waiting) = Waiting[1]
  BY <1>2
<1>5. Waiting[1] = claimed[pos[t] + 1]
  BY <1>1, <1>2 DEF Waiting
<1>6. \A i \in 1..(n - 1) : Tail(Waiting)[i] = claimed[(dequeue_pos + 1) + i]
  <2> SUFFICES ASSUME NEW i \in 1..(n - 1)
               PROVE  Tail(Waiting)[i] = claimed[(dequeue_pos + 1) + i]
    OBVIOUS
  <2>1. Tail(Waiting)[i] = Waiting[i + 1]
    BY <1>2
  <2>2. Waiting[i + 1] = claimed[dequeue_pos + (i + 1)]
    BY <1>2 DEF Waiting
  <2>3. dequeue_pos + (i + 1) = (dequeue_pos + 1) + i
    BY <1>2 DEF DInv, QInv, PosTypes
  <2> QED BY <2>1, <2>2, <2>3
<1>7. Tail(Waiting) \in Seq(Items) /\ Len(Tail(Waiting)) = n - 1
  BY <1>2, <1>4
<1>8. Waiting' = [i \in 1..(n - 1) |-> claimed[(dequeue_pos + 1) + i]]
  BY <1>1, <1>3 DEF Waiting
<1> HIDE DEF n
<1> DEFINE tail == Tail(Waiting)
<1> HIDE DEF tail
<1>9. Waiting' = tail
  <2>1. n - 1 \in Nat /\ tail \in Seq(Items) /\ Len(tail) = n - 1
    BY <1>2, <1>7 DEF tail
  <2>2. tail = [i \in 1..(n - 1) |-> tail[i]]
    BY <2>1
  <2>3. \A i \in 1..(n - 1) : tail[i] = claimed[(dequeue_pos + 1) + i]
    BY <1>6 DEF tail
  <2> QED BY <1>8, <2>2, <2>3
<1> QED BY <1>4, <1>5, <1>9 DEF tail

(* What the threads have taken, for each kind of step.                     *)
LEMMA TakenKept ==
  ASSUME DInv, NEW t \in Threads, \A u \in Threads : u # t => at'[u] = at[u] /\ pos'[u] = pos[u],
         \A u \in Threads : u # t => got'[u] = got[u], UNCHANGED claimed, NEW x,
         (IF at'[t] = "d_read" THEN claimed[pos'[t] + 1] ELSE got'[t]) = x
  PROVE  Taken' = [Taken EXCEPT ![t] = x]
<1>1. \A u \in Threads : Taken'[u] = [Taken EXCEPT ![t] = x][u]
  BY DEF Taken
<1> QED BY <1>1 DEF Taken

LEMMA RingStepFifo ==
  ASSUME DInv, DInv', NEW t \in Threads, RingStep(t)
  PROVE  Fifo!QNext \/ UNCHANGED <<Waiting, Taken>>
<1>0. /\ QInv /\ PosTypes /\ DataTypes /\ Content
      /\ \A u \in Threads : u # t => at'[u] = at[u] /\ pos'[u] = pos[u]
  BY OthersStand DEF DInv, QInv
<1>1. CASE EnqueueClaim(t)
  <2>1. /\ at' = [at EXCEPT ![t] = "e_write"] /\ at[t] = "e_cas" /\ UNCHANGED <<pos, got>>
        /\ claimed' = Append(claimed, item[t]) /\ item[t] \in Items
    BY <1>1, ClaimPuts DEF EnqueueClaim, Goto
  <2>2. \A u \in Threads : at[u] = "d_read" => claimed'[pos[u] + 1] = claimed[pos[u] + 1]
    <3> SUFFICES ASSUME NEW u \in Threads, at[u] = "d_read"
                 PROVE  claimed'[pos[u] + 1] = claimed[pos[u] + 1]
      OBVIOUS
    <3>1. pos[u] + 1 \in 1..Len(claimed)
      BY <1>0 DEF QInv, PosTypes, Owners, OwnerOK, Reading, Ring, DataTypes
    <3> QED BY <1>0, <2>1, <3>1 DEF DataTypes
  <2>3. UNCHANGED Taken
    BY <1>0, <2>1, <2>2 DEF Taken, PosTypes
  <2> QED BY <1>1, <2>3, ClaimPuts DEF Fifo!QNext, Fifo!Put, Waiting, Taken
<1>2. CASE DequeueClaim(t)
  <2>1. /\ at' = [at EXCEPT ![t] = "d_read"] /\ UNCHANGED <<pos, got, claimed>>
    BY <1>2 DEF DequeueClaim, Goto
  <2>2. Taken' = [Taken EXCEPT ![t] = claimed[pos[t] + 1]]
    BY <1>0, <2>1, TakenKept DEF PosTypes
  <2> QED BY <1>2, <2>2, ClaimTakes DEF Fifo!QNext, Fifo!Take, Waiting, Taken
<1>3. ASSUME UNCHANGED <<enqueue_pos, dequeue_pos, claimed>> PROVE UNCHANGED Waiting
  BY <1>3 DEF Waiting
<1>4. CASE DequeueBegin(t) \/ \E x \in Items : EnqueueCall(t, x)
  <2>1. /\ UNCHANGED <<enqueue_pos, dequeue_pos, claimed>> /\ at'[t] # "d_read"
        /\ got' = [got EXCEPT ![t] = NoItem]
    BY <1>0, <1>4 DEF DequeueBegin, EnqueueCall, Goto, PosTypes
  <2>2. Taken' = [Taken EXCEPT ![t] = NoItem]
    BY <1>0, <2>1, TakenKept DEF DataTypes
  <2> QED BY <1>3, <2>1, <2>2 DEF Fifo!QNext, Fifo!Forget, Waiting, Taken
<1>5. CASE DequeueRead(t)
  <2>1. /\ UNCHANGED <<enqueue_pos, dequeue_pos, claimed, pos>> /\ at[t] = "d_read"
        /\ at'[t] # "d_read" /\ got' = [got EXCEPT ![t] = claimed[pos[t] + 1]]
    BY <1>0, <1>5 DEF DequeueRead, Goto, PosTypes, Content
  <2>2. UNCHANGED Taken
    BY <1>0, <2>1 DEF Taken, DataTypes
  <2> QED BY <1>3, <2>1, <2>2
<1>6. ASSUME UNCHANGED <<enqueue_pos, dequeue_pos, claimed, got>>,
             at[t] # "d_read", at'[t] # "d_read"
      PROVE  UNCHANGED <<Waiting, Taken>>
  <2>1. UNCHANGED Taken
    BY <1>0, <1>6 DEF Taken
  <2> QED BY <1>3, <1>6, <2>1
<1>7. CASE EnqueueLook(t) \/ DequeueLook(t)
  BY <1>0, <1>6, <1>7 DEF EnqueueLook, DequeueLook, Goto, PosTypes
<1>8. CASE EnqueueLoad(t) \/ EnqueueRetry(t) \/ DequeueLoad(t) \/ DequeueRetry(t)
  BY <1>0, <1>6, <1>8 DEF EnqueueLoad, EnqueueRetry, DequeueLoad, DequeueRetry, Goto, PosTypes
<1>9. CASE EnqueueWrite(t) \/ EnqueuePublish(t) \/ DequeueRelease(t)
  BY <1>0, <1>6, <1>9 DEF EnqueueWrite, EnqueuePublish, DequeueRelease, Goto, PosTypes
<1>10. CASE QueueReturn(t)
  BY <1>0, <1>6, <1>10 DEF QueueReturn, Results, Goto, PosTypes
<1> QED
  BY <1>1, <1>2, <1>4, <1>5, <1>7, <1>8, <1>9, <1>10 DEF RingStep, QueueWork

(* For every number of threads and cells, the ring is a bounded queue: an  *)
(* item takes its place when its position is claimed, and a dequeue        *)
(* returns the oldest item, although cells are written and given back in   *)
(* any order.                                                              *)
THEOREM RingIsFifo == AsyncSpec => ImplementsFifo
<1>1. AsyncInit => Fifo!QInit
  <2> SUFFICES ASSUME AsyncInit PROVE Fifo!QInit
    OBVIOUS
  <2>1. Waiting = << >>
    BY DEF AsyncInit, QueueInit, Waiting
  <2>2. Taken = [t \in Threads |-> NoItem]
    BY DEF AsyncInit, QueueInit, Taken
  <2> QED BY <2>1, <2>2 DEF Fifo!QInit, Waiting, Taken
<1>2. /\ DInv /\ CallTypes /\ DInv' /\ [AsyncNext]_vars
      => [Fifo!QNext]_(Fifo!qvars)
  <2> SUFFICES ASSUME DInv, CallTypes, DInv', [AsyncNext]_vars
               PROVE  Fifo!QNext \/ UNCHANGED <<Waiting, Taken>>
    BY DEF Fifo!qvars, Waiting, Taken
  <2>1. (\E t \in Threads : RingStep(t)) \/ UNCHANGED mqvars
    BY AsyncSteps DEF DInv, vars
  <2>2. CASE UNCHANGED mqvars
    BY <2>2 DEF mqvars, Waiting, Taken
  <2> QED BY <2>1, <2>2, RingStepFifo
<1> QED BY <1>1, <1>2, AInvAlways, PTL DEF AsyncSpec, ImplementsFifo, Fifo!QSpec

-----------------------------------------------------------------------------
(* Types of the logger.  What the worker dequeued is a message, and it is  *)
(* still that message while the sinks are given it, because the worker is  *)
(* outside the queue then.                                                 *)

WorkerHas ==
    /\ at[Worker] \in {"d_release", "d_ok"} => got[Worker] \in Items
    /\ worker # "loop" => at[Worker] = "idle"
    /\ worker = "sinks" => got[Worker] \in LogMessages

CallStates == {"none", "log", "log_flush", "flush", "wait", "wait_last",
               "destroy", "join", "gone"}

ClientTypes ==
    /\ policy \in Policies /\ call \in [Clients -> CallStates]
    /\ first_pos \in [Clients -> Nat] /\ discarded \in BOOLEAN

WorkerTypes ==
    /\ worker \in {"loop", "sinks", "flushing", "done"} /\ sink \in 1..Sinks
    /\ flush_requested \in BOOLEAN /\ terminate_requested \in BOOLEAN
    /\ delivered \in [1..Sinks -> Seq(LogMessages)] /\ flushed \in [1..Sinks -> Nat]
    /\ failed \subseteq LogMessages /\ faults \in 0..Faults

(* A message that says it is a log message is one.                         *)
LEMMA LogByType == \A m \in Items : m.type = "log" => m \in LogMessages
BY AsyncAssumption DEF AllMessages, Flush, Terminate, Message

LEMMA ReadGetsItem == ASSUME DInv, DequeueRead(Worker) PROVE got'[Worker] \in Items
<1>0. Worker \in Threads
  BY AsyncAssumption
<1>1. at[Worker] = "d_read" /\ got' = [got EXCEPT ![Worker] = data[Cell(pos[Worker])]]
  BY DEF DequeueRead
<1>2. pos[Worker] + 1 \in 1..Len(claimed)
  BY <1>0, <1>1 DEF DInv, QInv, PosTypes, Owners, OwnerOK, Reading, Ring, DataTypes
<1>3. data[Cell(pos[Worker])] = claimed[pos[Worker] + 1]
  BY <1>0, <1>1 DEF DInv, Content
<1> QED BY <1>0, <1>1, <1>2, <1>3 DEF DInv, DataTypes

(* A thread inside the queue leaves the logger alone, and the worker is    *)
(* inside it only from its loop.                                           *)
LEMMA WorkerInQueue ==
  ASSUME DInv, WorkerHas, QueueStep(Worker) PROVE WorkerHas'
<1>0. Worker \in Threads /\ PosTypes /\ UNCHANGED worker
  BY AsyncAssumption DEF DInv, QInv, QueueStep, avars
<1>1. at[Worker] # "idle" /\ worker = "loop"
  BY DEF QueueStep, QueueWork, EnqueueLook, EnqueueLoad, EnqueueClaim, EnqueueRetry,
         EnqueueWrite, EnqueuePublish, DequeueLook, DequeueLoad, DequeueClaim,
         DequeueRetry, DequeueRead, DequeueRelease, WorkerHas
<1>2. CASE DequeueRead(Worker)
  BY <1>0, <1>1, <1>2, ReadGetsItem DEF WorkerHas
<1>3. CASE DequeueRelease(Worker)
  BY <1>0, <1>1, <1>3 DEF DequeueRelease, WorkerHas
<1>4. ASSUME at'[Worker] \notin {"d_release", "d_ok"} PROVE WorkerHas'
  BY <1>0, <1>1, <1>4 DEF WorkerHas
<1>5. CASE EnqueueLook(Worker) \/ EnqueueLoad(Worker) \/ EnqueueClaim(Worker)
  BY <1>0, <1>4, <1>5 DEF EnqueueLook, EnqueueLoad, EnqueueClaim, Goto, PosTypes
<1>6. CASE EnqueueRetry(Worker) \/ EnqueueWrite(Worker) \/ EnqueuePublish(Worker)
  BY <1>0, <1>4, <1>6 DEF EnqueueRetry, EnqueueWrite, EnqueuePublish, Goto, PosTypes
<1>7. CASE DequeueLook(Worker) \/ DequeueLoad(Worker) \/ DequeueClaim(Worker)
           \/ DequeueRetry(Worker)
  BY <1>0, <1>4, <1>7 DEF DequeueLook, DequeueLoad, DequeueClaim, DequeueRetry, Goto, PosTypes
<1> QED BY <1>2, <1>3, <1>5, <1>6, <1>7 DEF QueueStep, QueueWork

(* A step of a client in the ring leaves what the worker has.              *)
LEMMA ClientInQueue ==
  ASSUME DInv, WorkerHas, NEW t \in Clients, RingStep(t), UNCHANGED worker
  PROVE  WorkerHas'
<1>0. t \in Threads /\ Worker \in Threads /\ t # Worker /\ DataTypes
  BY AsyncAssumption DEF Clients, DInv
<1>1. at'[Worker] = at[Worker]
  BY <1>0, OthersStand DEF DInv
<1>2. got'[Worker] = got[Worker]
  BY <1>0 DEF RingStep, QueueWork, EnqueueCall, DequeueBegin, QueueReturn, EnqueueLook,
              EnqueueLoad, EnqueueClaim, EnqueueRetry, EnqueueWrite, EnqueuePublish,
              DequeueLook, DequeueLoad, DequeueClaim, DequeueRetry, DequeueRead,
              DequeueRelease, DataTypes
<1> QED BY <1>1, <1>2 DEF WorkerHas

LInv == ClientTypes /\ WorkerTypes /\ WorkerHas

LEMMA ClientKeepsTypes ==
  ASSUME DInv, CallTypes, LInv, NEW t \in Clients, ClientNext(t) \/ destroy \/ join
  PROVE  LInv'
<1> USE DEF LInv
<1>0. Clients \subseteq Threads /\ Owner \in Clients
  BY AsyncAssumption DEF Clients
<1>1. WorkerTypes'
  <2>1. UNCHANGED <<worker, sink, flush_requested, terminate_requested, delivered, flushed,
                    failed, faults>>
    BY DEF ClientNext, log, flush, push_msg_ok, push_msg_full, wait_load, wait_compare,
           QueueStep, destroy, join, avars, workervars, sinkvars, histvars
  <2> QED BY <2>1 DEF WorkerTypes
<1>2. ClientTypes'
  <2> USE DEF ClientTypes, CallStates
  <2>1. CASE \E lvl \in MsgLevels : log(t, lvl)
    BY <2>1 DEF log, Call, histvars
  <2>2. CASE flush(t) \/ destroy \/ join
    BY <1>0, <2>2 DEF flush, destroy, join, Call, histvars
  <2>3. CASE push_msg_ok(t) \/ push_msg_full(t)
    BY <2>3 DEF push_msg_ok, push_msg_full, Pushed, Call, histvars
  <2>4. CASE wait_load(t)
    BY <2>4 DEF wait_load, Call, histvars, DInv, QInv, PosTypes
  <2>5. CASE wait_compare(t)
    BY <2>5 DEF wait_compare, Call, histvars
  <2>6. CASE QueueStep(t)
    BY <2>6 DEF QueueStep, avars
  <2> QED BY <2>1, <2>2, <2>3, <2>4, <2>5, <2>6 DEF ClientNext
<1>3. WorkerHas'
  <2>0. UNCHANGED worker
    BY DEF ClientNext, log, flush, push_msg_ok, push_msg_full, wait_load, wait_compare,
           QueueStep, destroy, join, avars, workervars
  <2>1. CASE \E lvl \in MsgLevels : log(t, lvl)
    <3>1. PICK lvl \in MsgLevels : log(t, lvl)
      BY <2>1
    <3>2. /\ calls'[t] \in 1..Budget /\ at[t] = "idle"
          /\ EnqueueCall(t, Message("log", t, calls'[t], lvl))
      BY <3>1, AsyncAssumption DEF log, Free, CallTypes, EnqueueBegin
    <3>3. Message("log", t, calls'[t], lvl) \in Items
      BY <3>2, LogItems
    <3>4. RingStep(t)
      BY <3>2, <3>3 DEF RingStep
    <3> QED BY <2>0, <3>4, ClientInQueue
  <2>2. CASE flush(t) \/ push_msg_ok(t) \/ QueueStep(t)
    <3>1. RingStep(t)
      BY <2>2, LogItems DEF flush, push_msg_ok, Pushed, QueueStep, EnqueueBegin, RingStep,
                            Results
    <3> QED BY <2>0, <3>1, ClientInQueue
  <2>3. CASE push_msg_full(t)
    <3>1. item[t] \in Items
      BY <1>0, <2>3 DEF push_msg_full, DInv, HasItem
    <3>2. RingStep(t)
      BY <2>3, <3>1, LogItems DEF push_msg_full, Pushed, RingStep, Results
    <3> QED BY <2>0, <3>2, ClientInQueue
  <2>4. CASE destroy
    <3>1. RingStep(Owner)
      BY <2>4, LogItems DEF destroy, EnqueueBegin, RingStep
    <3> QED BY <1>0, <2>0, <3>1, ClientInQueue
  <2>5. CASE wait_load(t) \/ wait_compare(t) \/ join
    BY <2>0, <2>5 DEF wait_load, wait_compare, join, mqvars, WorkerHas
  <2> QED BY <2>1, <2>2, <2>3, <2>4, <2>5 DEF ClientNext
<1> QED BY <1>1, <1>2, <1>3

LEMMA WorkerKeepsTypes ==
  ASSUME DInv, LInv, WorkerNext PROVE LInv'
<1> USE DEF LInv
<1>0. /\ Worker \in Threads /\ Sinks \in Nat \ {0} /\ Faults \in Nat
      /\ at \in [Threads -> {"idle"} \cup EnqueueAt \cup DequeueAt \cup Results]
      /\ got \in [Threads -> Items \cup {NoItem}]
  BY AsyncAssumption DEF DInv, QInv, PosTypes, DataTypes
<1>1. ClientTypes'
  <2>1. UNCHANGED <<policy, call, first_pos, discarded>>
    BY DEF WorkerNext, process_begin, process_flush, process_terminate, process_log, sink_log,
           process_empty, sink_flush, sink_throws, QueueStep, avars, callvars, histvars
  <2> QED BY <2>1 DEF ClientTypes
<1>2. CASE process_begin \/ QueueStep(Worker)
  <2>1. WorkerTypes'
    BY <1>2 DEF process_begin, QueueStep, avars, WorkerTypes
  <2>2. CASE process_begin
    <3>1. at'[Worker] = "d_seq" /\ worker' = "loop"
      BY <1>0, <2>2 DEF process_begin, DequeueBegin, Goto, avars
    <3> QED BY <1>1, <2>1, <3>1 DEF WorkerHas
  <2> QED BY <1>1, <1>2, <2>1, <2>2, WorkerInQueue
<1>3. ASSUME at[Worker] \in Results, QueueReturn(Worker)
      PROVE  at'[Worker] = "idle" /\ got' = got /\ worker = "loop"
  BY <1>0, <1>3 DEF QueueReturn, Goto, WorkerHas, Results
<1>4. CASE process_flush \/ process_terminate \/ process_log
  <2>1. /\ at[Worker] = "d_ok" /\ QueueReturn(Worker) /\ got[Worker] \in Items
        /\ at'[Worker] = "idle" /\ got' = got /\ worker = "loop"
    BY <1>3, <1>4 DEF process_flush, process_terminate, process_log, Process, Results, WorkerHas
  <2>2. WorkerTypes'
    <3>1. worker' \in {"loop", "sinks"} /\ sink' \in 1..Sinks
      BY <1>0, <1>4, <2>1 DEF process_flush, process_terminate, process_log, WorkerTypes
    <3>2. flush_requested' \in BOOLEAN /\ terminate_requested' \in BOOLEAN
      BY <1>4, Zenon DEF process_flush, process_terminate, process_log, WorkerTypes
    <3>3. UNCHANGED <<delivered, flushed, failed, faults>>
      BY <1>4 DEF process_flush, process_terminate, process_log, sinkvars, histvars
    <3> QED BY <3>1, <3>2, <3>3 DEF WorkerTypes
  <2>3. worker' = "sinks" => got[Worker] \in LogMessages
    BY <1>4, <2>1, LogByType DEF process_flush, process_terminate, process_log, Process
  <2> QED BY <1>1, <2>1, <2>2, <2>3 DEF WorkerHas
<1>5. CASE process_empty
  <2>1. at'[Worker] = "idle" /\ got' = got /\ worker' # "sinks"
    BY <1>3, <1>5 DEF process_empty, Idle, Results
  <2>2. WorkerTypes'
    BY <1>0, <1>5 DEF process_empty, Idle, WorkerTypes, sinkvars, histvars
  <2> QED BY <1>1, <2>1, <2>2 DEF WorkerHas
<1>6. CASE sink_log
  <2>1. got[Worker] \in LogMessages /\ UNCHANGED <<at, got>> /\ worker = "sinks"
    BY <1>6 DEF sink_log, mqvars, WorkerHas
  <2>2. delivered' \in [1..Sinks -> Seq(LogMessages)]
    BY <1>6, <2>1 DEF sink_log, WorkerTypes
  <2>3. worker' \in {"loop", "sinks"} /\ sink' \in 1..Sinks
    BY <1>0, <1>6, <2>1 DEF sink_log, Advance, WorkerTypes
  <2>4. WorkerTypes'
    BY <1>6, <2>2, <2>3 DEF sink_log, WorkerTypes, histvars
  <2> QED BY <1>1, <2>1, <2>3, <2>4 DEF WorkerHas
<1>7. CASE sink_flush
  <2>1. UNCHANGED <<at, got>> /\ at[Worker] = "idle"
    BY <1>7 DEF sink_flush, mqvars, WorkerHas
  <2>2. Len(delivered[sink]) \in Nat /\ sink \in 1..Sinks
    BY DEF WorkerTypes
  <2>3. flushed' \in [1..Sinks -> Nat]
    BY <1>7, <2>2 DEF sink_flush, WorkerTypes
  <2>4. /\ worker' \in {"loop", "flushing", "done"} /\ sink' \in 1..Sinks
        /\ flush_requested' \in BOOLEAN
    <3>1. CASE sink < Sinks
      BY <1>0, <1>7, <2>2, <3>1 DEF sink_flush, WorkerTypes
    <3>2. CASE ~(sink < Sinks)
      <4>1. Idle /\ flush_requested' = FALSE
        BY <1>7, <3>2, Zenon DEF sink_flush
      <4>2. worker' \in {"loop", "done"} /\ sink' = 1
        BY <4>1, Zenon DEF Idle
      <4>3. sink' \in 1..Sinks
        BY <1>0, <4>2
      <4>4. flush_requested' \in BOOLEAN
        BY <4>1, Zenon
      <4> QED BY <4>2, <4>3, <4>4, Zenon
    <3> QED BY <3>1, <3>2
  <2>5. WorkerTypes'
    BY <1>7, <2>3, <2>4 DEF sink_flush, WorkerTypes, histvars
  <2> QED BY <1>1, <2>1, <2>4, <2>5 DEF WorkerHas
<1>8. CASE sink_throws
  <2>1. UNCHANGED <<at, got>> /\ at[Worker] = "idle"
    BY <1>8 DEF sink_throws, mqvars, WorkerHas
  <2>2. failed' \subseteq LogMessages
    BY <1>8 DEF sink_throws, WorkerTypes, WorkerHas
  <2>3. WorkerTypes'
    BY <1>0, <1>8, <2>2 DEF sink_throws, WorkerTypes, sinkvars
  <2> QED BY <1>1, <1>8, <2>1, <2>3 DEF sink_throws, WorkerHas
<1> QED BY <1>2, <1>4, <1>5, <1>6, <1>7, <1>8 DEF WorkerNext

LEMMA LoggerInitial == ASSUME AsyncInit PROVE LInv
<1>1. ClientTypes
  BY DEF AsyncInit, ClientTypes, CallStates
<1>2. /\ delivered \in [1..Sinks -> Seq(LogMessages)] /\ flushed \in [1..Sinks -> Nat]
      /\ sink \in 1..Sinks /\ faults \in 0..Faults
  BY AsyncAssumption DEF AsyncInit
<1>3. WorkerTypes
  BY <1>2 DEF AsyncInit, WorkerTypes
<1>4. WorkerHas
  BY AsyncAssumption DEF AsyncInit, QueueInit, WorkerHas
<1> QED BY <1>1, <1>3, <1>4 DEF LInv

LEMMA LoggerStepKeeps == ASSUME DInv, CallTypes, LInv, [AsyncNext]_vars PROVE LInv'
<1>1. CASE UNCHANGED vars
  BY <1>1 DEF vars, mqvars, avars, LInv, ClientTypes, WorkerTypes, WorkerHas
<1>2. Owner \in Clients
  BY AsyncAssumption
<1> QED BY <1>1, <1>2, ClientKeepsTypes, WorkerKeepsTypes DEF AsyncNext

(* For every number of threads, cells and sinks the variables of the       *)
(* logger and of its queue keep their types: in particular the sinks are   *)
(* only ever given what log() accepted.                                    *)
THEOREM LoggerTypeCorrect == AsyncSpec => []AsyncTypeOK
<1>1. AsyncInit => LInv
  BY LoggerInitial
<1>2. DInv /\ CallTypes /\ LInv /\ [AsyncNext]_vars => LInv'
  BY LoggerStepKeeps
<1>3. DInv /\ CallTypes /\ LInv => AsyncTypeOK
  BY DEF DInv, QInv, PosTypes, DataTypes, CallTypes, LInv, ClientTypes, CallStates,
         WorkerTypes, AsyncTypeOK, QueueTypeOK
<1> QED BY <1>1, <1>2, <1>3, AInvAlways, PTL DEF AsyncSpec

-----------------------------------------------------------------------------
(* The invariant, on top of DInv, CallTypes and LInv of the ring.          *)

(* Clients only enqueue, and only inside a call that does; the worker only *)
(* dequeues.                                                               *)
Pushing == {"log", "log_flush", "flush", "destroy"}
Ending == {"destroy", "join", "gone"}

Places ==
    /\ at[Worker] \in {"idle", "d_ok", "d_empty"} \cup DequeueAt
    /\ \A t \in Clients : /\ call[t] \in Pushing => at[t] \in {"e_ok", "e_full"} \cup EnqueueAt
                          /\ call[t] \notin Pushing => at[t] = "idle"

(* A thread whose item has no position yet.                                *)
Unclaimed(t) == at[t] \in {"e_seq", "e_load", "e_cas", "e_full"}

(* No log message has two positions: a client numbers its messages.        *)
Numbered ==
    /\ \A p \in 1..Len(claimed) : claimed[p].type = "log" =>
          claimed[p].n <= calls[claimed[p].from]
    /\ \A t \in Clients : (Unclaimed(t) /\ item[t].type = "log") =>
          /\ item[t].from = t /\ item[t].n = calls[t]
          /\ \A p \in 1..Len(claimed) : claimed[p] # item[t]
    /\ \A p, q \in 1..Len(claimed) : (claimed[p].type = "log" /\ claimed[p] = claimed[q]) => p = q

(* The request to terminate is the last message: only the destructor sends *)
(* it, when no other client is inside a call.                              *)
Last ==
    /\ \A t \in Clients : call[t] \in Ending => t = Owner
    /\ call[Owner] \in Ending => \A t \in Clients : t # Owner => call[t] = "none"
    /\ \A t \in Clients : Unclaimed(t) => (item[t].type = "terminate" <=> call[t] = "destroy")
    /\ \A p \in 1..Len(claimed) : claimed[p].type = "terminate" =>
          p = Len(claimed) /\ call[Owner] \in Ending /\ ~ Unclaimed(Owner)

(* A client that waits in flush() knows a position before enqueue_pos,     *)
(* unless a message was discarded.                                         *)
Waits == \A t \in Clients :
    /\ at[t] \in {"e_write", "e_publish", "e_ok"} => pos[t] < enqueue_pos
    /\ (call[t] \in {"wait", "wait_last"} /\ ~ discarded) => pos[t] < enqueue_pos
    /\ first_pos[t] <= dequeue_pos

(* Between the exchange and the last sink the worker holds the message of  *)
(* the last position taken.                                                *)
Holding == at[Worker] \in {"d_read", "d_release", "d_ok"} \/ worker = "sinks"

Holds ==
    /\ Holding => pos[Worker] + 1 = dequeue_pos
    /\ (at[Worker] \in {"d_release", "d_ok"} \/ worker = "sinks") =>
          got[Worker] = claimed[dequeue_pos]
    /\ worker = "sinks" => got[Worker].type = "log"

(* The positions the worker is done with as far as sink s is concerned.    *)
Passed(s) ==
    IF at[Worker] \in {"d_read", "d_release", "d_ok"} \/ (worker = "sinks" /\ sink <= s)
    THEN dequeue_pos - 1 ELSE dequeue_pos

InOrderTo(s, n) == \A i \in 1..Len(delivered[s]) : \E p \in 1..n :
    /\ Wanted(s, p) /\ delivered[s][i] = claimed[p]
    /\ \A j \in 1..(i - 1) : /\ delivered[s][j] # claimed[p]
                             /\ \E q \in 1..(p - 1) : delivered[s][j] = claimed[q]

Arrived == \A s \in 1..Sinks : AllDue(s, Passed(s)) /\ InOrderTo(s, Passed(s))

(* After the request to terminate nothing is left in the queue, and the    *)
(* worker ends when all sinks are flushed.                                 *)
Drained ==
    /\ terminate_requested =>
          /\ dequeue_pos = enqueue_pos /\ enqueue_pos >= 1 /\ ~ Holding
          /\ claimed[enqueue_pos].type = "terminate"
    /\ worker = "done" => terminate_requested /\ ~ flush_requested

AllFlushed ==
    /\ worker = "flushing" => \A s \in 1..Sinks : s < sink => flushed[s] = Len(delivered[s])
    /\ (terminate_requested /\ ~ flush_requested) =>
          \A s \in 1..Sinks : flushed[s] = Len(delivered[s])

ClientInv == Places /\ Numbered /\ Last /\ Waits
WorkerInv == Holds /\ Arrived /\ Drained /\ AllFlushed

-----------------------------------------------------------------------------
LEMMA Parties ==
  /\ Worker \in Threads /\ Worker \notin Clients /\ Owner \in Clients /\ Owner \in Threads
  /\ \A t \in Clients : t \in Threads /\ t # Worker
  /\ Sinks \in Nat /\ Sinks >= 1 /\ Budget \in Nat
BY AsyncAssumption DEF Clients

(* What clients do with the queue.                                         *)
EnqueueWork(t) ==
    \/ EnqueueLook(t) \/ EnqueueLoad(t) \/ EnqueueClaim(t) \/ EnqueueRetry(t)
    \/ EnqueueWrite(t) \/ EnqueuePublish(t)

DequeueWork(t) ==
    \/ DequeueLook(t) \/ DequeueLoad(t) \/ DequeueClaim(t) \/ DequeueRetry(t)
    \/ DequeueRead(t) \/ DequeueRelease(t)

LEMMA ClientsEnqueue ==
  ASSUME Places, NEW t \in Clients, QueueWork(t) PROVE EnqueueWork(t)
<1>1. at[t] \notin DequeueAt
  BY DEF Places, EnqueueAt, DequeueAt
<1> QED
  BY <1>1 DEF QueueWork, EnqueueWork, DequeueLook, DequeueLoad, DequeueClaim, DequeueRetry,
              DequeueRead, DequeueRelease, DequeueAt

LEMMA WorkerDequeues == ASSUME Places, QueueWork(Worker) PROVE DequeueWork(Worker)
<1>1. at[Worker] \notin EnqueueAt
  BY DEF Places, EnqueueAt, DequeueAt
<1> QED
  BY <1>1 DEF QueueWork, DequeueWork, EnqueueLook, EnqueueLoad, EnqueueClaim, EnqueueRetry,
              EnqueueWrite, EnqueuePublish, EnqueueAt

(* A client takes the next position with its item, or the positions stay.  *)
Claims(t) ==
    /\ at[t] = "e_cas" /\ at'[t] = "e_write" /\ pos[t] = enqueue_pos
    /\ enqueue_pos' = enqueue_pos + 1 /\ claimed' = Append(claimed, item[t])
    /\ UNCHANGED <<pos, item>>
SamePositions == UNCHANGED <<enqueue_pos, claimed>>

(* What a step of client t leaves alone.                                   *)
ClientFrame(t) ==
    /\ UNCHANGED <<workervars, sinkvars, failed, dequeue_pos>>
    /\ \A u \in Threads : u # t => /\ at'[u] = at[u] /\ pos'[u] = pos[u]
                                   /\ item'[u] = item[u] /\ got'[u] = got[u]
    /\ Claims(t) \/ SamePositions

LEMMA ClientRing ==
  ASSUME DInv, NEW t \in Clients, UNCHANGED <<workervars, sinkvars, failed>>,
         (\E x : EnqueueCall(t, x)) \/ QueueReturn(t) \/ EnqueueWork(t) \/ UNCHANGED mqvars
  PROVE  ClientFrame(t)
<1>0. /\ t \in Threads /\ DOMAIN at = Threads /\ DOMAIN pos = Threads /\ DOMAIN item = Threads
      /\ DOMAIN got = Threads
  BY Parties DEF DInv, QInv, PosTypes, DataTypes
<1>1. UNCHANGED dequeue_pos
  BY DEF EnqueueCall, QueueReturn, EnqueueWork, EnqueueLook, EnqueueLoad, EnqueueClaim,
         EnqueueRetry, EnqueueWrite, EnqueuePublish, mqvars
<1>2. \A u \in Threads : u # t => /\ at'[u] = at[u] /\ pos'[u] = pos[u]
                                  /\ item'[u] = item[u] /\ got'[u] = got[u]
  <2>1. CASE \E x : EnqueueCall(t, x)
    BY <1>0, <2>1 DEF EnqueueCall, Goto
  <2>2. CASE QueueReturn(t) \/ EnqueueLook(t) \/ EnqueueLoad(t) \/ EnqueueClaim(t)
    BY <1>0, <2>2 DEF QueueReturn, EnqueueLook, EnqueueLoad, EnqueueClaim, Goto
  <2>3. CASE EnqueueRetry(t) \/ EnqueueWrite(t) \/ EnqueuePublish(t)
    BY <1>0, <2>3 DEF EnqueueRetry, EnqueueWrite, EnqueuePublish, Goto
  <2>4. CASE UNCHANGED mqvars
    BY <2>4 DEF mqvars
  <2> QED BY <2>1, <2>2, <2>3, <2>4 DEF EnqueueWork
<1>3. Claims(t) \/ SamePositions
  <2>1. CASE EnqueueClaim(t)
    BY <1>0, <2>1 DEF EnqueueClaim, Goto, Claims
  <2> QED
    BY <2>1 DEF EnqueueCall, QueueReturn, EnqueueWork, EnqueueLook, EnqueueLoad,
                EnqueueRetry, EnqueueWrite, EnqueuePublish, mqvars, SamePositions
<1> QED BY <1>1, <1>2, <1>3 DEF ClientFrame

LEMMA ClientActs ==
  ASSUME DInv, Places, NEW t \in Clients,
         ClientNext(t) \/ (t = Owner /\ (destroy \/ join))
  PROVE  ClientFrame(t)
<1>1. UNCHANGED <<workervars, sinkvars, failed>>
  BY DEF ClientNext, log, flush, push_msg_ok, push_msg_full, wait_load, wait_compare,
         QueueStep, destroy, join, avars, workervars, sinkvars, histvars
<1>2. (\E x : EnqueueCall(t, x)) \/ QueueReturn(t) \/ EnqueueWork(t) \/ UNCHANGED mqvars
  BY ClientsEnqueue DEF ClientNext, log, flush, push_msg_ok, push_msg_full, Pushed, wait_load,
         wait_compare, QueueStep, destroy, join, EnqueueBegin
<1> QED BY <1>1, <1>2, ClientRing

(* Items keep their positions.                                             *)
LEMMA ClaimedGrows ==
  ASSUME DInv, NEW t \in Clients, ClientFrame(t)
  PROVE  /\ Len(claimed) = enqueue_pos /\ enqueue_pos \in Nat /\ dequeue_pos \in Nat
         /\ dequeue_pos <= enqueue_pos
         /\ Len(claimed') = enqueue_pos' /\ enqueue_pos' \in Nat /\ enqueue_pos' >= enqueue_pos
         /\ \A p \in 1..enqueue_pos : claimed'[p] = claimed[p]
         /\ Claims(t) => item[t] \in Items /\ claimed'[enqueue_pos + 1] = item[t]
<1>1. /\ Len(claimed) = enqueue_pos /\ enqueue_pos \in Nat /\ dequeue_pos \in Nat
      /\ dequeue_pos <= enqueue_pos /\ claimed \in Seq(Items)
  BY DEF DInv, DataTypes, QInv, PosTypes, Ring
<1>2. CASE SamePositions
  <2>1. UNCHANGED <<enqueue_pos, claimed>>
    BY <1>2 DEF SamePositions
  <2>2. ~ Claims(t)
    BY <1>1, <2>1 DEF Claims
  <2> QED BY <1>1, <2>1, <2>2
<1>3. CASE Claims(t)
  <2>1. item[t] \in Items
    BY <1>3, Parties DEF Claims, DInv, HasItem, EnqueueAt
  <2>2. /\ Len(claimed') = enqueue_pos + 1 /\ claimed'[enqueue_pos + 1] = item[t]
        /\ \A p \in 1..enqueue_pos : claimed'[p] = claimed[p]
    BY <1>1, <1>3, <2>1 DEF Claims
  <2>3. enqueue_pos' = enqueue_pos + 1
    BY <1>3 DEF Claims
  <2> QED BY <1>1, <2>1, <2>2, <2>3
<1> QED BY <1>2, <1>3 DEF ClientFrame

(* What sinks were given and are due does not depend on later positions.   *)
LEMMA SameToSinks ==
  ASSUME UNCHANGED <<delivered, failed>>, NEW s, NEW n \in Nat,
         \A p \in 1..n : claimed'[p] = claimed[p]
  PROVE  /\ AllDue(s, n) => AllDue(s, n)'
         /\ InOrderTo(s, n) => InOrderTo(s, n)'
<1>1. \A p \in 1..n : Wanted(s, p)' <=> Wanted(s, p)
  BY DEF Wanted
<1>2. ASSUME AllDue(s, n) PROVE AllDue(s, n)'
  BY <1>1, <1>2 DEF AllDue
<1>3. ASSUME InOrderTo(s, n) PROVE InOrderTo(s, n)'
  <2>0. delivered' = delivered
    OBVIOUS
  <2> SUFFICES ASSUME NEW i \in 1..Len(delivered'[s])
               PROVE  \E p \in 1..n :
                        /\ Wanted(s, p)' /\ delivered'[s][i] = claimed'[p]
                        /\ \A j \in 1..(i - 1) :
                             /\ delivered'[s][j] # claimed'[p]
                             /\ \E q \in 1..(p - 1) : delivered'[s][j] = claimed'[q]
    BY Zenon DEF InOrderTo
  <2>1. PICK p \in 1..n :
          /\ Wanted(s, p) /\ delivered[s][i] = claimed[p]
          /\ \A j \in 1..(i - 1) : /\ delivered[s][j] # claimed[p]
                                   /\ \E q \in 1..(p - 1) : delivered[s][j] = claimed[q]
    BY <1>3, <2>0 DEF InOrderTo
  <2>2. \A q \in 1..(p - 1) : claimed'[q] = claimed[q]
    OBVIOUS
  <2> QED BY <1>1, <2>0, <2>1, <2>2
<1> QED BY <1>2, <1>3

(* Once a request to terminate has a position, no client takes another.    *)
LEMMA NoneAfterTerminate ==
  ASSUME DInv, Places, Last, NEW t \in Clients, at[t] = "e_cas"
  PROVE  \A p \in 1..Len(claimed) : claimed[p].type # "terminate"
<1>1. Unclaimed(t) /\ call[t] \in Pushing /\ call[t] # "none"
  BY DEF Unclaimed, Places, Pushing
<1> QED BY <1>1 DEF Last

LEMMA ClientKeepsWorker ==
  ASSUME DInv, LInv, Places, Last, Holds, Arrived, Drained, AllFlushed,
         NEW t \in Clients, ClientFrame(t)
  PROVE  Holds' /\ Arrived' /\ Drained' /\ AllFlushed'
<1>0. /\ UNCHANGED <<worker, sink, flush_requested, terminate_requested, delivered, flushed,
                     failed, dequeue_pos>>
      /\ at'[Worker] = at[Worker] /\ pos'[Worker] = pos[Worker] /\ got'[Worker] = got[Worker]
  BY Parties DEF ClientFrame, workervars, sinkvars
<1>1. /\ Len(claimed) = enqueue_pos /\ enqueue_pos \in Nat /\ dequeue_pos \in Nat
      /\ dequeue_pos <= enqueue_pos
      /\ Len(claimed') = enqueue_pos' /\ enqueue_pos' \in Nat /\ enqueue_pos' >= enqueue_pos
      /\ \A p \in 1..enqueue_pos : claimed'[p] = claimed[p]
  BY ClaimedGrows
<1>2. Holding' <=> Holding
  BY <1>0 DEF Holding
<1>3. Holding => dequeue_pos >= 1
  BY Parties, <1>1 DEF Holds, DInv, QInv, PosTypes
<1>4. Holds'
  <2>1. Holding => claimed'[dequeue_pos] = claimed[dequeue_pos]
    BY <1>1, <1>3
  <2> QED BY <1>0, <1>2, <2>1 DEF Holds, Holding
<1>5. Arrived'
  <2> SUFFICES ASSUME NEW s \in 1..Sinks
               PROVE  AllDue(s, Passed(s))' /\ InOrderTo(s, Passed(s))'
    BY <1>0 DEF Arrived
  <2>1. PICK n : n = Passed(s)
    OBVIOUS
  <2>2. n \in Nat /\ n <= enqueue_pos
    BY <1>1, <1>3, <2>1 DEF Passed, Holding
  <2>3. Passed(s)' = n
    BY <1>0, <2>1 DEF Passed
  <2>4. AllDue(s, n) /\ InOrderTo(s, n)
    BY <2>1 DEF Arrived
  <2>5. \A p \in 1..n : claimed'[p] = claimed[p]
    BY <1>1, <2>2
  <2>6. AllDue(s, n)' /\ InOrderTo(s, n)'
    BY <1>0, <2>2, <2>4, <2>5, SameToSinks
  <2> QED BY <2>3, <2>6 DEF AllDue, InOrderTo
<1>6. Drained'
  <2>1. ASSUME terminate_requested
        PROVE  /\ dequeue_pos' = enqueue_pos' /\ enqueue_pos' >= 1 /\ ~ Holding'
               /\ claimed'[enqueue_pos'].type = "terminate"
    <3>1. dequeue_pos = enqueue_pos /\ enqueue_pos >= 1 /\ ~ Holding
          /\ claimed[enqueue_pos].type = "terminate"
      BY <2>1 DEF Drained
    <3>2. ~ Claims(t)
      BY <1>1, <3>1, NoneAfterTerminate DEF Claims
    <3>3. enqueue_pos' = enqueue_pos /\ claimed' = claimed
      BY <3>2 DEF ClientFrame, SamePositions
    <3> QED BY <1>0, <1>2, <3>1, <3>3
  <2> QED BY <1>0, <2>1 DEF Drained
<1>7. AllFlushed'
  BY <1>0 DEF AllFlushed
<1> QED BY <1>4, <1>5, <1>6, <1>7

-----------------------------------------------------------------------------
(* The clients.                                                            *)

OthersCalls(t) == \A u \in Clients : u # t =>
    call'[u] = call[u] /\ calls'[u] = calls[u] /\ first_pos'[u] = first_pos[u]

(* A client enters enqueue, perhaps again, with an item of its own.        *)
LEMMA BeginKeeps ==
  ASSUME DInv, CallTypes, ClientInv, NEW t \in Clients, ClientFrame(t), SamePositions,
         OthersCalls(t), NEW x \in Items,
         at'[t] = "e_seq" /\ item'[t] = x /\ call'[t] \in Pushing,
         calls'[t] \in Nat /\ calls'[t] >= calls[t],
         first_pos'[t] = first_pos[t], discarded => discarded',
         x.type = "log" => /\ x.from = t /\ x.n = calls'[t]
                           /\ \A p \in 1..Len(claimed) : claimed[p] # x,
         x.type = "terminate" <=> call'[t] = "destroy",
         call[Owner] \in Ending => t = Owner,
         call'[t] = "destroy" => t = Owner /\ \A u \in Clients : u # t => call[u] = "none",
         \A p \in 1..Len(claimed) : claimed[p].type # "terminate"
  PROVE  ClientInv'
<1>0. /\ \A u \in Threads : u # t => /\ at'[u] = at[u] /\ pos'[u] = pos[u] /\ item'[u] = item[u]
      /\ enqueue_pos' = enqueue_pos /\ claimed' = claimed /\ dequeue_pos' = dequeue_pos
  BY DEF ClientFrame, SamePositions
<1>1. \A u \in Clients : u # t => /\ at'[u] = at[u] /\ pos'[u] = pos[u] /\ item'[u] = item[u]
                                  /\ Unclaimed(u)' <=> Unclaimed(u)
  BY <1>0, Parties DEF Unclaimed
<1>2. Places'
  <2>1. at'[Worker] = at[Worker]
    BY <1>0, Parties
  <2>2. call'[t] \in Pushing => at'[t] \in {"e_ok", "e_full"} \cup EnqueueAt
    BY DEF EnqueueAt
  <2> QED BY <1>1, <2>1, <2>2 DEF ClientInv, Places, OthersCalls
<1>3. Numbered'
  <2>1. \A u \in Clients : calls[u] \in Nat /\ calls'[u] \in Nat /\ calls'[u] >= calls[u]
    BY Parties DEF CallTypes, OthersCalls
  <2>2. \A p \in 1..Len(claimed) : claimed[p] \in Items
    BY DEF DInv, DataTypes
  <2>3. \A m \in Items : m.type = "log" => m.from \in Clients /\ m.n \in Nat
    <3>1. \A m \in LogMessages : m.from \in Clients /\ m.n \in Nat
      BY Parties DEF LogMessages, Message
    <3> QED BY <3>1, LogByType
  <2>4. \A p \in 1..Len(claimed') : claimed'[p].type = "log" =>
           claimed'[p].n <= calls'[claimed'[p].from]
    <3> SUFFICES ASSUME NEW p \in 1..Len(claimed), claimed[p].type = "log"
                 PROVE  claimed[p].n <= calls'[claimed[p].from]
      BY <1>0
    <3>1. /\ claimed[p].n \in Nat /\ claimed[p].from \in Clients
          /\ claimed[p].n <= calls[claimed[p].from]
      BY <2>2, <2>3 DEF ClientInv, Numbered
    <3> QED BY <2>1, <3>1
  <2>5. \A u \in Clients : (Unclaimed(u)' /\ item'[u].type = "log") =>
          /\ item'[u].from = u /\ item'[u].n = calls'[u]
          /\ \A p \in 1..Len(claimed') : claimed'[p] # item'[u]
    <3> SUFFICES ASSUME NEW u \in Clients, Unclaimed(u)', item'[u].type = "log"
                 PROVE  /\ item'[u].from = u /\ item'[u].n = calls'[u]
                        /\ \A p \in 1..Len(claimed) : claimed[p] # item'[u]
      BY <1>0
    <3>1. CASE u = t
      BY <3>1
    <3>2. CASE u # t
      BY <1>1, <3>2 DEF ClientInv, Numbered, OthersCalls
    <3> QED BY <3>1, <3>2
  <2>6. \A p, q \in 1..Len(claimed') :
           (claimed'[p].type = "log" /\ claimed'[p] = claimed'[q]) => p = q
    BY <1>0 DEF ClientInv, Numbered
  <2> QED BY <2>4, <2>5, <2>6 DEF Numbered
<1>4. Last'
  <2>1. \A u \in Clients : call'[u] \in Ending => u = Owner
    BY DEF ClientInv, Last, OthersCalls, Pushing, Ending
  <2>2. call'[Owner] \in Ending => \A u \in Clients : u # Owner => call'[u] = "none"
    BY Parties DEF ClientInv, Last, OthersCalls, Pushing, Ending
  <2>3. \A u \in Clients : Unclaimed(u)' => (item'[u].type = "terminate" <=> call'[u] = "destroy")
    <3> TAKE u \in Clients
    <3>1. CASE u = t
      BY <3>1
    <3>2. CASE u # t
      BY <1>1, <3>2 DEF ClientInv, Last, OthersCalls
    <3> QED BY <3>1, <3>2
  <2>4. \A p \in 1..Len(claimed') : claimed'[p].type # "terminate"
    BY <1>0
  <2> QED BY <2>1, <2>2, <2>3, <2>4 DEF Last
<1>5. Waits'
  <2> SUFFICES ASSUME NEW u \in Clients
               PROVE  /\ at'[u] \in {"e_write", "e_publish", "e_ok"} => pos'[u] < enqueue_pos'
                      /\ (call'[u] \in {"wait", "wait_last"} /\ ~ discarded') => pos'[u] < enqueue_pos'
                      /\ first_pos'[u] <= dequeue_pos'
    BY DEF Waits
  <2>1. CASE u = t
    BY <1>0, <2>1 DEF ClientInv, Waits, Pushing
  <2>2. CASE u # t
    BY <1>0, <1>1, <2>2 DEF ClientInv, Waits, OthersCalls
  <2> QED BY <2>1, <2>2
<1> QED BY <1>2, <1>3, <1>4, <1>5 DEF ClientInv

(* A client outside enqueue, after the step, that keeps its numbers.       *)
LEMMA RestKeeps ==
  ASSUME DInv, ClientInv, NEW t \in Clients, ClientFrame(t), SamePositions, OthersCalls(t),
         at'[t] = "idle" /\ pos'[t] = pos[t], call'[t] \notin Pushing, calls'[t] = calls[t],
         first_pos'[t] <= dequeue_pos, discarded => discarded',
         call'[t] \in Ending <=> call[t] \in Ending,
         t # Owner => (call[t] = "none" => call'[t] = "none"),
         (call'[t] \in {"wait", "wait_last"} /\ ~ discarded') => pos[t] < enqueue_pos
  PROVE  ClientInv'
<1>0. /\ \A u \in Threads : u # t => /\ at'[u] = at[u] /\ pos'[u] = pos[u] /\ item'[u] = item[u]
      /\ enqueue_pos' = enqueue_pos /\ claimed' = claimed /\ dequeue_pos' = dequeue_pos
  BY DEF ClientFrame, SamePositions
<1>1. \A u \in Clients : u # t => /\ at'[u] = at[u] /\ pos'[u] = pos[u] /\ item'[u] = item[u]
                                  /\ Unclaimed(u)' <=> Unclaimed(u)
  BY <1>0, Parties DEF Unclaimed
<1>2. ~ Unclaimed(t)'
  BY DEF Unclaimed
<1>3. Places'
  <2>1. at'[Worker] = at[Worker]
    BY <1>0, Parties
  <2> QED BY <1>1, <2>1 DEF ClientInv, Places, OthersCalls
<1>4. \A u \in Clients : calls'[u] = calls[u]
  BY DEF OthersCalls
<1>5. Numbered'
  <2>1. \A p \in 1..Len(claimed) : claimed[p].type = "log" => claimed[p].from \in Clients
    <3>1. \A p \in 1..Len(claimed) : claimed[p] \in Items
      BY DEF DInv, DataTypes
    <3>2. \A m \in LogMessages : m.from \in Clients
      BY DEF LogMessages, Message
    <3> QED BY <3>1, <3>2, LogByType
  <2>2. \A p \in 1..Len(claimed') : claimed'[p].type = "log" =>
           claimed'[p].n <= calls'[claimed'[p].from]
    BY <1>0, <1>4, <2>1 DEF ClientInv, Numbered
  <2>3. \A u \in Clients : (Unclaimed(u)' /\ item'[u].type = "log") =>
          /\ item'[u].from = u /\ item'[u].n = calls'[u]
          /\ \A p \in 1..Len(claimed') : claimed'[p] # item'[u]
    BY <1>0, <1>1, <1>2, <1>4 DEF ClientInv, Numbered
  <2>4. \A p, q \in 1..Len(claimed') :
           (claimed'[p].type = "log" /\ claimed'[p] = claimed'[q]) => p = q
    BY <1>0 DEF ClientInv, Numbered
  <2> QED BY <2>2, <2>3, <2>4 DEF Numbered
<1>6. Last'
  <2>1. \A u \in Clients : call'[u] \in Ending <=> call[u] \in Ending
    BY DEF OthersCalls
  <2>2. \A u \in Clients : call'[u] \in Ending => u = Owner
    BY <2>1 DEF ClientInv, Last
  <2>3. call'[Owner] \in Ending => \A u \in Clients : u # Owner => call'[u] = "none"
    BY <2>1, Parties DEF ClientInv, Last, OthersCalls
  <2>4. \A u \in Clients : Unclaimed(u)' => (item'[u].type = "terminate" <=> call'[u] = "destroy")
    BY <1>1, <1>2 DEF ClientInv, Last, OthersCalls
  <2>5. Unclaimed(Owner)' => Unclaimed(Owner)
    BY <1>1, <1>2, Parties
  <2>6. \A p \in 1..Len(claimed') : claimed'[p].type = "terminate" =>
          p = Len(claimed') /\ call'[Owner] \in Ending /\ ~ Unclaimed(Owner)'
    BY <1>0, <2>1, <2>5, Parties DEF ClientInv, Last
  <2> QED BY <2>2, <2>3, <2>4, <2>6 DEF Last
<1>7. Waits'
  <2> SUFFICES ASSUME NEW u \in Clients
               PROVE  /\ at'[u] \in {"e_write", "e_publish", "e_ok"} => pos'[u] < enqueue_pos'
                      /\ (call'[u] \in {"wait", "wait_last"} /\ ~ discarded') => pos'[u] < enqueue_pos'
                      /\ first_pos'[u] <= dequeue_pos'
    BY DEF Waits
  <2>1. CASE u = t
    BY <1>0, <2>1
  <2>2. CASE u # t
    BY <1>0, <1>1, <2>2 DEF ClientInv, Waits, OthersCalls
  <2> QED BY <2>1, <2>2
<1> QED BY <1>3, <1>5, <1>6, <1>7 DEF ClientInv

(* A step inside enqueue; the exchange gives the item its position.        *)
LEMMA EnqueueFacts ==
  ASSUME DInv, NEW t \in Clients, EnqueueWork(t)
  PROVE  /\ at[t] \in EnqueueAt /\ at'[t] \in {"e_ok", "e_full"} \cup EnqueueAt
         /\ UNCHANGED item
         /\ Unclaimed(t)' => Unclaimed(t) /\ ~ Claims(t)
         /\ at'[t] \in {"e_write", "e_publish", "e_ok"} =>
              Claims(t) \/ (pos' = pos /\ at[t] \in {"e_write", "e_publish"})
<1>0. t \in Threads /\ DOMAIN at = Threads
  BY Parties DEF DInv, QInv, PosTypes
<1> USE DEF EnqueueAt, Unclaimed, Goto
<1>1. CASE EnqueueLook(t)
  BY <1>0, <1>1 DEF EnqueueLook, Claims
<1>2. CASE EnqueueLoad(t) \/ EnqueueRetry(t)
  BY <1>0, <1>2 DEF EnqueueLoad, EnqueueRetry, Claims
<1>3. CASE EnqueueClaim(t)
  BY <1>0, <1>3 DEF EnqueueClaim, Claims
<1>4. CASE EnqueueWrite(t) \/ EnqueuePublish(t)
  BY <1>0, <1>4 DEF EnqueueWrite, EnqueuePublish, Claims
<1> QED BY <1>1, <1>2, <1>3, <1>4 DEF EnqueueWork

LEMMA WorkKeeps ==
  ASSUME DInv, ClientInv, NEW t \in Clients, EnqueueWork(t), ClientFrame(t),
         UNCHANGED <<call, calls, first_pos, discarded>>
  PROVE  ClientInv'
<1>0. /\ at[t] \in EnqueueAt /\ at'[t] \in {"e_ok", "e_full"} \cup EnqueueAt
      /\ item' = item /\ call' = call /\ calls' = calls /\ first_pos' = first_pos
      /\ Unclaimed(t)' => Unclaimed(t) /\ ~ Claims(t)
      /\ at'[t] \in {"e_write", "e_publish", "e_ok"} =>
           Claims(t) \/ (pos' = pos /\ at[t] \in {"e_write", "e_publish"})
  BY EnqueueFacts
<1>1. /\ dequeue_pos' = dequeue_pos
      /\ \A u \in Threads : u # t => at'[u] = at[u] /\ pos'[u] = pos[u]
  BY DEF ClientFrame
<1>2. /\ Len(claimed) = enqueue_pos /\ enqueue_pos \in Nat
      /\ Len(claimed') = enqueue_pos' /\ enqueue_pos' \in Nat /\ enqueue_pos' >= enqueue_pos
      /\ \A p \in 1..enqueue_pos : claimed'[p] = claimed[p]
      /\ Claims(t) => item[t] \in Items /\ claimed'[enqueue_pos + 1] = item[t]
  BY ClaimedGrows
<1>3. Claims(t) => at[t] = "e_cas" /\ enqueue_pos' = enqueue_pos + 1 /\ pos[t] = enqueue_pos
                   /\ pos' = pos
  BY DEF Claims
<1>4. ~ Claims(t) => enqueue_pos' = enqueue_pos /\ claimed' = claimed
  BY DEF ClientFrame, SamePositions
<1>5. \A u \in Clients : u # t => (Unclaimed(u)' <=> Unclaimed(u))
  BY <1>1, Parties DEF Unclaimed
<1>6. call[t] \in Pushing
  BY <1>0 DEF ClientInv, Places, EnqueueAt
<1>7. Places'
  BY <1>0, <1>1, <1>6, Parties DEF ClientInv, Places
<1>8. Numbered'
  <2>1. CASE ~ Claims(t)
    <3>1. \A u \in Clients : Unclaimed(u)' => Unclaimed(u)
      BY <1>0, <1>5
    <3> QED BY <1>0, <1>4, <2>1, <3>1 DEF ClientInv, Numbered
  <2>2. CASE Claims(t)
    <3>1. Unclaimed(t) /\ item[t] \in Items /\ ~ Unclaimed(t)'
      BY <1>0, <1>2, <1>3, <2>2 DEF Unclaimed
    <3>2. item[t].type = "log" => /\ item[t].from = t /\ item[t].n = calls[t]
                                  /\ \A p \in 1..enqueue_pos : claimed[p] # item[t]
      BY <1>2, <3>1 DEF ClientInv, Numbered
    <3>3. \A p \in 1..enqueue_pos' : p = enqueue_pos + 1 \/ p \in 1..enqueue_pos
      BY <1>2, <1>3, <2>2
    <3>4. claimed'[enqueue_pos + 1] = item[t]
      BY <1>2, <2>2
    <3>5. item[t].type = "log" => item[t].n <= calls[t]
      <4>1. item[t].type = "log" => item[t].n \in Nat
        <5>1. \A m \in LogMessages : m.n \in Nat
          BY Parties DEF LogMessages, Message
        <5> QED BY <3>1, <5>1, LogByType
      <4> QED BY <3>2, <4>1
    <3>6. \A p \in 1..enqueue_pos : claimed[p].type = "log" => claimed[p].n <= calls[claimed[p].from]
      BY <1>2 DEF ClientInv, Numbered
    <3>7. \A p \in 1..enqueue_pos' : claimed'[p].type = "log" =>
             claimed'[p].n <= calls[claimed'[p].from]
      BY <1>2, <3>2, <3>3, <3>4, <3>5, <3>6
    <3>8. \A u \in Clients : (Unclaimed(u)' /\ item[u].type = "log") =>
            /\ item[u].from = u /\ item[u].n = calls[u]
            /\ \A p \in 1..enqueue_pos' : claimed'[p] # item[u]
      <4> SUFFICES ASSUME NEW u \in Clients, Unclaimed(u)', item[u].type = "log"
                   PROVE  /\ item[u].from = u /\ item[u].n = calls[u]
                          /\ \A p \in 1..enqueue_pos' : claimed'[p] # item[u]
        OBVIOUS
      <4>1. u # t /\ Unclaimed(u)
        BY <1>5, <3>1
      <4>2. /\ item[u].from = u /\ item[u].n = calls[u]
            /\ \A p \in 1..enqueue_pos : claimed[p] # item[u]
        BY <1>2, <4>1 DEF ClientInv, Numbered
      <4>3. item[t] # item[u]
        BY <3>2, <4>1, <4>2
      <4> QED BY <1>2, <3>3, <3>4, <4>2, <4>3
    <3>9. \A p, q \in 1..enqueue_pos :
             (claimed[p].type = "log" /\ claimed[p] = claimed[q]) => p = q
      BY <1>2 DEF ClientInv, Numbered
    <3>10. \A p, q \in 1..enqueue_pos' :
             (claimed'[p].type = "log" /\ claimed'[p] = claimed'[q]) => p = q
      BY <1>2, <3>2, <3>3, <3>4, <3>9
    <3> QED BY <1>0, <1>2, <3>7, <3>8, <3>10 DEF Numbered
  <2> QED BY <2>1, <2>2
<1>9. Last'
  <2>1. \A u \in Clients : Unclaimed(u)' => Unclaimed(u)
    BY <1>0, <1>5
  <2>2. /\ \A u \in Clients : call'[u] \in Ending => u = Owner
        /\ call'[Owner] \in Ending => \A u \in Clients : u # Owner => call'[u] = "none"
    BY <1>0 DEF ClientInv, Last
  <2>3. \A u \in Clients : Unclaimed(u)' => (item'[u].type = "terminate" <=> call'[u] = "destroy")
    BY <1>0, <2>1 DEF ClientInv, Last
  <2>4. \A p \in 1..enqueue_pos' : claimed'[p].type = "terminate" =>
          p = enqueue_pos' /\ call[Owner] \in Ending /\ ~ Unclaimed(Owner)'
    <3>1. CASE ~ Claims(t)
      BY <1>2, <1>4, <2>1, <3>1, Parties DEF ClientInv, Last
    <3>2. CASE Claims(t)
      <4>1. \A p \in 1..enqueue_pos : claimed[p].type # "terminate"
        BY <1>2, <1>3, <3>2, NoneAfterTerminate DEF ClientInv
      <4>2. Unclaimed(t) /\ ~ Unclaimed(t)'
        BY <1>0, <1>3, <3>2 DEF Unclaimed
      <4>3. item[t].type = "terminate" => t = Owner /\ call[Owner] \in Ending
        BY <4>2 DEF ClientInv, Last, Ending
      <4>4. \A p \in 1..enqueue_pos' : p = enqueue_pos' \/ p \in 1..enqueue_pos
        BY <1>2, <1>3, <3>2
      <4>5. claimed'[enqueue_pos'] = item[t]
        BY <1>2, <1>3, <3>2
      <4> QED BY <1>2, <4>1, <4>2, <4>3, <4>4, <4>5
    <3> QED BY <3>1, <3>2
  <2> QED BY <1>0, <1>2, <2>2, <2>3, <2>4 DEF Last
<1>10. Waits'
  <2> SUFFICES ASSUME NEW u \in Clients
               PROVE  /\ at'[u] \in {"e_write", "e_publish", "e_ok"} => pos'[u] < enqueue_pos'
                      /\ (call'[u] \in {"wait", "wait_last"} /\ ~ discarded') => pos'[u] < enqueue_pos'
                      /\ first_pos'[u] <= dequeue_pos'
    BY DEF Waits
  <2>0. pos[u] \in Nat
    BY Parties DEF DInv, QInv, PosTypes
  <2>1. first_pos'[u] <= dequeue_pos'
    BY <1>0, <1>1 DEF ClientInv, Waits
  <2>2. CASE u = t
    <3>1. call'[u] \notin {"wait", "wait_last"}
      BY <1>0, <1>6, <2>2 DEF Pushing
    <3>2. at'[u] \in {"e_write", "e_publish", "e_ok"} => pos'[u] < enqueue_pos'
      <4>1. CASE Claims(t)
        BY <1>2, <1>3, <2>0, <2>2, <4>1
      <4>2. CASE ~ Claims(t)
        BY <1>0, <1>4, <2>2, <4>2 DEF ClientInv, Waits
      <4> QED BY <4>1, <4>2
    <3> QED BY <2>1, <3>1, <3>2
  <2>3. CASE u # t
    <3>1. at'[u] = at[u] /\ pos'[u] = pos[u] /\ call'[u] = call[u]
      BY <1>0, <1>1, <2>3, Parties
    <3> QED BY <1>2, <2>0, <2>1, <3>1 DEF ClientInv, Waits
  <2> QED BY <2>2, <2>3
<1> QED BY <1>7, <1>8, <1>9, <1>10 DEF ClientInv

(* A client free to make a call: nobody is about to end.                   *)
LEMMA FreeFacts ==
  ASSUME ClientInv, call[Owner] \notin Ending
  PROVE  \A p \in 1..Len(claimed) : claimed[p].type # "terminate"
BY DEF ClientInv, Last

LEMMA PushingFacts ==
  ASSUME ClientInv, NEW t \in Clients, call[t] \in Pushing
  PROVE  /\ call[Owner] \in Ending => t = Owner
         /\ call[t] # "destroy" => call[Owner] \notin Ending
         /\ call[t] = "destroy" => t = Owner /\ \A u \in Clients : u # t => call[u] = "none"
<1>1. call[t] # "none"
  BY DEF Pushing
<1>2. call[Owner] \in Ending => t = Owner
  BY <1>1 DEF ClientInv, Last
<1>3. call[t] = "destroy" => t = Owner
  BY DEF ClientInv, Last, Ending
<1>4. call[t] # "destroy" => call[t] \notin Ending
  BY DEF Pushing, Ending
<1> QED BY <1>2, <1>3, <1>4 DEF ClientInv, Last, Ending

LEMMA CallStarts ==
  ASSUME DInv, CallTypes, LInv, ClientInv, NEW t \in Clients,
         (\E lvl \in MsgLevels : log(t, lvl)) \/ flush(t) \/ (t = Owner /\ destroy)
  PROVE  ClientInv'
<1>0. ClientFrame(t)
  BY ClientActs DEF ClientInv, ClientNext
<1>1. /\ DOMAIN at = Threads /\ DOMAIN item = Threads /\ t \in Threads /\ DOMAIN call = Clients
      /\ calls \in [Clients -> 0..Budget] /\ calls[t] \in Nat
  BY Parties DEF DInv, QInv, PosTypes, DataTypes, LInv, ClientTypes, CallTypes
<1>2. ASSUME NEW lvl \in MsgLevels, log(t, lvl) PROVE ClientInv'
  <2> DEFINE x == Message("log", t, calls[t] + 1, lvl)
  <2>1. /\ Free(t) /\ calls' = [calls EXCEPT ![t] = @ + 1] /\ EnqueueCall(t, x)
        /\ call' = [call EXCEPT ![t] = "log"] /\ UNCHANGED <<first_pos, discarded>>
    <3>1. /\ Free(t) /\ calls' = [calls EXCEPT ![t] = @ + 1]
          /\ EnqueueCall(t, Message("log", t, calls'[t], lvl))
          /\ call' = [call EXCEPT ![t] = "log"] /\ UNCHANGED <<first_pos, discarded>>
      BY <1>2 DEF log, EnqueueBegin, Call, histvars
    <3>2. calls'[t] = calls[t] + 1
      BY <1>1, <3>1
    <3> QED BY <3>1, <3>2
  <2>2. calls[t] + 1 \in 1..Budget /\ calls'[t] = calls[t] + 1 /\ calls'[t] \in Nat
    BY <1>1, <2>1, Parties DEF Free
  <2>3. x \in Items
    BY <2>2, LogItems
  <2>4. x.type = "log" /\ x.from = t /\ x.n = calls'[t]
    BY <2>2 DEF Message
  <2>5. \A p \in 1..Len(claimed) : claimed[p] # x
    <3> SUFFICES ASSUME NEW p \in 1..Len(claimed), claimed[p] = x PROVE FALSE
      OBVIOUS
    <3>1. x.n <= calls[x.from]
      BY <2>4 DEF ClientInv, Numbered
    <3>2. x.n = calls[t] + 1 /\ x.from = t
      BY <2>2, <2>4
    <3> QED BY <1>1, <3>1, <3>2
  <2>6. call[Owner] \notin Ending
    BY <2>1 DEF Free, Ending
  <2>7. SamePositions /\ at'[t] = "e_seq" /\ item'[t] = x
    BY <1>1, <2>1 DEF EnqueueCall, Goto, SamePositions
  <2>8. OthersCalls(t) /\ call'[t] = "log" /\ calls'[t] >= calls[t]
    BY <1>1, <2>1, <2>2 DEF OthersCalls
  <2>9. call'[t] \in Pushing /\ call'[t] # "destroy" /\ x.type # "terminate"
    BY <2>4, <2>8 DEF Pushing
  <2>10. first_pos'[t] = first_pos[t] /\ (discarded => discarded')
    BY <2>1
  <2> HIDE DEF x
  <2> QED
    BY <1>0, <2>2, <2>3, <2>4, <2>5, <2>6, <2>7, <2>8, <2>9, <2>10, FreeFacts, BeginKeeps
<1>3. CASE flush(t)
  <2>1. /\ Free(t) /\ calls' = [calls EXCEPT ![t] = @ + 1] /\ EnqueueCall(t, Flush)
        /\ call' = [call EXCEPT ![t] = "flush"] /\ UNCHANGED <<first_pos, discarded>>
    BY <1>3 DEF flush, EnqueueBegin, Call, histvars
  <2>2. Flush \in Items /\ Flush.type = "flush"
    BY LogItems DEF Flush, Message
  <2>3. call[Owner] \notin Ending
    BY <2>1 DEF Free, Ending
  <2>4. SamePositions /\ at'[t] = "e_seq" /\ item'[t] = Flush
    BY <1>1, <2>1 DEF EnqueueCall, Goto, SamePositions
  <2>5. OthersCalls(t) /\ call'[t] = "flush" /\ calls'[t] \in Nat /\ calls'[t] >= calls[t]
    BY <1>1, <2>1 DEF OthersCalls
  <2>6. call'[t] \in Pushing /\ call'[t] # "destroy"
    BY <2>5 DEF Pushing
  <2>7. first_pos'[t] = first_pos[t] /\ (discarded => discarded')
    BY <2>1
  <2> QED BY <1>0, <2>2, <2>3, <2>4, <2>5, <2>6, <2>7, FreeFacts, BeginKeeps
<1>4. CASE t = Owner /\ destroy
  <2>1. /\ \A u \in Clients : call[u] = "none"
        /\ EnqueueCall(t, Terminate) /\ call' = [call EXCEPT ![t] = "destroy"]
        /\ UNCHANGED <<calls, first_pos, discarded>>
    BY <1>4 DEF destroy, EnqueueBegin, Call, histvars
  <2>2. Terminate \in Items /\ Terminate.type = "terminate"
    BY LogItems DEF Terminate, Message
  <2>3. call[Owner] \notin Ending
    BY <2>1, Parties DEF Ending
  <2>4. SamePositions /\ at'[t] = "e_seq" /\ item'[t] = Terminate
    BY <1>1, <2>1 DEF EnqueueCall, Goto, SamePositions
  <2>5. OthersCalls(t) /\ call'[t] = "destroy" /\ calls'[t] \in Nat /\ calls'[t] >= calls[t]
    BY <1>1, <2>1 DEF OthersCalls
  <2>6. call'[t] \in Pushing
    BY <2>5 DEF Pushing
  <2>7. first_pos'[t] = first_pos[t] /\ (discarded => discarded')
    BY <2>1
  <2> QED BY <1>0, <1>4, <2>1, <2>2, <2>3, <2>4, <2>5, <2>6, <2>7, FreeFacts, BeginKeeps
<1> QED BY <1>2, <1>3, <1>4

(* enqueue has returned.                                                   *)
LEMMA CallPushed ==
  ASSUME DInv, CallTypes, LInv, ClientInv, NEW t \in Clients,
         Pushed(t), at[t] = "e_ok" \/ (at[t] = "e_full" /\ discarded'),
         ClientFrame(t), UNCHANGED <<calls, first_pos>>, discarded => discarded'
  PROVE  ClientInv'
<1>1. /\ DOMAIN at = Threads /\ DOMAIN item = Threads /\ t \in Threads /\ DOMAIN call = Clients
      /\ calls \in [Clients -> 0..Budget] /\ calls[t] \in Nat
  BY Parties DEF DInv, QInv, PosTypes, DataTypes, LInv, ClientTypes, CallTypes
<1>2. CASE call[t] = "log" /\ Call(t, "log_flush") /\ EnqueueCall(t, Flush)
  <2>1. Flush \in Items /\ Flush.type = "flush"
    BY LogItems DEF Flush, Message
  <2>2. call[Owner] \notin Ending
    BY <1>2, PushingFacts DEF Pushing
  <2>3. SamePositions /\ at'[t] = "e_seq" /\ item'[t] = Flush
    BY <1>1, <1>2 DEF EnqueueCall, Goto, SamePositions
  <2>4. OthersCalls(t) /\ call'[t] = "log_flush" /\ calls'[t] \in Nat /\ calls'[t] >= calls[t]
    BY <1>1, <1>2 DEF OthersCalls, Call
  <2>5. call'[t] \in Pushing /\ call'[t] # "destroy"
    BY <2>4 DEF Pushing
  <2>6. first_pos'[t] = first_pos[t]
    OBVIOUS
  <2> QED BY <2>1, <2>2, <2>3, <2>4, <2>5, <2>6, FreeFacts, BeginKeeps
<1>3. CASE /\ \/ call[t] \in {"log", "log_flush"} /\ Call(t, "none")
              \/ call[t] = "flush" /\ Call(t, "wait")
              \/ call[t] = "destroy" /\ Call(t, "join")
           /\ QueueReturn(t)
  <2>1. SamePositions /\ at'[t] = "idle" /\ pos'[t] = pos[t]
    BY <1>1, <1>3 DEF QueueReturn, Goto, SamePositions
  <2>2. OthersCalls(t) /\ calls'[t] = calls[t]
    BY <1>1, <1>3 DEF OthersCalls, Call
  <2>3. /\ call'[t] \notin Pushing /\ (call'[t] \in Ending <=> call[t] \in Ending)
        /\ call[t] # "none"
    BY <1>1, <1>3 DEF Call, Pushing, Ending
  <2>4. at[t] = "e_ok" => pos[t] < enqueue_pos
    BY DEF ClientInv, Waits
  <2>5. first_pos'[t] <= dequeue_pos
    BY DEF ClientInv, Waits
  <2>6. ~ discarded' => pos[t] < enqueue_pos
    BY <2>4
  <2> QED BY <2>1, <2>2, <2>3, <2>5, <2>6, RestKeeps
<1> QED BY <1>2, <1>3 DEF Pushed

LEMMA CallGoesOn ==
  ASSUME DInv, CallTypes, LInv, ClientInv, NEW t \in Clients,
         push_msg_ok(t) \/ push_msg_full(t) \/ wait_load(t) \/ wait_compare(t) \/ QueueStep(t)
         \/ (t = Owner /\ join)
  PROVE  ClientInv'
<1>0. ClientFrame(t)
  BY ClientActs DEF ClientInv, ClientNext
<1>1. /\ DOMAIN at = Threads /\ DOMAIN item = Threads /\ t \in Threads /\ DOMAIN call = Clients
      /\ DOMAIN first_pos = Clients /\ calls \in [Clients -> 0..Budget] /\ calls[t] \in Nat
      /\ dequeue_pos \in Nat
  BY Parties DEF DInv, QInv, PosTypes, DataTypes, LInv, ClientTypes, CallTypes
<1>2. CASE push_msg_ok(t)
  <2>1. /\ at[t] = "e_ok" /\ Pushed(t) /\ UNCHANGED <<calls, first_pos>>
        /\ (discarded => discarded')
    BY <1>2 DEF push_msg_ok, histvars
  <2> QED BY <1>0, <2>1, CallPushed
<1>3. CASE push_msg_full(t) /\ policy = "discard_log_msg"
  <2>1. at[t] = "e_full" /\ Pushed(t) /\ UNCHANGED <<calls, first_pos>> /\ discarded'
    BY <1>3, Zenon DEF push_msg_full
  <2> QED BY <1>0, <2>1, CallPushed
<1>4. CASE push_msg_full(t) /\ policy # "discard_log_msg"
  <2>1. /\ at[t] = "e_full" /\ EnqueueCall(t, item[t]) /\ call' = call
        /\ UNCHANGED <<calls, first_pos, discarded>>
    BY <1>4 DEF push_msg_full
  <2>2. PICK x \in Items : x = item[t]
    BY <1>1, <2>1 DEF DInv, HasItem
  <2>3. SamePositions /\ at'[t] = "e_seq" /\ item'[t] = x
    BY <1>1, <2>1, <2>2 DEF EnqueueCall, Goto, SamePositions
  <2>4. Unclaimed(t) /\ call[t] \in Pushing
    BY <2>1 DEF Unclaimed, ClientInv, Places
  <2>5. x.type = "log" => /\ x.from = t /\ x.n = calls'[t]
                          /\ \A p \in 1..Len(claimed) : claimed[p] # x
    BY <2>1, <2>2, <2>4 DEF ClientInv, Numbered
  <2>6. x.type = "terminate" <=> call'[t] = "destroy"
    BY <2>1, <2>2, <2>4 DEF ClientInv, Last
  <2>7. \A p \in 1..Len(claimed) : claimed[p].type # "terminate"
    BY <2>4, PushingFacts DEF ClientInv, Last
  <2>8. /\ call[Owner] \in Ending => t = Owner
        /\ call'[t] = "destroy" => t = Owner /\ \A u \in Clients : u # t => call[u] = "none"
    BY <2>1, <2>4, PushingFacts
  <2>9. /\ OthersCalls(t) /\ call'[t] \in Pushing /\ calls'[t] \in Nat /\ calls'[t] >= calls[t]
        /\ first_pos'[t] = first_pos[t] /\ (discarded => discarded')
    BY <1>1, <2>1, <2>4 DEF OthersCalls
  <2> QED BY <1>0, <2>3, <2>5, <2>6, <2>7, <2>8, <2>9, BeginKeeps
<1>5. CASE QueueStep(t)
  <2>1. EnqueueWork(t) /\ UNCHANGED <<call, calls, first_pos, discarded>>
    BY <1>5, ClientsEnqueue DEF QueueStep, avars, ClientInv
  <2> QED BY <1>0, <2>1, WorkKeeps
<1>6. CASE wait_load(t) \/ wait_compare(t) \/ (t = Owner /\ join)
  <2>1. UNCHANGED mqvars /\ UNCHANGED <<calls, discarded>>
    BY <1>6 DEF wait_load, wait_compare, join, histvars
  <2>2. /\ call[t] \notin Pushing /\ call[t] # "none" /\ call'[t] \notin Pushing
        /\ (call'[t] \in Ending <=> call[t] \in Ending)
        /\ call'[t] \in {"wait", "wait_last"} => call[t] \in {"wait", "wait_last"}
    BY <1>1, <1>6 DEF wait_load, wait_compare, join, Call, Pushing, Ending
  <2>3. at'[t] = "idle" /\ pos'[t] = pos[t] /\ SamePositions
    BY <2>1, <2>2 DEF mqvars, SamePositions, ClientInv, Places
  <2>4. OthersCalls(t) /\ calls'[t] = calls[t]
    BY <1>1, <1>6, <2>1 DEF wait_load, wait_compare, join, Call, OthersCalls
  <2>5. first_pos'[t] <= dequeue_pos
    <3>1. first_pos'[t] = first_pos[t] \/ first_pos'[t] = dequeue_pos
      BY <1>1, <1>6 DEF wait_load, wait_compare, join
    <3> QED BY <1>1, <3>1 DEF ClientInv, Waits
  <2>6. (call'[t] \in {"wait", "wait_last"} /\ ~ discarded') => pos[t] < enqueue_pos
    BY <2>1, <2>2 DEF ClientInv, Waits
  <2>7. discarded => discarded'
    BY <2>1
  <2> QED BY <1>0, <2>2, <2>3, <2>4, <2>5, <2>6, <2>7, RestKeeps
<1> QED BY <1>2, <1>3, <1>4, <1>5, <1>6

-----------------------------------------------------------------------------
(* The worker leaves the clients alone.                                    *)
WorkerFrame ==
    /\ UNCHANGED <<call, calls, first_pos, discarded, enqueue_pos, claimed>>
    /\ dequeue_pos' \in Nat /\ dequeue_pos' >= dequeue_pos
    /\ \A u \in Clients : at'[u] = at[u] /\ pos'[u] = pos[u] /\ item'[u] = item[u]

LEMMA WorkerKeepsClients ==
  ASSUME DInv, LInv, ClientInv, WorkerFrame,
         at'[Worker] \in {"idle", "d_ok", "d_empty"} \cup DequeueAt
  PROVE  ClientInv'
<1>0. /\ call' = call /\ calls' = calls /\ first_pos' = first_pos /\ (discarded' <=> discarded)
      /\ enqueue_pos' = enqueue_pos /\ claimed' = claimed
      /\ \A u \in Clients : at'[u] = at[u] /\ pos'[u] = pos[u] /\ item'[u] = item[u]
  BY DEF WorkerFrame
<1>1. \A u \in Clients : Unclaimed(u)' <=> Unclaimed(u)
  BY <1>0 DEF Unclaimed
<1>2. Places'
  BY <1>0 DEF ClientInv, Places
<1>3. Numbered'
  BY <1>0, <1>1 DEF ClientInv, Numbered
<1>4. Last'
  BY <1>0, <1>1, Parties DEF ClientInv, Last
<1>5. Waits'
  <2>1. \A u \in Clients : first_pos[u] \in Nat /\ dequeue_pos \in Nat
    BY DEF LInv, ClientTypes, DInv, QInv, PosTypes
  <2>2. \A u \in Clients : first_pos'[u] <= dequeue_pos'
    BY <1>0, <2>1 DEF ClientInv, Waits, WorkerFrame
  <2> QED BY <1>0, <2>2 DEF ClientInv, Waits
<1> QED BY <1>2, <1>3, <1>4, <1>5 DEF ClientInv

(* A sink that gets nothing, while the worker moves over positions not     *)
(* meant for it or failed.                                                 *)
LEMMA SinkGetsNothing ==
  ASSUME NEW s, NEW n \in Nat, NEW m \in Nat, n <= m, delivered'[s] = delivered[s],
         claimed' = claimed, failed \subseteq failed', AllDue(s, n), InOrderTo(s, n),
         \A p \in 1..m : p \in 1..n \/ ~ Wanted(s, p) \/ claimed[p] \in failed'
  PROVE  AllDue(s, m)' /\ InOrderTo(s, m)'
<1>1. \A p : Wanted(s, p)' <=> Wanted(s, p)
  BY DEF Wanted
<1>2. AllDue(s, m)'
  BY <1>1 DEF AllDue
<1>3. \A p \in 1..n : p \in 1..m
  OBVIOUS
<1>4. InOrderTo(s, m)'
  BY <1>1, <1>3, SMTT(30) DEF InOrderTo
<1> QED BY <1>2, <1>4

(* A sink that gets the message of the next position.                      *)
LEMMA SinkGetsNext ==
  ASSUME NEW s, NEW n \in Nat, delivered[s] \in Seq(LogMessages), claimed[n + 1] \in LogMessages,
         delivered'[s] = Append(delivered[s], claimed[n + 1]), claimed' = claimed,
         failed' = failed, AllDue(s, n), InOrderTo(s, n), Wanted(s, n + 1),
         \A p \in 1..n : Wanted(s, p) => claimed[p] # claimed[n + 1]
  PROVE  AllDue(s, n + 1)' /\ InOrderTo(s, n + 1)'
<1>0. PICK g, h, k, x : /\ g = delivered[s] /\ h = delivered'[s] /\ k = Len(g)
                        /\ x = claimed[n + 1]
  OBVIOUS
<1>1. k \in Nat /\ Len(h) = k + 1 /\ h[k + 1] = x /\ \A i \in 1..k : h[i] = g[i]
  BY <1>0
<1>2. \A p : Wanted(s, p)' <=> Wanted(s, p)
  BY DEF Wanted
<1>3. \A p \in 1..(n + 1) : p = n + 1 \/ p \in 1..n
  OBVIOUS
<1>4. \A i \in 1..(k + 1) : i = k + 1 \/ i \in 1..k
  BY <1>1
<1>5. k + 1 \in 1..(k + 1) /\ \A i \in 1..k : i \in 1..(k + 1)
  BY <1>1
<1>6. \A p \in 1..n : (Wanted(s, p) /\ claimed[p] \notin failed) => \E i \in 1..k : g[i] = claimed[p]
  BY <1>0 DEF AllDue
<1>7. \A p \in 1..(n + 1) : (Wanted(s, p) /\ claimed[p] \notin failed) =>
         \E i \in 1..(k + 1) : h[i] = claimed[p]
  BY <1>0, <1>1, <1>3, <1>5, <1>6
<1>8. AllDue(s, n + 1)'
  BY <1>0, <1>1, <1>2, <1>7 DEF AllDue
<1>9. \A i \in 1..k : \E p \in 1..n :
        /\ Wanted(s, p) /\ g[i] = claimed[p]
        /\ \A j \in 1..(i - 1) : /\ g[j] # claimed[p]
                                 /\ \E q \in 1..(p - 1) : g[j] = claimed[q]
  <2> TAKE i \in 1..k
  <2>1. i \in 1..Len(delivered[s])
    BY <1>0
  <2>2. \E p \in 1..n :
          /\ Wanted(s, p) /\ delivered[s][i] = claimed[p]
          /\ \A j \in 1..(i - 1) : /\ delivered[s][j] # claimed[p]
                                   /\ \E q \in 1..(p - 1) : delivered[s][j] = claimed[q]
    BY <2>1, Zenon DEF InOrderTo
  <2> QED BY <1>0, <2>2, Zenon
<1>10. ASSUME NEW i \in 1..k
       PROVE  \E p \in 1..(n + 1) :
                /\ Wanted(s, p) /\ h[i] = claimed[p]
                /\ \A j \in 1..(i - 1) : /\ h[j] # claimed[p]
                                         /\ \E q \in 1..(p - 1) : h[j] = claimed[q]
  <2>1. PICK p \in 1..n :
          /\ Wanted(s, p) /\ g[i] = claimed[p]
          /\ \A j \in 1..(i - 1) : /\ g[j] # claimed[p]
                                   /\ \E q \in 1..(p - 1) : g[j] = claimed[q]
    BY <1>9
  <2>2. \A j \in 1..(i - 1) : h[j] = g[j]
    BY <1>1
  <2>3. p \in 1..(n + 1) /\ h[i] = g[i]
    BY <1>1
  <2> QED BY <2>1, <2>2, <2>3
<1>11. \A j \in 1..k : /\ h[j] # claimed[n + 1]
                       /\ \E q \in 1..n : h[j] = claimed[q]
  BY <1>1, <1>9
<1>12. \A i \in 1..(k + 1) : \E p \in 1..(n + 1) :
         /\ Wanted(s, p) /\ h[i] = claimed[p]
         /\ \A j \in 1..(i - 1) : /\ h[j] # claimed[p]
                                  /\ \E q \in 1..(p - 1) : h[j] = claimed[q]
  <2> TAKE i \in 1..(k + 1)
  <2>1. CASE i \in 1..k
    BY <1>10, <2>1
  <2>2. CASE i = k + 1
    <3>0. k \in Nat
      BY <1>1
    <3>1. n + 1 \in 1..(n + 1) /\ (n + 1) - 1 = n /\ i - 1 = k
      BY <2>2, <3>0
    <3>2. h[i] = claimed[n + 1]
      BY <1>0, <1>1, <2>2
    <3> QED BY <1>11, <3>1, <3>2
  <2> QED BY <1>4, <2>1, <2>2
<1>13. InOrderTo(s, n + 1)'
  <2>1. Len(delivered'[s]) = k + 1
    BY <1>0, <1>1
  <2>2. \A i \in 1..(k + 1) : \E p \in 1..(n + 1) :
         /\ Wanted(s, p)' /\ delivered'[s][i] = claimed'[p]
         /\ \A j \in 1..(i - 1) : /\ delivered'[s][j] # claimed'[p]
                                  /\ \E q \in 1..(p - 1) : delivered'[s][j] = claimed'[q]
    <3> TAKE i \in 1..(k + 1)
    <3>1. PICK p \in 1..(n + 1) :
            /\ Wanted(s, p) /\ h[i] = claimed[p]
            /\ \A j \in 1..(i - 1) : /\ h[j] # claimed[p]
                                     /\ \E q \in 1..(p - 1) : h[j] = claimed[q]
      BY <1>12, Zenon
    <3>2. Wanted(s, p)'
      BY <1>2, <3>1
    <3>3. delivered'[s] = h /\ claimed' = claimed
      BY <1>0
    <3> QED BY <3>1, <3>2, <3>3
  <2> SUFFICES ASSUME NEW i \in 1..Len(delivered'[s])
               PROVE  \E p \in 1..(n + 1) :
                        /\ Wanted(s, p)' /\ delivered'[s][i] = claimed'[p]
                        /\ \A j \in 1..(i - 1) :
                             /\ delivered'[s][j] # claimed'[p]
                             /\ \E q \in 1..(p - 1) : delivered'[s][j] = claimed'[q]
    BY Zenon DEF InOrderTo
  <2>3. i \in 1..(k + 1)
    BY <2>1
  <2> QED BY <2>2, <2>3, Zenon
<1> QED BY <1>8, <1>13

LEMMA PositionFacts ==
  ASSUME DInv
  PROVE  /\ dequeue_pos \in Nat /\ enqueue_pos \in Nat /\ dequeue_pos <= enqueue_pos
         /\ Len(claimed) = enqueue_pos /\ \A p \in 1..enqueue_pos : claimed[p] \in Items
         /\ pos[Worker] \in Nat
         /\ (Holds /\ Holding) => dequeue_pos >= 1
         /\ Holds => \A s \in 1..Sinks : Passed(s) \in Nat
<1>1. /\ dequeue_pos \in Nat /\ enqueue_pos \in Nat /\ dequeue_pos <= enqueue_pos
      /\ Len(claimed) = enqueue_pos /\ \A p \in 1..enqueue_pos : claimed[p] \in Items
      /\ pos[Worker] \in Nat
  BY Parties DEF DInv, DataTypes, QInv, PosTypes, Ring
<1>2. (Holds /\ Holding) => dequeue_pos >= 1
  BY <1>1 DEF Holds
<1>3. Holds => \A s \in 1..Sinks : Passed(s) \in Nat
  BY <1>1, <1>2 DEF Passed, Holding
<1> QED BY <1>1, <1>2, <1>3

(* The worker moves over positions that give the sinks nothing.            *)
LEMMA NothingGiven ==
  ASSUME DInv, Holds, Arrived, claimed' = claimed, failed \subseteq failed',
         delivered' = delivered,
         \A s \in 1..Sinks :
           /\ Passed(s)' \in Nat /\ Passed(s)' >= Passed(s)
           /\ \A p \in 1..Passed(s)' : p \in 1..Passed(s) \/ ~ Wanted(s, p) \/ claimed[p] \in failed'
  PROVE  Arrived'
<1> SUFFICES ASSUME NEW s \in 1..Sinks PROVE AllDue(s, Passed(s))' /\ InOrderTo(s, Passed(s))'
  BY DEF Arrived
<1>1. PICK n, m : n = Passed(s) /\ m = Passed(s)'
  OBVIOUS
<1>2. n \in Nat /\ m \in Nat /\ n <= m
  BY <1>1, PositionFacts
<1>3. AllDue(s, n) /\ InOrderTo(s, n)
  BY <1>1 DEF Arrived
<1>4. \A p \in 1..m : p \in 1..n \/ ~ Wanted(s, p) \/ claimed[p] \in failed'
  BY <1>1
<1>5. AllDue(s, m)' /\ InOrderTo(s, m)'
  BY <1>2, <1>3, <1>4, SinkGetsNothing
<1> QED BY <1>1, <1>5 DEF AllDue, InOrderTo

(* dequeue, from its call to its result.                                   *)
LEMMA QueueMoves ==
  ASSUME DInv, DInv', LInv, ClientInv, WorkerInv, process_begin \/ QueueStep(Worker)
  PROVE  /\ WorkerFrame /\ at'[Worker] \in {"idle", "d_ok", "d_empty"} \cup DequeueAt
         /\ WorkerInv'
<1>0. /\ Worker \in Threads /\ DOMAIN at = Threads /\ DOMAIN pos = Threads
      /\ DOMAIN got = Threads /\ UNCHANGED avars
  BY Parties DEF DInv, QInv, PosTypes, DataTypes, process_begin, QueueStep
<1>1. process_begin \/ DequeueWork(Worker)
  BY WorkerDequeues DEF QueueStep, ClientInv
<1>2. worker = "loop" /\ worker' = "loop"
  <2>1. process_begin => worker = "loop"
    BY DEF process_begin
  <2>2. DequeueWork(Worker) => at[Worker] # "idle"
    BY DEF DequeueWork, DequeueLook, DequeueLoad, DequeueClaim, DequeueRetry, DequeueRead,
           DequeueRelease
  <2>3. worker = "loop"
    BY <1>1, <2>1, <2>2 DEF LInv, WorkerHas
  <2> QED BY <1>0, <2>3 DEF avars
<1>3. UNCHANGED <<enqueue_pos, claimed, item>>
  BY <1>1 DEF process_begin, DequeueBegin, DequeueWork, DequeueLook, DequeueLoad, DequeueClaim,
              DequeueRetry, DequeueRead, DequeueRelease
<1>4. /\ dequeue_pos \in Nat /\ enqueue_pos \in Nat /\ dequeue_pos' \in Nat
      /\ pos[Worker] \in Nat /\ dequeue_pos' <= enqueue_pos'
  BY PositionFacts DEF DInv, QInv, PosTypes, Ring
<1> DEFINE Held == {"d_read", "d_release", "d_ok"}
(* What the six steps and the call do to the worker's place.               *)
<1>5. \/ /\ at[Worker] \notin Held /\ at'[Worker] \in {"d_seq", "d_cas", "d_load", "d_empty"}
         /\ dequeue_pos' = dequeue_pos
      \/ /\ at[Worker] = "d_cas" /\ at'[Worker] = "d_read" /\ pos[Worker] = dequeue_pos
         /\ dequeue_pos' = dequeue_pos + 1 /\ pos' = pos
      \/ /\ at[Worker] = "d_read" /\ at'[Worker] = "d_release" /\ pos' = pos
         /\ dequeue_pos' = dequeue_pos /\ got'[Worker] = data[Cell(pos[Worker])]
      \/ /\ at[Worker] = "d_release" /\ at'[Worker] = "d_ok" /\ pos' = pos /\ got' = got
         /\ dequeue_pos' = dequeue_pos
  <2>1. CASE process_begin
    BY <1>0, <1>4, <2>1 DEF process_begin, DequeueBegin, Goto
  <2>2. CASE DequeueLook(Worker)
    BY <1>0, <2>2 DEF DequeueLook, Goto
  <2>3. CASE DequeueLoad(Worker) \/ DequeueRetry(Worker)
    BY <1>0, <2>3 DEF DequeueLoad, DequeueRetry, Goto
  <2>4. CASE DequeueClaim(Worker)
    BY <1>0, <2>4 DEF DequeueClaim, Goto
  <2>5. CASE DequeueRead(Worker) \/ DequeueRelease(Worker)
    BY <1>0, <2>5 DEF DequeueRead, DequeueRelease, Goto
  <2> QED BY <1>1, <2>1, <2>2, <2>3, <2>4, <2>5 DEF DequeueWork
<1>6. at'[Worker] \in {"idle", "d_ok", "d_empty"} \cup DequeueAt
  BY <1>5 DEF DequeueAt
<1>7. WorkerFrame
  <2>1. \A u \in Clients : at'[u] = at[u] /\ pos'[u] = pos[u]
    <3>1. CASE process_begin
      BY <1>0, <3>1, Parties DEF process_begin, DequeueBegin, Goto
    <3>2. CASE DequeueLook(Worker) \/ DequeueLoad(Worker) \/ DequeueClaim(Worker)
      BY <1>0, <3>2, Parties DEF DequeueLook, DequeueLoad, DequeueClaim, Goto
    <3>3. CASE DequeueRetry(Worker) \/ DequeueRead(Worker) \/ DequeueRelease(Worker)
      BY <1>0, <3>3, Parties DEF DequeueRetry, DequeueRead, DequeueRelease, Goto
    <3> QED BY <1>1, <3>1, <3>2, <3>3 DEF DequeueWork
  <2>2. dequeue_pos' \in Nat /\ dequeue_pos' >= dequeue_pos
    BY <1>4, <1>5
  <2>3. UNCHANGED <<call, calls, first_pos, discarded>>
    BY <1>0 DEF avars
  <2> QED BY <1>3, <2>1, <2>2, <2>3 DEF WorkerFrame
<1>8. /\ Holding <=> at[Worker] \in Held
      /\ Holding' <=> at'[Worker] \in Held
  BY <1>2 DEF Holding
<1>9. \A s : /\ Passed(s) = IF at[Worker] \in Held THEN dequeue_pos - 1 ELSE dequeue_pos
             /\ Passed(s)' = IF at'[Worker] \in Held THEN dequeue_pos' - 1 ELSE dequeue_pos'
  BY <1>2 DEF Passed
<1>10. \A s : Passed(s)' = Passed(s)
  BY <1>4, <1>5, <1>9
<1>11. Arrived'
  <2>1. delivered' = delivered /\ failed' = failed
    BY <1>0 DEF avars
  <2>2. \A s \in 1..Sinks : Passed(s) \in Nat
    BY PositionFacts DEF WorkerInv
  <2>3. \A s \in 1..Sinks : Passed(s)' \in Nat /\ Passed(s)' >= Passed(s)
    BY <1>10, <2>2
  <2>4. \A s \in 1..Sinks : \A p \in 1..Passed(s)' : p \in 1..Passed(s)
    BY <1>10
  <2> QED BY <1>3, <2>1, <2>3, <2>4, NothingGiven DEF WorkerInv
<1>12. Holds'
  <2>1. Holding' => pos'[Worker] + 1 = dequeue_pos'
    BY <1>4, <1>5, <1>8 DEF WorkerInv, Holds
  <2>2. at'[Worker] \in {"d_release", "d_ok"} => got'[Worker] = claimed'[dequeue_pos']
    <3>1. CASE at[Worker] = "d_read" /\ at'[Worker] = "d_release"
      <4>1. dequeue_pos' = dequeue_pos /\ got'[Worker] = data[Cell(pos[Worker])]
        BY <1>5, <3>1
      <4>2. data[Cell(pos[Worker])] = claimed[pos[Worker] + 1]
        BY <1>0, <3>1 DEF DInv, Content
      <4>3. pos[Worker] + 1 = dequeue_pos
        BY <1>8, <3>1 DEF WorkerInv, Holds
      <4> QED BY <1>3, <4>1, <4>2, <4>3
    <3>2. CASE at[Worker] = "d_release"
      BY <1>3, <1>5, <3>2 DEF WorkerInv, Holds
    <3> QED BY <1>5, <3>1, <3>2
  <2> QED BY <1>2, <2>1, <2>2 DEF Holds
<1>13. Drained'
  <2>1. (terminate_requested' <=> terminate_requested) /\ worker' # "done"
    BY <1>0, <1>2 DEF avars
  <2>2. ASSUME terminate_requested
        PROVE  /\ dequeue_pos' = enqueue_pos' /\ enqueue_pos' >= 1 /\ ~ Holding'
               /\ claimed'[enqueue_pos'].type = "terminate"
    <3>1. /\ dequeue_pos = enqueue_pos /\ enqueue_pos >= 1 /\ ~ Holding
          /\ claimed[enqueue_pos].type = "terminate"
      BY <2>2 DEF WorkerInv, Drained
    <3>2. dequeue_pos' = dequeue_pos /\ at'[Worker] \notin Held
      BY <1>3, <1>4, <1>5, <1>8, <3>1
    <3> QED BY <1>3, <1>8, <3>1, <3>2
  <2> QED BY <2>1, <2>2 DEF Drained
<1>14. AllFlushed'
  BY <1>0, <1>2 DEF avars, WorkerInv, AllFlushed
<1> QED BY <1>6, <1>7, <1>11, <1>12, <1>13, <1>14 DEF WorkerInv

(* The worker returns from dequeue.                                        *)
LEMMA ReturnFacts ==
  ASSUME DInv, LInv, NEW l, l \in {"d_ok", "d_empty"}, at[Worker] = l, QueueReturn(Worker),
         UNCHANGED <<callvars, discarded>>
  PROVE  /\ WorkerFrame /\ at'[Worker] = "idle" /\ worker = "loop"
         /\ UNCHANGED <<enqueue_pos, dequeue_pos, claimed, got, pos>>
<1>0. Worker \in Threads /\ DOMAIN at = Threads
  BY Parties DEF DInv, QInv, PosTypes
<1>1. /\ at' = [at EXCEPT ![Worker] = "idle"]
      /\ UNCHANGED <<enqueue_pos, dequeue_pos, claimed, got, pos, item>>
  BY DEF QueueReturn, Goto
<1>2. at'[Worker] = "idle" /\ \A u \in Clients : at'[u] = at[u]
  BY <1>0, <1>1, Parties
<1>3. worker = "loop"
  BY DEF LInv, WorkerHas
<1>4. dequeue_pos \in Nat
  BY PositionFacts
<1> QED BY <1>1, <1>2, <1>3, <1>4 DEF WorkerFrame, callvars

(* The message is looked at: a request is noted and passed for every sink, *)
(* a log message goes to the sinks.                                        *)
LEMMA MessageTaken ==
  ASSUME DInv, LInv, ClientInv, WorkerInv, process_flush \/ process_terminate \/ process_log
  PROVE  WorkerFrame /\ at'[Worker] = "idle" /\ WorkerInv'
<1>0. /\ at[Worker] = "d_ok" /\ QueueReturn(Worker) /\ UNCHANGED <<callvars, discarded>>
      /\ delivered' = delivered /\ flushed' = flushed /\ failed' = failed
  BY DEF process_flush, process_terminate, process_log, Process, sinkvars, histvars
<1>1. /\ WorkerFrame /\ at'[Worker] = "idle" /\ worker = "loop"
      /\ UNCHANGED <<enqueue_pos, dequeue_pos, claimed, got, pos>>
  BY <1>0, ReturnFacts
<1>2. /\ dequeue_pos \in Nat /\ dequeue_pos >= 1 /\ dequeue_pos <= enqueue_pos
      /\ enqueue_pos \in Nat /\ Len(claimed) = enqueue_pos
      /\ got[Worker] = claimed[dequeue_pos] /\ Holding /\ pos[Worker] + 1 = dequeue_pos
  BY <1>0, PositionFacts DEF WorkerInv, Holds, Holding
<1>3. ~ terminate_requested
  BY <1>2 DEF WorkerInv, Drained
<1>4. \A s : Passed(s) = dequeue_pos - 1
  BY <1>0 DEF Passed
<1>5. CASE process_log
  <2>1. worker' = "sinks" /\ sink' = 1 /\ got[Worker].type = "log" /\ ~ terminate_requested'
    BY <1>3, <1>5 DEF process_log, Process
  <2>2. Holds'
    BY <1>1, <1>2, <2>1 DEF Holds, Holding
  <2>3. \A s \in 1..Sinks : Passed(s)' = dequeue_pos - 1
    BY <1>1, <2>1, Parties DEF Passed
  <2>4. \A s \in 1..Sinks : /\ Passed(s)' \in Nat /\ Passed(s)' >= Passed(s)
                            /\ \A p \in 1..Passed(s)' : p \in 1..Passed(s)
    BY <1>2, <1>4, <2>3
  <2>5. Arrived'
    BY <1>0, <1>1, <2>4, NothingGiven DEF WorkerInv
  <2>6. Drained' /\ AllFlushed'
    BY <2>1 DEF Drained, AllFlushed
  <2> QED BY <1>1, <2>2, <2>5, <2>6 DEF WorkerInv
<1>6. CASE process_flush \/ process_terminate
  <2>1. worker' = "loop" /\ got[Worker].type \in {"flush", "terminate"}
    BY <1>1, <1>6 DEF process_flush, process_terminate, Process
  <2>2. Holds' /\ ~ Holding'
    BY <1>1, <2>1 DEF Holds, Holding
  <2>3. \A s : Passed(s)' = dequeue_pos
    BY <1>1, <2>1 DEF Passed
  <2>4. \A s : ~ Wanted(s, dequeue_pos)
    BY <1>2, <2>1 DEF Wanted
  <2>5. \A s \in 1..Sinks :
          /\ Passed(s)' \in Nat /\ Passed(s)' >= Passed(s)
          /\ \A p \in 1..Passed(s)' : p \in 1..Passed(s) \/ ~ Wanted(s, p)
    <3>1. \A p \in 1..dequeue_pos : p \in 1..(dequeue_pos - 1) \/ p = dequeue_pos
      BY <1>2
    <3> QED BY <1>2, <1>4, <2>3, <2>4, <3>1
  <2>6. Arrived'
    BY <1>0, <1>1, <2>5, NothingGiven DEF WorkerInv
  <2>7. CASE process_flush
    <3>1. ~ terminate_requested'
      BY <1>3, <2>7 DEF process_flush
    <3> QED BY <1>1, <2>1, <2>2, <2>6, <3>1 DEF WorkerInv, Drained, AllFlushed
  <2>8. CASE process_terminate
    <3>1. claimed[dequeue_pos].type = "terminate"
      BY <1>2, <2>8 DEF process_terminate, Process
    <3>2. dequeue_pos = enqueue_pos
      BY <1>2, <3>1 DEF ClientInv, Last
    <3>3. flush_requested'
      BY <2>8, Zenon DEF process_terminate
    <3>4. Drained'
      BY <1>1, <1>2, <2>1, <2>2, <3>1, <3>2 DEF Drained
    <3>5. AllFlushed'
      BY <2>1, <3>3 DEF AllFlushed
    <3> QED BY <1>1, <2>2, <2>6, <3>4, <3>5 DEF WorkerInv
  <2> QED BY <1>6, <2>7, <2>8
<1> QED BY <1>5, <1>6

(* The queue is empty: the sinks are flushed or the worker ends.           *)
LEMMA QueueEmpty ==
  ASSUME DInv, LInv, ClientInv, WorkerInv, process_empty
  PROVE  WorkerFrame /\ at'[Worker] = "idle" /\ WorkerInv'
<1>0. /\ at[Worker] = "d_empty" /\ QueueReturn(Worker) /\ UNCHANGED <<callvars, discarded>>
      /\ delivered' = delivered /\ flushed' = flushed /\ failed' = failed
      /\ (flush_requested' <=> flush_requested)
      /\ (terminate_requested' <=> terminate_requested)
  BY DEF process_empty, sinkvars, histvars
<1>1. /\ WorkerFrame /\ at'[Worker] = "idle" /\ worker = "loop"
      /\ UNCHANGED <<enqueue_pos, dequeue_pos, claimed, got, pos>>
  BY <1>0, ReturnFacts
<1>2. \/ worker' = "flushing" /\ sink' = 1
      \/ worker' = "loop"
      \/ worker' = "done" /\ terminate_requested /\ ~ flush_requested
  <2>1. \/ worker' = "flushing" /\ sink' = 1
        \/ ~ flush_requested /\ worker' = (IF terminate_requested THEN "done" ELSE "loop")
    BY Zenon DEF process_empty, Idle
  <2> QED BY <2>1, Zenon
<1>3. ~ Holding /\ ~ Holding'
  BY <1>0, <1>1, <1>2 DEF Holding
<1>4. Holds'
  BY <1>1, <1>2, <1>3 DEF Holds, Holding
<1>5. \A s : Passed(s) = dequeue_pos /\ Passed(s)' = dequeue_pos
  BY <1>0, <1>1, <1>2 DEF Passed
<1>6. Arrived'
  <2>1. dequeue_pos \in Nat
    BY PositionFacts
  <2>2. \A s \in 1..Sinks : /\ Passed(s)' \in Nat /\ Passed(s)' >= Passed(s)
                            /\ \A p \in 1..Passed(s)' : p \in 1..Passed(s)
    BY <1>5, <2>1
  <2> QED BY <1>0, <1>1, <2>2, NothingGiven DEF WorkerInv
<1>7. Drained'
  <2>1. worker' = "done" => terminate_requested' /\ ~ flush_requested'
    BY <1>0, <1>2
  <2> QED BY <1>0, <1>1, <1>3, <2>1 DEF WorkerInv, Drained
<1>8. AllFlushed'
  <2>1. worker' = "flushing" => \A s \in 1..Sinks : ~ (s < sink')
    BY <1>2
  <2> QED BY <1>0, <2>1 DEF WorkerInv, AllFlushed
<1> QED BY <1>1, <1>4, <1>6, <1>7, <1>8 DEF WorkerInv

(* One sink is flushed.                                                    *)
LEMMA SinkFlushed ==
  ASSUME DInv, LInv, ClientInv, WorkerInv, sink_flush
  PROVE  WorkerInv'
<1>0. /\ worker = "flushing" /\ UNCHANGED mqvars /\ delivered' = delivered /\ failed' = failed
      /\ flushed' = [flushed EXCEPT ![sink] = Len(delivered[sink])]
      /\ (terminate_requested' <=> terminate_requested)
  BY DEF sink_flush, histvars
<1>1. UNCHANGED <<at, pos, got, claimed, enqueue_pos, dequeue_pos>> /\ at[Worker] = "idle"
  BY <1>0 DEF mqvars, LInv, WorkerHas
<1>2. sink \in 1..Sinks /\ Sinks \in Nat /\ DOMAIN flushed = 1..Sinks
  BY Parties DEF LInv, WorkerTypes
<1>3. \/ sink < Sinks /\ worker' = "flushing" /\ sink' = sink + 1 /\ (flush_requested' <=> flush_requested)
      \/ /\ sink = Sinks /\ worker' \in {"loop", "done"} /\ ~ flush_requested'
         /\ worker' = "done" => terminate_requested
  <2>1. CASE sink < Sinks
    BY <1>0, <2>1 DEF sink_flush
  <2>2. CASE ~ (sink < Sinks)
    <3>1. Idle /\ flush_requested' = FALSE
      BY <2>2, Zenon DEF sink_flush
    <3>2. worker' \in {"loop", "done"} /\ (worker' = "done" => terminate_requested)
      BY <3>1, Zenon DEF Idle
    <3>3. ~ flush_requested'
      BY <3>1, Zenon
    <3>4. sink = Sinks
      BY <1>2, <2>2
    <3> QED BY <3>2, <3>3, <3>4
  <2> QED BY <2>1, <2>2
<1>4. worker' # "sinks"
  BY <1>3
<1>5. ~ Holding /\ ~ Holding'
  BY <1>0, <1>1, <1>4 DEF Holding
<1>6. Holds'
  BY <1>1, <1>4, <1>5 DEF Holds, Holding
<1>7. \A s : Passed(s) = dequeue_pos /\ Passed(s)' = dequeue_pos
  BY <1>0, <1>1, <1>4 DEF Passed
<1>8. Arrived'
  <2>1. dequeue_pos \in Nat
    BY PositionFacts
  <2>2. \A s \in 1..Sinks : /\ Passed(s)' \in Nat /\ Passed(s)' >= Passed(s)
                            /\ \A p \in 1..Passed(s)' : p \in 1..Passed(s)
    BY <1>7, <2>1
  <2> QED BY <1>0, <1>1, <2>2, NothingGiven DEF WorkerInv
<1>9. Drained'
  <2>1. worker' = "done" => terminate_requested' /\ ~ flush_requested'
    BY <1>0, <1>3
  <2> QED BY <1>0, <1>1, <1>5, <2>1 DEF WorkerInv, Drained
<1>10. AllFlushed'
  <2>1. /\ flushed'[sink] = Len(delivered[sink])
        /\ \A s \in 1..Sinks : s # sink => flushed'[s] = flushed[s]
    BY <1>0, <1>2
  <2>2. \A s \in 1..Sinks : s < sink \/ s = sink => flushed'[s] = Len(delivered'[s])
    BY <1>0, <2>1 DEF WorkerInv, AllFlushed
  <2>3. worker' = "flushing" => \A s \in 1..Sinks : s < sink' => flushed'[s] = Len(delivered'[s])
    BY <1>2, <1>3, <2>2
  <2>4. (terminate_requested' /\ ~ flush_requested') =>
           \A s \in 1..Sinks : flushed'[s] = Len(delivered'[s])
    <3>1. CASE sink = Sinks
      BY <1>2, <2>2, <3>1
    <3>2. CASE flush_requested' <=> flush_requested
      BY <1>0, <2>1, <3>2 DEF WorkerInv, AllFlushed
    <3> QED BY <1>3, <3>1, <3>2
  <2> QED BY <2>3, <2>4 DEF AllFlushed
<1> QED BY <1>6, <1>8, <1>9, <1>10 DEF WorkerInv

(* The worker is outside the queue while it is at a sink.                  *)
LEMMA AtSink ==
  ASSUME DInv, LInv, sink_log \/ sink_flush \/ sink_throws
  PROVE  /\ WorkerFrame /\ at'[Worker] = "idle" /\ at[Worker] = "idle"
         /\ UNCHANGED <<at, pos, got, claimed, enqueue_pos, dequeue_pos>>
<1>1. /\ UNCHANGED <<mqvars, callvars, discarded>> /\ worker \in {"sinks", "flushing"}
  BY DEF sink_log, sink_flush, sink_throws, histvars
<1>2. /\ UNCHANGED <<at, pos, got, item, claimed, enqueue_pos, dequeue_pos>>
      /\ UNCHANGED <<call, calls, first_pos, discarded>>
  BY <1>1 DEF mqvars, callvars
<1>3. at[Worker] = "idle" /\ dequeue_pos \in Nat
  BY <1>1, PositionFacts DEF LInv, WorkerHas
<1> QED BY <1>2, <1>3 DEF WorkerFrame

(* What holds while a message is at the sinks.                             *)
LEMMA SinksFacts ==
  ASSUME DInv, LInv, WorkerInv, worker = "sinks"
  PROVE  /\ dequeue_pos \in Nat /\ dequeue_pos >= 1 /\ dequeue_pos <= enqueue_pos
         /\ Len(claimed) = enqueue_pos /\ enqueue_pos \in Nat
         /\ got[Worker] = claimed[dequeue_pos] /\ got[Worker].type = "log"
         /\ ~ terminate_requested /\ at[Worker] = "idle"
         /\ sink \in 1..Sinks
         /\ \A s \in 1..Sinks : Passed(s) = IF sink <= s THEN dequeue_pos - 1 ELSE dequeue_pos
<1>1. Holding
  BY DEF Holding
<1>2. at[Worker] = "idle" /\ sink \in 1..Sinks
  BY DEF LInv, WorkerHas, WorkerTypes
<1>3. /\ dequeue_pos \in Nat /\ dequeue_pos >= 1 /\ dequeue_pos <= enqueue_pos
      /\ Len(claimed) = enqueue_pos /\ enqueue_pos \in Nat
  BY <1>1, PositionFacts DEF WorkerInv
<1>4. got[Worker] = claimed[dequeue_pos] /\ got[Worker].type = "log"
  BY DEF WorkerInv, Holds
<1>5. ~ terminate_requested
  BY <1>1 DEF WorkerInv, Drained
<1>6. \A s \in 1..Sinks : Passed(s) = IF sink <= s THEN dequeue_pos - 1 ELSE dequeue_pos
  BY <1>2 DEF Passed
<1> QED BY <1>2, <1>3, <1>4, <1>5, <1>6

(* One sink is given the message, if it is one the sink should see.        *)
LEMMA SinkLogged ==
  ASSUME DInv, LInv, ClientInv, WorkerInv, sink_log
  PROVE  WorkerInv'
<1>0. /\ worker = "sinks" /\ Advance("loop") /\ failed' = failed
      /\ (terminate_requested' <=> terminate_requested)
  BY DEF sink_log, histvars
<1>1. /\ UNCHANGED <<at, pos, got, claimed, enqueue_pos, dequeue_pos>> /\ at'[Worker] = "idle"
  BY AtSink
<1>2. /\ dequeue_pos \in Nat /\ dequeue_pos >= 1 /\ dequeue_pos <= enqueue_pos
      /\ Len(claimed) = enqueue_pos /\ enqueue_pos \in Nat
      /\ got[Worker] = claimed[dequeue_pos] /\ got[Worker].type = "log"
      /\ ~ terminate_requested /\ at[Worker] = "idle"
      /\ sink \in 1..Sinks
  BY <1>0, SinksFacts
<1>3. \A s \in 1..Sinks : Passed(s) = IF sink <= s THEN dequeue_pos - 1 ELSE dequeue_pos
  BY <1>0, SinksFacts
<1>4. \/ sink = Sinks /\ worker' = "loop"
      \/ sink < Sinks /\ worker' = "sinks" /\ sink' = sink + 1
  BY <1>0, <1>2, Parties DEF Advance
<1>5. \A s \in 1..Sinks : Passed(s)' = IF sink < s THEN dequeue_pos - 1 ELSE dequeue_pos
  BY <1>1, <1>2, <1>4, Parties DEF Passed
<1>6. Holds'
  BY <1>0, <1>1, <1>2, <1>4 DEF Holds, Holding, WorkerInv
<1>7. Drained' /\ AllFlushed'
  BY <1>0, <1>2, <1>4 DEF Drained, AllFlushed
<1>8. ASSUME NEW s \in 1..Sinks, s # sink \/ ~ (got[Worker].level >= SinkLevel[sink])
      PROVE  delivered'[s] = delivered[s]
  BY <1>8 DEF sink_log, LInv, WorkerTypes
<1>9. (got[Worker].level >= SinkLevel[sink]) =>
        delivered'[sink] = Append(delivered[sink], claimed[dequeue_pos])
  BY <1>2 DEF sink_log, LInv, WorkerTypes
<1>10. Arrived'
  <2> SUFFICES ASSUME NEW s \in 1..Sinks PROVE AllDue(s, Passed(s))' /\ InOrderTo(s, Passed(s))'
    BY DEF Arrived
  <2>1. PICK n, m : n = Passed(s) /\ m = Passed(s)'
    OBVIOUS
  <2>2. AllDue(s, n) /\ InOrderTo(s, n)
    BY <2>1 DEF Arrived, WorkerInv
  <2>3. AllDue(s, m)' /\ InOrderTo(s, m)'
    <3>1. CASE s # sink
      <4>1. n \in Nat /\ m = n
        BY <1>2, <1>3, <1>5, <2>1, <3>1
      <4>2. delivered'[s] = delivered[s]
        BY <1>8, <3>1
      <4> QED BY <1>0, <1>1, <2>2, <4>1, <4>2, SinkGetsNothing
    <3>2. CASE s = sink
      <4>1. n \in Nat /\ m = n + 1 /\ m = dequeue_pos
        BY <1>2, <1>3, <1>5, <2>1, <3>2
      <4>2. CASE got[Worker].level >= SinkLevel[sink]
        <5>1. Wanted(s, n + 1)
          BY <1>2, <3>2, <4>1, <4>2 DEF Wanted
        <5>2. \A p \in 1..n : Wanted(s, p) => claimed[p] # claimed[n + 1]
          <6>1. \A p \in 1..n : p \in 1..Len(claimed) /\ p # n + 1
            BY <1>2, <4>1
          <6>2. n + 1 \in 1..Len(claimed)
            BY <1>2, <4>1
          <6> QED BY <6>1, <6>2 DEF ClientInv, Numbered, Wanted
        <5>3. delivered'[s] = Append(delivered[s], claimed[n + 1])
          BY <1>9, <3>2, <4>1, <4>2
        <5>4. delivered[s] \in Seq(LogMessages) /\ claimed[n + 1] \in LogMessages
          BY <1>0, <1>2, <4>1 DEF LInv, WorkerTypes, WorkerHas
        <5> QED BY <1>0, <1>1, <2>2, <4>1, <5>1, <5>2, <5>3, <5>4, SinkGetsNext
      <4>3. CASE ~ (got[Worker].level >= SinkLevel[sink])
        <5>1. ~ Wanted(s, m)
          BY <1>2, <3>2, <4>1, <4>3 DEF Wanted
        <5>2. \A p \in 1..m : p \in 1..n \/ ~ Wanted(s, p)
          BY <4>1, <5>1
        <5>3. delivered'[s] = delivered[s]
          BY <1>8, <4>3
        <5> QED BY <1>0, <1>1, <2>2, <4>1, <5>2, <5>3, SinkGetsNothing
      <4> QED BY <4>2, <4>3
    <3> QED BY <3>1, <3>2
  <2> QED BY <2>1, <2>3 DEF AllDue, InOrderTo
<1> QED BY <1>6, <1>7, <1>10 DEF WorkerInv

(* A sink throws: no sink is due the message any more.                     *)
LEMMA SinkThrew ==
  ASSUME DInv, LInv, ClientInv, WorkerInv, sink_throws
  PROVE  WorkerInv'
<1>0. /\ worker \in {"sinks", "flushing"} /\ worker' = "loop" /\ delivered' = delivered
      /\ flushed' = flushed /\ failed \subseteq failed'
      /\ worker = "sinks" => got[Worker] \in failed'
      /\ (terminate_requested' <=> terminate_requested)
      /\ (flush_requested' <=> flush_requested)
  BY DEF sink_throws, sinkvars
<1>1. /\ UNCHANGED <<at, pos, got, claimed, enqueue_pos, dequeue_pos>> /\ at'[Worker] = "idle"
      /\ at[Worker] = "idle"
  BY AtSink
<1>2. ~ Holding' /\ Holds'
  BY <1>0, <1>1 DEF Holding, Holds
<1>3. \A s : Passed(s)' = dequeue_pos
  BY <1>0, <1>1 DEF Passed
<1>4. dequeue_pos \in Nat
  BY PositionFacts
<1>5. Arrived'
  <2>1. CASE worker = "flushing"
    <3>1. \A s : Passed(s) = dequeue_pos
      BY <1>1, <2>1 DEF Passed
    <3>2. \A s \in 1..Sinks : /\ Passed(s)' \in Nat /\ Passed(s)' >= Passed(s)
                              /\ \A p \in 1..Passed(s)' : p \in 1..Passed(s)
      BY <1>3, <1>4, <3>1
    <3> QED BY <1>0, <1>1, <3>2, NothingGiven DEF WorkerInv
  <2>2. CASE worker = "sinks"
    <3>1. /\ dequeue_pos >= 1 /\ claimed[dequeue_pos] \in failed'
          /\ \A s \in 1..Sinks : Passed(s) = IF sink <= s THEN dequeue_pos - 1 ELSE dequeue_pos
      BY <1>0, <2>2, SinksFacts
    <3>2. \A p \in 1..dequeue_pos : p \in 1..(dequeue_pos - 1) \/ claimed[p] \in failed'
      BY <1>4, <3>1
    <3>3. \A s \in 1..Sinks :
            /\ Passed(s)' \in Nat /\ Passed(s)' >= Passed(s)
            /\ \A p \in 1..Passed(s)' : p \in 1..Passed(s) \/ claimed[p] \in failed'
      <4> TAKE s \in 1..Sinks
      <4>1. CASE Passed(s) = dequeue_pos - 1
        BY <1>3, <1>4, <3>1, <3>2, <4>1
      <4>2. CASE Passed(s) = dequeue_pos
        BY <1>3, <1>4, <4>2
      <4> QED BY <3>1, <4>1, <4>2
    <3> QED BY <1>0, <1>1, <3>3, NothingGiven DEF WorkerInv
  <2> QED BY <1>0, <2>1, <2>2
<1>6. Drained' /\ AllFlushed'
  BY <1>0, <1>1, <1>2 DEF WorkerInv, Drained, AllFlushed
<1> QED BY <1>2, <1>5, <1>6 DEF WorkerInv

-----------------------------------------------------------------------------
(* All of it together.                                                     *)

LEMMA AsyncInitial == ASSUME AsyncInit PROVE ClientInv /\ WorkerInv
<1>1. /\ \A t \in Threads : at[t] = "idle" /\ pos[t] = 0
      /\ claimed = << >> /\ enqueue_pos = 0 /\ dequeue_pos = 0
      /\ \A t \in Clients : call[t] = "none" /\ first_pos[t] = 0
      /\ worker = "loop" /\ failed = {}
      /\ \A s \in 1..Sinks : delivered[s] = << >>
      /\ ~ terminate_requested
  BY DEF AsyncInit, QueueInit
<1>2. Len(claimed) = 0 /\ \A p \in 1..Len(claimed) : FALSE
  BY <1>1
<1>3. Places
  BY <1>1, Parties DEF Places, Pushing
<1>4. Numbered
  BY <1>1, <1>2, Parties DEF Numbered, Unclaimed
<1>5. Last
  BY <1>1, <1>2, Parties DEF Last, Unclaimed, Ending
<1>6. Waits
  <2> SUFFICES ASSUME NEW t \in Clients
               PROVE  /\ at[t] \notin {"e_write", "e_publish", "e_ok"}
                      /\ call[t] \notin {"wait", "wait_last"}
                      /\ first_pos[t] <= dequeue_pos
    BY DEF Waits
  <2>1. at[t] = "idle" /\ call[t] = "none" /\ first_pos[t] = 0 /\ dequeue_pos = 0
    BY <1>1, Parties
  <2> QED BY <2>1
<1>7. Holds
  BY <1>1, Parties DEF Holds, Holding
<1>8. Arrived
  <2>1. \A s : Passed(s) = 0
    BY <1>1, Parties DEF Passed
  <2>2. \A s \in 1..Sinks : AllDue(s, 0) /\ InOrderTo(s, 0)
    BY <1>1 DEF AllDue, InOrderTo
  <2> QED BY <2>1, <2>2 DEF Arrived
<1>9. Drained /\ AllFlushed
  BY <1>1 DEF Drained, AllFlushed
<1> QED BY <1>3, <1>4, <1>5, <1>6, <1>7, <1>8, <1>9 DEF ClientInv, WorkerInv

LEMMA ClientStepKeeps ==
  ASSUME DInv, CallTypes, LInv, ClientInv, WorkerInv, NEW t \in Clients,
         ClientNext(t) \/ (t = Owner /\ (destroy \/ join))
  PROVE  ClientInv' /\ WorkerInv'
<1>1. ClientFrame(t)
  BY ClientActs DEF ClientInv
<1>2. WorkerInv'
  BY <1>1, ClientKeepsWorker DEF ClientInv, WorkerInv
<1>3. CASE (\E lvl \in MsgLevels : log(t, lvl)) \/ flush(t) \/ (t = Owner /\ destroy)
  BY <1>2, <1>3, CallStarts
<1>4. CASE push_msg_ok(t) \/ push_msg_full(t) \/ wait_load(t) \/ wait_compare(t) \/ QueueStep(t)
           \/ (t = Owner /\ join)
  BY <1>2, <1>4, CallGoesOn
<1> QED BY <1>3, <1>4 DEF ClientNext

LEMMA WorkerStepKeeps ==
  ASSUME DInv, DInv', LInv, ClientInv, WorkerInv, WorkerNext
  PROVE  ClientInv' /\ WorkerInv'
<1>1. CASE process_begin \/ QueueStep(Worker)
  BY <1>1, QueueMoves, WorkerKeepsClients
<1>2. CASE process_flush \/ process_terminate \/ process_log
  BY <1>2, MessageTaken, WorkerKeepsClients
<1>3. CASE process_empty
  BY <1>3, QueueEmpty, WorkerKeepsClients
<1>4. CASE sink_log
  BY <1>4, AtSink, SinkLogged, WorkerKeepsClients
<1>5. CASE sink_flush
  BY <1>5, AtSink, SinkFlushed, WorkerKeepsClients
<1>6. CASE sink_throws
  BY <1>6, AtSink, SinkThrew, WorkerKeepsClients
<1> QED BY <1>1, <1>2, <1>3, <1>4, <1>5, <1>6 DEF WorkerNext

LEMMA AsyncStutters ==
  ASSUME DInv, ClientInv, WorkerInv, UNCHANGED vars PROVE ClientInv' /\ WorkerInv'
<1>1. /\ UNCHANGED <<enqueue_pos, dequeue_pos, claimed, at, pos, item, got>>
      /\ UNCHANGED <<call, calls, first_pos, worker, sink, flush_requested, terminate_requested,
                     delivered, flushed, failed, discarded>>
  BY DEF vars, mqvars, avars
<1>2. Places' /\ Last' /\ Waits'
  BY <1>1 DEF ClientInv, Places, Last, Waits, Unclaimed
<1>3. Numbered'
  BY <1>1 DEF ClientInv, Numbered, Unclaimed
<1>4. Holds' /\ Drained' /\ AllFlushed'
  BY <1>1 DEF WorkerInv, Holds, Drained, AllFlushed, Holding
<1>5. Arrived'
  <2> SUFFICES ASSUME NEW s \in 1..Sinks PROVE AllDue(s, Passed(s))' /\ InOrderTo(s, Passed(s))'
    BY DEF Arrived
  <2>1. PICK n : n = Passed(s)
    OBVIOUS
  <2>2. Passed(s)' = n
    BY <1>1, <2>1 DEF Passed
  <2>3. AllDue(s, n) /\ InOrderTo(s, n)
    BY <2>1 DEF WorkerInv, Arrived
  <2>4. n \in Nat
    BY <2>1, PositionFacts DEF WorkerInv
  <2>5. AllDue(s, n)' /\ InOrderTo(s, n)'
    BY <1>1, <2>3, <2>4, SameToSinks
  <2> QED BY <2>2, <2>5 DEF AllDue, InOrderTo
<1> QED BY <1>2, <1>3, <1>4, <1>5 DEF ClientInv, WorkerInv

LEMMA AsyncAlways == AsyncSpec => [](DInv /\ CallTypes /\ LInv /\ ClientInv /\ WorkerInv)
<1>1. AsyncInit => DInv /\ CallTypes /\ LInv /\ ClientInv /\ WorkerInv
  BY RingInitial, LoggerInitial, AsyncInitial
<1>2. /\ DInv /\ CallTypes /\ LInv /\ ClientInv /\ WorkerInv /\ [AsyncNext]_vars
      => (DInv /\ CallTypes /\ LInv /\ ClientInv /\ WorkerInv)'
  <2> SUFFICES ASSUME DInv, CallTypes, LInv, ClientInv, WorkerInv, [AsyncNext]_vars
               PROVE  DInv' /\ CallTypes' /\ LInv' /\ ClientInv' /\ WorkerInv'
    OBVIOUS
  <2>1. DInv' /\ CallTypes' /\ LInv'
    BY RingStepKeeps, LoggerStepKeeps
  <2>2. CASE WorkerNext
    BY <2>1, <2>2, WorkerStepKeeps
  <2>3. CASE (\E t \in Clients : ClientNext(t)) \/ destroy \/ join
    BY <2>1, <2>3, Parties, ClientStepKeeps
  <2>4. CASE UNCHANGED vars
    BY <2>1, <2>4, AsyncStutters
  <2> QED BY <2>2, <2>3, <2>4 DEF AsyncNext
<1> QED BY <1>1, <1>2, PTL DEF AsyncSpec

(* For every number of threads, cells, sinks, messages and exceptions:     *)
(* when the worker thread has ended, so that the destructor can return     *)
(* from join, each sink was given every accepted message it should see     *)
(* and on which nothing threw, in the order of acceptance and once, and    *)
(* has flushed all of them (worker_loop, process_next_msg).                *)
THEOREM NothingIsLost == AsyncSpec => []NothingLostAtExit
<1>1. DInv /\ WorkerInv => NothingLostAtExit
  <2> SUFFICES ASSUME DInv, WorkerInv, worker = "done", NEW s \in 1..Sinks
               PROVE  /\ InOrder(s) /\ AllDue(s, Len(claimed))
                      /\ flushed[s] = Len(delivered[s])
    BY DEF NothingLostAtExit
  <2>1. /\ terminate_requested /\ ~ flush_requested /\ dequeue_pos = enqueue_pos
        /\ ~ Holding
    BY DEF WorkerInv, Drained
  <2>2. Passed(s) = dequeue_pos /\ Len(claimed) = enqueue_pos
    BY <2>1, PositionFacts DEF Passed, Holding
  <2>3. PICK n : n = Len(claimed)
    OBVIOUS
  <2>4. Passed(s) = n
    BY <2>1, <2>2, <2>3
  <2>5. AllDue(s, n) /\ InOrderTo(s, n)
    BY <2>4 DEF WorkerInv, Arrived
  <2>6. InOrder(s)
    BY <2>3, <2>5 DEF InOrder, InOrderTo
  <2>7. flushed[s] = Len(delivered[s])
    BY <2>1 DEF WorkerInv, AllFlushed
  <2> QED BY <2>3, <2>5, <2>6, <2>7
<1> QED BY <1>1, AsyncAlways, PTL

(* For every number of threads: flush() returns only when the sinks have   *)
(* all that any thread logged before it, although wait_empty_q reads the   *)
(* two positions of the queue one after the other while others enqueue and *)
(* the worker dequeues.                                                    *)
THEOREM FlushWaits == AsyncSpec => FlushDelivers
<1>1. /\ DInv /\ CallTypes /\ LInv /\ ClientInv /\ WorkerInv /\ [AsyncNext]_vars
      => [\A t \in Clients :
            (call[t] = "wait_last" /\ call'[t] = "none" /\ ~ discarded) =>
              \A s \in 1..Sinks : AllDue(s, pos[t])]_vars
  <2> SUFFICES ASSUME DInv, LInv, ClientInv, WorkerInv, [AsyncNext]_vars, NEW t \in Clients,
                      call[t] = "wait_last", call'[t] = "none", ~ discarded,
                      NEW s \in 1..Sinks
               PROVE  AllDue(s, pos[t])
    OBVIOUS
  <2>1. wait_compare(t)
    <3>0. DOMAIN call = Clients /\ call'[t] # call[t] /\ at[t] = "idle"
      BY DEF LInv, ClientTypes, ClientInv, Places, Pushing
    <3>1. ~ WorkerNext
      BY <3>0 DEF WorkerNext, process_begin, process_flush, process_terminate, process_log,
            sink_log, process_empty, sink_flush, sink_throws, QueueStep, avars, callvars
    <3>2. ~ UNCHANGED vars
      BY <3>0 DEF vars, avars
    <3>3. ~ destroy /\ ~ join
      BY <3>0, Parties DEF destroy, join, Call
    <3>4. PICK u \in Clients : ClientNext(u)
      BY <3>1, <3>2, <3>3 DEF AsyncNext
    <3>5. u = t
      <4>1. ASSUME u # t PROVE call'[t] = call[t]
        BY <3>0, <3>4, <4>1 DEF ClientNext, log, flush, push_msg_ok, push_msg_full, Pushed,
              wait_load, wait_compare, QueueStep, Call, avars
      <4> QED BY <3>0, <4>1
    <3>6. ~ (\E lvl \in MsgLevels : log(t, lvl)) /\ ~ flush(t)
      BY DEF log, flush, Free
    <3>7. ~ push_msg_ok(t) /\ ~ push_msg_full(t) /\ ~ wait_load(t)
      BY <3>0 DEF push_msg_ok, push_msg_full, wait_load
    <3>8. ~ QueueStep(t)
      BY <3>0 DEF QueueStep, avars
    <3> QED BY <3>4, <3>5, <3>6, <3>7, <3>8 DEF ClientNext
  <2>2. enqueue_pos <= first_pos[t]
    BY <2>1 DEF wait_compare, Call, LInv, ClientTypes
  <2>3. first_pos[t] <= dequeue_pos /\ pos[t] < enqueue_pos
    BY DEF ClientInv, Waits
  <2>4. /\ dequeue_pos \in Nat /\ enqueue_pos \in Nat /\ Passed(s) \in Nat
        /\ first_pos[t] \in Nat /\ pos[t] \in Nat
    BY PositionFacts, Parties DEF WorkerInv, LInv, ClientTypes, DInv, QInv, PosTypes
  <2>5. Passed(s) >= dequeue_pos - 1
    BY <2>4 DEF Passed
  <2>6. PICK n, m : n = Passed(s) /\ m = pos[t]
    OBVIOUS
  <2>7. n \in Nat /\ m \in Nat /\ m <= n
    BY <2>2, <2>3, <2>4, <2>5, <2>6
  <2>8. AllDue(s, n)
    BY <2>6 DEF WorkerInv, Arrived
  <2>9. AllDue(s, m)
    BY <2>7, <2>8 DEF AllDue
  <2> QED BY <2>6, <2>9
<1> QED BY <1>1, AsyncAlways, PTL DEF AsyncSpec, FlushDelivers
=============================================================================

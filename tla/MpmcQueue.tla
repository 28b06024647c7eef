----------------------------- MODULE MpmcQueue -----------------------------
(***************************************************************************)
(* mpmc_bounded_queue, the lock-free ring that carries log messages from   *)
(* every thread to the logging thread.  A cell holds an item and a         *)
(* sequence number: pos when the cell waits for the item of that position, *)
(* pos + 1 when the item is there, pos + Capacity when it was taken.       *)
(* Positions are claimed by compare-exchange on enqueue_pos_ and           *)
(* dequeue_pos_.  Each atomic load, store or exchange is a step of its     *)
(* own; data_ is not atomic and must not be touched by two threads.        *)
(***************************************************************************)
EXTENDS Integers, Sequences

CONSTANTS Threads,    \* the threads that use the queue
          Items,      \* what is enqueued
          Capacity,   \* buffer_size
          NoItem      \* the value of data_ that nobody wrote, or moved from

ASSUME QueueAssumption ==
    /\ Capacity \in Nat /\ Capacity >= 2
    /\ \E k \in 1..Capacity : Capacity = 2^k
    /\ NoItem \notin Items

VARIABLES enqueue_pos,   \* next position to be written
          dequeue_pos,   \* next position to be read
          sequence,      \* sequence_ of each cell
          data,          \* data_ of each cell
          at,            \* where each thread is in enqueue or dequeue
          pos,           \* its local pos
          item,          \* the item it enqueues
          got,           \* the item its dequeue returned
          claimed        \* history: the items in the order of their positions

mqvars == <<enqueue_pos, dequeue_pos, sequence, data, at, pos, item, got, claimed>>

Cells == 0..(Capacity - 1)

(* pos & buffer_mask_: the remainder, the size being a power of two.       *)
Cell(p) == p % Capacity

QueueInit ==
    /\ enqueue_pos = 0 /\ dequeue_pos = 0
    /\ sequence = [c \in Cells |-> c]
    /\ data = [c \in Cells |-> NoItem]
    /\ at = [t \in Threads |-> "idle"]
    /\ pos = [t \in Threads |-> 0]
    /\ item = [t \in Threads |-> NoItem]
    /\ got = [t \in Threads |-> NoItem]
    /\ claimed = << >>

Goto(t, l) == at' = [at EXCEPT ![t] = l]

-----------------------------------------------------------------------------
(* enqueue.  The call and its load of enqueue_pos_.                        *)
EnqueueCall(t, x) ==
    /\ item' = [item EXCEPT ![t] = x]
    /\ pos' = [pos EXCEPT ![t] = enqueue_pos]
    /\ got' = [got EXCEPT ![t] = NoItem]
    /\ Goto(t, "e_seq")
    /\ UNCHANGED <<enqueue_pos, dequeue_pos, sequence, data, claimed>>

EnqueueBegin(t, x) == at[t] = "idle" /\ EnqueueCall(t, x)

(* The cell's sequence number against pos: equal, the position can be      *)
(* claimed; less, its last item is still there and the call returns false; *)
(* more, another thread was faster.                                        *)
EnqueueLook(t) ==
    /\ at[t] = "e_seq"
    /\ LET dif == sequence[Cell(pos[t])] - pos[t] IN
       Goto(t, IF dif = 0 THEN "e_cas" ELSE IF dif < 0 THEN "e_full" ELSE "e_load")
    /\ UNCHANGED <<enqueue_pos, dequeue_pos, sequence, data, pos, item, got, claimed>>

EnqueueLoad(t) ==
    /\ at[t] = "e_load"
    /\ pos' = [pos EXCEPT ![t] = enqueue_pos]
    /\ Goto(t, "e_seq")
    /\ UNCHANGED <<enqueue_pos, dequeue_pos, sequence, data, item, got, claimed>>

EnqueueClaim_NotExchanged(t) ==
    /\ at[t] = "e_cas"
    /\ enqueue_pos' = pos[t] + 1
    /\ claimed' = Append(claimed, item[t])
    /\ Goto(t, "e_write")
    /\ UNCHANGED <<dequeue_pos, sequence, data, pos, item, got>>

(* compare_exchange_weak that succeeds.                                    *)
EnqueueClaim(t) ==
    /\ at[t] = "e_cas" /\ enqueue_pos = pos[t]
    /\ enqueue_pos' = pos[t] + 1
    /\ claimed' = Append(claimed, item[t])
    /\ Goto(t, "e_write")
    /\ UNCHANGED <<dequeue_pos, sequence, data, pos, item, got>>

(* It fails, also without a reason, and loads enqueue_pos_ into pos.       *)
EnqueueRetry(t) ==
    /\ at[t] = "e_cas"
    /\ pos' = [pos EXCEPT ![t] = enqueue_pos]
    /\ Goto(t, "e_seq")
    /\ UNCHANGED <<enqueue_pos, dequeue_pos, sequence, data, item, got, claimed>>

EnqueueWrite(t) ==
    /\ at[t] = "e_write"
    /\ data' = [data EXCEPT ![Cell(pos[t])] = item[t]]
    /\ Goto(t, "e_publish")
    /\ UNCHANGED <<enqueue_pos, dequeue_pos, sequence, pos, item, got, claimed>>

EnqueuePublish(t) ==
    /\ at[t] = "e_publish"
    /\ sequence' = [sequence EXCEPT ![Cell(pos[t])] = pos[t] + 1]
    /\ Goto(t, "e_ok")
    /\ UNCHANGED <<enqueue_pos, dequeue_pos, data, pos, item, got, claimed>>

-----------------------------------------------------------------------------
(* dequeue.  The call and its load of dequeue_pos_.                        *)
DequeueBegin(t) ==
    /\ at[t] = "idle"
    /\ pos' = [pos EXCEPT ![t] = dequeue_pos]
    /\ got' = [got EXCEPT ![t] = NoItem]
    /\ Goto(t, "d_seq")
    /\ UNCHANGED <<enqueue_pos, dequeue_pos, sequence, data, item, claimed>>

(* Equal to pos + 1, the item is there; less, it is not, and the call      *)
(* returns false; more, another thread took it.                            *)
DequeueLook(t) ==
    /\ at[t] = "d_seq"
    /\ LET dif == sequence[Cell(pos[t])] - (pos[t] + 1) IN
       Goto(t, IF dif = 0 THEN "d_cas" ELSE IF dif < 0 THEN "d_empty" ELSE "d_load")
    /\ UNCHANGED <<enqueue_pos, dequeue_pos, sequence, data, pos, item, got, claimed>>

DequeueLoad(t) ==
    /\ at[t] = "d_load"
    /\ pos' = [pos EXCEPT ![t] = dequeue_pos]
    /\ Goto(t, "d_seq")
    /\ UNCHANGED <<enqueue_pos, dequeue_pos, sequence, data, item, got, claimed>>

DequeueClaim_NotExchanged(t) ==
    /\ at[t] = "d_cas"
    /\ Goto(t, "d_read")
    /\ UNCHANGED <<enqueue_pos, dequeue_pos, sequence, data, pos, item, got, claimed>>

DequeueClaim(t) ==
    /\ at[t] = "d_cas" /\ dequeue_pos = pos[t]
    /\ dequeue_pos' = pos[t] + 1
    /\ Goto(t, "d_read")
    /\ UNCHANGED <<enqueue_pos, sequence, data, pos, item, got, claimed>>

DequeueRetry(t) ==
    /\ at[t] = "d_cas"
    /\ pos' = [pos EXCEPT ![t] = dequeue_pos]
    /\ Goto(t, "d_seq")
    /\ UNCHANGED <<enqueue_pos, dequeue_pos, sequence, data, item, got, claimed>>

(* The item is moved out of the cell.                                      *)
DequeueRead(t) ==
    /\ at[t] = "d_read"
    /\ got' = [got EXCEPT ![t] = data[Cell(pos[t])]]
    /\ data' = [data EXCEPT ![Cell(pos[t])] = NoItem]
    /\ Goto(t, "d_release")
    /\ UNCHANGED <<enqueue_pos, dequeue_pos, sequence, pos, item, claimed>>

(* pos + buffer_mask_ + 1.                                                 *)
DequeueRelease(t) ==
    /\ at[t] = "d_release"
    /\ sequence' = [sequence EXCEPT ![Cell(pos[t])] = pos[t] + Capacity]
    /\ Goto(t, "d_ok")
    /\ UNCHANGED <<enqueue_pos, dequeue_pos, data, pos, item, got, claimed>>

-----------------------------------------------------------------------------
(* The caller takes the result.                                            *)
Results == {"e_ok", "e_full", "d_ok", "d_empty"}

QueueReturn(t) ==
    /\ at[t] \in Results
    /\ Goto(t, "idle")
    /\ UNCHANGED <<enqueue_pos, dequeue_pos, sequence, data, pos, item, got, claimed>>

(* What a thread inside a call does next.                                  *)
QueueWork(t) ==
    \/ EnqueueLook(t) \/ EnqueueLoad(t) \/ EnqueueClaim(t) \/ EnqueueRetry(t)
    \/ EnqueueWrite(t) \/ EnqueuePublish(t)
    \/ DequeueLook(t) \/ DequeueLoad(t) \/ DequeueClaim(t) \/ DequeueRetry(t)
    \/ DequeueRead(t) \/ DequeueRelease(t)

QueueNext == \E t \in Threads :
    \/ \E x \in Items : EnqueueBegin(t, x)
    \/ DequeueBegin(t)
    \/ QueueWork(t)
    \/ QueueReturn(t)

QueueSpec == QueueInit /\ [][QueueNext]_mqvars

-----------------------------------------------------------------------------
EnqueueAt == {"e_seq", "e_load", "e_cas", "e_write", "e_publish"}
DequeueAt == {"d_seq", "d_load", "d_cas", "d_read", "d_release"}

QueueTypeOK ==
    /\ enqueue_pos \in Nat /\ dequeue_pos \in Nat
    /\ sequence \in [Cells -> Nat]
    /\ data \in [Cells -> Items \cup {NoItem}]
    /\ at \in [Threads -> {"idle"} \cup EnqueueAt \cup DequeueAt \cup Results]
    /\ pos \in [Threads -> Nat]
    /\ item \in [Threads -> Items \cup {NoItem}]
    /\ got \in [Threads -> Items \cup {NoItem}]
    /\ claimed \in Seq(Items)

Writing(t) == at[t] \in {"e_write", "e_publish"}
Reading(t) == at[t] \in {"d_read", "d_release"}

(* Two threads never own the same cell: between the exchange that claims a *)
(* position and the store that gives the cell on, nobody else touches its  *)
(* data_, which no lock protects.                                          *)
NoDataRace == \A t, u \in Threads :
    (t # u /\ (Writing(t) \/ Reading(t)) /\ (Writing(u) \/ Reading(u))) =>
        Cell(pos[t]) # Cell(pos[u])

(* The threads see a bounded first-in first-out queue: what a dequeue      *)
(* returns is the oldest item claimed and not yet taken, whatever the      *)
(* order in which items are written and cells are given back.              *)
Fifo == INSTANCE BoundedQueue WITH
    QThreads <- Threads, QItems <- Items, QSize <- Capacity, QNothing <- NoItem,
    queue <- [i \in 1..(enqueue_pos - dequeue_pos) |-> claimed[dequeue_pos + i]],
    out <- [t \in Threads |->
              IF at[t] = "d_read" THEN claimed[pos[t] + 1] ELSE got[t]]
ImplementsFifo == Fifo!QSpec
=============================================================================

------------------------------ MODULE AsyncLog ------------------------------
(***************************************************************************)
(* async_logger and async_log_helper: the threads of the service push log  *)
(* messages, flush requests and, from the destructor, a request to         *)
(* terminate into the bounded queue; the worker thread takes them out,     *)
(* formats them and gives them to the sinks one after the other.  A sink,  *)
(* or the formatter, may throw (Faults bounds how often); the worker's     *)
(* loop catches it and goes on with the next message.                      *)
(***************************************************************************)
EXTENDS MpmcQueue

CONSTANTS Worker,       \* the worker thread, the only one that dequeues
          Owner,        \* the thread that destroys the logger
          Sinks,        \* number of sinks
          SinkLevel,    \* level of each sink
          Level,        \* level of the logger
          FlushLevel,   \* _flush_level
          MsgLevels,    \* levels of the messages that are logged
          Policies,     \* overflow policies: "block_retry", "discard_log_msg"
          Interval,     \* a flush interval is set
          Budget,       \* calls of log and flush per thread, a bound
          Faults        \* exceptions thrown, a bound

Clients == Threads \ {Worker}

Message(type, t, n, lvl) == [type |-> type, from |-> t, n |-> n, level |-> lvl]
Flush == Message("flush", Worker, 0, 0)
Terminate == Message("terminate", Worker, 0, 0)
LogMessages == {Message("log", t, n, lvl) :
                  t \in Clients, n \in 1..Budget, lvl \in MsgLevels}
AllMessages == LogMessages \cup {Flush, Terminate}

ASSUME AsyncAssumption ==
    /\ Items = AllMessages
    /\ Worker \in Threads /\ Owner \in Clients
    /\ Sinks \in Nat \ {0} /\ SinkLevel \in [1..Sinks -> 0..6]
    /\ Level \in 0..6 /\ FlushLevel \in 0..6 /\ MsgLevels \subseteq 0..5
    /\ Policies \subseteq {"block_retry", "discard_log_msg"}
    /\ Interval \in BOOLEAN /\ Budget \in Nat /\ Faults \in Nat

VARIABLES policy,                \* _overflow_policy
          call,                  \* what each client is inside of
          calls,                 \* calls it has made
          first_pos,             \* what its approx_size loaded first
          worker,                \* where the worker is
          sink,                  \* the sink it is at
          flush_requested, terminate_requested,
          delivered,             \* per sink, the messages it was given
          flushed,               \* per sink, how many of them it has flushed
          failed,                \* history: messages a sink or formatter threw on
          discarded,             \* history: a message was given up
          faults                 \* exceptions thrown

avars == <<policy, call, calls, first_pos, worker, sink, flush_requested,
           terminate_requested, delivered, flushed, failed, discarded, faults>>
vars == <<mqvars, avars>>
sinkvars == <<delivered, flushed>>
workervars == <<worker, sink, flush_requested, terminate_requested>>
histvars == <<failed, discarded, faults>>
callvars == <<call, calls, first_pos>>

(* The constructors: nothing requested, the worker's loop started.         *)
AsyncInit ==
    /\ QueueInit
    /\ policy \in Policies
    /\ call = [t \in Clients |-> "none"]
    /\ calls = [t \in Clients |-> 0]
    /\ first_pos = [t \in Clients |-> 0]
    /\ worker = "loop" /\ sink = 1
    /\ flush_requested = FALSE /\ terminate_requested = FALSE
    /\ delivered = [s \in 1..Sinks |-> << >>]
    /\ flushed = [s \in 1..Sinks |-> 0]
    /\ failed = {} /\ discarded = FALSE /\ faults = 0

-----------------------------------------------------------------------------
(* Calls of the clients.  A destructor that has begun excludes others.     *)

Free(t) == /\ call[t] = "none" /\ calls[t] < Budget
           /\ call[Owner] \notin {"destroy", "join", "gone"}

Call(t, c) == call' = [call EXCEPT ![t] = c]

(* should_log: below the logger's level the call returns at once.          *)
log(t, lvl) ==
    /\ Free(t) /\ lvl >= Level
    /\ calls' = [calls EXCEPT ![t] = @ + 1]
    /\ EnqueueBegin(t, Message("log", t, calls'[t], lvl))
    /\ Call(t, "log")
    /\ UNCHANGED <<policy, first_pos, workervars, sinkvars, histvars>>

flush(t) ==
    /\ Free(t)
    /\ calls' = [calls EXCEPT ![t] = @ + 1]
    /\ EnqueueBegin(t, Flush)
    /\ Call(t, "flush")
    /\ UNCHANGED <<policy, first_pos, workervars, sinkvars, histvars>>

(* The owner has joined or abandoned everybody else who logs.              *)
destroy ==
    /\ call[Owner] = "none" /\ \A t \in Clients : call[t] = "none"
    /\ EnqueueBegin(Owner, Terminate)
    /\ Call(Owner, "destroy")
    /\ UNCHANGED <<policy, calls, first_pos, workervars, sinkvars, histvars>>

should_flush_on(m) == m.level >= FlushLevel /\ m.level # 6

(* push_msg is done: log goes on to the asynchronous flush, flush waits    *)
(* for an empty queue, the destructor joins the worker.                    *)
Pushed(t) ==
    \/ /\ call[t] = "log" /\ should_flush_on(item[t])
       /\ Call(t, "log_flush") /\ EnqueueCall(t, Flush)
    \/ /\ \/ call[t] = "log" /\ ~should_flush_on(item[t]) /\ Call(t, "none")
          \/ call[t] = "log_flush" /\ Call(t, "none")
          \/ call[t] = "flush" /\ Call(t, "wait")
          \/ call[t] = "destroy" /\ Call(t, "join")
       /\ QueueReturn(t)

push_msg_ok(t) ==
    /\ at[t] = "e_ok" /\ Pushed(t)
    /\ UNCHANGED <<policy, calls, first_pos, workervars, sinkvars, histvars>>

(* The queue is full: the message is dropped or enqueue is called again.   *)
push_msg_full(t) ==
    /\ at[t] = "e_full"
    /\ IF policy = "discard_log_msg"
       THEN Pushed(t) /\ discarded' = TRUE
       ELSE EnqueueCall(t, item[t]) /\ UNCHANGED <<call, discarded>>
    /\ UNCHANGED <<policy, calls, first_pos, workervars, sinkvars, failed, faults>>

(* approx_size in wait_empty_q: two loads, dequeue_pos_ first.             *)
wait_load(t) ==
    /\ call[t] = "wait"
    /\ first_pos' = [first_pos EXCEPT ![t] = dequeue_pos]
    /\ Call(t, "wait_last")
    /\ UNCHANGED <<mqvars, policy, calls, workervars, sinkvars, histvars>>

wait_compare_OneLeft(t) ==
    /\ call[t] = "wait_last"
    /\ Call(t, IF enqueue_pos <= first_pos[t] + 1 THEN "none" ELSE "wait")
    /\ UNCHANGED <<mqvars, policy, calls, first_pos, workervars, sinkvars, histvars>>

wait_compare(t) ==
    /\ call[t] = "wait_last"
    /\ Call(t, IF enqueue_pos <= first_pos[t] THEN "none" ELSE "wait")
    /\ UNCHANGED <<mqvars, policy, calls, first_pos, workervars, sinkvars, histvars>>

(* _worker_thread.join() returns.                                          *)
join ==
    /\ call[Owner] = "join" /\ worker = "done"
    /\ Call(Owner, "gone")
    /\ UNCHANGED <<mqvars, policy, calls, first_pos, workervars, sinkvars, histvars>>

-----------------------------------------------------------------------------
(* The worker: process_next_msg.                                           *)

process_begin ==
    /\ worker = "loop" /\ DequeueBegin(Worker)
    /\ UNCHANGED avars

Process(type) == at[Worker] = "d_ok" /\ got[Worker].type = type /\ QueueReturn(Worker)

process_flush ==
    /\ Process("flush")
    /\ flush_requested' = TRUE
    /\ UNCHANGED <<policy, callvars, worker, sink, terminate_requested, sinkvars, histvars>>

process_terminate_OnlyFlushes ==
    /\ Process("terminate")
    /\ flush_requested' = TRUE
    /\ UNCHANGED <<policy, callvars, worker, sink, terminate_requested, sinkvars, histvars>>

process_terminate ==
    /\ Process("terminate")
    /\ flush_requested' = TRUE /\ terminate_requested' = TRUE
    /\ UNCHANGED <<policy, callvars, worker, sink, sinkvars, histvars>>

process_log ==
    /\ Process("log")
    /\ worker' = "sinks" /\ sink' = 1
    /\ UNCHANGED <<policy, callvars, flush_requested, terminate_requested, sinkvars, histvars>>

Advance(done) == IF sink = Sinks THEN worker' = done /\ sink' = 1
                 ELSE worker' = worker /\ sink' = sink + 1

sink_log ==
    /\ worker = "sinks"
    /\ delivered' = IF got[Worker].level >= SinkLevel[sink]
                    THEN [delivered EXCEPT ![sink] = Append(@, got[Worker])]
                    ELSE delivered
    /\ Advance("loop")
    /\ UNCHANGED <<mqvars, policy, callvars, flush_requested, terminate_requested,
                   flushed, histvars>>

(* process_next_msg found nothing: handle_flush_interval, then terminate.  *)
Idle == worker' = (IF terminate_requested THEN "done" ELSE "loop") /\ sink' = 1

process_empty_NoFlush ==
    /\ at[Worker] = "d_empty" /\ QueueReturn(Worker)
    /\ Idle
    /\ UNCHANGED <<policy, callvars, flush_requested, terminate_requested, sinkvars, histvars>>

process_empty ==
    /\ at[Worker] = "d_empty" /\ QueueReturn(Worker)
    /\ \/ /\ flush_requested \/ Interval
          /\ worker' = "flushing" /\ sink' = 1
       \/ ~flush_requested /\ Idle
    /\ UNCHANGED <<policy, callvars, flush_requested, terminate_requested, sinkvars, histvars>>

sink_flush ==
    /\ worker = "flushing"
    /\ flushed' = [flushed EXCEPT ![sink] = Len(delivered[sink])]
    /\ IF sink < Sinks
       THEN worker' = worker /\ sink' = sink + 1 /\ UNCHANGED flush_requested
       ELSE Idle /\ flush_requested' = FALSE
    /\ UNCHANGED <<mqvars, policy, callvars, terminate_requested, delivered, histvars>>

(* An exception, caught in worker_loop: the rest of process_next_msg is    *)
(* skipped and the loop goes on.                                           *)
sink_throws ==
    /\ worker \in {"sinks", "flushing"} /\ faults < Faults
    /\ faults' = faults + 1
    /\ failed' = IF worker = "sinks" THEN failed \cup {got[Worker]} ELSE failed
    /\ worker' = "loop" /\ sink' = 1
    /\ UNCHANGED <<mqvars, policy, callvars, flush_requested, terminate_requested,
                   sinkvars, discarded>>

QueueStep(t) == QueueWork(t) /\ UNCHANGED avars

WorkerNext ==
    \/ process_begin \/ process_flush \/ process_terminate \/ process_log
    \/ sink_log \/ process_empty \/ sink_flush \/ sink_throws \/ QueueStep(Worker)

ClientNext(t) ==
    \/ \E lvl \in MsgLevels : log(t, lvl)
    \/ flush(t) \/ push_msg_ok(t) \/ push_msg_full(t)
    \/ wait_load(t) \/ wait_compare(t) \/ QueueStep(t)

AsyncNext == WorkerNext \/ (\E t \in Clients : ClientNext(t)) \/ destroy \/ join

(* Threads that wait spin, yield or sleep and never block one another      *)
(* (sleep_or_yield); the operating system runs every thread, and a         *)
(* compare-exchange that can succeed again and again does at last.         *)
Fairness ==
    /\ WF_vars(WorkerNext) /\ WF_vars(join)
    /\ \A t \in Clients : /\ WF_vars(push_msg_ok(t) \/ push_msg_full(t) \/ wait_load(t)
                                       \/ wait_compare(t) \/ QueueStep(t))
                          /\ SF_vars(EnqueueClaim(t) /\ UNCHANGED avars)
    /\ SF_vars(DequeueClaim(Worker) /\ UNCHANGED avars)

AsyncSpec == AsyncInit /\ [][AsyncNext]_vars /\ Fairness

-----------------------------------------------------------------------------
AsyncTypeOK ==
    /\ QueueTypeOK
    /\ policy \in Policies
    /\ call \in [Clients -> {"none", "log", "log_flush", "flush", "wait", "wait_last",
                             "destroy", "join", "gone"}]
    /\ calls \in [Clients -> 0..Budget] /\ first_pos \in [Clients -> Nat]
    /\ worker \in {"loop", "sinks", "flushing", "done"} /\ sink \in 1..Sinks
    /\ flush_requested \in BOOLEAN /\ terminate_requested \in BOOLEAN
    /\ delivered \in [1..Sinks -> Seq(LogMessages)] /\ flushed \in [1..Sinks -> Nat]
    /\ failed \subseteq LogMessages /\ discarded \in BOOLEAN /\ faults \in 0..Faults

(* The message of position p is one sink s should see.                     *)
Wanted(s, p) == claimed[p].type = "log" /\ claimed[p].level >= SinkLevel[s]

(* Sink s was given nothing but messages it should see, in the order of    *)
(* their positions and none of them twice.                                 *)
InOrder(s) == \A i \in 1..Len(delivered[s]) : \E p \in 1..Len(claimed) :
    /\ Wanted(s, p) /\ delivered[s][i] = claimed[p]
    /\ \A j \in 1..(i - 1) : /\ delivered[s][j] # claimed[p]
                             /\ \E q \in 1..(p - 1) : delivered[s][j] = claimed[q]

(* It has those of the first n positions that no exception kept from it.   *)
AllDue(s, n) == \A p \in 1..n : (Wanted(s, p) /\ claimed[p] \notin failed) =>
    \E i \in 1..Len(delivered[s]) : delivered[s][i] = claimed[p]

(* Once the destructor has joined the worker, every message accepted by    *)
(* the queue is in every sink it is meant for, once, in order, and flushed *)
(* there, except for those on which a sink or the formatter threw.         *)
NothingLostAtExit == worker = "done" => \A s \in 1..Sinks :
    /\ InOrder(s) /\ AllDue(s, Len(claimed))
    /\ flushed[s] = Len(delivered[s])

(* flush() returns only when all that was logged before it, by whatever    *)
(* thread, is in the sinks, unless the flush message was discarded.        *)
FlushDelivers == [][\A t \in Clients :
    (call[t] = "wait_last" /\ call'[t] = "none" /\ ~discarded) =>
        \A s \in 1..Sinks : AllDue(s, pos[t])]_vars

(* Every call returns unless a message was discarded: log waits out a full *)
(* queue, flush an empty one, and the destructor a worker that empties the *)
(* queue, survives the exceptions of the sinks, flushes and ends.          *)
CallsReturn == \A t \in Clients :
    (call[t] \notin {"none", "gone"} /\ ~discarded)
        ~> (call[t] \in {"none", "gone"} \/ discarded)
=============================================================================

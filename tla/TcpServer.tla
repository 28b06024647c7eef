----------------------------- MODULE TcpServer -----------------------------
(***************************************************************************)
(* The TCP server: tcp::server, tcp::connection and connection_manager.    *)
(* Several threads run one io_service; each takes a handler that is ready, *)
(* runs it to its end and takes the next.  Handlers of the same connection *)
(* may run on different threads, also at the same time.                    *)
(*                                                                         *)
(* A step is one call a handler makes on state that other threads see: the *)
(* acceptor, the set of connections under its mutex, a socket, a timer.    *)
(* Boost.Asio is external; its asynchronous operations are the variables   *)
(* accept, reads, writes, and the waits of the two timers.                 *)
(***************************************************************************)
EXTENDS Naturals, FiniteSets

CONSTANTS
  Threads,           \* the threads of server::run
  Conns,             \* bound: the connections clients make
  NoConn, NoThread,
  cfg_read_timeout,  \* server::_read_timeout, 0 for none
  cfg_write_timeout, \* server::_write_timeout
  cfg_max_bytes      \* server::_req_max_bytes

ASSUME ServerAssumptions ==
  /\ NoConn \notin Conns
  /\ NoThread \notin Threads
  /\ {cfg_read_timeout, cfg_write_timeout, cfg_max_bytes} \subseteq Nat

(* do_accept passes _read_timeout, _write_timeout and _req_max_bytes to the *)
(* constructor of connection, whose parameters are max_req_size_bytes,      *)
(* read_timeout and write_timeout, in this order.  So set_write_timeout     *)
(* sets the read timeout of a connection, set_max_request_bytes its write   *)
(* timeout, and set_read_timeout the limit on its requests.                 *)
read_timeout == cfg_write_timeout
write_timeout == cfg_max_bytes

VARIABLES
  acceptor,     \* is the acceptor open?
  accept,       \* the accept operation: see Ops
  sig,          \* the signal: see Signals
  mutex,        \* owner of connection_manager::_connections_mutex
  connections,  \* connection_manager::_connections
  socket,       \* socket[c]: see Sockets
  request,      \* request[c]: what process has made of the bytes so far
  reads,        \* reads[c]: the outstanding read operation
  writes,       \* writes[c]: the outstanding write operation
  rwait, wwait, \* is a wait on the read or write timer outstanding?
  rfired, wfired, \* has such a wait ended by expiry, its handler being ready?
  expired,      \* expired[c]: the timers whose deadline has passed
  late,         \* late[c]: the present request began after its read deadline
  pc, conn,     \* the step of each thread, and the connection it works on
  accepter      \* the thread that runs the handler of an accept

Ops == {"none", "pending", "failed"}
Signals == {"none", "raised", "handled"}
Sockets == {"none",      \* the client has not connected
            "accepted",  \* server::_socket, not yet moved to a connection
            "open", "closed"}
Requests == {"empty", "partial", "finished", "silent", "quit"}

timers == <<rwait, wwait, rfired, wfired, expired, late>>
listening == <<acceptor, accept, sig, accepter>>
tracked == <<mutex, connections>>
vars == <<listening, tracked, socket, request, reads, writes, timers, pc, conn>>

(* Steps in which a handler may use the request of its connection. *)
Touching == {"start_read", "process", "read_cancel", "write_wait", "silent_cancel",
             "reset", "write", "write_cancel"}
Steps == Touching \cup {"idle", "accept_check", "insert", "start_wait", "accept_again",
                        "sig_close", "sig_lock", "sig_stop", "sig_clear", "erase", "close"}

TypeOK == /\ acceptor \in BOOLEAN /\ accept \in Ops /\ sig \in Signals
          /\ accepter \in Threads \cup {NoThread}
          /\ mutex \in Threads \cup {NoThread}
          /\ connections \subseteq Conns
          /\ socket \in [Conns -> Sockets]
          /\ request \in [Conns -> Requests]
          /\ reads \in [Conns -> Ops] /\ writes \in [Conns -> Ops]
          /\ rwait \in [Conns -> BOOLEAN] /\ wwait \in [Conns -> BOOLEAN]
          /\ rfired \in [Conns -> BOOLEAN] /\ wfired \in [Conns -> BOOLEAN]
          /\ expired \in [Conns -> SUBSET {"read", "write"}]
          /\ late \in [Conns -> BOOLEAN]
          /\ pc \in [Threads -> Steps]
          /\ conn \in [Threads -> Conns \cup {NoConn}]

(* The constructor of server has armed the signal set and the first accept. *)
Init == /\ acceptor = TRUE /\ accept = "pending" /\ sig = "none" /\ accepter = NoThread
        /\ mutex = NoThread /\ connections = {}
        /\ socket = [c \in Conns |-> "none"]
        /\ request = [c \in Conns |-> "empty"]
        /\ reads = [c \in Conns |-> "none"] /\ writes = [c \in Conns |-> "none"]
        /\ rwait = [c \in Conns |-> FALSE] /\ wwait = [c \in Conns |-> FALSE]
        /\ rfired = [c \in Conns |-> FALSE] /\ wfired = [c \in Conns |-> FALSE]
        /\ expired = [c \in Conns |-> {}]
        /\ late = [c \in Conns |-> FALSE]
        /\ pc = [t \in Threads |-> "idle"]
        /\ conn = [t \in Threads |-> NoConn]

-----------------------------------------------------------------------------
Goto(t, step) == pc' = [pc EXCEPT ![t] = step] /\ UNCHANGED conn

(* A free thread begins a handler; a handler ends. *)
Begin(t, c, step) == /\ pc[t] = "idle"
                     /\ pc' = [pc EXCEPT ![t] = step]
                     /\ conn' = [conn EXCEPT ![t] = c]
End(t) == pc' = [pc EXCEPT ![t] = "idle"] /\ conn' = [conn EXCEPT ![t] = NoConn]

(* An operation started on a socket that is closed fails with an error that *)
(* is not operation_aborted.                                                *)
Issue(c) == IF socket[c] = "open" THEN "pending" ELSE "failed"

-----------------------------------------------------------------------------
(* server::do_accept and its handler. *)

(* A client has connected, or the accept has failed; either can have come  *)
(* about before the acceptor was closed.                                   *)
Accepted(t) ==
  /\ accept # "none"
  /\ \/ \E c \in Conns :
          /\ accept = "pending" /\ socket[c] = "none"
          /\ Begin(t, c, "accept_check")
          /\ socket' = [socket EXCEPT ![c] = "accepted"]
     \/ Begin(t, NoConn, "accept_check") /\ UNCHANGED socket
  /\ accept' = "none"
  /\ accepter' = t
  /\ UNCHANGED <<acceptor, sig, tracked, request, reads, writes, timers>>

(* Mutant: the handler does not ask whether the acceptor is open. *)
AcceptCheck_NoIsOpen(t) ==
  /\ pc[t] = "accept_check"
  /\ Goto(t, IF conn[t] = NoConn THEN "accept_again" ELSE "insert")
  /\ UNCHANGED <<listening, tracked, socket, request, reads, writes, timers>>

AcceptCheck(t) ==
  /\ pc[t] = "accept_check"
  /\ \/ ~acceptor /\ End(t) /\ accepter' = NoThread
     \/ /\ acceptor
        /\ Goto(t, IF conn[t] = NoConn THEN "accept_again" ELSE "insert")
        /\ UNCHANGED accepter
  /\ UNCHANGED <<acceptor, accept, sig, tracked, socket, request, reads, writes, timers>>

(* Mutant: the connection is inserted without the mutex. *)
Insert_NoMutex(t) ==
  /\ pc[t] = "insert"
  /\ connections' = connections \cup {conn[t]}
  /\ socket' = [socket EXCEPT ![conn[t]] = "open"]
  /\ Goto(t, "start_read")
  /\ UNCHANGED <<listening, mutex, request, reads, writes, timers>>

(* The connection is made, its deadlines are set and it is inserted. *)
Insert(t) ==
  /\ pc[t] = "insert"
  /\ mutex = NoThread
  /\ connections' = connections \cup {conn[t]}
  /\ socket' = [socket EXCEPT ![conn[t]] = "open"]
  /\ Goto(t, "start_read")
  /\ UNCHANGED <<listening, mutex, request, reads, writes, timers>>

AcceptAgain(t) ==
  /\ pc[t] = "accept_again"
  /\ accept' = IF acceptor THEN "pending" ELSE "failed"
  /\ accepter' = NoThread
  /\ End(t)
  /\ UNCHANGED <<acceptor, sig, tracked, socket, request, reads, writes, timers>>

-----------------------------------------------------------------------------
(* connection::start, called for a new connection and after each request. *)

StartRead(t) ==
  /\ pc[t] = "start_read"
  /\ reads' = [reads EXCEPT ![conn[t]] = Issue(conn[t])]
  /\ late' = [late EXCEPT ![conn[t]] = "read" \in expired[conn[t]]]
  /\ Goto(t, "start_wait")
  /\ UNCHANGED <<listening, tracked, socket, request, writes, rwait, wwait, rfired, wfired,
                 expired>>

(* A wait on a timer whose deadline has passed ends at once. *)
StartWait(t) ==
  /\ pc[t] = "start_wait"
  /\ rwait' = [rwait EXCEPT ![conn[t]] = @ \/ read_timeout > 0]
  /\ IF accepter = t THEN Goto(t, "accept_again") ELSE End(t)
  /\ UNCHANGED <<listening, tracked, socket, request, reads, writes, wwait, rfired, wfired,
                 expired, late>>

-----------------------------------------------------------------------------
(* The handler of a read.  A read or a write that has ended before the     *)
(* socket is closed keeps its outcome: its handler may run after the close.*)

ReadCompletes(t, c) ==
  /\ reads[c] = "pending"
  /\ reads' = [reads EXCEPT ![c] = "none"]
  /\ Begin(t, c, "process")
  /\ UNCHANGED <<listening, tracked, socket, request, writes, timers>>

(* The client has closed the connection, or the socket was closed already. *)
ReadFails(t, c) ==
  /\ reads[c] # "none"
  /\ reads' = [reads EXCEPT ![c] = "none"]
  /\ Begin(t, c, "erase")
  /\ UNCHANGED <<listening, tracked, socket, request, writes, timers>>

(* operation_aborted: the handler does nothing. *)
ReadAborted(c) ==
  /\ reads[c] = "pending" /\ socket[c] = "closed"
  /\ reads' = [reads EXCEPT ![c] = "none"]
  /\ UNCHANGED <<listening, tracked, socket, request, writes, timers, pc, conn>>

(* Mutant: the handler reads on while a request is answered. *)
Process_ReadsOn(t) ==
  /\ pc[t] = "process"
  /\ \E r \in Requests \ {"empty"} :
       /\ request' = [request EXCEPT ![conn[t]] = r]
       /\ \/ r \in {"finished", "silent"} /\ Goto(t, "read_cancel")
          \/ r = "quit" /\ Goto(t, "erase")
          \/ r = "partial" /\ End(t)
  /\ reads' = [reads EXCEPT ![conn[t]] = Issue(conn[t])]
  /\ UNCHANGED <<listening, tracked, socket, writes, timers>>

(* request::process, and the switch on the status it reaches. *)
Process(t) ==
  /\ pc[t] = "process"
  /\ \E r \in Requests \ {"empty"} :
       /\ request' = [request EXCEPT ![conn[t]] = r]
       /\ \/ r \in {"finished", "silent"} /\ Goto(t, "read_cancel") /\ UNCHANGED reads
          \/ r = "quit" /\ Goto(t, "erase") /\ UNCHANGED reads
          \/ /\ r = "partial"
             /\ reads' = [reads EXCEPT ![conn[t]] = Issue(conn[t])]
             /\ End(t)
  /\ UNCHANGED <<listening, tracked, socket, writes, timers>>

ReadCancel(t) ==
  /\ pc[t] = "read_cancel"
  /\ rwait' = [rwait EXCEPT ![conn[t]] = FALSE]
  /\ Goto(t, "write_wait")
  /\ UNCHANGED <<listening, tracked, socket, request, reads, writes, wwait, rfired, wfired,
                 expired, late>>

WriteWait(t) ==
  /\ pc[t] = "write_wait"
  /\ wwait' = [wwait EXCEPT ![conn[t]] = @ \/ write_timeout > 0]
  /\ Goto(t, IF request[conn[t]] = "silent" THEN "silent_cancel" ELSE "write")
  /\ UNCHANGED <<listening, tracked, socket, request, reads, writes, rwait, rfired, wfired,
                 expired, late>>

-----------------------------------------------------------------------------
(* connection::do_write and the handler of the write; a request that wants  *)
(* no reply skips to what that handler does.                                *)

(* Mutant: the request is reset once the write is started. *)
Write_ThenReset(t) ==
  /\ pc[t] = "write"
  /\ writes' = [writes EXCEPT ![conn[t]] = Issue(conn[t])]
  /\ request' = [request EXCEPT ![conn[t]] = "empty"]
  /\ End(t)
  /\ UNCHANGED <<listening, tracked, socket, reads, timers>>

Write(t) ==
  /\ pc[t] = "write"
  /\ writes' = [writes EXCEPT ![conn[t]] = Issue(conn[t])]
  /\ End(t)
  /\ UNCHANGED <<listening, tracked, socket, request, reads, timers>>

WriteCompletes(t, c) ==
  /\ writes[c] = "pending"
  /\ writes' = [writes EXCEPT ![c] = "none"]
  /\ Begin(t, c, "write_cancel")
  /\ UNCHANGED <<listening, tracked, socket, request, reads, timers>>

WriteFails(t, c) ==
  /\ writes[c] # "none"
  /\ writes' = [writes EXCEPT ![c] = "none"]
  /\ Begin(t, c, "erase")
  /\ UNCHANGED <<listening, tracked, socket, request, reads, timers>>

WriteAborted(c) ==
  /\ writes[c] = "pending" /\ socket[c] = "closed"
  /\ writes' = [writes EXCEPT ![c] = "none"]
  /\ UNCHANGED <<listening, tracked, socket, request, reads, timers, pc, conn>>

WriteCancel(t) ==
  /\ pc[t] \in {"write_cancel", "silent_cancel"}
  /\ wwait' = [wwait EXCEPT ![conn[t]] = FALSE]
  /\ Goto(t, "reset")
  /\ UNCHANGED <<listening, tracked, socket, request, reads, writes, rwait, rfired, wfired,
                 expired, late>>

Reset(t) ==
  /\ pc[t] = "reset"
  /\ request' = [request EXCEPT ![conn[t]] = "empty"]
  /\ Goto(t, "start_read")
  /\ UNCHANGED <<listening, tracked, socket, reads, writes, timers>>

-----------------------------------------------------------------------------
(* The two deadline timers of a connection.  Their deadlines are set by the *)
(* constructor and never again.                                             *)

Expire(c) ==
  /\ socket[c] \in {"open", "closed"}
  /\ \E timer \in {"read", "write"} \ expired[c] :
       /\ IF timer = "read" THEN read_timeout > 0 ELSE write_timeout > 0
       /\ expired' = [expired EXCEPT ![c] = @ \cup {timer}]
  /\ UNCHANGED <<listening, tracked, socket, request, reads, writes, rwait, wwait, rfired,
                 wfired, late, pc, conn>>

(* A wait ends by expiry: its handler is ready and cancel comes too late. *)
TimerFires(c) ==
  /\ \/ /\ rwait[c] /\ "read" \in expired[c]
        /\ rwait' = [rwait EXCEPT ![c] = FALSE]
        /\ rfired' = [rfired EXCEPT ![c] = TRUE]
        /\ UNCHANGED <<wwait, wfired>>
     \/ /\ wwait[c] /\ "write" \in expired[c]
        /\ wwait' = [wwait EXCEPT ![c] = FALSE]
        /\ wfired' = [wfired EXCEPT ![c] = TRUE]
        /\ UNCHANGED <<rwait, rfired>>
  /\ UNCHANGED <<listening, tracked, socket, request, reads, writes, expired, late, pc, conn>>

(* Mutant: the handlers of the timers look for the wrong error code. *)
TimedOut_Ignored(t, c) ==
  /\ \/ rfired[c] /\ rfired' = [rfired EXCEPT ![c] = FALSE] /\ UNCHANGED wfired
     \/ wfired[c] /\ wfired' = [wfired EXCEPT ![c] = FALSE] /\ UNCHANGED rfired
  /\ pc[t] = "idle"
  /\ UNCHANGED <<listening, tracked, socket, request, reads, writes, rwait, wwait, expired,
                 late, pc, conn>>

TimedOut(t, c) ==
  /\ \/ rfired[c] /\ rfired' = [rfired EXCEPT ![c] = FALSE] /\ UNCHANGED wfired
     \/ wfired[c] /\ wfired' = [wfired EXCEPT ![c] = FALSE] /\ UNCHANGED rfired
  /\ Begin(t, c, "erase")
  /\ UNCHANGED <<listening, tracked, socket, request, reads, writes, rwait, wwait, expired,
                 late>>

-----------------------------------------------------------------------------
(* connection_manager::stop: erase under the mutex, then connection::stop.  *)

Erase(t) ==
  /\ pc[t] = "erase"
  /\ mutex = NoThread
  /\ connections' = connections \ {conn[t]}
  /\ Goto(t, "close")
  /\ UNCHANGED <<listening, mutex, socket, request, reads, writes, timers>>

Close(t) ==
  /\ pc[t] = "close"
  /\ socket' = [socket EXCEPT ![conn[t]] = "closed"]
  /\ End(t)
  /\ UNCHANGED <<listening, tracked, request, reads, writes, timers>>

-----------------------------------------------------------------------------
(* The handler of the signal: close the acceptor, then stop_all, which      *)
(* holds the mutex while it stops one connection after the other.           *)

Signal ==
  /\ sig = "none"
  /\ sig' = "raised"
  /\ UNCHANGED <<acceptor, accept, accepter, tracked, socket, request, reads, writes, timers,
                 pc, conn>>

SigBegin(t) ==
  /\ sig = "raised"
  /\ sig' = "handled"
  /\ Begin(t, NoConn, "sig_close")
  /\ UNCHANGED <<acceptor, accept, accepter, tracked, socket, request, reads, writes, timers>>

(* Mutant: the acceptor stays open. *)
SigClose_StaysOpen(t) ==
  /\ pc[t] = "sig_close"
  /\ Goto(t, "sig_lock")
  /\ UNCHANGED <<listening, tracked, socket, request, reads, writes, timers>>

SigClose(t) ==
  /\ pc[t] = "sig_close"
  /\ acceptor' = FALSE
  /\ Goto(t, "sig_lock")
  /\ UNCHANGED <<accept, sig, accepter, tracked, socket, request, reads, writes, timers>>

SigLock(t) ==
  /\ pc[t] = "sig_lock"
  /\ mutex = NoThread
  /\ mutex' = t
  /\ Goto(t, "sig_stop")
  /\ UNCHANGED <<listening, connections, socket, request, reads, writes, timers>>

SigStop(t) ==
  /\ pc[t] = "sig_stop"
  /\ \E c \in connections :
       socket[c] = "open" /\ socket' = [socket EXCEPT ![c] = "closed"]
  /\ UNCHANGED <<listening, tracked, request, reads, writes, timers, pc, conn>>

SigStopped(t) ==
  /\ pc[t] = "sig_stop"
  /\ \A c \in connections : socket[c] # "open"
  /\ Goto(t, "sig_clear")
  /\ UNCHANGED <<listening, tracked, socket, request, reads, writes, timers>>

(* Mutant: the set is not cleared. *)
SigClear_KeepsSet(t) ==
  /\ pc[t] = "sig_clear"
  /\ mutex' = NoThread
  /\ End(t)
  /\ UNCHANGED <<listening, connections, socket, request, reads, writes, timers>>

SigClear(t) ==
  /\ pc[t] = "sig_clear"
  /\ connections' = {}
  /\ mutex' = NoThread
  /\ End(t)
  /\ UNCHANGED <<listening, socket, request, reads, writes, timers>>

-----------------------------------------------------------------------------
(* What a thread does once it has a handler, and the handlers it may take. *)
Run(t) == \/ AcceptCheck(t) \/ Insert(t) \/ AcceptAgain(t)
          \/ StartRead(t) \/ StartWait(t)
          \/ Process(t) \/ ReadCancel(t) \/ WriteWait(t)
          \/ Write(t) \/ WriteCancel(t) \/ Reset(t)
          \/ Erase(t) \/ Close(t)
          \/ SigClose(t) \/ SigLock(t) \/ SigStop(t) \/ SigStopped(t)
          \/ SigClear(t)

Take(t, c) == \/ ReadCompletes(t, c) \/ ReadFails(t, c)
              \/ WriteCompletes(t, c) \/ WriteFails(t, c)
              \/ TimedOut(t, c)

Kernel(c) == ReadAborted(c) \/ WriteAborted(c) \/ TimerFires(c)

Next == \/ \E t \in Threads : Run(t) \/ Accepted(t) \/ SigBegin(t)
        \/ \E t \in Threads, c \in Conns : Take(t, c)
        \/ \E c \in Conns : Kernel(c) \/ Expire(c)
        \/ Signal

Spec == Init /\ [][Next]_vars
(* The operating system runs every thread that can run, completes what is   *)
(* started on a closed socket or acceptor and lets time pass; a handler     *)
(* that is ready waits in the queue of the io_service and is taken in its   *)
(* turn.  Clients promise nothing: they need not send, receive or leave.    *)
FairSpec ==
  /\ Spec
  /\ \A t \in Threads : WF_vars(Run(t))
  /\ \A c \in Conns : WF_vars(Kernel(c)) /\ WF_vars(Expire(c))
  /\ \A c \in Conns : SF_vars(\E t \in Threads : TimedOut(t, c))
  /\ \A c \in Conns : SF_vars(reads[c] = "failed" /\ \E t \in Threads : ReadFails(t, c))
  /\ \A c \in Conns : SF_vars(writes[c] = "failed" /\ \E t \in Threads : WriteFails(t, c))
  /\ SF_vars(\E t \in Threads : SigBegin(t))
  /\ SF_vars(~acceptor /\ \E t \in Threads : Accepted(t))

-----------------------------------------------------------------------------
(* Properties. *)

Touches(t, c) == conn[t] = c /\ pc[t] \in Touching

(* One thread at a time uses the request and the buffers of a connection,   *)
(* which have no lock of their own: two handlers of a connection that both  *)
(* use them are never on two threads, and none of them runs while a read or *)
(* a write is outstanding, of which there is at most one.                   *)
SerialRequest ==
  \A c \in Conns :
    /\ \A t, u \in Threads : Touches(t, c) /\ Touches(u, c) => t = u
    /\ reads[c] # "none" => writes[c] = "none"
    /\ reads[c] # "none" \/ writes[c] # "none" => \A t \in Threads : ~Touches(t, c)

(* get_response throws unless the request is finished, and reset must not   *)
(* come before the answer is written.                                       *)
AnswersFinished ==
  /\ \A t \in Threads : pc[t] = "write" => request[conn[t]] = "finished"
  /\ \A c \in Conns : writes[c] # "none" => request[c] = "finished"
  /\ \A c \in Conns : reads[c] # "none" => request[c] \in {"empty", "partial"}

(* stop_all finds every open connection: one that is not in the set is      *)
(* about to be closed by the thread that took it out.                       *)
NoOrphan ==
  \A c \in Conns : socket[c] = "open" /\ c \notin connections =>
    \E t \in Threads : pc[t] = "close" /\ conn[t] = c

(* The set does not collect closed connections.                             *)
ClosedNotTracked ==
  \A c \in connections : socket[c] = "closed" =>
    \E t \in Threads : pc[t] \in {"sig_stop", "sig_clear"}

(* A write during which a wait on the write timer is outstanding, or has    *)
(* just ended, comes to an end even if the client never takes its answer:   *)
(* the timer's handler closes the socket, and the write is aborted.  The    *)
(* wait is there when set_max_request_bytes was called, see write_timeout;  *)
(* set_write_timeout alone arms none.                                       *)
TimedWriteEnds ==
  \A c \in Conns : (writes[c] = "pending" /\ (wwait[c] \/ wfired[c])) ~> writes[c] = "none"

(* "Once all operations have finished the io_service::run() call will exit":*)
(* a signal ends all operations, whatever the clients do.                   *)
Quiet == /\ accept = "none"
         /\ \A t \in Threads : pc[t] = "idle"
         /\ \A c \in Conns : /\ reads[c] = "none" /\ writes[c] = "none"
                             /\ ~rwait[c] /\ ~wwait[c] /\ ~rfired[c] /\ ~wfired[c]
ShutdownCompletes == sig = "raised" ~> Quiet

(* "closes all open connections": after the signal handler, and once every  *)
(* handler that was running has ended, no connection is open.               *)
StopClosesAll ==
  sig = "handled" /\ (\A t \in Threads : pc[t] = "idle") =>
    \A c \in Conns : socket[c] # "open"

(* "the maximum length of time in milliseconds to wait for a clients        *)
(* request": a request that begins after the deadline was not waited for.   *)
ReadTimeoutPerRequest == \A c \in Conns : rfired[c] => ~late[c]
=============================================================================

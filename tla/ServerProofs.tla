---------------------------- MODULE ServerProofs ----------------------------
(***************************************************************************)
(* Proofs about the parts of the server that run beside the store: the TCP *)
(* server with its connections, for any number of threads and connections, *)
(* and the statistics, for any number of metrics, records and epochs.  The *)
(* two share no state.                                                     *)
(***************************************************************************)
EXTENDS TcpServer, StatsdAggregator, TLAPS

-----------------------------------------------------------------------------
(* The TCP server.  The inductive invariant has a part for each thread, a  *)
(* part for each connection, and the ownership of the accept handler and   *)
(* of the mutex.                                                           *)

(* Steps on a connection that has been started. *)
Working == Touching \cup {"start_wait", "erase", "close"}

(* A handler works on a connection the server has accepted, and knows how   *)
(* far its request has come.                                                *)
ThreadOK(t) ==
  /\ pc[t] \in Working => conn[t] \in Conns /\ socket[conn[t]] \in {"open", "closed"}
  /\ pc[t] \in {"accept_check", "insert"} /\ conn[t] \in Conns =>
       socket[conn[t]] = "accepted"
  /\ pc[t] = "insert" => conn[t] \in Conns
  /\ pc[t] \in {"accept_check", "insert", "accept_again"} => accepter = t
  /\ pc[t] = "close" => conn[t] \notin connections
  /\ pc[t] = "start_read" => request[conn[t]] = "empty"
  /\ pc[t] = "process" => request[conn[t]] \in {"empty", "partial"}
  /\ pc[t] \in {"read_cancel", "write_wait"} => request[conn[t]] \in {"finished", "silent"}
  /\ pc[t] = "write" => request[conn[t]] = "finished"

ThreadsOK == \A t \in Threads : ThreadOK(t)

(* A socket nobody has made a connection of has no operation or timer. *)
ConnOK(c) ==
  /\ socket[c] \in {"none", "accepted"} =>
       /\ reads[c] = "none" /\ writes[c] = "none"
       /\ ~rwait[c] /\ ~wwait[c] /\ ~rfired[c] /\ ~wfired[c]
       /\ c \notin connections
       /\ request[c] = "empty"
  /\ reads[c] # "none" => request[c] \in {"empty", "partial"}
  /\ writes[c] # "none" => request[c] = "finished"

ConnsOK == \A c \in Conns : ConnOK(c)

(* One thread runs the handler of the accept, which nobody waits for then,  *)
(* and stop_all alone keeps the mutex from one step to the next.            *)
Owners ==
  /\ accept # "none" => accepter = NoThread
  /\ \A t \in Threads : pc[t] \in {"sig_stop", "sig_clear"} <=> mutex = t
  /\ \A t \in Threads : pc[t] = "sig_clear" => \A c \in connections : socket[c] # "open"

TInv == /\ TypeOK
        /\ ThreadsOK
        /\ ConnsOK
        /\ Owners
        /\ SerialRequest
        /\ NoOrphan
        /\ ClosedNotTracked

-----------------------------------------------------------------------------
(* No step leaves the types. *)
LEMMA TypeStep == TInv /\ Next => TypeOK'
<1> SUFFICES ASSUME TInv, Next PROVE TypeOK' OBVIOUS
<1> USE ServerAssumptions DEF TInv, TypeOK, ThreadsOK, ThreadOK, Working, Touching, Steps,
  Ops, Signals, Sockets, Requests,
  Goto, Begin, End, Issue, timers, listening, tracked
<1>1. ASSUME NEW t \in Threads, AcceptCheck(t) PROVE TypeOK'  BY <1>1 DEF AcceptCheck
<1>2. ASSUME NEW t \in Threads, Insert(t) PROVE TypeOK'  BY <1>2 DEF Insert
<1>3. ASSUME NEW t \in Threads, AcceptAgain(t) PROVE TypeOK'  BY <1>3 DEF AcceptAgain
<1>4. ASSUME NEW t \in Threads, StartRead(t) PROVE TypeOK'  BY <1>4 DEF StartRead
<1>5. ASSUME NEW t \in Threads, StartWait(t) PROVE TypeOK'  BY <1>5 DEF StartWait
<1>6. ASSUME NEW t \in Threads, Process(t) PROVE TypeOK'  BY <1>6 DEF Process
<1>7. ASSUME NEW t \in Threads, ReadCancel(t) PROVE TypeOK'  BY <1>7 DEF ReadCancel
<1>8. ASSUME NEW t \in Threads, WriteWait(t) PROVE TypeOK'  BY <1>8 DEF WriteWait
<1>9. ASSUME NEW t \in Threads, Write(t) PROVE TypeOK'  BY <1>9 DEF Write
<1>10. ASSUME NEW t \in Threads, WriteCancel(t) PROVE TypeOK'  BY <1>10 DEF WriteCancel
<1>11. ASSUME NEW t \in Threads, Reset(t) PROVE TypeOK'  BY <1>11 DEF Reset
<1>12. ASSUME NEW t \in Threads, Erase(t) PROVE TypeOK'  BY <1>12 DEF Erase
<1>13. ASSUME NEW t \in Threads, Close(t) PROVE TypeOK'  BY <1>13 DEF Close
<1>14. ASSUME NEW t \in Threads, SigClose(t) PROVE TypeOK'  BY <1>14 DEF SigClose
<1>15. ASSUME NEW t \in Threads, SigLock(t) PROVE TypeOK'  BY <1>15 DEF SigLock
<1>16. ASSUME NEW t \in Threads, SigStop(t) PROVE TypeOK'  BY <1>16 DEF SigStop
<1>17. ASSUME NEW t \in Threads, SigStopped(t) PROVE TypeOK'  BY <1>17 DEF SigStopped
<1>18. ASSUME NEW t \in Threads, SigClear(t) PROVE TypeOK'  BY <1>18 DEF SigClear
<1>19. ASSUME NEW t \in Threads, Accepted(t) PROVE TypeOK'  BY <1>19 DEF Accepted
<1>20. ASSUME NEW t \in Threads, SigBegin(t) PROVE TypeOK'  BY <1>20 DEF SigBegin
<1>21. ASSUME NEW t \in Threads, NEW c \in Conns, ReadCompletes(t, c) PROVE TypeOK'
  BY <1>21 DEF ReadCompletes
<1>22. ASSUME NEW t \in Threads, NEW c \in Conns, ReadFails(t, c) PROVE TypeOK'
  BY <1>22 DEF ReadFails
<1>23. ASSUME NEW t \in Threads, NEW c \in Conns, WriteCompletes(t, c) PROVE TypeOK'
  BY <1>23 DEF WriteCompletes
<1>24. ASSUME NEW t \in Threads, NEW c \in Conns, WriteFails(t, c) PROVE TypeOK'
  BY <1>24 DEF WriteFails
<1>25. ASSUME NEW t \in Threads, NEW c \in Conns, TimedOut(t, c) PROVE TypeOK'
  BY <1>25 DEF TimedOut
<1>26. ASSUME NEW c \in Conns, ReadAborted(c) PROVE TypeOK'  BY <1>26 DEF ReadAborted
<1>27. ASSUME NEW c \in Conns, WriteAborted(c) PROVE TypeOK'  BY <1>27 DEF WriteAborted
<1>28. ASSUME NEW c \in Conns, TimerFires(c) PROVE TypeOK'
  <2>1. CASE rwait' = [rwait EXCEPT ![c] = FALSE] /\ rfired' = [rfired EXCEPT ![c] = TRUE]
       /\ UNCHANGED <<wwait, wfired>>
    BY <1>28, <2>1 DEF TimerFires
  <2>2. CASE wwait' = [wwait EXCEPT ![c] = FALSE] /\ wfired' = [wfired EXCEPT ![c] = TRUE]
       /\ UNCHANGED <<rwait, rfired>>
    BY <1>28, <2>2 DEF TimerFires
  <2> QED BY <1>28, <2>1, <2>2 DEF TimerFires
<1>29. ASSUME NEW c \in Conns, Expire(c) PROVE TypeOK'  BY <1>29 DEF Expire
<1>30. ASSUME Signal PROVE TypeOK'  BY <1>30 DEF Signal
<1> HIDE DEF TInv
<1> QED BY <1>1, <1>2, <1>3, <1>4, <1>5, <1>6, <1>7, <1>8, <1>9, <1>10, <1>11, <1>12,
          <1>13, <1>14, <1>15, <1>16, <1>17, <1>18, <1>19, <1>20, <1>21, <1>22, <1>23, <1>24,
          <1>25, <1>26, <1>27, <1>28, <1>29, <1>30
       DEF Next, Run, Take, Kernel

(* What a thread knows of its connection stays true: no other handler uses the
   request meanwhile, and a socket never becomes "none" or "accepted" again. *)
LEMMA ThreadStep == TInv /\ Next => ThreadsOK'
<1> SUFFICES ASSUME TInv, Next PROVE ThreadsOK' OBVIOUS
<1> USE ServerAssumptions DEF TInv, TypeOK, Sockets, ThreadsOK, ThreadOK, ConnsOK, ConnOK,
  Owners, SerialRequest, Touches, Working, Touching,
  Goto, Begin, End, Issue, timers, listening, tracked
<1>1. ASSUME NEW t \in Threads, AcceptCheck(t) PROVE ThreadsOK'  BY <1>1 DEF AcceptCheck
<1>2. ASSUME NEW t \in Threads, Insert(t) PROVE ThreadsOK'  BY <1>2 DEF Insert
<1>3. ASSUME NEW t \in Threads, AcceptAgain(t) PROVE ThreadsOK'  BY <1>3 DEF AcceptAgain
<1>4. ASSUME NEW t \in Threads, StartRead(t) PROVE ThreadsOK'  BY <1>4 DEF StartRead
<1>5. ASSUME NEW t \in Threads, StartWait(t) PROVE ThreadsOK'  BY <1>5 DEF StartWait
<1>6. ASSUME NEW t \in Threads, Process(t) PROVE ThreadsOK'  BY <1>6 DEF Process
<1>7. ASSUME NEW t \in Threads, ReadCancel(t) PROVE ThreadsOK'  BY <1>7 DEF ReadCancel
<1>8. ASSUME NEW t \in Threads, WriteWait(t) PROVE ThreadsOK'  BY <1>8 DEF WriteWait
<1>9. ASSUME NEW t \in Threads, Write(t) PROVE ThreadsOK'  BY <1>9 DEF Write
<1>10. ASSUME NEW t \in Threads, WriteCancel(t) PROVE ThreadsOK'  BY <1>10 DEF WriteCancel
<1>11. ASSUME NEW t \in Threads, Reset(t) PROVE ThreadsOK'  BY <1>11 DEF Reset
<1>12. ASSUME NEW t \in Threads, Erase(t) PROVE ThreadsOK'  BY <1>12 DEF Erase
<1>13. ASSUME NEW t \in Threads, Close(t) PROVE ThreadsOK'  BY <1>13 DEF Close
<1>14. ASSUME NEW t \in Threads, SigClose(t) PROVE ThreadsOK'  BY <1>14 DEF SigClose
<1>15. ASSUME NEW t \in Threads, SigLock(t) PROVE ThreadsOK'  BY <1>15 DEF SigLock
<1>16. ASSUME NEW t \in Threads, SigStop(t) PROVE ThreadsOK'  BY <1>16 DEF SigStop
<1>17. ASSUME NEW t \in Threads, SigStopped(t) PROVE ThreadsOK'  BY <1>17 DEF SigStopped
<1>18. ASSUME NEW t \in Threads, SigClear(t) PROVE ThreadsOK'  BY <1>18 DEF SigClear
<1>19. ASSUME NEW t \in Threads, Accepted(t) PROVE ThreadsOK'  BY <1>19 DEF Accepted
<1>20. ASSUME NEW t \in Threads, SigBegin(t) PROVE ThreadsOK'  BY <1>20 DEF SigBegin
<1>21. ASSUME NEW t \in Threads, NEW c \in Conns, ReadCompletes(t, c) PROVE ThreadsOK'
  BY <1>21 DEF ReadCompletes
<1>22. ASSUME NEW t \in Threads, NEW c \in Conns, ReadFails(t, c) PROVE ThreadsOK'
  BY <1>22 DEF ReadFails
<1>23. ASSUME NEW t \in Threads, NEW c \in Conns, WriteCompletes(t, c) PROVE ThreadsOK'
  BY <1>23 DEF WriteCompletes
<1>24. ASSUME NEW t \in Threads, NEW c \in Conns, WriteFails(t, c) PROVE ThreadsOK'
  BY <1>24 DEF WriteFails
<1>25. ASSUME NEW t \in Threads, NEW c \in Conns, TimedOut(t, c) PROVE ThreadsOK'
  <2>1. CASE rfired[c]
    BY <1>25, <2>1 DEF TimedOut
  <2>2. CASE wfired[c]
    BY <1>25, <2>2 DEF TimedOut
  <2> QED BY <1>25, <2>1, <2>2 DEF TimedOut
<1>26. ASSUME NEW c \in Conns, ReadAborted(c) PROVE ThreadsOK'  BY <1>26 DEF ReadAborted
<1>27. ASSUME NEW c \in Conns, WriteAborted(c) PROVE ThreadsOK'  BY <1>27 DEF WriteAborted
<1>28. ASSUME NEW c \in Conns, TimerFires(c) PROVE ThreadsOK'  BY <1>28 DEF TimerFires
<1>29. ASSUME NEW c \in Conns, Expire(c) PROVE ThreadsOK'  BY <1>29 DEF Expire
<1>30. ASSUME Signal PROVE ThreadsOK'  BY <1>30 DEF Signal
<1> HIDE DEF TInv
<1> QED BY <1>1, <1>2, <1>3, <1>4, <1>5, <1>6, <1>7, <1>8, <1>9, <1>10, <1>11, <1>12,
          <1>13, <1>14, <1>15, <1>16, <1>17, <1>18, <1>19, <1>20, <1>21, <1>22, <1>23, <1>24,
          <1>25, <1>26, <1>27, <1>28, <1>29, <1>30
       DEF Next, Run, Take, Kernel

(* An operation is started only on a connection, and on a request in the state
   that calls for it. *)
LEMMA ConnStep == TInv /\ Next => ConnsOK'
<1> SUFFICES ASSUME TInv, Next PROVE ConnsOK' OBVIOUS
<1> USE ServerAssumptions DEF TInv, TypeOK, ThreadsOK, ThreadOK, ConnsOK, ConnOK,
  SerialRequest, Touches, Working, Touching,
  Goto, Begin, End, Issue, timers, listening, tracked
<1>1. ASSUME NEW t \in Threads, AcceptCheck(t) PROVE ConnsOK'  BY <1>1 DEF AcceptCheck
<1>2. ASSUME NEW t \in Threads, Insert(t) PROVE ConnsOK'  BY <1>2 DEF Insert
<1>3. ASSUME NEW t \in Threads, AcceptAgain(t) PROVE ConnsOK'  BY <1>3 DEF AcceptAgain
<1>4. ASSUME NEW t \in Threads, StartRead(t) PROVE ConnsOK'  BY <1>4 DEF StartRead
<1>5. ASSUME NEW t \in Threads, StartWait(t) PROVE ConnsOK'  BY <1>5 DEF StartWait
<1>6. ASSUME NEW t \in Threads, Process(t) PROVE ConnsOK'  BY <1>6 DEF Process
<1>7. ASSUME NEW t \in Threads, ReadCancel(t) PROVE ConnsOK'  BY <1>7 DEF ReadCancel
<1>8. ASSUME NEW t \in Threads, WriteWait(t) PROVE ConnsOK'  BY <1>8 DEF WriteWait
<1>9. ASSUME NEW t \in Threads, Write(t) PROVE ConnsOK'  BY <1>9 DEF Write
<1>10. ASSUME NEW t \in Threads, WriteCancel(t) PROVE ConnsOK'  BY <1>10 DEF WriteCancel
<1>11. ASSUME NEW t \in Threads, Reset(t) PROVE ConnsOK'  BY <1>11 DEF Reset
<1>12. ASSUME NEW t \in Threads, Erase(t) PROVE ConnsOK'  BY <1>12 DEF Erase
<1>13. ASSUME NEW t \in Threads, Close(t) PROVE ConnsOK'  BY <1>13 DEF Close
<1>14. ASSUME NEW t \in Threads, SigClose(t) PROVE ConnsOK'  BY <1>14 DEF SigClose
<1>15. ASSUME NEW t \in Threads, SigLock(t) PROVE ConnsOK'  BY <1>15 DEF SigLock
<1>16. ASSUME NEW t \in Threads, SigStop(t) PROVE ConnsOK'  BY <1>16 DEF SigStop
<1>17. ASSUME NEW t \in Threads, SigStopped(t) PROVE ConnsOK'  BY <1>17 DEF SigStopped
<1>18. ASSUME NEW t \in Threads, SigClear(t) PROVE ConnsOK'  BY <1>18 DEF SigClear
<1>19. ASSUME NEW t \in Threads, Accepted(t) PROVE ConnsOK'  BY <1>19 DEF Accepted
<1>20. ASSUME NEW t \in Threads, SigBegin(t) PROVE ConnsOK'  BY <1>20 DEF SigBegin
<1>21. ASSUME NEW t \in Threads, NEW c \in Conns, ReadCompletes(t, c) PROVE ConnsOK'
  BY <1>21 DEF ReadCompletes
<1>22. ASSUME NEW t \in Threads, NEW c \in Conns, ReadFails(t, c) PROVE ConnsOK'
  BY <1>22 DEF ReadFails
<1>23. ASSUME NEW t \in Threads, NEW c \in Conns, WriteCompletes(t, c) PROVE ConnsOK'
  BY <1>23 DEF WriteCompletes
<1>24. ASSUME NEW t \in Threads, NEW c \in Conns, WriteFails(t, c) PROVE ConnsOK'
  BY <1>24 DEF WriteFails
<1>25. ASSUME NEW t \in Threads, NEW c \in Conns, TimedOut(t, c) PROVE ConnsOK'
  <2>1. CASE rfired[c] /\ rfired' = [rfired EXCEPT ![c] = FALSE] /\ UNCHANGED wfired
    BY <1>25, <2>1 DEF TimedOut
  <2>2. CASE wfired[c] /\ wfired' = [wfired EXCEPT ![c] = FALSE] /\ UNCHANGED rfired
    BY <1>25, <2>2 DEF TimedOut
  <2> QED BY <1>25, <2>1, <2>2 DEF TimedOut
<1>26. ASSUME NEW c \in Conns, ReadAborted(c) PROVE ConnsOK'  BY <1>26 DEF ReadAborted
<1>27. ASSUME NEW c \in Conns, WriteAborted(c) PROVE ConnsOK'  BY <1>27 DEF WriteAborted
<1>28. ASSUME NEW c \in Conns, TimerFires(c) PROVE ConnsOK'  BY <1>28 DEF TimerFires
<1>29. ASSUME NEW c \in Conns, Expire(c) PROVE ConnsOK'  BY <1>29 DEF Expire
<1>30. ASSUME Signal PROVE ConnsOK'  BY <1>30 DEF Signal
<1> HIDE DEF TInv
<1> QED BY <1>1, <1>2, <1>3, <1>4, <1>5, <1>6, <1>7, <1>8, <1>9, <1>10, <1>11, <1>12,
          <1>13, <1>14, <1>15, <1>16, <1>17, <1>18, <1>19, <1>20, <1>21, <1>22, <1>23, <1>24,
          <1>25, <1>26, <1>27, <1>28, <1>29, <1>30
       DEF Next, Run, Take, Kernel

(* The accept handler and the mutex have one owner; stop_all clears the set when
   every connection in it is closed. *)
LEMMA OwnersStep == TInv /\ Next => Owners'
<1> SUFFICES ASSUME TInv, Next PROVE Owners' OBVIOUS
<1> USE ServerAssumptions DEF TInv, TypeOK, ThreadsOK, ThreadOK, Owners,
  Goto, Begin, End, Issue, timers, listening, tracked
<1>1. ASSUME NEW t \in Threads, AcceptCheck(t) PROVE Owners'  BY <1>1 DEF AcceptCheck
<1>2. ASSUME NEW t \in Threads, Insert(t) PROVE Owners'  BY <1>2 DEF Insert
<1>3. ASSUME NEW t \in Threads, AcceptAgain(t) PROVE Owners'  BY <1>3 DEF AcceptAgain
<1>4. ASSUME NEW t \in Threads, StartRead(t) PROVE Owners'  BY <1>4 DEF StartRead
<1>5. ASSUME NEW t \in Threads, StartWait(t) PROVE Owners'  BY <1>5 DEF StartWait
<1>6. ASSUME NEW t \in Threads, Process(t) PROVE Owners'  BY <1>6 DEF Process
<1>7. ASSUME NEW t \in Threads, ReadCancel(t) PROVE Owners'  BY <1>7 DEF ReadCancel
<1>8. ASSUME NEW t \in Threads, WriteWait(t) PROVE Owners'  BY <1>8 DEF WriteWait
<1>9. ASSUME NEW t \in Threads, Write(t) PROVE Owners'  BY <1>9 DEF Write
<1>10. ASSUME NEW t \in Threads, WriteCancel(t) PROVE Owners'  BY <1>10 DEF WriteCancel
<1>11. ASSUME NEW t \in Threads, Reset(t) PROVE Owners'  BY <1>11 DEF Reset
<1>12. ASSUME NEW t \in Threads, Erase(t) PROVE Owners'  BY <1>12 DEF Erase
<1>13. ASSUME NEW t \in Threads, Close(t) PROVE Owners'  BY <1>13 DEF Close
<1>14. ASSUME NEW t \in Threads, SigClose(t) PROVE Owners'  BY <1>14 DEF SigClose
<1>15. ASSUME NEW t \in Threads, SigLock(t) PROVE Owners'  BY <1>15 DEF SigLock
<1>16. ASSUME NEW t \in Threads, SigStop(t) PROVE Owners'  BY <1>16 DEF SigStop
<1>17. ASSUME NEW t \in Threads, SigStopped(t) PROVE Owners'  BY <1>17 DEF SigStopped
<1>18. ASSUME NEW t \in Threads, SigClear(t) PROVE Owners'  BY <1>18 DEF SigClear
<1>19. ASSUME NEW t \in Threads, Accepted(t) PROVE Owners'  BY <1>19 DEF Accepted
<1>20. ASSUME NEW t \in Threads, SigBegin(t) PROVE Owners'  BY <1>20 DEF SigBegin
<1>21. ASSUME NEW t \in Threads, NEW c \in Conns, ReadCompletes(t, c) PROVE Owners'
  BY <1>21 DEF ReadCompletes
<1>22. ASSUME NEW t \in Threads, NEW c \in Conns, ReadFails(t, c) PROVE Owners'
  BY <1>22 DEF ReadFails
<1>23. ASSUME NEW t \in Threads, NEW c \in Conns, WriteCompletes(t, c) PROVE Owners'
  BY <1>23 DEF WriteCompletes
<1>24. ASSUME NEW t \in Threads, NEW c \in Conns, WriteFails(t, c) PROVE Owners'
  BY <1>24 DEF WriteFails
<1>25. ASSUME NEW t \in Threads, NEW c \in Conns, TimedOut(t, c) PROVE Owners'
  BY <1>25 DEF TimedOut
<1>26. ASSUME NEW c \in Conns, ReadAborted(c) PROVE Owners'  BY <1>26 DEF ReadAborted
<1>27. ASSUME NEW c \in Conns, WriteAborted(c) PROVE Owners'  BY <1>27 DEF WriteAborted
<1>28. ASSUME NEW c \in Conns, TimerFires(c) PROVE Owners'  BY <1>28 DEF TimerFires
<1>29. ASSUME NEW c \in Conns, Expire(c) PROVE Owners'  BY <1>29 DEF Expire
<1>30. ASSUME Signal PROVE Owners'  BY <1>30 DEF Signal
<1> HIDE DEF TInv
<1> QED BY <1>1, <1>2, <1>3, <1>4, <1>5, <1>6, <1>7, <1>8, <1>9, <1>10, <1>11, <1>12,
          <1>13, <1>14, <1>15, <1>16, <1>17, <1>18, <1>19, <1>20, <1>21, <1>22, <1>23, <1>24,
          <1>25, <1>26, <1>27, <1>28, <1>29, <1>30
       DEF Next, Run, Take, Kernel

(* A handler that uses the request either is the completion of the only operation
   of its connection or goes on from a step that used it already. *)
LEMMA SerialStep == TInv /\ Next => SerialRequest'
<1> SUFFICES ASSUME TInv, Next PROVE SerialRequest' OBVIOUS
<1> USE ServerAssumptions DEF TInv, TypeOK, ThreadsOK, ThreadOK, ConnsOK, ConnOK,
  SerialRequest, Touches, Working, Touching,
  Goto, Begin, End, Issue, timers, listening, tracked
<1>1. ASSUME NEW t \in Threads, AcceptCheck(t) PROVE SerialRequest'
  <2>1. \A u \in Threads, d \in Conns : Touches(u, d)' => Touches(u, d)
    BY <1>1 DEF AcceptCheck
  <2>2. UNCHANGED <<reads, writes>> BY <1>1 DEF AcceptCheck
  <2> QED BY <2>1, <2>2 DEF SerialRequest
<1>2. ASSUME NEW t \in Threads, Insert(t) PROVE SerialRequest'  BY <1>2 DEF Insert
<1>3. ASSUME NEW t \in Threads, AcceptAgain(t) PROVE SerialRequest'  BY <1>3 DEF AcceptAgain
<1>4. ASSUME NEW t \in Threads, StartRead(t) PROVE SerialRequest'  BY <1>4 DEF StartRead
<1>5. ASSUME NEW t \in Threads, StartWait(t) PROVE SerialRequest'  BY <1>5 DEF StartWait
<1>6. ASSUME NEW t \in Threads, Process(t) PROVE SerialRequest'
  <2>1. CASE pc'[t] = "read_cancel" /\ UNCHANGED <<reads, conn>>
    BY <1>6, <2>1 DEF Process
  <2>2. CASE pc'[t] = "erase" /\ UNCHANGED <<reads, conn>>
    BY <1>6, <2>2 DEF Process
  <2>3. CASE End(t) /\ reads' = [reads EXCEPT ![conn[t]] = Issue(conn[t])]
    <3>1. \A u \in Threads, d \in Conns : Touches(u, d)' => Touches(u, d) /\ d # conn[t]
      BY <1>6, <2>3 DEF Process
    <3>2. writes[conn[t]] = "none" /\ UNCHANGED writes
      BY <1>6 DEF Process
    <3>3. \A d \in Conns : d # conn[t] => reads'[d] = reads[d]
      BY <2>3
    <3> QED BY <3>1, <3>2, <3>3 DEF SerialRequest
  <2> QED BY <1>6, <2>1, <2>2, <2>3 DEF Process
<1>7. ASSUME NEW t \in Threads, ReadCancel(t) PROVE SerialRequest'  BY <1>7 DEF ReadCancel
<1>8. ASSUME NEW t \in Threads, WriteWait(t) PROVE SerialRequest'  BY <1>8 DEF WriteWait
<1>9. ASSUME NEW t \in Threads, Write(t) PROVE SerialRequest'  BY <1>9 DEF Write
<1>10. ASSUME NEW t \in Threads, WriteCancel(t) PROVE SerialRequest'  BY <1>10 DEF WriteCancel
<1>11. ASSUME NEW t \in Threads, Reset(t) PROVE SerialRequest'  BY <1>11 DEF Reset
<1>12. ASSUME NEW t \in Threads, Erase(t) PROVE SerialRequest'  BY <1>12 DEF Erase
<1>13. ASSUME NEW t \in Threads, Close(t) PROVE SerialRequest'  BY <1>13 DEF Close
<1>14. ASSUME NEW t \in Threads, SigClose(t) PROVE SerialRequest'  BY <1>14 DEF SigClose
<1>15. ASSUME NEW t \in Threads, SigLock(t) PROVE SerialRequest'  BY <1>15 DEF SigLock
<1>16. ASSUME NEW t \in Threads, SigStop(t) PROVE SerialRequest'  BY <1>16 DEF SigStop
<1>17. ASSUME NEW t \in Threads, SigStopped(t) PROVE SerialRequest'  BY <1>17 DEF SigStopped
<1>18. ASSUME NEW t \in Threads, SigClear(t) PROVE SerialRequest'  BY <1>18 DEF SigClear
<1>19. ASSUME NEW t \in Threads, Accepted(t) PROVE SerialRequest'
  <2>1. \A u \in Threads, d \in Conns : Touches(u, d)' => Touches(u, d)
    BY <1>19 DEF Accepted
  <2>2. UNCHANGED <<reads, writes>> BY <1>19 DEF Accepted
  <2> QED BY <2>1, <2>2 DEF SerialRequest
<1>20. ASSUME NEW t \in Threads, SigBegin(t) PROVE SerialRequest'  BY <1>20 DEF SigBegin
<1>21. ASSUME NEW t \in Threads, NEW c \in Conns, ReadCompletes(t, c) PROVE SerialRequest'
  BY <1>21 DEF ReadCompletes
<1>22. ASSUME NEW t \in Threads, NEW c \in Conns, ReadFails(t, c) PROVE SerialRequest'
  BY <1>22 DEF ReadFails
<1>23. ASSUME NEW t \in Threads, NEW c \in Conns, WriteCompletes(t, c) PROVE SerialRequest'
  BY <1>23 DEF WriteCompletes
<1>24. ASSUME NEW t \in Threads, NEW c \in Conns, WriteFails(t, c) PROVE SerialRequest'
  BY <1>24 DEF WriteFails
<1>25. ASSUME NEW t \in Threads, NEW c \in Conns, TimedOut(t, c) PROVE SerialRequest'
  BY <1>25 DEF TimedOut
<1>26. ASSUME NEW c \in Conns, ReadAborted(c) PROVE SerialRequest'  BY <1>26 DEF ReadAborted
<1>27. ASSUME NEW c \in Conns, WriteAborted(c) PROVE SerialRequest'  BY <1>27 DEF WriteAborted
<1>28. ASSUME NEW c \in Conns, TimerFires(c) PROVE SerialRequest'  BY <1>28 DEF TimerFires
<1>29. ASSUME NEW c \in Conns, Expire(c) PROVE SerialRequest'  BY <1>29 DEF Expire
<1>30. ASSUME Signal PROVE SerialRequest'  BY <1>30 DEF Signal
<1> HIDE DEF TInv
<1> QED BY <1>1, <1>2, <1>3, <1>4, <1>5, <1>6, <1>7, <1>8, <1>9, <1>10, <1>11, <1>12,
          <1>13, <1>14, <1>15, <1>16, <1>17, <1>18, <1>19, <1>20, <1>21, <1>22, <1>23, <1>24,
          <1>25, <1>26, <1>27, <1>28, <1>29, <1>30
       DEF Next, Run, Take, Kernel

(* A connection leaves the set when its thread is about to close it, or closed. *)
LEMMA OrphanStep == TInv /\ Next => NoOrphan'
<1> SUFFICES ASSUME TInv, Next PROVE NoOrphan' OBVIOUS
<1> USE ServerAssumptions DEF TInv, TypeOK, ThreadsOK, ThreadOK, ConnsOK, ConnOK, Owners,
  NoOrphan, Working, Touching,
  Goto, Begin, End, Issue, timers, listening, tracked
<1>1. ASSUME NEW t \in Threads, AcceptCheck(t) PROVE NoOrphan'  BY <1>1 DEF AcceptCheck
<1>2. ASSUME NEW t \in Threads, Insert(t) PROVE NoOrphan'  BY <1>2 DEF Insert
<1>3. ASSUME NEW t \in Threads, AcceptAgain(t) PROVE NoOrphan'  BY <1>3 DEF AcceptAgain
<1>4. ASSUME NEW t \in Threads, StartRead(t) PROVE NoOrphan'  BY <1>4 DEF StartRead
<1>5. ASSUME NEW t \in Threads, StartWait(t) PROVE NoOrphan'  BY <1>5 DEF StartWait
<1>6. ASSUME NEW t \in Threads, Process(t) PROVE NoOrphan'  BY <1>6 DEF Process
<1>7. ASSUME NEW t \in Threads, ReadCancel(t) PROVE NoOrphan'  BY <1>7 DEF ReadCancel
<1>8. ASSUME NEW t \in Threads, WriteWait(t) PROVE NoOrphan'  BY <1>8 DEF WriteWait
<1>9. ASSUME NEW t \in Threads, Write(t) PROVE NoOrphan'  BY <1>9 DEF Write
<1>10. ASSUME NEW t \in Threads, WriteCancel(t) PROVE NoOrphan'  BY <1>10 DEF WriteCancel
<1>11. ASSUME NEW t \in Threads, Reset(t) PROVE NoOrphan'  BY <1>11 DEF Reset
<1>12. ASSUME NEW t \in Threads, Erase(t) PROVE NoOrphan'  BY <1>12 DEF Erase
<1>13. ASSUME NEW t \in Threads, Close(t) PROVE NoOrphan'  BY <1>13 DEF Close
<1>14. ASSUME NEW t \in Threads, SigClose(t) PROVE NoOrphan'  BY <1>14 DEF SigClose
<1>15. ASSUME NEW t \in Threads, SigLock(t) PROVE NoOrphan'  BY <1>15 DEF SigLock
<1>16. ASSUME NEW t \in Threads, SigStop(t) PROVE NoOrphan'  BY <1>16 DEF SigStop
<1>17. ASSUME NEW t \in Threads, SigStopped(t) PROVE NoOrphan'  BY <1>17 DEF SigStopped
<1>18. ASSUME NEW t \in Threads, SigClear(t) PROVE NoOrphan'  BY <1>18 DEF SigClear
<1>19. ASSUME NEW t \in Threads, Accepted(t) PROVE NoOrphan'  BY <1>19 DEF Accepted
<1>20. ASSUME NEW t \in Threads, SigBegin(t) PROVE NoOrphan'  BY <1>20 DEF SigBegin
<1>21. ASSUME NEW t \in Threads, NEW c \in Conns, ReadCompletes(t, c) PROVE NoOrphan'
  BY <1>21 DEF ReadCompletes
<1>22. ASSUME NEW t \in Threads, NEW c \in Conns, ReadFails(t, c) PROVE NoOrphan'
  BY <1>22 DEF ReadFails
<1>23. ASSUME NEW t \in Threads, NEW c \in Conns, WriteCompletes(t, c) PROVE NoOrphan'
  BY <1>23 DEF WriteCompletes
<1>24. ASSUME NEW t \in Threads, NEW c \in Conns, WriteFails(t, c) PROVE NoOrphan'
  BY <1>24 DEF WriteFails
<1>25. ASSUME NEW t \in Threads, NEW c \in Conns, TimedOut(t, c) PROVE NoOrphan'
  BY <1>25 DEF TimedOut
<1>26. ASSUME NEW c \in Conns, ReadAborted(c) PROVE NoOrphan'  BY <1>26 DEF ReadAborted
<1>27. ASSUME NEW c \in Conns, WriteAborted(c) PROVE NoOrphan'  BY <1>27 DEF WriteAborted
<1>28. ASSUME NEW c \in Conns, TimerFires(c) PROVE NoOrphan'  BY <1>28 DEF TimerFires
<1>29. ASSUME NEW c \in Conns, Expire(c) PROVE NoOrphan'  BY <1>29 DEF Expire
<1>30. ASSUME Signal PROVE NoOrphan'  BY <1>30 DEF Signal
<1> HIDE DEF TInv
<1> QED BY <1>1, <1>2, <1>3, <1>4, <1>5, <1>6, <1>7, <1>8, <1>9, <1>10, <1>11, <1>12,
          <1>13, <1>14, <1>15, <1>16, <1>17, <1>18, <1>19, <1>20, <1>21, <1>22, <1>23, <1>24,
          <1>25, <1>26, <1>27, <1>28, <1>29, <1>30
       DEF Next, Run, Take, Kernel

(* A connection is closed after it has left the set, or by stop_all. *)
LEMMA TrackedStep == TInv /\ Next => ClosedNotTracked'
<1> SUFFICES ASSUME TInv, Next PROVE ClosedNotTracked' OBVIOUS
<1> USE ServerAssumptions DEF TInv, TypeOK, ThreadsOK, ThreadOK, ConnsOK, ConnOK,
  ClosedNotTracked, Working, Touching,
  Goto, Begin, End, Issue, timers, listening, tracked
<1>1. ASSUME NEW t \in Threads, AcceptCheck(t) PROVE ClosedNotTracked'  BY <1>1 DEF AcceptCheck
<1>2. ASSUME NEW t \in Threads, Insert(t) PROVE ClosedNotTracked'  BY <1>2 DEF Insert
<1>3. ASSUME NEW t \in Threads, AcceptAgain(t) PROVE ClosedNotTracked'  BY <1>3 DEF AcceptAgain
<1>4. ASSUME NEW t \in Threads, StartRead(t) PROVE ClosedNotTracked'  BY <1>4 DEF StartRead
<1>5. ASSUME NEW t \in Threads, StartWait(t) PROVE ClosedNotTracked'  BY <1>5 DEF StartWait
<1>6. ASSUME NEW t \in Threads, Process(t) PROVE ClosedNotTracked'  BY <1>6 DEF Process
<1>7. ASSUME NEW t \in Threads, ReadCancel(t) PROVE ClosedNotTracked'  BY <1>7 DEF ReadCancel
<1>8. ASSUME NEW t \in Threads, WriteWait(t) PROVE ClosedNotTracked'  BY <1>8 DEF WriteWait
<1>9. ASSUME NEW t \in Threads, Write(t) PROVE ClosedNotTracked'  BY <1>9 DEF Write
<1>10. ASSUME NEW t \in Threads, WriteCancel(t) PROVE ClosedNotTracked'  BY <1>10 DEF WriteCancel
<1>11. ASSUME NEW t \in Threads, Reset(t) PROVE ClosedNotTracked'  BY <1>11 DEF Reset
<1>12. ASSUME NEW t \in Threads, Erase(t) PROVE ClosedNotTracked'  BY <1>12 DEF Erase
<1>13. ASSUME NEW t \in Threads, Close(t) PROVE ClosedNotTracked'  BY <1>13 DEF Close
<1>14. ASSUME NEW t \in Threads, SigClose(t) PROVE ClosedNotTracked'  BY <1>14 DEF SigClose
<1>15. ASSUME NEW t \in Threads, SigLock(t) PROVE ClosedNotTracked'  BY <1>15 DEF SigLock
<1>16. ASSUME NEW t \in Threads, SigStop(t) PROVE ClosedNotTracked'  BY <1>16 DEF SigStop
<1>17. ASSUME NEW t \in Threads, SigStopped(t) PROVE ClosedNotTracked'  BY <1>17 DEF SigStopped
<1>18. ASSUME NEW t \in Threads, SigClear(t) PROVE ClosedNotTracked'  BY <1>18 DEF SigClear
<1>19. ASSUME NEW t \in Threads, Accepted(t) PROVE ClosedNotTracked'  BY <1>19 DEF Accepted
<1>20. ASSUME NEW t \in Threads, SigBegin(t) PROVE ClosedNotTracked'  BY <1>20 DEF SigBegin
<1>21. ASSUME NEW t \in Threads, NEW c \in Conns, ReadCompletes(t, c) PROVE ClosedNotTracked'
  BY <1>21 DEF ReadCompletes
<1>22. ASSUME NEW t \in Threads, NEW c \in Conns, ReadFails(t, c) PROVE ClosedNotTracked'
  BY <1>22 DEF ReadFails
<1>23. ASSUME NEW t \in Threads, NEW c \in Conns, WriteCompletes(t, c) PROVE ClosedNotTracked'
  BY <1>23 DEF WriteCompletes
<1>24. ASSUME NEW t \in Threads, NEW c \in Conns, WriteFails(t, c) PROVE ClosedNotTracked'
  BY <1>24 DEF WriteFails
<1>25. ASSUME NEW t \in Threads, NEW c \in Conns, TimedOut(t, c) PROVE ClosedNotTracked'
  BY <1>25 DEF TimedOut
<1>26. ASSUME NEW c \in Conns, ReadAborted(c) PROVE ClosedNotTracked'  BY <1>26 DEF ReadAborted
<1>27. ASSUME NEW c \in Conns, WriteAborted(c) PROVE ClosedNotTracked'  BY <1>27 DEF WriteAborted
<1>28. ASSUME NEW c \in Conns, TimerFires(c) PROVE ClosedNotTracked'  BY <1>28 DEF TimerFires
<1>29. ASSUME NEW c \in Conns, Expire(c) PROVE ClosedNotTracked'  BY <1>29 DEF Expire
<1>30. ASSUME Signal PROVE ClosedNotTracked'  BY <1>30 DEF Signal
<1> HIDE DEF TInv
<1> QED BY <1>1, <1>2, <1>3, <1>4, <1>5, <1>6, <1>7, <1>8, <1>9, <1>10, <1>11, <1>12,
          <1>13, <1>14, <1>15, <1>16, <1>17, <1>18, <1>19, <1>20, <1>21, <1>22, <1>23, <1>24,
          <1>25, <1>26, <1>27, <1>28, <1>29, <1>30
       DEF Next, Run, Take, Kernel

-----------------------------------------------------------------------------
(* The invariant holds of a server that has armed its first accept. *)
LEMMA TInit == Init => TInv
BY ServerAssumptions DEF Init, TInv, TypeOK, ThreadsOK, ThreadOK, ConnsOK, ConnOK, Owners,
   SerialRequest, Touches, NoOrphan, ClosedNotTracked, Working, Touching, Steps, Ops,
   Signals, Sockets, Requests

LEMMA TStep == TInv /\ [Next]_vars => TInv'
<1> SUFFICES ASSUME TInv, [Next]_vars PROVE TInv' OBVIOUS
<1>1. CASE Next
  BY <1>1, TypeStep, ThreadStep, ConnStep, OwnersStep, SerialStep, OrphanStep, TrackedStep
     DEF TInv
<1>2. CASE UNCHANGED vars
  BY <1>2 DEF vars, listening, tracked, timers, TInv, TypeOK, ThreadsOK, ThreadOK, ConnsOK,
     ConnOK, Owners, SerialRequest, Touches, NoOrphan, ClosedNotTracked
<1> QED BY <1>1, <1>2

LEMMA TInvariant == Spec => []TInv
BY TInit, TStep, PTL DEF Spec

(* The variables of the server keep their types, whatever the number of     *)
(* threads and connections and whatever the timeouts.                       *)
THEOREM TypeCorrect == Spec => []TypeOK
<1>1. TInv => TypeOK BY DEF TInv
<1> QED BY <1>1, TInvariant, PTL

(* The request and the buffer of a connection need no lock: however many    *)
(* threads run the io_service, one handler at a time uses them, and none    *)
(* while a read or a write is outstanding.                                  *)
THEOREM RequestsSerial == Spec => []SerialRequest
<1>1. TInv => SerialRequest BY DEF TInv
<1> QED BY <1>1, TInvariant, PTL

(* get_response is only called for a finished request, and reset never      *)
(* comes between the start of a write and its end.                          *)
THEOREM OnlyFinishedAnswered == Spec => []AnswersFinished
<1>1. TInv => AnswersFinished
  BY DEF TInv, TypeOK, ThreadsOK, ThreadOK, ConnsOK, ConnOK, AnswersFinished, Working, Touching
<1> QED BY <1>1, TInvariant, PTL

(* The manager loses no open connection: each is in its set, where stop_all *)
(* finds it, or is about to be closed.                                      *)
THEOREM NoConnectionLost == Spec => []NoOrphan
<1>1. TInv => NoOrphan BY DEF TInv
<1> QED BY <1>1, TInvariant, PTL

(* The manager keeps no closed connection, except while stop_all works.     *)
THEOREM NoConnectionKept == Spec => []ClosedNotTracked
<1>1. TInv => ClosedNotTracked BY DEF TInv
<1> QED BY <1>1, TInvariant, PTL

-----------------------------------------------------------------------------
(* The shutdown of a server with one thread. *)

OneThread == \A t, u \in Threads : t = u

Stopping == {"sig_lock", "sig_stop", "sig_clear"}

(* From the signal on, its handler is at work or has closed every connection,*)
(* with no accept handler left that could make another.                      *)
Stopped ==
  /\ \A t \in Threads : pc[t] \in Stopping => ~acceptor
  /\ sig = "handled" =>
       \/ \E t \in Threads : pc[t] \in Stopping \cup {"sig_close"}
       \/ /\ ~acceptor
          /\ \A t \in Threads : pc[t] # "insert"
          /\ \A c \in Conns : socket[c] # "open"

(* While the one thread runs the handler of the signal it runs no other. *)
LEMMA StoppedStep == OneThread /\ TInv /\ Stopped /\ Next => Stopped'
<1> SUFFICES ASSUME OneThread, TInv, Stopped, Next PROVE Stopped' OBVIOUS
<1> USE ServerAssumptions DEF OneThread, TInv, TypeOK, ThreadsOK, ThreadOK, Owners, NoOrphan,
  Stopped, Stopping, Working, Touching,
  Goto, Begin, End, Issue, timers, listening, tracked
<1>1. ASSUME NEW t \in Threads, AcceptCheck(t) PROVE Stopped'  BY <1>1 DEF AcceptCheck
<1>2. ASSUME NEW t \in Threads, Insert(t) PROVE Stopped'  BY <1>2 DEF Insert
<1>3. ASSUME NEW t \in Threads, AcceptAgain(t) PROVE Stopped'  BY <1>3 DEF AcceptAgain
<1>4. ASSUME NEW t \in Threads, StartRead(t) PROVE Stopped'  BY <1>4 DEF StartRead
<1>5. ASSUME NEW t \in Threads, StartWait(t) PROVE Stopped'  BY <1>5 DEF StartWait
<1>6. ASSUME NEW t \in Threads, Process(t) PROVE Stopped'  BY <1>6 DEF Process
<1>7. ASSUME NEW t \in Threads, ReadCancel(t) PROVE Stopped'  BY <1>7 DEF ReadCancel
<1>8. ASSUME NEW t \in Threads, WriteWait(t) PROVE Stopped'  BY <1>8 DEF WriteWait
<1>9. ASSUME NEW t \in Threads, Write(t) PROVE Stopped'  BY <1>9 DEF Write
<1>10. ASSUME NEW t \in Threads, WriteCancel(t) PROVE Stopped'  BY <1>10 DEF WriteCancel
<1>11. ASSUME NEW t \in Threads, Reset(t) PROVE Stopped'  BY <1>11 DEF Reset
<1>12. ASSUME NEW t \in Threads, Erase(t) PROVE Stopped'  BY <1>12 DEF Erase
<1>13. ASSUME NEW t \in Threads, Close(t) PROVE Stopped'  BY <1>13 DEF Close
<1>14. ASSUME NEW t \in Threads, SigClose(t) PROVE Stopped'  BY <1>14 DEF SigClose
<1>15. ASSUME NEW t \in Threads, SigLock(t) PROVE Stopped'  BY <1>15 DEF SigLock
<1>16. ASSUME NEW t \in Threads, SigStop(t) PROVE Stopped'  BY <1>16 DEF SigStop
<1>17. ASSUME NEW t \in Threads, SigStopped(t) PROVE Stopped'  BY <1>17 DEF SigStopped
<1>18. ASSUME NEW t \in Threads, SigClear(t) PROVE Stopped'  BY <1>18 DEF SigClear
<1>19. ASSUME NEW t \in Threads, Accepted(t) PROVE Stopped'  BY <1>19 DEF Accepted
<1>20. ASSUME NEW t \in Threads, SigBegin(t) PROVE Stopped'  BY <1>20 DEF SigBegin
<1>21. ASSUME NEW t \in Threads, NEW c \in Conns, ReadCompletes(t, c) PROVE Stopped'
  BY <1>21 DEF ReadCompletes
<1>22. ASSUME NEW t \in Threads, NEW c \in Conns, ReadFails(t, c) PROVE Stopped'
  BY <1>22 DEF ReadFails
<1>23. ASSUME NEW t \in Threads, NEW c \in Conns, WriteCompletes(t, c) PROVE Stopped'
  BY <1>23 DEF WriteCompletes
<1>24. ASSUME NEW t \in Threads, NEW c \in Conns, WriteFails(t, c) PROVE Stopped'
  BY <1>24 DEF WriteFails
<1>25. ASSUME NEW t \in Threads, NEW c \in Conns, TimedOut(t, c) PROVE Stopped'
  BY <1>25 DEF TimedOut
<1>26. ASSUME NEW c \in Conns, ReadAborted(c) PROVE Stopped'  BY <1>26 DEF ReadAborted
<1>27. ASSUME NEW c \in Conns, WriteAborted(c) PROVE Stopped'  BY <1>27 DEF WriteAborted
<1>28. ASSUME NEW c \in Conns, TimerFires(c) PROVE Stopped'  BY <1>28 DEF TimerFires
<1>29. ASSUME NEW c \in Conns, Expire(c) PROVE Stopped'  BY <1>29 DEF Expire
<1>30. ASSUME Signal PROVE Stopped'  BY <1>30 DEF Signal
<1> HIDE DEF TInv, Stopped, OneThread
<1> QED BY <1>1, <1>2, <1>3, <1>4, <1>5, <1>6, <1>7, <1>8, <1>9, <1>10, <1>11, <1>12,
          <1>13, <1>14, <1>15, <1>16, <1>17, <1>18, <1>19, <1>20, <1>21, <1>22, <1>23, <1>24,
          <1>25, <1>26, <1>27, <1>28, <1>29, <1>30
       DEF Next, Run, Take, Kernel

(* "closes all open connections": with one thread, the default of            *)
(* server::run, no connection is open once the signal is handled.  (With     *)
(* more threads an accept handler that is past its check may insert one.)    *)
THEOREM OneThreadClosesAll ==
  ASSUME OneThread PROVE Spec => []StopClosesAll
<1>1. Init => Stopped
  BY ServerAssumptions DEF Init, Stopped, Stopping
<1>2. TInv /\ Stopped /\ [Next]_vars => Stopped'
  <2>1. CASE UNCHANGED vars
    BY <2>1 DEF vars, listening, Stopped
  <2> QED BY <2>1, OneThread, StoppedStep
<1>3. Stopped => StopClosesAll
  BY DEF Stopped, Stopping, StopClosesAll
<1> QED BY <1>1, <1>2, <1>3, TInvariant, PTL DEF Spec

-----------------------------------------------------------------------------
(* The statistics.  The aggregator conserves every count, never falls back *)
(* to an older value and implements MetricsReport.                         *)

(* Nothing in a map, in the hand of the thread or sent is newer than the   *)
(* last call.                                                              *)
NotAhead == \A n \in Names : \A i \in 1..3 :
    /\ maps[Kinds[i]][n] # Missing => maps[Kinds[i]][n] <= calls
    /\ hand[n] # Missing /\ bg \in {"send", "threw"} /\ round = i =>
          hand[n] <= calls
    /\ sent[Kinds[i]][n] <= calls

SInv == STypeOK /\ CountsConserved /\ NewerWaits /\ NotAhead

-----------------------------------------------------------------------------
(* The four maps, in the order they are sent.                              *)
LEMMA KindsAre ==
    /\ DOMAIN Kinds = 1..4 /\ Len(Kinds) = 4
    /\ Kinds[1] = "set" /\ Kinds[2] = "timer"
    /\ Kinds[3] = "gauge" /\ Kinds[4] = "counter"
    /\ KindSet = {"set", "timer", "gauge", "counter"}
BY DEF Kinds, KindSet

(* Init establishes the invariant.                                         *)
LEMMA SInvInit == SInit => SInv
<1> SUFFICES ASSUME SInit PROVE SInv
  OBVIOUS
<1> USE KindsAre, StatsAssumption DEF SInit, Empty
<1>1. STypeOK
  <2>1. running \in BOOLEAN
    BY Zenon
  <2>2. \A k \in KindSet : maps[k] = Empty
    OBVIOUS
  <2> QED BY <2>1, <2>2 DEF STypeOK
<1>2. CountsConserved
  <2>1. \A n \in Names : maps["counter"][n] = Missing /\ sent["counter"][n] = 0
                            /\ recorded[n] = 0
    OBVIOUS
  <2>2. bg = "none"
    OBVIOUS
  <2>3. \A n \in Names : InHand(n) = 0
    BY <2>2 DEF InHand
  <2>4. \A n \in Names : Pending(n) = 0
    BY <2>1 DEF Pending, Amount
  <2>5. ASSUME NEW n \in Names
        PROVE recorded[n] = sent["counter"][n] + InHand(n) + Pending(n)
    <3> HIDE DEF SInit
    <3> QED BY <2>1, <2>3, <2>4
  <2> QED BY <2>5 DEF CountsConserved
<1>3. NewerWaits
  BY DEF NewerWaits
<1>4. NotAhead
  BY DEF NotAhead
<1> QED BY <1>1, <1>2, <1>3, <1>4 DEF SInv

(* Every step keeps the types.                                             *)
LEMMA STypeStep == STypeOK /\ SNext => STypeOK'
<1> SUFFICES ASSUME STypeOK, SNext PROVE STypeOK'
  OBVIOUS
<1> USE KindsAre, StatsAssumption DEF STypeOK, Empty
<1>1. ASSUME Construct PROVE STypeOK'
  BY <1>1 DEF Construct
<1>2. ASSUME NEW n \in Names, counter(n) PROVE STypeOK'
  <2>1. Amount(maps["counter"][n]) + 1 \in Nat
    BY DEF Amount
  <2> QED BY <1>2, <2>1 DEF counter
<1>3. ASSUME NEW n \in Names, NEW k \in {"set", "timer", "gauge"}, Replace(k, n)
      PROVE STypeOK'
  BY <1>3 DEF Replace
<1>4. ASSUME on_epoch PROVE STypeOK'
  BY <1>4 DEF on_epoch
<1>5. ASSUME LoopTest PROVE STypeOK'
  BY <1>5 DEF LoopTest
<1>6. ASSUME RunEpochs PROVE STypeOK'
  BY <1>6 DEF RunEpochs
<1>7. ASSUME SwapMap PROVE STypeOK'
  <2>1. Kinds[round] \in KindSet
    OBVIOUS
  <2> QED BY <1>7, <2>1 DEF SwapMap
<1>8. ASSUME NEW n \in Names, SendStat(n) PROVE STypeOK'
  <2>1. Kinds[round] \in KindSet
    OBVIOUS
  <2>2. hand[n] \in Nat /\ sent[Kinds[round]][n] \in Nat
    BY <1>8, <2>1 DEF SendStat
  <2> QED BY <1>8, <2>1, <2>2 DEF SendStat
<1>9. ASSUME SendThrows PROVE STypeOK'
  BY <1>9 DEF SendThrows
<1>10. ASSUME NextMap PROVE STypeOK'
  BY <1>10 DEF NextMap
<1>11. ASSUME WakeUp PROVE STypeOK'
  BY <1>11 DEF WakeUp
<1>12. ASSUME RequestStop PROVE STypeOK'
  BY <1>12 DEF RequestStop
<1> HIDE DEF STypeOK
<1> QED
  BY <1>1, <1>2, <1>3, <1>4, <1>5, <1>6, <1>7, <1>8, <1>9, <1>10, <1>11, <1>12
     DEF SNext, Background, timer, gauge, set

(* Every step keeps the counts. *)
LEMMA ConservedStep == SInv /\ SNext => CountsConserved'
<1> SUFFICES ASSUME SInv, SNext PROVE CountsConserved'
  OBVIOUS
<1> USE KindsAre, StatsAssumption DEF SInv, STypeOK, Empty, CountsConserved, InHand, Pending, Amount
<1>1. ASSUME Construct PROVE CountsConserved'
  BY <1>1 DEF Construct
<1>2. ASSUME NEW n \in Names, counter(n) PROVE CountsConserved'
  BY <1>2 DEF counter
<1>3. ASSUME NEW n \in Names, NEW k \in {"set", "timer", "gauge"}, Replace(k, n)
      PROVE CountsConserved'
  BY <1>3 DEF Replace
<1>4. ASSUME on_epoch PROVE CountsConserved'
  BY <1>4 DEF on_epoch
<1>5. ASSUME LoopTest PROVE CountsConserved'
  BY <1>5 DEF LoopTest
<1>6. ASSUME RunEpochs PROVE CountsConserved'
  BY <1>6 DEF RunEpochs
<1>7. ASSUME SwapMap PROVE CountsConserved'
  BY <1>7 DEF SwapMap
<1>8. ASSUME NEW n \in Names, SendStat(n) PROVE CountsConserved'
  BY <1>8 DEF SendStat
<1>9. ASSUME SendThrows PROVE CountsConserved'
  BY <1>9 DEF SendThrows
<1>10. ASSUME NextMap PROVE CountsConserved'
  BY <1>10 DEF NextMap
<1>11. ASSUME WakeUp PROVE CountsConserved'
  BY <1>11 DEF WakeUp
<1>12. ASSUME RequestStop PROVE CountsConserved'
  BY <1>12 DEF RequestStop
<1> HIDE DEF SInv, CountsConserved
<1> QED
  BY <1>1, <1>2, <1>3, <1>4, <1>5, <1>6, <1>7, <1>8, <1>9, <1>10, <1>11, <1>12
     DEF SNext, Background, timer, gauge, set

(* Every step keeps the order of the values. *)
LEMMA NewerStep == SInv /\ SNext => NewerWaits'
<1> SUFFICES ASSUME SInv, SNext PROVE NewerWaits'
  OBVIOUS
<1> USE KindsAre, StatsAssumption DEF SInv, STypeOK, Empty, NewerWaits, NotAhead
<1>1. ASSUME Construct PROVE NewerWaits'
  BY <1>1 DEF Construct
<1>2. ASSUME NEW n \in Names, counter(n) PROVE NewerWaits'
  BY <1>2 DEF counter
<1>3. ASSUME NEW n \in Names, NEW k \in {"set", "timer", "gauge"}, Replace(k, n)
      PROVE NewerWaits'
  BY <1>3 DEF Replace
<1>4. ASSUME on_epoch PROVE NewerWaits'
  BY <1>4 DEF on_epoch
<1>5. ASSUME LoopTest PROVE NewerWaits'
  BY <1>5 DEF LoopTest
<1>6. ASSUME RunEpochs PROVE NewerWaits'
  BY <1>6 DEF RunEpochs
<1>7. ASSUME SwapMap PROVE NewerWaits'
  BY <1>7 DEF SwapMap
<1>8. ASSUME NEW n \in Names, SendStat(n) PROVE NewerWaits'
  BY <1>8 DEF SendStat
<1>9. ASSUME SendThrows PROVE NewerWaits'
  BY <1>9 DEF SendThrows
<1>10. ASSUME NextMap PROVE NewerWaits'
  BY <1>10 DEF NextMap
<1>11. ASSUME WakeUp PROVE NewerWaits'
  BY <1>11 DEF WakeUp
<1>12. ASSUME RequestStop PROVE NewerWaits'
  BY <1>12 DEF RequestStop
<1> HIDE DEF SInv, NewerWaits
<1> QED
  BY <1>1, <1>2, <1>3, <1>4, <1>5, <1>6, <1>7, <1>8, <1>9, <1>10, <1>11, <1>12
     DEF SNext, Background, timer, gauge, set

(* No step gets ahead of the calls. *)
LEMMA NotAheadStep == SInv /\ SNext => NotAhead'
<1> SUFFICES ASSUME SInv, SNext PROVE NotAhead'
  OBVIOUS
<1> USE KindsAre, StatsAssumption DEF SInv, STypeOK, Empty, NotAhead
<1>1. ASSUME Construct PROVE NotAhead'
  BY <1>1 DEF Construct
<1>2. ASSUME NEW n \in Names, counter(n) PROVE NotAhead'
  BY <1>2 DEF counter
<1>3. ASSUME NEW n \in Names, NEW k \in {"set", "timer", "gauge"}, Replace(k, n)
      PROVE NotAhead'
  BY <1>3 DEF Replace
<1>4. ASSUME on_epoch PROVE NotAhead'
  BY <1>4 DEF on_epoch
<1>5. ASSUME LoopTest PROVE NotAhead'
  BY <1>5 DEF LoopTest
<1>6. ASSUME RunEpochs PROVE NotAhead'
  BY <1>6 DEF RunEpochs
<1>7. ASSUME SwapMap PROVE NotAhead'
  BY <1>7 DEF SwapMap
<1>8. ASSUME NEW n \in Names, SendStat(n) PROVE NotAhead'
  BY <1>8 DEF SendStat
<1>9. ASSUME SendThrows PROVE NotAhead'
  BY <1>9 DEF SendThrows
<1>10. ASSUME NextMap PROVE NotAhead'
  BY <1>10 DEF NextMap
<1>11. ASSUME WakeUp PROVE NotAhead'
  BY <1>11 DEF WakeUp
<1>12. ASSUME RequestStop PROVE NotAhead'
  BY <1>12 DEF RequestStop
<1> HIDE DEF SInv, NotAhead
<1> QED
  BY <1>1, <1>2, <1>3, <1>4, <1>5, <1>6, <1>7, <1>8, <1>9, <1>10, <1>11, <1>12
     DEF SNext, Background, timer, gauge, set

-----------------------------------------------------------------------------
(* The inductive invariant holds in every behaviour.                       *)
LEMMA SInvAlways == SSpec => []SInv
<1>1. SInv /\ [SNext]_svars => SInv'
  <2>1. SInv /\ SNext => SInv'
    BY STypeStep, ConservedStep, NewerStep, NotAheadStep DEF SInv
  <2>2. SInv /\ UNCHANGED svars => SInv'
    BY DEF svars, SInv, STypeOK, CountsConserved, NewerWaits, NotAhead,
           InHand, Pending, Amount
  <2> QED BY <2>1, <2>2
<1> QED BY SInvInit, <1>1, PTL DEF SSpec

(* Every count recorded by any thread is in the map, with the background   *)
(* thread or sent, whatever the interleaving of records, swaps and sends.  *)
THEOREM CountsAreConserved == SSpec => []CountsConserved
BY SInvAlways, PTL DEF SInv

(* No metric is ever sent with a value older than one already sent.        *)
THEOREM ValuesInOrder == SSpec => []NewerWaits
BY SInvAlways, PTL DEF SInv

(* Type correctness.                                                       *)
THEOREM StatsTypeCorrect == SSpec => []STypeOK
BY SInvAlways, PTL DEF SInv

-----------------------------------------------------------------------------
Unsent == [n \in Names |-> InHand(n) + Pending(n)]

(* Two functions on Names that agree everywhere are equal.                 *)
LEMMA UnsentUpdate ==
    ASSUME NEW f, NEW g, NEW n \in Names, NEW v,
           f = [m \in Names |-> f[m]], g = [m \in Names |-> g[m]],
           \A m \in Names : g[m] = IF m = n THEN v ELSE f[m]
    PROVE  g = [f EXCEPT ![n] = v]
OBVIOUS

(* A step of the aggregator is a record, a report or no step of            *)
(* MetricsReport.                                                          *)
LEMMA ReportStep == SInv /\ SInv' /\ SNext => [Report!MNext]_(Report!mvars)
<1> SUFFICES ASSUME SInv, SInv', SNext PROVE [Report!MNext]_(Report!mvars)
  OBVIOUS
<1> DEFINE Same == Unsent' = Unsent /\ sent["counter"]' = sent["counter"]
<1>0. Same => [Report!MNext]_(Report!mvars)
  BY DEF Unsent, Report!mvars
<1> USE KindsAre, StatsAssumption DEF SInv, STypeOK, Empty, Unsent, InHand,
        Pending, Amount
<1>1. ASSUME Construct PROVE Same
  BY <1>1 DEF Construct
<1>2. ASSUME NEW n \in Names, counter(n) PROVE Report!Record(n)
  <2>1. \A m \in Names : Unsent'[m] = IF m = n THEN Unsent[n] + 1 ELSE Unsent[m]
    BY <1>2 DEF counter
  <2>2. /\ Unsent' = [m \in Names |-> Unsent'[m]]
        /\ Unsent = [m \in Names |-> Unsent[m]]
    OBVIOUS
  <2>3. sent' = sent
    BY <1>2 DEF counter
  <2>4. Unsent' = [Unsent EXCEPT ![n] = Unsent[n] + 1]
    <3> HIDE DEF Unsent
    <3> QED BY <2>1, <2>2, UnsentUpdate
  <2> QED BY <2>3, <2>4 DEF Report!Record
<1>3. ASSUME NEW n \in Names, NEW k \in {"set", "timer", "gauge"}, Replace(k, n)
      PROVE Same
  BY <1>3 DEF Replace
<1>4. ASSUME on_epoch PROVE Same
  BY <1>4 DEF on_epoch
<1>5. ASSUME LoopTest PROVE Same
  BY <1>5 DEF LoopTest
<1>6. ASSUME RunEpochs PROVE Same
  BY <1>6 DEF RunEpochs
<1>7. ASSUME SwapMap PROVE Same
  BY <1>7 DEF SwapMap
<1>8. ASSUME NEW n \in Names, SendStat(n) PROVE Same \/ Report!Report(n)
  <2>1. CASE Kinds[round] = "counter"
    <3> DEFINE p == hand[n]
    <3>1. p \in Nat /\ Unsent[n] \in Nat /\ p <= Unsent[n]
      BY <1>8, <2>1 DEF SendStat
    <3>2. Unsent' = [Unsent EXCEPT ![n] = @ - p]
      <4>1. \A m \in Names : Unsent'[m] = IF m = n THEN Unsent[n] - p ELSE Unsent[m]
        BY <1>8, <2>1, <3>1 DEF SendStat
      <4>2. /\ Unsent' = [m \in Names |-> Unsent'[m]]
            /\ Unsent = [m \in Names |-> Unsent[m]]
        OBVIOUS
      <4> HIDE DEF Unsent
      <4> QED BY <4>1, <4>2, UnsentUpdate
    <3>3. sent["counter"]' = [sent["counter"] EXCEPT ![n] = @ + p]
      <4>1. sent' = [sent EXCEPT !["counter"][n] = @ + p]
        BY <1>8, <2>1 DEF SendStat
      <4>2. sent \in [KindSet -> [Names -> Nat]] /\ "counter" \in KindSet
        OBVIOUS
      <4> HIDE DEF SInv, STypeOK, p
      <4> QED BY <4>1, <4>2, Zenon
    <3>4. p \in 0..Unsent[n]
      <4> HIDE DEF Unsent, p
      <4> QED BY <3>1
    <3> QED BY <3>2, <3>3, <3>4, Zenon DEF Report!Report
  <2>2. CASE Kinds[round] # "counter"
    BY <1>8, <2>2 DEF SendStat
  <2> QED BY <2>1, <2>2
<1>9. ASSUME SendThrows PROVE Same
  BY <1>9 DEF SendThrows
<1>10. ASSUME NextMap PROVE Same
  BY <1>10 DEF NextMap
<1>11. ASSUME WakeUp PROVE Same
  BY <1>11 DEF WakeUp
<1>12. ASSUME RequestStop PROVE Same
  BY <1>12 DEF RequestStop
<1> HIDE DEF SInv, Same, Unsent
<1> QED
  BY <1>0, <1>1, <1>2, <1>3, <1>4, <1>5, <1>6, <1>7, <1>8, <1>9, <1>10, <1>11, <1>12
     DEF SNext, Background, timer, gauge, set, Report!MNext

(* The aggregator implements the report it promises: every increment is    *)
(* reported at most once and nothing else is reported.                     *)
THEOREM ImplementsReport == SSpec => ReportsOnce
<1>1. SInit => Report!MInit
  <2> SUFFICES ASSUME SInit PROVE Report!MInit
    OBVIOUS
  <2>1. bg = "none" /\ sent["counter"] = [n \in Names |-> 0]
    BY KindsAre DEF SInit
  <2>2. \A n \in Names : maps["counter"][n] = Missing
    BY KindsAre DEF SInit, Empty
  <2>3. \A n \in Names : InHand(n) = 0 /\ Pending(n) = 0
    BY <2>1, <2>2 DEF InHand, Pending, Amount
  <2> QED BY <2>1, <2>3 DEF Report!MInit
<1>2. SInv /\ SInv' /\ [SNext]_svars => [Report!MNext]_(Report!mvars)
  <2>1. UNCHANGED svars => [Report!MNext]_(Report!mvars)
    BY DEF svars, Report!mvars, InHand, Pending, Amount
  <2> QED BY <2>1, ReportStep
<1> QED BY <1>1, <1>2, SInvAlways, PTL DEF SSpec, ReportsOnce, Report!MSpec
=============================================================================

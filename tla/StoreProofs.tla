---------------------------- MODULE StoreProofs ----------------------------
(***************************************************************************)
(* Proofs about StoreCommands and StoreHistory, for any number of threads, *)
(* keys and values.                                                        *)
(*                                                                         *)
(* The inductive invariant is TypeOK together with Shape, which says what  *)
(* each point of a handler knows about its own request, and with the two   *)
(* halves of the locking discipline.  CheckStillHolds is inductive on top  *)
(* of it, but only in a deployment that is RaceFree.                       *)
(*                                                                         *)
(* For the answers, Current says that the window of an open request        *)
(* contains the present contents of the database, so that a test made on   *)
(* it is a fact about the window, and Tested what the tests of add and     *)
(* delete found.                                                           *)
(***************************************************************************)
EXTENDS StoreHistory, TLAPS

(* The command a handler executes at a step. *)
OpAt(step) == CASE step = "set_put" -> "SET"
                [] step \in {"add_lock", "add_get", "add_put", "add_unlock"} -> "ADD"
                [] step = "get_key" -> "GET"
                [] step \in {"delete_get", "delete_del"} -> "DELETE"
                [] step = "http_get" -> "FETCH"
                [] OTHER -> "PUT"

(* Between arrival and answer a handler has a command its clients may send, *)
(* a key, a payload if it stores, and no answer before it decides on one.   *)
Shape ==
  \A t \in Threads :
    /\ pc[t] = "idle" => command[t] = "NONE" /\ code[t] = "none"
    /\ pc[t] # "idle" => command[t] \in Allowed[t]
    /\ pc[t] \notin {"idle", "done"} => command[t] = OpAt(pc[t]) /\ todo[t] # <<>>
    /\ pc[t] \notin {"done", "add_unlock"} <=> code[t] = "none"
    /\ command[t] \in {"SET", "ADD", "PUT"} => data[t] \in Values

SInv == TypeOK /\ Shape

-----------------------------------------------------------------------------
LEMMA SInvInit == Init => SInv
  BY StoreAssumptions
  DEF Init, SInv, TypeOK, Shape, Steps, Codes, Ops, TcpOps, HttpOps

(* A handler that has not finished knows its key. *)
LEMMA KeyType ==
  ASSUME SInv, NEW t \in Threads, pc[t] \notin {"idle", "done"}
  PROVE  Key(t) \in Keys /\ Tail(todo[t]) \in Seq(Keys)
  BY DEF SInv, TypeOK, Shape, Key

(* Every write leaves the database well typed. *)
LEMMA WriteType ==
  ASSUME SInv, NEW t \in Threads, pc[t] \notin {"idle", "done"},
         NEW v \in Values \cup {NoValue}, NEW s, Write(t, v, s)
  PROVE  db' \in [Keys -> Values \cup {NoValue}]
  BY KeyType DEF SInv, TypeOK, Write

LEMMA SInvStep == SInv /\ [Next]_vars => SInv'
<1> SUFFICES ASSUME SInv, [Next]_vars PROVE SInv'
  OBVIOUS
<1> USE DEF Goto, Decide, reqvars, Steps, Codes
<1>1. CASE UNCHANGED vars
  BY <1>1 DEF vars, SInv, TypeOK, Shape
<1>2. ASSUME NEW t \in Threads, NEW op \in Ops, NEW ks \in KeyLists, NEW v \in Values,
             Prepare(t, op, ks, v)
      PROVE  SInv'
  <2>1. TypeOK'
    BY <1>2, StoreAssumptions
    DEF Prepare, Early, FirstStep, SInv, TypeOK, Ops, TcpOps, HttpOps
  <2>2. Shape'
    BY <1>2, StoreAssumptions
    DEF Prepare, Early, FirstStep, SInv, TypeOK, Shape, OpAt, Ops, TcpOps, HttpOps
  <2> QED BY <2>1, <2>2 DEF SInv
<1>3. ASSUME NEW t \in Threads, NEW op \in Ops, NEW ks \in KeyLists, NEW v \in Values,
             HttpRequest(t, op, ks, v)
      PROVE  SInv'
  <2>1. TypeOK'
    BY <1>3, StoreAssumptions
    DEF HttpRequest, FirstStep, SInv, TypeOK, Ops, TcpOps, HttpOps
  <2>2. ks \in Seq(Keys) /\ ks # <<>>
    BY <1>3, StoreAssumptions DEF HttpRequest
  <2>3. \/ op = "FETCH" /\ Goto(t, "http_get")
        \/ op = "PUT" /\ Goto(t, "http_put") /\ data' = [data EXCEPT ![t] = v]
    BY <1>3 DEF HttpRequest, FirstStep, HttpOps
  <2>4. Shape'
    BY <1>3, <2>2, <2>3 DEF HttpRequest, SInv, TypeOK, Shape, OpAt
  <2> QED BY <2>1, <2>4 DEF SInv
<1>4. ASSUME NEW t \in Threads, SetPut(t) \/ AddPut(t) \/ HttpPut(t) PROVE SInv'
  <2>1. data[t] \in Values
    BY <1>4 DEF SetPut, AddPut, HttpPut, SInv, Shape, OpAt
  <2>2. db' \in [Keys -> Values \cup {NoValue}]
    BY <1>4, <2>1, WriteType DEF SetPut, AddPut, HttpPut
  <2>3. /\ UNCHANGED <<mutex, reqvars, items>>
        /\ \E c \in Codes \ {"none"} : Decide(t, c)
        /\ \/ pc[t] = "add_put" /\ Goto(t, "add_unlock")
           \/ pc[t] \in {"set_put", "http_put"} /\ Goto(t, "done")
    BY <1>4 DEF SetPut, AddPut, HttpPut
  <2>4. TypeOK'
    BY <2>2, <2>3 DEF SInv, TypeOK
  <2>5. Shape'
    BY <2>3 DEF SInv, TypeOK, Shape, OpAt
  <2> QED BY <2>4, <2>5 DEF SInv
<1>5. ASSUME NEW t \in Threads, DeleteDel(t) PROVE SInv'
  <2>1. db' \in [Keys -> Values \cup {NoValue}]
    BY <1>5, WriteType DEF DeleteDel
  <2>2. TypeOK'
    BY <1>5, <2>1 DEF DeleteDel, SInv, TypeOK
  <2>3. Shape'
    BY <1>5 DEF DeleteDel, SInv, TypeOK, Shape, OpAt
  <2> QED BY <2>2, <2>3 DEF SInv
<1>6. ASSUME NEW t \in Threads, AddLock(t) PROVE SInv'
  BY <1>6 DEF AddLock, SInv, TypeOK, Shape, OpAt
<1>7. ASSUME NEW t \in Threads, AddGet(t) PROVE SInv'
  <2> USE DEF SInv, TypeOK
  <2>1. /\ pc[t] = "add_get"
        /\ UNCHANGED <<db, mutex, reqvars, items>>
        /\ \/ Goto(t, "add_put") /\ UNCHANGED code
           \/ Goto(t, "add_unlock") /\ Decide(t, "NOT_STORED")
           \/ Goto(t, "add_unlock") /\ Decide(t, "ERROR")
    BY <1>7 DEF AddGet
  <2>2. CASE Goto(t, "add_put") /\ UNCHANGED code
    BY <2>1, <2>2 DEF Shape, OpAt
  <2>3. CASE Goto(t, "add_unlock") /\ Decide(t, "NOT_STORED")
    BY <2>1, <2>3 DEF Shape, OpAt
  <2>4. CASE Goto(t, "add_unlock") /\ Decide(t, "ERROR")
    BY <2>1, <2>4 DEF Shape, OpAt
  <2> QED BY <2>1, <2>2, <2>3, <2>4
<1>8. ASSUME NEW t \in Threads, AddUnlock(t) PROVE SInv'
  BY <1>8 DEF AddUnlock, SInv, TypeOK, Shape, OpAt
<1>9. ASSUME NEW t \in Threads, GetKey(t) PROVE SInv'
  <2>1. items' \in [Threads -> Seq(Keys \X Values)]
    <3>1. PICK s \in GetStatus(Key(t)) :
            items' = IF s = "ok" THEN [items EXCEPT ![t] = Append(@, <<Key(t), db[Key(t)]>>)]
                     ELSE items
      BY <1>9 DEF GetKey
    <3>2. s = "ok" => <<Key(t), db[Key(t)]>> \in Keys \X Values
      BY <1>9, <3>1, KeyType DEF GetKey, GetStatus, Error, SInv, TypeOK
    <3> QED BY <3>1, <3>2 DEF SInv, TypeOK
  <2>2. TypeOK'
    BY <1>9, <2>1, KeyType DEF GetKey, SInv, TypeOK
  <2>3. Shape'
    BY <1>9, KeyType DEF GetKey, SInv, TypeOK, Shape, OpAt
  <2> QED BY <2>2, <2>3 DEF SInv
<1>10. ASSUME NEW t \in Threads, DeleteGet(t) PROVE SInv'
  <2>1. /\ pc[t] = "delete_get"
        /\ \/ Goto(t, "delete_del") /\ UNCHANGED code
           \/ Goto(t, "done") /\ Decide(t, "NOT_FOUND")
        /\ UNCHANGED <<db, mutex, reqvars, items>>
    BY <1>10 DEF DeleteGet
  <2>2. TypeOK'
    BY <2>1 DEF SInv, TypeOK
  <2>3. Shape'
    BY <2>1 DEF SInv, TypeOK, Shape, OpAt
  <2> QED BY <2>2, <2>3 DEF SInv
<1>11. ASSUME NEW t \in Threads, Throw(t) PROVE SInv'
  BY <1>11 DEF Throw, SInv, TypeOK, Shape, OpAt
<1>12. ASSUME NEW t \in Threads, HttpGet(t) PROVE SInv'
  <2>1. items' \in [Threads -> Seq(Keys \X Values)]
    <3>1. PICK s \in GetStatus(Key(t)) :
            items' = IF s = "ok" THEN [items EXCEPT ![t] = <<<<Key(t), db[Key(t)]>>>>]
                     ELSE items
      BY <1>12 DEF HttpGet
    <3>2. s = "ok" => <<Key(t), db[Key(t)]>> \in Keys \X Values
      BY <1>12, <3>1, KeyType DEF HttpGet, GetStatus, Error, SInv, TypeOK
    <3>3. s = "ok" => <<<<Key(t), db[Key(t)]>>>> \in Seq(Keys \X Values)
      BY <3>2
    <3> QED BY <3>1, <3>3 DEF SInv, TypeOK
  <2>2. TypeOK'
    BY <1>12, <2>1 DEF HttpGet, SInv, TypeOK
  <2>3. Shape'
    BY <1>12 DEF HttpGet, SInv, TypeOK, Shape, OpAt
  <2> QED BY <2>2, <2>3 DEF SInv
<1>13. ASSUME NEW t \in Threads, Finish(t) PROVE SInv'
  BY <1>13 DEF Finish, SInv, TypeOK, Shape, OpAt
<1> QED
  BY <1>1, <1>2, <1>3, <1>4, <1>5, <1>6, <1>7, <1>8, <1>9, <1>10, <1>11, <1>12, <1>13
  DEF Next, Arrive, Work

LEMMA SInvAlways == Spec => []SInv
  BY SInvInit, SInvStep, PTL DEF Spec

(* The state of the database, the mutex and every request stays well formed *)
(* whatever requests arrive: no handler ever works without a key or writes  *)
(* something that is not a payload.                                         *)
THEOREM TypeCorrect == Spec => []TypeOK
  BY SInvAlways, PTL DEF SInv

-----------------------------------------------------------------------------
(* A step of thread t leaves the program counter of every other thread. *)
LEMMA OnlyOwnPc ==
  ASSUME SInv, NEW t \in Threads, Arrive(t) \/ Work(t), NEW u \in Threads, u # t
  PROVE  pc'[u] = pc[u] /\ command'[u] = command[u] /\ todo'[u] = todo[u]
  BY DEF SInv, TypeOK, Arrive, Work, Prepare, HttpRequest, SetPut, AddLock, AddGet,
         AddPut, AddUnlock, GetKey, DeleteGet, DeleteDel, Throw, HttpGet, HttpPut,
         Finish, Goto, reqvars

(* The mutex changes hands only in lock() and unlock(), and a thread enters *)
(* the critical section only through lock().                                *)
LEMMA MutexStep ==
  ASSUME SInv, NEW t \in Threads, Arrive(t) \/ Work(t)
  PROVE  \/ AddLock(t)
         \/ AddUnlock(t)
         \/ mutex' = mutex /\ (pc'[t] \in Critical => pc[t] \in Critical)
  BY DEF SInv, TypeOK, Arrive, Work, Prepare, HttpRequest, SetPut, AddGet, AddPut,
         GetKey, DeleteGet, DeleteDel, Throw, HttpGet, HttpPut, Finish, Goto, Critical,
         Steps, Early, FirstStep, TcpOps, HttpOps

LEMMA LockStep ==
  SInv /\ LockProtectsAdd /\ [Next]_vars => LockProtectsAdd'
<1> SUFFICES ASSUME SInv, LockProtectsAdd, [Next]_vars PROVE LockProtectsAdd'
  OBVIOUS
<1>1. CASE UNCHANGED vars
  BY <1>1 DEF vars, LockProtectsAdd
<1>2. ASSUME NEW t \in Threads, Arrive(t) \/ Work(t) PROVE LockProtectsAdd'
  <2>1. CASE AddLock(t)
    BY <2>1, <1>2, OnlyOwnPc, StoreAssumptions
    DEF AddLock, LockProtectsAdd, SInv, TypeOK
  <2>2. CASE AddUnlock(t)
    <3>1. pc'[t] \notin Critical
      BY <2>2 DEF AddUnlock, Goto, SInv, TypeOK, Critical
    <3>2. \A u \in Threads : u # t => pc[u] \notin Critical
      BY <2>2 DEF AddUnlock, LockProtectsAdd, Critical
    <3> QED BY <1>2, <3>1, <3>2, OnlyOwnPc DEF LockProtectsAdd
  <2>3. CASE mutex' = mutex /\ (pc'[t] \in Critical => pc[t] \in Critical)
    BY <1>2, <2>3, OnlyOwnPc DEF LockProtectsAdd
  <2> QED BY <1>2, <2>1, <2>2, <2>3, MutexStep
<1> QED BY <1>1, <1>2 DEF Next

(* Two adds never test and store at the same time, on any number of threads *)
(* and even after an exception has left the mutex locked.                   *)
THEOREM AddsExclusive == Spec => []LockProtectsAdd
<1>1. Init => LockProtectsAdd
  BY DEF Init, LockProtectsAdd, Critical
<1> QED BY <1>1, SInvAlways, LockStep, PTL DEF Spec

(* Every path through the add case that does not throw unlocks the mutex.   *)
THEOREM EveryPathUnlocks ==
  ASSUME CanThrow = FALSE
  PROVE  Spec => []NoLockLeak
<1>1. Init => NoLockLeak
  BY StoreAssumptions DEF Init, NoLockLeak
<1>2. SInv /\ NoLockLeak /\ [Next]_vars => NoLockLeak'
  <2> SUFFICES ASSUME SInv, NoLockLeak, [Next]_vars PROVE NoLockLeak'
    OBVIOUS
  <2>1. CASE UNCHANGED vars
    BY <2>1 DEF vars, NoLockLeak
  <2>2. ASSUME NEW t \in Threads, Arrive(t) \/ Work(t) PROVE NoLockLeak'
    <3>1. CASE AddLock(t)
      BY <3>1 DEF AddLock, Goto, NoLockLeak, SInv, TypeOK, Critical
    <3>2. CASE AddUnlock(t)
      BY <3>2, StoreAssumptions DEF AddUnlock, NoLockLeak
    <3>3. CASE mutex' = mutex /\ ~AddUnlock(t)
      <4>1. pc[t] \in Critical => pc'[t] \in Critical
        BY <2>2, <3>3
        DEF SInv, TypeOK, Arrive, Work, Prepare, HttpRequest, SetPut, AddLock, AddGet,
            AddPut, AddUnlock, GetKey, DeleteGet, DeleteDel, Throw, HttpGet, HttpPut,
            Finish, Goto, Critical
      <4> QED BY <2>2, <3>3, <4>1, OnlyOwnPc DEF NoLockLeak
    <3> QED BY <2>2, <3>1, <3>2, <3>3, MutexStep
  <2> QED BY <2>1, <2>2 DEF Next
<1> QED BY <1>1, <1>2, SInvAlways, PTL DEF Spec

-----------------------------------------------------------------------------
(* The only steps that write to the database. *)
LEMMA DbStep ==
  ASSUME SInv, NEW t \in Threads, Arrive(t) \/ Work(t)
  PROVE  \/ db' = db
         \/ /\ pc[t] \in {"set_put", "add_put", "http_put"}
            /\ db' = [db EXCEPT ![Key(t)] = data[t]]
            /\ data[t] \in Values
         \/ /\ pc[t] = "delete_del"
            /\ db' = [db EXCEPT ![Key(t)] = NoValue]
  BY DEF SInv, TypeOK, Shape, OpAt, Arrive, Work, Prepare, HttpRequest, SetPut, AddLock,
         AddGet, AddPut, AddUnlock, GetKey, DeleteGet, DeleteDel, Throw, HttpGet, HttpPut,
         Finish, Write

(* A handler reaches its write only from the test before it. *)
LEMMA OwnCheck ==
  ASSUME SInv, NEW t \in Threads, Arrive(t) \/ Work(t)
  PROVE  /\ pc'[t] = "add_put" => db'[Key(t)'] = NoValue
         /\ pc'[t] = "delete_del" => db'[Key(t)'] # NoValue
<1>1. pc'[t] \in {"add_put", "delete_del"} => AddGet(t) \/ DeleteGet(t)
  BY DEF SInv, TypeOK, Shape, OpAt, Arrive, Work, Prepare, HttpRequest, SetPut, AddLock,
         AddPut, AddUnlock, GetKey, DeleteDel, Throw, HttpGet, HttpPut, Finish, Goto,
         Steps, Early, FirstStep, TcpOps, HttpOps
<1>2. AddGet(t) => db' = db /\ todo' = todo /\ pc'[t] # "delete_del"
                   /\ (pc'[t] = "add_put" => db[Key(t)] = NoValue)
  BY DEF AddGet, Goto, GetStatus, Error, reqvars, SInv, TypeOK
<1>3. DeleteGet(t) => db' = db /\ todo' = todo /\ pc'[t] # "add_put"
                      /\ (pc'[t] = "delete_del" => db[Key(t)] # NoValue)
  BY DEF DeleteGet, Goto, GetStatus, Error, reqvars, SInv, TypeOK
<1> QED BY <1>1, <1>2, <1>3 DEF Key

LEMMA CheckStep ==
  ASSUME RaceFree
  PROVE  SInv /\ LockProtectsAdd /\ CheckStillHolds /\ [Next]_vars => CheckStillHolds'
<1> SUFFICES ASSUME SInv, LockProtectsAdd, CheckStillHolds, [Next]_vars
             PROVE  CheckStillHolds'
  OBVIOUS
<1>1. CASE UNCHANGED vars
  BY <1>1 DEF vars, CheckStillHolds, Key
<1>2. ASSUME NEW t \in Threads, Arrive(t) \/ Work(t), NEW u \in Threads, u # t
      PROVE  /\ pc'[u] = "add_put" => db'[Key(u)'] = NoValue
             /\ pc'[u] = "delete_del" => db'[Key(u)'] # NoValue
  <2>1. pc'[u] = pc[u] /\ Key(u)' = Key(u)
    BY <1>2, OnlyOwnPc DEF Key
  <2>2. ASSUME pc[u] = "add_put" PROVE db'[Key(u)] = NoValue
    <3>1. "ADD" \in Allowed[u] /\ mutex = u /\ Key(u) \in Keys
      BY <2>2, KeyType DEF SInv, Shape, OpAt, LockProtectsAdd, Critical
    <3>2. pc[t] \notin {"set_put", "add_put", "http_put"}
      BY <1>2, <3>1 DEF RaceFree, SInv, Shape, OpAt, LockProtectsAdd, Critical
    <3> QED BY <1>2, <2>2, <3>1, <3>2, DbStep DEF CheckStillHolds, SInv, TypeOK
  <2>3. ASSUME pc[u] = "delete_del" PROVE db'[Key(u)] # NoValue
    <3>1. pc[t] # "delete_del"
      BY <1>2, <2>3 DEF RaceFree, SInv, Shape, OpAt
    <3>2. Key(u) \in Keys
      BY <2>3, KeyType
    <3>3. db'[Key(u)] = db[Key(u)] \/ db'[Key(u)] \in Values
      BY <1>2, <3>1, <3>2, DbStep DEF SInv, TypeOK
    <3> QED BY <2>3, <3>3, StoreAssumptions DEF CheckStillHolds
  <2> QED BY <2>1, <2>2, <2>3
<1>3. ASSUME NEW t \in Threads, Arrive(t) \/ Work(t) PROVE CheckStillHolds'
  BY <1>2, <1>3, OwnCheck DEF CheckStillHolds
<1> QED BY <1>1, <1>3 DEF Next

(* In a race-free deployment what an add or a delete has tested is still    *)
(* true when it writes.                                                     *)
THEOREM TestsStayValid ==
  ASSUME RaceFree
  PROVE  Spec => []CheckStillHolds
<1>1. Init => CheckStillHolds
  BY DEF Init, CheckStillHolds
<1> QED BY <1>1, SInvAlways, AddsExclusive, CheckStep, PTL DEF Spec

(* In a race-free deployment an add never replaces a value.                 *)
THEOREM AddNeverOverwrites ==
  ASSUME RaceFree
  PROVE  Spec => AddKeepsValue
<1> DEFINE Keeps == \A t \in Threads, k \in Keys :
               command[t] = "ADD" /\ pc'[t] # pc[t] /\ db[k] # NoValue => db'[k] = db[k]
<1>1. SInv /\ CheckStillHolds /\ [Next]_vars => [Keeps]_vars
  <2> SUFFICES ASSUME SInv, CheckStillHolds, NEW u \in Threads, Arrive(u) \/ Work(u),
                      NEW t \in Threads, NEW k \in Keys,
                      command[t] = "ADD", pc'[t] # pc[t], db[k] # NoValue
               PROVE  db'[k] = db[k]
    BY DEF Next
  <2>1. u = t
    BY OnlyOwnPc
  <2>2. pc[t] \notin {"set_put", "http_put", "delete_del"}
    BY DEF SInv, Shape, OpAt
  <2>3. pc[t] = "add_put" => db[Key(t)] = NoValue
    BY DEF CheckStillHolds
  <2> QED BY <2>1, <2>2, <2>3, DbStep DEF SInv, TypeOK
<1> QED BY <1>1, SInvAlways, TestsStayValid, PTL DEF Spec, AddKeepsValue

-----------------------------------------------------------------------------
(* Each step of the threads is a step of the atomic dictionary, or changes  *)
(* nothing of it.                                                           *)
LEMMA AtomicStep ==
  ASSUME CanFail = FALSE
  PROVE  SInv /\ CheckStillHolds /\ [Next]_vars => [Atomic!Next]_(Atomic!avars)
<1> SUFFICES ASSUME SInv, CheckStillHolds, [Next]_vars
             PROVE  Atomic!Next \/ UNCHANGED Atomic!avars
  BY DEF Atomic!avars
<1> USE DEF Goto, Decide, reqvars, Atomic!Answer
<1>1. CASE UNCHANGED vars
  BY <1>1 DEF vars, Atomic!avars
<1>2. ASSUME NEW t \in Threads, NEW op \in Ops, NEW ks \in KeyLists, NEW v \in Values,
             Prepare(t, op, ks, v) \/ HttpRequest(t, op, ks, v)
      PROVE  Atomic!Next
  <2>1. PICK w \in Values \cup {NoValue} : data' = [data EXCEPT ![t] = w]
    BY <1>2 DEF Prepare, HttpRequest
  <2>2. code' = code \/ code' = [code EXCEPT ![t] = "PONG"]
                     \/ code' = [code EXCEPT ![t] = "ERROR"]
    BY <1>2 DEF Prepare, HttpRequest, Early, SInv, TypeOK, Shape
  <2>3. Atomic!Invoke(t, op, ks, w)
    BY <1>2, <2>1, <2>2 DEF Prepare, HttpRequest, Atomic!Invoke, SInv, Shape
  <2> QED BY <2>3 DEF Atomic!Next, Ops, TcpOps, HttpOps
<1>3. ASSUME NEW t \in Threads, SetPut(t) PROVE Atomic!Set(t)
  BY <1>3
  DEF SetPut, Write, WriteStatus, Error, Key, SInv, Shape, OpAt, Atomic!Set, Atomic!Open, Atomic!Store
<1>4. ASSUME NEW t \in Threads, HttpPut(t) PROVE Atomic!Put(t)
  BY <1>4
  DEF HttpPut, Write, WriteStatus, Error, Key, SInv, Shape, OpAt, Atomic!Put, Atomic!Open, Atomic!Store
<1>5. ASSUME NEW t \in Threads, AddLock(t) \/ AddUnlock(t) PROVE UNCHANGED Atomic!avars
  BY <1>5 DEF AddLock, AddUnlock, Atomic!avars
<1>6. ASSUME NEW t \in Threads, AddGet(t) PROVE Atomic!Add(t) \/ UNCHANGED Atomic!avars
  BY <1>6
  DEF AddGet, GetStatus, Error, Key, SInv, Shape, OpAt, Atomic!Add, Atomic!Open, Atomic!avars
<1>7. ASSUME NEW t \in Threads, AddPut(t) PROVE Atomic!Add(t)
  BY <1>7
  DEF AddPut, Write, WriteStatus, Error, Key, SInv, Shape, OpAt, CheckStillHolds,
      Atomic!Add, Atomic!Open, Atomic!Store
<1>8. ASSUME NEW t \in Threads, GetKey(t) PROVE Atomic!Read(t)
  BY <1>8
  DEF GetKey, GetStatus, Error, Key, SInv, Shape, OpAt, Atomic!Read, Atomic!Open
<1>9. ASSUME NEW t \in Threads, DeleteGet(t) PROVE Atomic!Delete(t) \/ UNCHANGED Atomic!avars
  BY <1>9
  DEF DeleteGet, GetStatus, Error, Key, SInv, Shape, OpAt, Atomic!Delete, Atomic!Open, Atomic!avars
<1>10. ASSUME NEW t \in Threads, DeleteDel(t) PROVE Atomic!Delete(t)
  BY <1>10
  DEF DeleteDel, Write, WriteStatus, Error, Key, SInv, Shape, OpAt, CheckStillHolds,
      Atomic!Delete, Atomic!Open
<1>11. ASSUME NEW t \in Threads, Throw(t) PROVE Atomic!Fail(t)
  BY <1>11 DEF Throw, SInv, Shape, OpAt, Atomic!Fail
<1>12. ASSUME NEW t \in Threads, HttpGet(t) PROVE Atomic!Fetch(t)
  BY <1>12
  DEF HttpGet, GetStatus, Error, Key, SInv, Shape, OpAt, Atomic!Fetch, Atomic!Open
<1>13. ASSUME NEW t \in Threads, Finish(t) PROVE Atomic!Return(t)
  BY <1>13 DEF Finish, SInv, TypeOK, Shape, Atomic!Return
<1> QED
  BY <1>1, <1>2, <1>3, <1>4, <1>5, <1>6, <1>7, <1>8, <1>9, <1>10, <1>11, <1>12, <1>13
  DEF Next, Arrive, Work, Atomic!Next

(* In a race-free deployment whose database reports no errors, the threads  *)
(* of both servers implement the dictionary on which every command takes    *)
(* effect at one instant.                                                   *)
THEOREM CommandsAreAtomic ==
  ASSUME RaceFree, CanFail = FALSE
  PROVE  Spec => ImplementsAtomicStore
<1>1. Init => Atomic!Init
  BY DEF Init, Atomic!Init
<1> QED BY <1>1, SInvAlways, TestsStayValid, AtomicStep, PTL
        DEF Spec, ImplementsAtomicStore, Atomic!Spec

-----------------------------------------------------------------------------
(* What the answers tell a client, for any mix of commands, with database  *)
(* errors and with exceptions.                                             *)

Current ==
  \A t \in Threads :
    /\ pc[t] # "idle" => \A k \in Keys : db[k] \in window[t][k]
    /\ pc[t] = "idle" => items[t] = <<>>

Tested ==
  \A t \in Threads :
    /\ pc[t] = "add_put" => SawAbsent(t)
    /\ pc[t] = "delete_del" => SawPresent(t)
    /\ code[t] \in {"STORED", "NOT_STORED", "DELETED", "NOT_FOUND", "404"} => todo[t] # <<>>
    /\ pc[t] = "add_unlock" => code[t] \in {"STORED", "NOT_STORED", "ERROR"}

HInv == SInv /\ WindowOK /\ Current /\ Tested

-----------------------------------------------------------------------------
LEMMA HInvInit == HInit => HInv /\ PositiveAnswersTrue /\ NotFoundMeansAbsent
<1> SUFFICES ASSUME HInit PROVE HInv /\ PositiveAnswersTrue /\ NotFoundMeansAbsent
  OBVIOUS
<1>1. SInv
  BY SInvInit DEF HInit
<1>2. WindowOK /\ Current /\ Tested
  BY DEF HInit, Init, WindowOK, Current, Tested
<1>3. PositiveAnswersTrue /\ NotFoundMeansAbsent
  BY DEF HInit, Init, PositiveAnswersTrue, NotFoundMeansAbsent
<1> QED BY <1>1, <1>2, <1>3 DEF HInv

(* The window of an open request only grows, and takes in what the database *)
(* holds after the step.                                                    *)
LEMMA WindowStep ==
  ASSUME HInv, HNext
  PROVE  /\ WindowOK'
         /\ \A t \in Threads : pc'[t] # "idle" =>
              \A k \in Keys : window[t][k] \subseteq window'[t][k] /\ db'[k] \in window'[t][k]
<1>1. SInv'
  BY SInvStep DEF HInv, HNext
<1>2. window' = [t \in Threads |-> [k \in Keys |->
                   IF pc'[t] = "idle" THEN {} ELSE window[t][k] \cup {db'[k]}]]
  BY DEF HNext, Observe
<1>3. \A k \in Keys : db'[k] \in Values \cup {NoValue}
  BY <1>1 DEF SInv, TypeOK
<1>4. WindowOK'
  BY <1>2, <1>3 DEF WindowOK, HInv
<1>5. \A t \in Threads : pc'[t] # "idle" =>
        \A k \in Keys : window[t][k] \subseteq window'[t][k] /\ db'[k] \in window'[t][k]
  BY <1>2 DEF WindowOK, HInv
<1> QED BY <1>4, <1>5

(* A step of one thread leaves the request and the answer of every other.   *)
LEMMA OnlyOwnRequest ==
  ASSUME SInv, NEW t \in Threads, Arrive(t) \/ Work(t), NEW u \in Threads, u # t
  PROVE  /\ pc'[u] = pc[u] /\ command'[u] = command[u] /\ Key(u)' = Key(u)
         /\ code'[u] = code[u] /\ items'[u] = items[u] /\ todo'[u] = todo[u]
<1>1. code'[u] = code[u] /\ items'[u] = items[u]
  BY DEF SInv, TypeOK, Arrive, Work, Prepare, HttpRequest, SetPut, AddLock, AddGet,
         AddPut, AddUnlock, GetKey, DeleteGet, DeleteDel, Throw, HttpGet, HttpPut,
         Finish, Decide
<1> QED BY <1>1, OnlyOwnPc DEF Key

(* The properties, one thread at a time. *)
Truthful(t) ==
  /\ \A i \in 1..Len(items[t]) : items[t][i][2] \in window[t][items[t][i][1]]
  /\ command[t] = "ADD" /\ code[t] = "STORED" => SawAbsent(t)
  /\ code[t] = "NOT_STORED" => SawPresent(t)
  /\ code[t] = "DELETED" => SawPresent(t) /\ SawAbsent(t)

TestedBy(t) ==
  /\ pc[t] = "add_put" => SawAbsent(t)
  /\ pc[t] = "delete_del" => SawPresent(t)
  /\ code[t] \in {"STORED", "NOT_STORED", "DELETED", "NOT_FOUND", "404"} => todo[t] # <<>>
  /\ pc[t] = "add_unlock" => code[t] \in {"STORED", "NOT_STORED", "ERROR"}

(* What was true of an open request stays true while others run. *)
LEMMA OthersStayTrue ==
  ASSUME HInv, HNext, NEW t \in Threads, Arrive(t) \/ Work(t),
         NEW u \in Threads, u # t, Truthful(u)
  PROVE  /\ Truthful(u)' /\ TestedBy(u)'
         /\ pc'[u] = "idle" => items'[u] = <<>>
<1>0. SInv
  BY DEF HInv
<1>1. /\ pc'[u] = pc[u] /\ command'[u] = command[u] /\ Key(u)' = Key(u)
      /\ code'[u] = code[u] /\ items'[u] = items[u] /\ todo'[u] = todo[u]
  BY <1>0, OnlyOwnRequest
<1>2. CASE pc[u] = "idle"
  BY <1>0, <1>1, <1>2 DEF HInv, SInv, Shape, Current, Truthful, TestedBy
<1>3. CASE pc[u] # "idle"
  <2>1. \A k \in Keys : window[u][k] \subseteq window'[u][k]
    BY <1>1, <1>3, WindowStep
  <2>2. TestedBy(u)
    BY DEF HInv, Tested, TestedBy
  <2>3. \A i \in 1..Len(items[u]) : items[u][i][1] \in Keys
    BY DEF HInv, SInv, TypeOK
  <2>4. todo[u] # <<>> => Key(u) \in Keys
    BY DEF HInv, SInv, TypeOK, Key
  <2>5. pc[u] \in {"add_put", "delete_del"} => todo[u] # <<>>
    BY DEF HInv, SInv, Shape
  <2>6. todo[u] # <<>> => /\ SawAbsent(u) => SawAbsent(u)'
                          /\ SawPresent(u) => SawPresent(u)'
    BY <1>1, <2>1, <2>4 DEF SawAbsent, SawPresent
  <2>7. TestedBy(u)'
    BY <1>1, <2>2, <2>5, <2>6 DEF TestedBy
  <2>8. Truthful(u)'
    <3>1. \A i \in 1..Len(items'[u]) : items'[u][i][2] \in window'[u][items'[u][i][1]]
      BY <1>1, <2>1, <2>3 DEF Truthful
    <3> QED BY <1>1, <2>2, <2>6, <3>1 DEF Truthful, TestedBy
  <2> QED BY <1>1, <1>3, <2>7, <2>8
<1> QED BY <1>2, <1>3

(* The thread that moves: it answers from what its window contains. *)
LEMMA OwnAnswerTrue ==
  ASSUME HInv, HNext, NEW t \in Threads, Arrive(t) \/ Work(t), Truthful(t)
  PROVE  /\ Truthful(t)' /\ TestedBy(t)'
         /\ pc'[t] = "idle" => items'[t] = <<>>
<1> USE DEF Goto, Decide, reqvars, Steps, Codes
<1>0. SInv /\ SInv' /\ TestedBy(t)
  BY SInvStep DEF HInv, HNext, Tested, TestedBy
<1>1. pc'[t] # "idle" => \A k \in Keys : window[t][k] \subseteq window'[t][k]
                                       /\ db'[k] \in window'[t][k]
  BY WindowStep
<1>2. pc[t] # "idle" => \A k \in Keys : db[k] \in window[t][k]
  BY DEF HInv, Current
<1>3. \A i \in 1..Len(items[t]) : items[t][i] \in Keys \X Values
  BY <1>0 DEF SInv, TypeOK
<1>4. todo[t] # <<>> => Key(t) \in Keys
  BY <1>0 DEF SInv, TypeOK, Key
<1>5. pc'[t] # "idle" => \A i \in 1..Len(items[t]) :
                           items[t][i][2] \in window'[t][items[t][i][1]]
  BY <1>1, <1>3 DEF Truthful
(* Arrival: nothing is answered yet but PONG or ERROR. *)
<1>6. ASSUME NEW op \in Ops, NEW ks \in KeyLists, NEW v \in Values,
             Prepare(t, op, ks, v) \/ HttpRequest(t, op, ks, v)
      PROVE  Truthful(t)' /\ TestedBy(t)' /\ pc'[t] # "idle"
  <2>1. items'[t] = <<>> /\ code'[t] \in {"none", "PONG", "ERROR"}
    BY <1>0, <1>6 DEF Prepare, HttpRequest, Early, HInv, Current, SInv, TypeOK, Shape
  <2>2. pc'[t] \notin {"idle", "add_put", "delete_del", "add_unlock"}
    BY <1>0, <1>6
    DEF Prepare, HttpRequest, Early, FirstStep, TcpOps, HttpOps, SInv, TypeOK
  <2> QED BY <2>1, <2>2 DEF Truthful, TestedBy
<1>7. ASSUME Finish(t)
      PROVE  Truthful(t)' /\ TestedBy(t)' /\ items'[t] = <<>>
  <2>1. items'[t] = <<>> /\ code'[t] = "none" /\ pc'[t] = "idle"
    BY <1>0, <1>7 DEF Finish, SInv, TypeOK
  <2> QED BY <2>1 DEF Truthful, TestedBy
(* The steps that read: what they see is in the window. *)
<1>8. ASSUME GetKey(t) \/ HttpGet(t)
      PROVE  Truthful(t)' /\ TestedBy(t)' /\ pc'[t] # "idle"
  <2>1. /\ pc[t] \in {"get_key", "http_get"} /\ pc'[t] \in {"get_key", "done"} /\ db' = db
        /\ code[t] = "none" /\ Key(t) \in Keys
    BY <1>0, <1>4, <1>8 DEF GetKey, HttpGet, SInv, TypeOK, Shape
  <2>2. /\ code'[t] \in {"none", "END", "200", "404", "500"}
        /\ code'[t] = "404" => todo'[t] # <<>>
    BY <1>0, <1>8, <2>1 DEF GetKey, HttpGet, SInv, TypeOK, Shape
  <2>3. \/ items'[t] = items[t]
        \/ items'[t] = Append(items[t], <<Key(t), db[Key(t)]>>)
        \/ items'[t] = <<<<Key(t), db[Key(t)]>>>>
    <3>1. items \in [Threads -> Seq(Keys \X Values)]
      BY <1>0 DEF SInv, TypeOK
    <3>2. CASE GetKey(t)
      BY <3>1, <3>2 DEF GetKey
    <3>3. CASE HttpGet(t)
      BY <3>1, <3>3 DEF HttpGet
    <3> QED BY <1>8, <3>2, <3>3
  <2>4. db[Key(t)] \in window'[t][Key(t)]
    BY <1>1, <2>1
  <2>5. \A i \in 1..Len(items'[t]) : items'[t][i][2] \in window'[t][items'[t][i][1]]
    <3>1. items[t] \in Seq(Keys \X Values)
      BY <1>0 DEF SInv, TypeOK
    <3>2. CASE items'[t] = items[t]
      BY <1>5, <2>1, <3>2
    <3>3. CASE items'[t] = Append(items[t], <<Key(t), db[Key(t)]>>)
      BY <1>5, <2>1, <2>4, <3>1, <3>3
    <3>4. CASE items'[t] = <<<<Key(t), db[Key(t)]>>>>
      BY <2>4, <3>4
    <3> QED BY <2>3, <3>2, <3>3, <3>4
  <2> QED BY <2>1, <2>2, <2>5 DEF Truthful, TestedBy
(* All other steps leave the items, or throw them away. *)
<1>9. ASSUME \/ SetPut(t) \/ AddLock(t) \/ AddGet(t) \/ AddPut(t) \/ AddUnlock(t)
             \/ DeleteGet(t) \/ DeleteDel(t) \/ Throw(t) \/ HttpPut(t)
      PROVE  Truthful(t)' /\ TestedBy(t)' /\ pc'[t] # "idle"
  <2>1. /\ pc'[t] # "idle" /\ todo'[t] = todo[t] /\ command'[t] = command[t]
        /\ todo[t] # <<>> /\ Key(t) \in Keys /\ Key(t)' = Key(t)
    BY <1>0, <1>4, <1>9
    DEF SetPut, AddLock, AddGet, AddPut, AddUnlock, DeleteGet, DeleteDel, Throw, HttpPut,
        SInv, TypeOK, Shape, Key
  <2>2. items'[t] = items[t] \/ items'[t] = <<>>
    BY <1>0, <1>9
    DEF SetPut, AddLock, AddGet, AddPut, AddUnlock, DeleteGet, DeleteDel, Throw, HttpPut,
        SInv, TypeOK
  <2>3. \A i \in 1..Len(items'[t]) : items'[t][i][2] \in window'[t][items'[t][i][1]]
    BY <1>5, <2>1, <2>2
  <2>4. /\ SawAbsent(t) => SawAbsent(t)'
        /\ SawPresent(t) => SawPresent(t)'
    BY <1>1, <2>1 DEF SawAbsent, SawPresent
  <2>5. /\ db[Key(t)] = NoValue => SawAbsent(t)
        /\ db[Key(t)] # NoValue => SawPresent(t)
        /\ db'[Key(t)] = NoValue => SawAbsent(t)'
    <3>1. pc[t] # "idle"
      BY <1>9
      DEF SetPut, AddLock, AddGet, AddPut, AddUnlock, DeleteGet, DeleteDel, Throw, HttpPut
    <3> QED BY <1>0, <1>1, <1>2, <2>1, <3>1 DEF SInv, TypeOK, SawAbsent, SawPresent
  <2>6. CASE SetPut(t) \/ HttpPut(t) \/ Throw(t) \/ AddLock(t)
    <3>1. /\ code'[t] \in {"STORED", "ERROR", "200", "500", "none"}
          /\ code'[t] = "STORED" => command[t] = "SET"
          /\ pc'[t] \in {"done", "add_get"}
      BY <1>0, <2>6 DEF SetPut, HttpPut, Throw, AddLock, SInv, TypeOK, Shape, OpAt
    <3> QED BY <2>1, <2>3, <3>1 DEF Truthful, TestedBy
  <2>7. CASE AddGet(t)
    <3>1. \/ pc'[t] = "add_put" /\ code'[t] = "none" /\ db[Key(t)] = NoValue
          \/ pc'[t] = "add_unlock" /\ code'[t] = "NOT_STORED" /\ db[Key(t)] # NoValue
          \/ pc'[t] = "add_unlock" /\ code'[t] = "ERROR"
      BY <1>0, <2>7 DEF AddGet, GetStatus, Error, SInv, TypeOK, Shape
    <3> QED BY <2>1, <2>3, <2>4, <2>5, <3>1 DEF Truthful, TestedBy
  <2>8. CASE AddPut(t)
    <3>1. pc[t] = "add_put" /\ pc'[t] = "add_unlock" /\ code'[t] \in {"STORED", "ERROR"}
      BY <1>0, <2>8 DEF AddPut, SInv, TypeOK
    <3> QED BY <1>0, <2>1, <2>3, <2>4, <3>1 DEF Truthful, TestedBy
  <2>9. CASE AddUnlock(t)
    <3>1. code'[t] = code[t] /\ pc'[t] = "done"
      BY <1>0, <2>9 DEF AddUnlock, SInv, TypeOK
    <3> QED BY <2>1, <2>3, <2>4, <3>1 DEF Truthful, TestedBy
  <2>10. CASE DeleteGet(t)
    <3>1. \/ pc'[t] = "delete_del" /\ code'[t] = "none" /\ db[Key(t)] # NoValue
          \/ pc'[t] = "done" /\ code'[t] = "NOT_FOUND"
      BY <1>0, <2>10 DEF DeleteGet, GetStatus, Error, SInv, TypeOK, Shape
    <3> QED BY <2>1, <2>3, <2>4, <2>5, <3>1 DEF Truthful, TestedBy
  <2>11. CASE DeleteDel(t)
    <3>1. /\ pc[t] = "delete_del" /\ pc'[t] = "done" /\ code'[t] \in {"DELETED", "ERROR"}
          /\ code'[t] = "DELETED" => db'[Key(t)] = NoValue
      BY <1>0, <2>1, <2>11 DEF DeleteDel, WriteStatus, Error, Write, SInv, TypeOK
    <3> QED BY <1>0, <2>1, <2>3, <2>4, <2>5, <3>1 DEF Truthful, TestedBy
  <2> QED BY <1>9, <2>1, <2>6, <2>7, <2>8, <2>9, <2>10, <2>11
<1> QED BY <1>6, <1>7, <1>8, <1>9 DEF Arrive, Work

LEMMA HInvStep ==
  HInv /\ PositiveAnswersTrue /\ [HNext]_hvars => HInv' /\ PositiveAnswersTrue'
<1> SUFFICES ASSUME HInv, PositiveAnswersTrue, [HNext]_hvars
             PROVE  HInv' /\ PositiveAnswersTrue'
  OBVIOUS
<1>1. CASE UNCHANGED hvars
  BY <1>1 DEF hvars, vars, HInv, SInv, TypeOK, Shape, WindowOK, Current, Tested,
              PositiveAnswersTrue, SawAbsent, SawPresent, Key
<1>2. CASE HNext
  <2>1. PICK t \in Threads : Arrive(t) \/ Work(t)
    BY <1>2 DEF HNext, Next
  <2>2. \A u \in Threads : Truthful(u)
    BY DEF PositiveAnswersTrue, Truthful
  <2>3. \A u \in Threads :
          /\ Truthful(u)' /\ TestedBy(u)'
          /\ pc'[u] = "idle" => items'[u] = <<>>
    BY <1>2, <2>1, <2>2, OthersStayTrue, OwnAnswerTrue
  <2>4. PositiveAnswersTrue' /\ Tested'
    BY <2>3 DEF PositiveAnswersTrue, Truthful, Tested, TestedBy
  <2>5. Current' /\ WindowOK'
    BY <1>2, <2>3, WindowStep DEF Current
  <2>6. SInv'
    BY <1>2, SInvStep DEF HInv, HNext
  <2> QED BY <2>4, <2>5, <2>6 DEF HInv
<1> QED BY <1>1, <1>2

(* Answers that report a value or an effect are true of some moment of the  *)
(* request, for every mix of commands, with errors and exceptions.          *)
THEOREM AnswersTrue == HSpec => []PositiveAnswersTrue
  BY HInvInit, HInvStep, PTL DEF HSpec

(* Without database errors NOT_FOUND and 404 are true as well. *)
LEMMA NotFoundStep ==
  ASSUME CanFail = FALSE
  PROVE  HInv /\ HInv' /\ NotFoundMeansAbsent /\ [HNext]_hvars => NotFoundMeansAbsent'
<1> SUFFICES ASSUME HInv, HInv', NotFoundMeansAbsent, [HNext]_hvars
             PROVE  NotFoundMeansAbsent'
  OBVIOUS
<1>1. CASE UNCHANGED hvars
  BY <1>1 DEF hvars, vars, NotFoundMeansAbsent, SawAbsent, Key
<1>2. CASE HNext
  <2>1. PICK t \in Threads : Arrive(t) \/ Work(t)
    BY <1>2 DEF HNext, Next
  <2>2. SUFFICES ASSUME NEW u \in Threads, code'[u] \in {"NOT_FOUND", "404"}
                 PROVE  SawAbsent(u)'
    BY DEF NotFoundMeansAbsent
  <2>3. pc'[u] # "idle"
    BY <2>2 DEF HInv, SInv, Shape
  <2>4. \A k \in Keys : window[u][k] \subseteq window'[u][k] /\ db'[k] \in window'[u][k]
    BY <1>2, <2>3, WindowStep
  <2>5. CASE u # t
    <3>1. Key(u)' = Key(u) /\ code'[u] = code[u]
      BY <2>1, <2>5, OnlyOwnRequest DEF HInv
    <3>2. SawAbsent(u) /\ Key(u) \in Keys
      BY <2>2, <3>1 DEF NotFoundMeansAbsent, HInv, Tested, SInv, TypeOK, Key
    <3> QED BY <2>4, <3>1, <3>2 DEF SawAbsent
  <2>6. CASE u = t
    <3>1. DeleteGet(t) \/ HttpGet(t)
      <4>1. pc[t] # "done" => code[t] # "NOT_FOUND" /\ code[t] # "404"
        BY DEF HInv, SInv, TypeOK, Shape, Tested
      <4> QED BY <2>1, <2>2, <2>6, <4>1
        DEF Arrive, Work, Prepare, HttpRequest, Early, SetPut, AddLock, AddGet, AddPut,
            AddUnlock, GetKey, DeleteDel, Throw, HttpPut, Finish, Decide, Goto,
            HInv, SInv, TypeOK, Shape
    <3>2. db' = db /\ Key(t)' = Key(t) /\ Key(t) \in Keys
      BY <3>1, KeyType DEF DeleteGet, HttpGet, reqvars, Key, HInv
    <3>3. db[Key(t)] = NoValue
      BY <2>2, <2>6, <3>1
      DEF DeleteGet, HttpGet, GetStatus, Error, Decide, HInv, SInv, TypeOK, Shape
    <3> QED BY <2>4, <2>6, <3>2, <3>3 DEF SawAbsent
  <2> QED BY <2>5, <2>6
<1> QED BY <1>1, <1>2

(* When the database reports no errors, a key that is answered missing was  *)
(* absent at some moment of the request.                                    *)
THEOREM MissingKeysWereAbsent ==
  ASSUME CanFail = FALSE
  PROVE  HSpec => []NotFoundMeansAbsent
<1>1. HSpec => []HInv
  BY HInvInit, HInvStep, PTL DEF HSpec
<1> QED BY <1>1, HInvInit, NotFoundStep, PTL DEF HSpec
=============================================================================

--------------------------- MODULE StoreCommands ---------------------------
(***************************************************************************)
(* Execution of requests on the shared database: request::prepare_response *)
(* run by the threads of the TCP server's io_service, and the /key/{key}   *)
(* handlers of rocks::register_endpoints run by the HTTP threads.          *)
(*                                                                         *)
(* A thread executes one request at a time.  Every call into RocksDB and   *)
(* every lock or unlock of rocks::_db_mutex is a step of its own, because  *)
(* other threads run between two of them.  RocksDB itself is external: one *)
(* Get, Put or Delete is atomic.                                           *)
(*                                                                         *)
(*   PING SET ADD GET DELETE   commands of the memcached API; GET stands   *)
(*                             for get and gets, which share their code    *)
(*   FETCH PUT                 GET and PUT/POST of the REST API            *)
(***************************************************************************)
EXTENDS Sequences

CONSTANTS Threads,    \* threads of both servers that execute requests
          Keys, Values,
          NoValue,    \* db[k] = NoValue: RocksDB has no entry for k
          NoThread,   \* the mutex is free
          KeyLists,   \* the key lists requests carry, a bound on _keys
          Allowed,    \* Allowed[t]: the commands thread t's clients send
          HasStore,   \* the request was built with a store (_db is not null)
          CanFail,    \* RocksDB may answer with an error status
          CanThrow    \* a call made by prepare_response may throw

TcpOps == {"PING", "SET", "ADD", "GET", "DELETE"}
HttpOps == {"FETCH", "PUT"}
Ops == TcpOps \cup HttpOps

ASSUME StoreAssumptions ==
  /\ NoValue \notin Values
  /\ NoThread \notin Threads
  /\ KeyLists \subseteq Seq(Keys)
  /\ Allowed \in [Threads -> SUBSET Ops]
  /\ {HasStore, CanFail, CanThrow} \subseteq BOOLEAN

VARIABLES db,        \* the contents of RocksDB
          mutex,     \* owner of rocks::_db_mutex
          pc,        \* pc[t]: the next call of thread t's handler
          command,   \* request::_command
          todo,      \* request::_keys; the keys a get has not read yet
          data,      \* the payload, request::_buffer
          code,      \* status line of _response, "none" until decided
          items      \* VALUE blocks of _response

reqvars == <<command, todo, data>>
vars == <<db, mutex, pc, command, todo, data, code, items>>

Steps == {"idle", "set_put", "add_lock", "add_get", "add_put", "add_unlock",
          "get_key", "delete_get", "delete_del", "http_get", "http_put", "done"}
Codes == {"none", "PONG", "ERROR", "STORED", "NOT_STORED", "DELETED",
          "NOT_FOUND", "END", "200", "404", "500"}

TypeOK == /\ db \in [Keys -> Values \cup {NoValue}]
          /\ mutex \in Threads \cup {NoThread}
          /\ pc \in [Threads -> Steps]
          /\ command \in [Threads -> Ops \cup {"NONE"}]
          /\ todo \in [Threads -> Seq(Keys)]
          /\ data \in [Threads -> Values \cup {NoValue}]
          /\ code \in [Threads -> Codes]
          /\ items \in [Threads -> Seq(Keys \X Values)]

Init == /\ db = [k \in Keys |-> NoValue]
        /\ mutex = NoThread
        /\ pc = [t \in Threads |-> "idle"]
        /\ command = [t \in Threads |-> "NONE"]
        /\ todo = [t \in Threads |-> <<>>]
        /\ data = [t \in Threads |-> NoValue]
        /\ code = [t \in Threads |-> "none"]
        /\ items = [t \in Threads |-> <<>>]

-----------------------------------------------------------------------------
(* The key a command works on: _keys[0], or the loop variable of a get. *)
Key(t) == Head(todo[t])

(* rocks::get, rocks::put and rocks::del as prepare_response sees them. *)
Error == IF CanFail THEN {"error"} ELSE {}
GetStatus(k) == {IF db[k] = NoValue THEN "not_found" ELSE "ok"} \cup Error
WriteStatus == {"ok"} \cup Error

Goto(t, step) == pc' = [pc EXCEPT ![t] = step]
Decide(t, c) == code' = [code EXCEPT ![t] = c]

(* A write of value v for t's key: RocksDB applies it unless it fails. *)
Write(t, v, s) == db' = IF s = "ok" THEN [db EXCEPT ![Key(t)] = v] ELSE db

(* The checks prepare_response makes before it touches the database. *)
Early(op, ks) == IF op = "PING" THEN "PONG"
                 ELSE IF ~HasStore \/ ks = <<>> THEN "ERROR"
                 ELSE "none"

FirstStep(op) == CASE op = "SET" -> "set_put"
                   [] op = "ADD" -> "add_lock"
                   [] op = "GET" -> "get_key"
                   [] op = "DELETE" -> "delete_get"
                   [] op = "FETCH" -> "http_get"
                   [] op = "PUT" -> "http_put"
                   [] OTHER -> "done"

(* A parsed request reaches prepare_response on thread t. *)
Prepare(t, op, ks, v) ==
  /\ pc[t] = "idle"
  /\ op \in TcpOps \cap Allowed[t]
  /\ op \in {"SET", "ADD", "DELETE"} => Len(ks) = 1
  /\ command' = [command EXCEPT ![t] = op]
  /\ todo' = [todo EXCEPT ![t] = ks]
  /\ data' = [data EXCEPT ![t] = IF op \in {"SET", "ADD"} THEN v ELSE NoValue]
  /\ Decide(t, Early(op, ks))
  /\ Goto(t, IF Early(op, ks) = "none" THEN FirstStep(op) ELSE "done")
  /\ UNCHANGED <<db, mutex, items>>

(* A request for /key/{key} reaches its handler. *)
HttpRequest(t, op, ks, v) ==
  /\ pc[t] = "idle"
  /\ op \in HttpOps \cap Allowed[t]
  /\ Len(ks) = 1
  /\ command' = [command EXCEPT ![t] = op]
  /\ todo' = [todo EXCEPT ![t] = ks]
  /\ data' = [data EXCEPT ![t] = IF op = "PUT" THEN v ELSE NoValue]
  /\ Goto(t, FirstStep(op))
  /\ UNCHANGED <<db, mutex, code, items>>

-----------------------------------------------------------------------------
SetPut(t) ==
  /\ pc[t] = "set_put"
  /\ \E s \in WriteStatus :
       /\ Write(t, data[t], s)
       /\ Decide(t, IF s = "ok" THEN "STORED" ELSE "ERROR")
  /\ Goto(t, "done")
  /\ UNCHANGED <<mutex, reqvars, items>>

AddLock(t) ==
  /\ pc[t] = "add_lock"
  /\ mutex = NoThread
  /\ mutex' = t
  /\ Goto(t, "add_get")
  /\ UNCHANGED <<db, reqvars, code, items>>

(* Mutant: an answer without a put leaves the case before _db->unlock(). *)
AddGet_EarlyBreak(t) ==
  /\ pc[t] = "add_get"
  /\ \E s \in GetStatus(Key(t)) :
       \/ s = "not_found" /\ Goto(t, "add_put") /\ UNCHANGED code
       \/ /\ s # "not_found"
          /\ Decide(t, IF s = "ok" THEN "NOT_STORED" ELSE "ERROR")
          /\ Goto(t, "done")
  /\ UNCHANGED <<db, mutex, reqvars, items>>

(* Mutant: a failed read counts as a missing key. *)
AddGet_ErrorIsMissing(t) ==
  /\ pc[t] = "add_get"
  /\ \E s \in GetStatus(Key(t)) :
       \/ s # "ok" /\ Goto(t, "add_put") /\ UNCHANGED code
       \/ s = "ok" /\ Decide(t, "NOT_STORED") /\ Goto(t, "add_unlock")
  /\ UNCHANGED <<db, mutex, reqvars, items>>

AddGet(t) ==
  /\ pc[t] = "add_get"
  /\ \E s \in GetStatus(Key(t)) :
       \/ /\ s = "not_found"
          /\ Goto(t, "add_put")
          /\ UNCHANGED code
       \/ /\ s # "not_found"
          /\ Decide(t, IF s = "ok" THEN "NOT_STORED" ELSE "ERROR")
          /\ Goto(t, "add_unlock")
  /\ UNCHANGED <<db, mutex, reqvars, items>>

AddPut(t) ==
  /\ pc[t] = "add_put"
  /\ \E s \in WriteStatus :
       /\ Write(t, data[t], s)
       /\ Decide(t, IF s = "ok" THEN "STORED" ELSE "ERROR")
  /\ Goto(t, "add_unlock")
  /\ UNCHANGED <<mutex, reqvars, items>>

AddUnlock(t) ==
  /\ pc[t] = "add_unlock"
  /\ mutex' = NoThread
  /\ Goto(t, "done")
  /\ UNCHANGED <<db, reqvars, code, items>>

(* Mutant: the loop reads a key again until it is there. *)
GetKey_Retry(t) ==
  /\ pc[t] = "get_key"
  /\ db[Key(t)] # NoValue
  /\ items' = [items EXCEPT ![t] = Append(@, <<Key(t), db[Key(t)]>>)]
  /\ todo' = [todo EXCEPT ![t] = Tail(@)]
  /\ IF Tail(todo[t]) = <<>>
     THEN Decide(t, "END") /\ Goto(t, "done")
     ELSE UNCHANGED <<code, pc>>
  /\ UNCHANGED <<db, mutex, command, data>>

(* The body of the loop over _keys; after the last key comes "END".  A key *)
(* whose read fails is left out like a key that is not there.              *)
GetKey(t) ==
  /\ pc[t] = "get_key"
  /\ \E s \in GetStatus(Key(t)) :
       items' = IF s = "ok" THEN [items EXCEPT ![t] = Append(@, <<Key(t), db[Key(t)]>>)]
                ELSE items
  /\ todo' = [todo EXCEPT ![t] = Tail(@)]
  /\ IF Tail(todo[t]) = <<>>
     THEN Decide(t, "END") /\ Goto(t, "done")
     ELSE UNCHANGED <<code, pc>>
  /\ UNCHANGED <<db, mutex, command, data>>

(* Mutant: the test of the status is inverted. *)
DeleteGet_Inverted(t) ==
  /\ pc[t] = "delete_get"
  /\ \E s \in GetStatus(Key(t)) :
       \/ s # "ok" /\ Goto(t, "delete_del") /\ UNCHANGED code
       \/ s = "ok" /\ Decide(t, "NOT_FOUND") /\ Goto(t, "done")
  /\ UNCHANGED <<db, mutex, reqvars, items>>

(* Any status but ok, an error included, is answered NOT_FOUND. *)
DeleteGet(t) ==
  /\ pc[t] = "delete_get"
  /\ \E s \in GetStatus(Key(t)) :
       \/ /\ s = "ok"
          /\ Goto(t, "delete_del")
          /\ UNCHANGED code
       \/ /\ s # "ok"
          /\ Decide(t, "NOT_FOUND")
          /\ Goto(t, "done")
  /\ UNCHANGED <<db, mutex, reqvars, items>>

(* RocksDB's Delete succeeds whether or not the key is there. *)
DeleteDel(t) ==
  /\ pc[t] = "delete_del"
  /\ \E s \in WriteStatus :
       /\ Write(t, NoValue, s)
       /\ Decide(t, IF s = "ok" THEN "DELETED" ELSE "ERROR")
  /\ Goto(t, "done")
  /\ UNCHANGED <<mutex, reqvars, items>>

(* Mutant: the catch block unlocks, whoever owns the mutex. *)
Throw_Unlocks(t) ==
  /\ CanThrow
  /\ pc[t] \in {"set_put", "add_get", "add_put", "get_key", "delete_get", "delete_del"}
  /\ Decide(t, "ERROR")
  /\ items' = [items EXCEPT ![t] = <<>>]
  /\ mutex' = NoThread
  /\ Goto(t, "done")
  /\ UNCHANGED <<db, reqvars>>

(* An exception leaves the switch through the catch block: the answer is an *)
(* error, and a mutex locked by an add stays locked.                        *)
Throw(t) ==
  /\ CanThrow
  /\ pc[t] \in {"set_put", "add_get", "add_put", "get_key", "delete_get", "delete_del"}
  /\ Decide(t, "ERROR")
  /\ items' = [items EXCEPT ![t] = <<>>]
  /\ Goto(t, "done")
  /\ UNCHANGED <<db, mutex, reqvars>>

HttpGet(t) ==
  /\ pc[t] = "http_get"
  /\ \E s \in GetStatus(Key(t)) :
       /\ Decide(t, CASE s = "ok" -> "200" [] s = "not_found" -> "404" [] OTHER -> "500")
       /\ items' = IF s = "ok" THEN [items EXCEPT ![t] = <<<<Key(t), db[Key(t)]>>>>]
                   ELSE items
  /\ Goto(t, "done")
  /\ UNCHANGED <<db, mutex, reqvars>>

HttpPut(t) ==
  /\ pc[t] = "http_put"
  /\ \E s \in WriteStatus :
       /\ Write(t, data[t], s)
       /\ Decide(t, IF s = "ok" THEN "200" ELSE "500")
  /\ Goto(t, "done")
  /\ UNCHANGED <<mutex, reqvars, items>>

(* Mutant: reset keeps the text of the response. *)
Finish_KeepsItems(t) ==
  /\ pc[t] = "done"
  /\ Goto(t, "idle")
  /\ command' = [command EXCEPT ![t] = "NONE"]
  /\ todo' = [todo EXCEPT ![t] = <<>>]
  /\ data' = [data EXCEPT ![t] = NoValue]
  /\ code' = [code EXCEPT ![t] = "none"]
  /\ UNCHANGED <<db, mutex, items>>

(* The answer leaves the thread and request::reset clears the request. *)
Finish(t) ==
  /\ pc[t] = "done"
  /\ Goto(t, "idle")
  /\ command' = [command EXCEPT ![t] = "NONE"]
  /\ todo' = [todo EXCEPT ![t] = <<>>]
  /\ data' = [data EXCEPT ![t] = NoValue]
  /\ code' = [code EXCEPT ![t] = "none"]
  /\ items' = [items EXCEPT ![t] = <<>>]
  /\ UNCHANGED <<db, mutex>>

-----------------------------------------------------------------------------
Arrive(t) == \E op \in Ops, ks \in KeyLists, v \in Values :
               Prepare(t, op, ks, v) \/ HttpRequest(t, op, ks, v)

(* The steps of a handler once its request is there. *)
Work(t) == \/ SetPut(t) \/ AddLock(t) \/ AddGet(t) \/ AddPut(t) \/ AddUnlock(t)
           \/ GetKey(t) \/ DeleteGet(t) \/ DeleteDel(t) \/ Throw(t)
           \/ HttpGet(t) \/ HttpPut(t) \/ Finish(t)

Next == \E t \in Threads : Arrive(t) \/ Work(t)

Spec == Init /\ [][Next]_vars

-----------------------------------------------------------------------------
(* Properties. *)

Critical == {"add_get", "add_put", "add_unlock"}

(* Every thread between _db->lock() and _db->unlock() in the add case owns  *)
(* _db_mutex, so two adds never test and store at the same time, even after *)
(* an exception has skipped an unlock.                                      *)
LockProtectsAdd == \A t \in Threads : pc[t] \in Critical => mutex = t

(* Without exceptions the mutex is owned only inside the add case: no path  *)
(* through the nested ifs of that case leaves it without the unlock.        *)
NoLockLeak == \A t \in Threads : mutex = t => pc[t] \in Critical

(* Deployments in which no request can slip between the two database calls  *)
(* of another: adds do not run beside plain puts, and the clients that      *)
(* delete are served by one thread.                                         *)
RaceFree == \A t, u \in Threads : t # u =>
              /\ ~("ADD" \in Allowed[t] /\ Allowed[u] \cap {"SET", "PUT"} # {})
              /\ ~("DELETE" \in Allowed[t] \cap Allowed[u])

(* What an add or a delete found in the database still holds when it writes *)
(* (request.cpp tests with get and then calls put or del).                  *)
CheckStillHolds ==
  \A t \in Threads :
    /\ pc[t] = "add_put" => db[Key(t)] = NoValue
    /\ pc[t] = "delete_del" => db[Key(t)] # NoValue

(* "Add is only applied if the key does not exist": a step of an add never  *)
(* changes the value of a key that is in the database.                      *)
AddKeepsValue ==
  [][\A t \in Threads, k \in Keys :
       command[t] = "ADD" /\ pc'[t] # pc[t] /\ db[k] # NoValue => db'[k] = db[k]]_vars

(* The threads of both servers together implement the atomic dictionary.    *)
Atomic == INSTANCE AtomicStore
ImplementsAtomicStore == Atomic!Spec

(* A request that is not waiting for _db_mutex is answered and its thread   *)
(* freed, whatever the other threads do.                                    *)
CommandsAnswered ==
  \A t \in Threads : pc[t] \notin {"idle", "add_lock"} ~> pc[t] = "idle"
=============================================================================

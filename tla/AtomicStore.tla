---------------------------- MODULE AtomicStore ----------------------------
(***************************************************************************)
(* What a client of quitsies would like to assume: every memcached command *)
(* and every REST request takes effect on the key/value dictionary in one  *)
(* indivisible step, somewhere between its arrival and its answer.  A      *)
(* retrieval of several keys reads them one at a time.  A command may fail *)
(* with an error and then changes nothing.                                 *)
(*                                                                         *)
(* StoreCommands is the code; it implements this specification for the     *)
(* deployments RaceFree describes, and not for the others.                 *)
(***************************************************************************)
EXTENDS Sequences

CONSTANTS Threads,   \* threads that execute requests
          Keys, Values,
          NoValue,   \* the key is not in the dictionary
          KeyLists   \* the lists of keys a request may carry

VARIABLES db,        \* the dictionary
          command,   \* command[t]: the command t executes, "NONE" when idle
          todo,      \* todo[t]: the keys of the command still to be handled
          data,      \* data[t]: the value a storage command carries
          code,      \* code[t]: the answer, "none" while the command is open
          items      \* items[t]: the <<key, value>> pairs of a retrieval

avars == <<db, command, todo, data, code, items>>

Init == /\ db = [k \in Keys |-> NoValue]
        /\ command = [t \in Threads |-> "NONE"]
        /\ todo = [t \in Threads |-> <<>>]
        /\ data = [t \in Threads |-> NoValue]
        /\ code = [t \in Threads |-> "none"]
        /\ items = [t \in Threads |-> <<>>]

Open(t, op) == /\ command[t] = op
               /\ code[t] = "none"
               /\ todo[t] # <<>>

Answer(t, c) == code' = [code EXCEPT ![t] = c]

(* A request arrives; a ping or a request without a key is answered at once. *)
Invoke(t, op, ks, v) ==
  /\ command[t] = "NONE"
  /\ command' = [command EXCEPT ![t] = op]
  /\ todo' = [todo EXCEPT ![t] = ks]
  /\ data' = [data EXCEPT ![t] = v]
  /\ \/ code' = code
     \/ Answer(t, "PONG")
     \/ Answer(t, "ERROR")
  /\ UNCHANGED <<db, items>>

Store(t) == db' = [db EXCEPT ![Head(todo[t])] = data[t]]

Set(t) ==
  /\ Open(t, "SET")
  /\ Store(t)
  /\ Answer(t, "STORED")
  /\ UNCHANGED <<command, todo, data, items>>

Put(t) ==
  /\ Open(t, "PUT")
  /\ Store(t)
  /\ Answer(t, "200")
  /\ UNCHANGED <<command, todo, data, items>>

Add(t) ==
  /\ Open(t, "ADD")
  /\ \/ db[Head(todo[t])] = NoValue /\ Store(t) /\ Answer(t, "STORED")
     \/ db[Head(todo[t])] # NoValue /\ db' = db /\ Answer(t, "NOT_STORED")
  /\ UNCHANGED <<command, todo, data, items>>

Delete(t) ==
  /\ Open(t, "DELETE")
  /\ \/ /\ db[Head(todo[t])] # NoValue
        /\ db' = [db EXCEPT ![Head(todo[t])] = NoValue]
        /\ Answer(t, "DELETED")
     \/ db[Head(todo[t])] = NoValue /\ db' = db /\ Answer(t, "NOT_FOUND")
  /\ UNCHANGED <<command, todo, data, items>>

(* One key of a get; the last one completes the answer. *)
Read(t) ==
  /\ Open(t, "GET")
  /\ items' = IF db[Head(todo[t])] = NoValue THEN items
              ELSE [items EXCEPT ![t] = Append(@, <<Head(todo[t]), db[Head(todo[t])]>>)]
  /\ todo' = [todo EXCEPT ![t] = Tail(@)]
  /\ code' = IF Tail(todo[t]) = <<>> THEN [code EXCEPT ![t] = "END"] ELSE code
  /\ UNCHANGED <<db, command, data>>

(* GET of the REST API. *)
Fetch(t) ==
  /\ Open(t, "FETCH")
  /\ \/ /\ db[Head(todo[t])] # NoValue
        /\ items' = [items EXCEPT ![t] = <<<<Head(todo[t]), db[Head(todo[t])]>>>>]
        /\ Answer(t, "200")
     \/ db[Head(todo[t])] = NoValue /\ items' = items /\ Answer(t, "404")
  /\ UNCHANGED <<db, command, todo, data>>

Fail(t) ==
  /\ command[t] # "NONE"
  /\ code[t] = "none"
  /\ \E c \in {"ERROR", "500"} : Answer(t, c)
  /\ items' = [items EXCEPT ![t] = <<>>]
  /\ UNCHANGED <<db, command, todo, data>>

Return(t) ==
  /\ code[t] # "none"
  /\ command' = [command EXCEPT ![t] = "NONE"]
  /\ todo' = [todo EXCEPT ![t] = <<>>]
  /\ data' = [data EXCEPT ![t] = NoValue]
  /\ code' = [code EXCEPT ![t] = "none"]
  /\ items' = [items EXCEPT ![t] = <<>>]
  /\ UNCHANGED db

Next == \E t \in Threads :
          \/ \E op \in {"PING", "SET", "ADD", "GET", "DELETE", "FETCH", "PUT"},
                ks \in KeyLists, v \in Values \cup {NoValue} : Invoke(t, op, ks, v)
          \/ Set(t) \/ Put(t) \/ Add(t) \/ Delete(t) \/ Read(t) \/ Fetch(t)
          \/ Fail(t)
          \/ Return(t)

Spec == Init /\ [][Next]_avars
=============================================================================

--------------------------- MODULE ServiceProofs ---------------------------
(***************************************************************************)
(* Proofs about the life of the process, for every command line, however   *)
(* often it is killed and started again.                                   *)
(***************************************************************************)
EXTENDS Service, InductionProofs

(* Before the database is open there are no servers and no epoch callback. *)
Early ==
    pc \in {"parse", "log", "stats", "open", "restoring", "opendb"} =>
        /\ db = "wild" /\ ~epoch
        /\ tcp = "off" /\ http = "off" /\ ~tcpBusy /\ op = "none"

(* main works through the servers in order, on an open database.           *)
Serving ==
    /\ pc = "servers" => db = "open" /\ tcp = "off" /\ http = "off"
    /\ pc = "http" => db = "open" /\ http = "off"
    /\ pc \in {"run", "join"} => db = "open"
    /\ pc = "join" => http = "stopped"

(* A server that is not up, or has returned, has no handler running.       *)
Handlers ==
    /\ tcp \in {"off", "stopped"} => ~tcpBusy
    /\ http \in {"off", "stopped"} => op = "none"

(* From the destructor on, nothing is served.                              *)
Down ==
    /\ pc \in {"destroy", "deleting", "members", "exited"} =>
          tcp \in {"off", "stopped"} /\ http \in {"off", "stopped"}
    /\ pc = "destroy" => db \in {"wild", "null", "open"}
    /\ pc = "deleting" => db = "deleting"

(* The thread of the statistics exists as long as the aggregator, and the  *)
(* callback comes and goes with the database.                              *)
Thread ==
    /\ (stats = "none") <=> (bg = "none")
    /\ pc = "exited" => bg \in {"none", "done"}
    /\ epoch => db = "open" \/ pc \in {"deleting", "members", "exited"}

(* A restore that went through has put the newest backup in place.         *)
Restored ==
    /\ (pc = "opendb" /\ conf.restore) => files = "ok" /\ disk = Last(backups)
    /\ pc = "restoring" => backups # << >>

Stored == disk \in Nat \cup {Lost} /\ backups \in Seq(Nat \cup {Lost})

LInv == ServiceTypeOK /\ Stored /\ Early /\ Serving /\ Handlers /\ Down /\ Thread /\ Restored

(* PurgeOldBackups(1) leaves a sequence of the newest backup.              *)
LEMMA NewestBackup ==
  ASSUME NEW S, NEW s \in Seq(S), Len(s) > 0
  PROVE  /\ Last(s) \in S /\ <<Last(s)>> \in Seq(S) /\ <<Last(s)>> # << >>
         /\ Last(<<Last(s)>>) = Last(s)
<1>1. Last(s) \in S
  BY DEF Last
<1>2. ASSUME NEW x \in S PROVE <<x>> \in Seq(S) /\ <<x>> # << >> /\ Last(<<x>>) = x
  BY DEF Last
<1> QED BY <1>1, <1>2

LEMMA LInvInit == Init => LInv
BY DEF Init, LInv, ServiceTypeOK, Stored, Early, Serving, Handlers, Down, Thread, Restored

-----------------------------------------------------------------------------
(* The end of a process without a destructor, and the start of a new one.  *)
LEMMA DieStep == ASSUME LInv, Die PROVE LInv'
BY DEF Die, Fresh, kept, LInv, ServiceTypeOK, Stored, Early, Serving, Handlers, Down, Thread,
       Restored

LEMMA RestartStep == ASSUME LInv, Restart PROVE LInv'
BY DEF Restart, Fresh, kept, LInv, ServiceTypeOK, Stored, Early, Serving, Handlers, Down, Thread,
       Restored

LEMMA StartStep ==
  ASSUME LInv, RegisterOption \/ ParseArgs \/ CreateLog \/ CreateStats
  PROVE  LInv'
<1> USE DEF cmd, thread, threads, kept, LInv, ServiceTypeOK, Stored, Early, Serving, Handlers,
            Down, Thread, Restored
<1>1. CASE RegisterOption
  BY <1>1 DEF RegisterOption
<1>2. CASE ParseArgs
  <2>1. pc' \in {"log", "destroy"} /\ pc = "parse"
        /\ UNCHANGED <<db, thread, threads, kept, runs, faults>>
    BY <1>2 DEF ParseArgs
  <2> QED BY <2>1
<1>3. CASE CreateLog
  BY <1>3, DieStep DEF CreateLog
<1>4. CASE CreateStats
  BY <1>4, DieStep DEF CreateStats
<1> QED BY <1>1, <1>2, <1>3, <1>4

LEMMA OpenStep ==
  ASSUME LInv, BeginRestore \/ RefuseRestore \/ FinishRestore \/ FailRestore \/ SkipRestore
                 \/ OpenDb \/ FailOpenDb
  PROVE  LInv'
<1> USE DEF cmd, thread, threads, kept, LInv, ServiceTypeOK, Stored, Early, Serving, Handlers,
            Down, Thread, Restored
<1>1. CASE BeginRestore
  BY <1>1 DEF BeginRestore, OpenThrows
<1>2. CASE RefuseRestore
  BY <1>2 DEF RefuseRestore, OpenThrows
<1>3. CASE FinishRestore
  <2>1. Last(backups) \in Nat \cup {Lost}
    BY <1>3 DEF FinishRestore, Last
  <2> QED BY <1>3, <2>1 DEF FinishRestore
<1>4. CASE FailRestore
  BY <1>4 DEF FailRestore, OpenThrows
<1>5. CASE SkipRestore
  BY <1>5 DEF SkipRestore
<1>6. CASE OpenDb
  BY <1>6 DEF OpenDb
<1>7. CASE FailOpenDb
  BY <1>7 DEF FailOpenDb, OpenThrows
<1> QED BY <1>1, <1>2, <1>3, <1>4, <1>5, <1>6, <1>7

LEMMA ServerStep ==
  ASSUME LInv, StartTcp \/ StartHttp \/ Signal \/ Kill \/ TcpStops \/ HttpStops
  PROVE  LInv'
<1> USE DEF cmd, thread, threads, kept, LInv, ServiceTypeOK, Stored, Early, Serving, Handlers,
            Down, Thread, Restored
<1>1. CASE StartTcp
  BY <1>1, DieStep DEF StartTcp
<1>2. CASE StartHttp
  BY <1>2, DieStep DEF StartHttp
<1>3. CASE Signal
  BY <1>3, DieStep DEF Signal, Stopping
<1>4. CASE Kill
  BY <1>4, DieStep DEF Kill
<1>5. CASE TcpStops \/ HttpStops
  BY <1>5 DEF TcpStops, HttpStops
<1> QED BY <1>1, <1>2, <1>3, <1>4, <1>5

LEMMA RequestStep ==
  ASSUME LInv, TcpBegin \/ TcpEnd \/ (\E o \in HttpOps : HttpBegin(o)) \/ Endpoints
  PROVE  LInv'
<1> USE DEF cmd, thread, threads, kept, LInv, ServiceTypeOK, Stored, Early, Serving, Handlers,
            Down, Thread, Restored
<1>0. Writes \subseteq Nat \cup {Lost}
  BY DEF Writes
<1>1. CASE TcpBegin
  BY <1>1 DEF TcpBegin
<1>2. CASE TcpEnd
  BY <1>0, <1>2 DEF TcpEnd
<1>3. CASE \E o \in HttpOps : HttpBegin(o)
  BY <1>3 DEF HttpBegin
<1>4. CASE Key \/ Report
  <2>1. /\ op \in HttpOps /\ op' = "none" /\ disk' \in Nat \cup {Lost}
        /\ UNCHANGED <<pc, cmd, conf, db, thread, tcp, http, tcpBusy, files, runs, backups>>
    BY <1>0, <1>4 DEF Key, Report, HttpEnd, HttpOps
  <2>2. pc # "opendb"
    BY <2>1 DEF HttpOps
  <2> QED BY <2>1, <2>2
<1>5. CASE BackupCreate
  BY <1>5 DEF BackupCreate, HttpEnd
<1>6. CASE BackupClean
  <2>1. ASSUME Len(backups) > 1 PROVE <<Last(backups)>> \in Seq(Nat \cup {Lost})
    <3>1. backups \in Seq(Nat \cup {Lost}) /\ Len(backups) > 0
      BY <2>1
    <3> HIDE DEF LInv, Stored
    <3> QED BY <3>1, NewestBackup
  <2>2. backups' \in Seq(Nat \cup {Lost})
    BY <1>6, <2>1 DEF BackupClean
  <2> QED BY <1>6, <2>2 DEF BackupClean, HttpEnd
<1> QED BY <1>1, <1>2, <1>3, <1>4, <1>5, <1>6 DEF Endpoints

LEMMA ThreadStep ==
  ASSUME LInv, Background \/ BackgroundThrows \/ CallbackCrashes
  PROVE  LInv'
<1>1. CASE Background
  BY <1>1 DEF Background, LoopTest, RunEpochs, EndEpochs, cmd, threads, kept, LInv,
              ServiceTypeOK, Stored, Early, Serving, Handlers, Down, Thread, Restored
<1>2. CASE BackgroundThrows \/ CallbackCrashes
  BY <1>2, DieStep DEF BackgroundThrows, CallbackCrashes
<1> QED BY <1>1, <1>2

LEMMA EndStep ==
  ASSUME LInv, HttpReturns \/ JoinTcp \/ DestroyDb \/ DbDeleted \/ StopStats \/ JoinStats
  PROVE  LInv'
<1> USE DEF cmd, thread, threads, kept, LInv, ServiceTypeOK, Stored, Early, Serving, Handlers,
            Down, Thread, Restored
<1>1. CASE HttpReturns \/ JoinTcp
  BY <1>1 DEF HttpReturns, JoinTcp
<1>2. CASE DestroyDb
  BY <1>2, DieStep DEF DestroyDb
<1>3. CASE DbDeleted
  BY <1>3 DEF DbDeleted
<1>4. CASE StopStats \/ JoinStats
  BY <1>4 DEF StopStats, JoinStats
<1> QED BY <1>1, <1>2, <1>3, <1>4

LEMMA LInvStep == LInv /\ [Next]_vars => LInv'
<1> SUFFICES ASSUME LInv, [Next]_vars PROVE LInv'
  OBVIOUS
<1>1. CASE UNCHANGED vars
  BY <1>1 DEF vars, LInv, ServiceTypeOK, Stored, Early, Serving, Handlers, Down, Thread, Restored
<1> QED
  BY <1>1, RestartStep, StartStep, OpenStep, ServerStep, RequestStep, ThreadStep, EndStep
  DEF Next, Main

LEMMA LInvAlways == Spec => []LInv
BY LInvInit, LInvStep, PTL DEF Spec

-----------------------------------------------------------------------------
(* Whatever fails and whenever it is killed, no handler of either server   *)
(* uses _db before open has set it or after ~rocks has begun to delete it. *)
THEOREM DatabaseOutlivesRequests == Spec => []RequestsUseLiveDb
<1>1. LInv => RequestsUseLiveDb
  BY DEF LInv, ServiceTypeOK, Early, Serving, Handlers, Down, RequestsUseLiveDb
<1> QED BY <1>1, LInvAlways, PTL

(* The epoch callback meets a database that is not open only while ~rocks  *)
(* and its members are being destroyed.                                    *)
THEOREM CallbackWindow == Spec => []EpochWindow
<1>1. LInv => EpochWindow
  BY DEF LInv, Thread, EpochWindow
<1> QED BY <1>1, LInvAlways, PTL

(* rocks::open serves the newest backup when it was asked to restore, or   *)
(* throws, whatever earlier starts left behind.                            *)
THEOREM RestoreIsComplete == Spec => RestoreServesNewest
<1>1. LInv /\ [Next]_vars =>
        ((db # "open" /\ db' = "open" /\ conf.restore) => disk' = Last(backups))
  <2> SUFFICES ASSUME LInv, Next, db # "open", db' = "open", conf.restore
               PROVE  disk' = Last(backups)
    BY DEF vars
  <2>1. OpenDb
    BY DEF Next, Main, Endpoints, Background, RegisterOption, ParseArgs, CreateLog, CreateStats,
           BeginRestore, RefuseRestore, FinishRestore, FailRestore, SkipRestore, FailOpenDb,
           StartTcp, StartHttp, HttpReturns, JoinTcp, DestroyDb, DbDeleted, StopStats, JoinStats,
           OpenThrows, Die, Fresh, Restart, Signal, Kill, TcpStops, HttpStops, TcpBegin, TcpEnd,
           HttpBegin, HttpEnd, Key, Report, BackupCreate, BackupClean, LoopTest, RunEpochs,
           EndEpochs, BackgroundThrows, CallbackCrashes
  <2> QED BY <2>1 DEF OpenDb, LInv, Restored
<1> QED BY <1>1, LInvAlways, PTL DEF Spec, RestoreServesNewest

(* Type correctness of the process.                                        *)
THEOREM ServiceTypeCorrect == Spec => []ServiceTypeOK
<1>1. LInv => ServiceTypeOK
  BY DEF LInv
<1> QED BY <1>1, LInvAlways, PTL

-----------------------------------------------------------------------------
(* The command line.  The two loops of the handler are functions defined   *)
(* by recursion over the words; both exist, which is shown by induction on *)
(* how far they go.                                                        *)

IsUpdated(f, p, o, w, n) ==
    f = [i \in 0..n |-> IF i = 0 THEN p ELSE update_word(f[i - 1], o, w, i)]
IsRead(f, p, o, w, i, n) ==
    f = [j \in i..n |-> IF j = i THEN [p |-> p, stop |-> FALSE]
                        ELSE read_word(f[j - 1], o, w[j])]

LEMMA UpdatedExists ==
  ASSUME NEW p, NEW o, NEW w, NEW n \in Nat
  PROVE  \E f : IsUpdated(f, p, o, w, n)
<1> USE DEF IsUpdated
<1> DEFINE P(m) == \E f : f = [i \in 0..m |-> IF i = 0 THEN p ELSE update_word(f[i - 1], o, w, i)]
           S == {m \in Nat : P(m)}
<1>1. 0 \in S
  <2>1. PICK f : f = [i \in 0..0 |-> p]
    OBVIOUS
  <2>2. f = [i \in 0..0 |-> IF i = 0 THEN p ELSE update_word(f[i - 1], o, w, i)]
    BY <2>1
  <2> QED BY <2>2
<1>2. ASSUME NEW m \in Nat, m \in S PROVE m + 1 \in S
  <2>1. PICK f : f = [i \in 0..m |-> IF i = 0 THEN p ELSE update_word(f[i - 1], o, w, i)]
    BY <1>2
  <2>2. PICK g : g = [i \in 0..m + 1 |-> IF i = m + 1 THEN update_word(f[m], o, w, m + 1) ELSE f[i]]
    OBVIOUS
  <2>3. ASSUME NEW i \in 0..m + 1
        PROVE  g[i] = IF i = 0 THEN p ELSE update_word(g[i - 1], o, w, i)
    <3>1. CASE i = m + 1
      <4>1. g[i] = update_word(f[m], o, w, i) /\ g[i - 1] = f[m] /\ i # 0
        BY <2>2, <3>1
      <4> QED BY <4>1
    <3>2. CASE i # m + 1 /\ i # 0
      <4>1. g[i] = f[i] /\ g[i - 1] = f[i - 1] /\ i \in 0..m
        BY <2>2, <3>2
      <4>2. f[i] = update_word(f[i - 1], o, w, i)
        BY <2>1, <4>1, <3>2
      <4> QED BY <4>1, <4>2, <3>2
    <3>3. CASE i = 0
      BY <2>1, <2>2, <3>3
    <3> QED BY <3>1, <3>2, <3>3
  <2>4. g = [i \in 0..m + 1 |-> IF i = 0 THEN p ELSE update_word(g[i - 1], o, w, i)]
    BY <2>2, <2>3
  <2> QED BY <2>4
<1>3. n \in S
  <2> HIDE DEF S
  <2> QED BY <1>1, <1>2, Induct
<1> QED BY <1>3

LEMMA ReadExists ==
  ASSUME NEW p, NEW o, NEW w, NEW i \in Nat, NEW n \in Nat
  PROVE  \E f : IsRead(f, p, o, w, i, i + n)
<1> USE DEF IsRead
<1> DEFINE P(m) == \E f : f = [j \in i..i + m |->
                       IF j = i THEN [p |-> p, stop |-> FALSE] ELSE read_word(f[j - 1], o, w[j])]
           S == {m \in Nat : P(m)}
<1>1. 0 \in S
  <2>1. PICK f : f = [j \in i..i + 0 |-> [p |-> p, stop |-> FALSE]]
    OBVIOUS
  <2>2. f = [j \in i..i + 0 |->
               IF j = i THEN [p |-> p, stop |-> FALSE] ELSE read_word(f[j - 1], o, w[j])]
    BY <2>1
  <2> QED BY <2>2
<1>2. ASSUME NEW m \in Nat, m \in S PROVE m + 1 \in S
  <2>1. PICK f : f = [j \in i..i + m |->
               IF j = i THEN [p |-> p, stop |-> FALSE] ELSE read_word(f[j - 1], o, w[j])]
    BY <1>2
  <2>2. PICK g : g = [j \in i..i + (m + 1) |->
               IF j = i + (m + 1) THEN read_word(f[i + m], o, w[j]) ELSE f[j]]
    OBVIOUS
  <2>3. ASSUME NEW j \in i..i + (m + 1)
        PROVE  g[j] = IF j = i THEN [p |-> p, stop |-> FALSE] ELSE read_word(g[j - 1], o, w[j])
    <3>1. CASE j = i + (m + 1)
      <4>1. g[j] = read_word(f[i + m], o, w[j]) /\ g[j - 1] = f[i + m] /\ j # i
        BY <2>2, <3>1
      <4> QED BY <4>1
    <3>2. CASE j # i + (m + 1) /\ j # i
      <4>1. g[j] = f[j] /\ g[j - 1] = f[j - 1] /\ j \in i..i + m
        BY <2>2, <3>2
      <4>2. f[j] = read_word(f[j - 1], o, w[j])
        BY <2>1, <4>1, <3>2
      <4> QED BY <4>1, <4>2, <3>2
    <3>3. CASE j = i
      BY <2>1, <2>2, <3>3
    <3> QED BY <3>1, <3>2, <3>3
  <2>4. g = [j \in i..i + (m + 1) |->
               IF j = i THEN [p |-> p, stop |-> FALSE] ELSE read_word(g[j - 1], o, w[j])]
    BY <2>2, <2>3
  <2> QED BY <2>4
<1>3. n \in S
  <2> HIDE DEF S
  <2> QED BY <1>1, <1>2, Induct
<1> QED BY <1>3

(* What the two loops leave, in terms of the functions.                    *)
LEMMA UpdatedIs ==
  ASSUME NEW p, NEW o, NEW w, Len(w) \in Nat
  PROVE  \E f : IsUpdated(f, p, o, w, Len(w)) /\ add_option(p, o, w) = f[Len(w)]
<1> DEFINE u == CHOOSE f : IsUpdated(f, p, o, w, Len(w))
<1>1. add_option(p, o, w) = u[Len(w)]
  BY DEF add_option, IsUpdated
<1>2. \E f : IsUpdated(f, p, o, w, Len(w))
  BY UpdatedExists
<1> QED BY <1>1, <1>2

LEMMA ReadIs ==
  ASSUME NEW p, NEW o, NEW w, Len(w) \in Nat, NEW i \in 1..Len(w)
  PROVE  \E f : IsRead(f, p, o, w, i, Len(w)) /\ update_optional(p, o, w, i) = f[Len(w)].p
<1> DEFINE u == CHOOSE f : IsRead(f, p, o, w, i, Len(w))
<1>1. update_optional(p, o, w, i) = u[Len(w)].p
  BY DEF update_optional, IsRead
<1>2. PICK n \in Nat : i + n = Len(w)
  <2>1. PICK n : n = Len(w) - i
    OBVIOUS
  <2>2. n \in Nat /\ i + n = Len(w)
    BY <2>1
  <2> QED BY <2>2
<1>3. i \in Nat
  OBVIOUS
<1>4. \E f : IsRead(f, p, o, w, i, i + n)
  BY <1>3, ReadExists
<1> QED BY <1>1, <1>2, <1>4

-----------------------------------------------------------------------------
(* What the passes have found.  A parse that has not thrown is State(g),   *)
(* g the map parsed_input; Holds relates g to the map f before the pass of *)
(* an option and to the set T of words that were its arguments so far.     *)

State(g) == [parsed |-> g, threw |-> FALSE]
Extended(f, name, words) ==
    [n \in DOMAIN f \cup {name} |-> IF n = name THEN words ELSE f[n]]
IsLast(m, T) == m \in T /\ \A k \in T : k <= m
Holds(g, f, name, T, w) ==
    \/ T = {} /\ g = f
    \/ \E m \in T : IsLast(m, T) /\ g = Extended(f, name, <<w[m]>>)

LEMMA StateExcept ==
  ASSUME NEW f, NEW g
  PROVE  [State(f) EXCEPT !.parsed = g] = State(g)
<1>1. ASSUME NEW b PROVE [[parsed |-> f, threw |-> b] EXCEPT !.parsed = g] = [parsed |-> g, threw |-> b]
  OBVIOUS
<1> QED BY <1>1, Zenon DEF State

LEMMA InsertIs ==
  ASSUME NEW f, NEW name, NEW x
  PROVE  Insert(State(f), name, x) = State(Extended(f, name, x))
<1>1. PICK s : s = State(f)
  OBVIOUS
<1>2. s.parsed = f /\ s.threw = FALSE /\ DOMAIN s = {"parsed", "threw"}
  BY <1>1 DEF State
<1>3. Insert(s, name, x) = [s EXCEPT !.parsed = Extended(f, name, x)]
  BY <1>2 DEF Insert, Extended
<1> QED BY <1>1, <1>3, StateExcept

LEMMA SetIs ==
  ASSUME NEW f, NEW name, name \notin DOMAIN f, NEW x, NEW g,
         g = f \/ \E v : g = Extended(f, name, <<v>>)
  PROVE  SetArgument(State(g), name, x) = State(Extended(f, name, <<x>>))
<1>1. CASE g = f
  <2>1. ~Has(State(g), name)
    BY <1>1 DEF Has, State
  <2> QED BY <1>1, <2>1, InsertIs DEF SetArgument
<1>2. ASSUME NEW v, g = Extended(f, name, <<v>>)
      PROVE  SetArgument(State(g), name, x) = State(Extended(f, name, <<x>>))
  <2>1. Has(State(g), name)
    BY <1>2 DEF Has, State, Extended
  <2>2. SetArgument(State(g), name, x) = [State(g) EXCEPT !.parsed[name][1] = x]
    BY <2>1 DEF SetArgument
  <2>3. @ = [State(g) EXCEPT !.parsed = [State(g).parsed EXCEPT ![name][1] = x]]
    OBVIOUS
  <2>4. g[name] = <<v>>
    BY <1>2 DEF Extended
  <2>5. [g[name] EXCEPT ![1] = x] = <<x>>
    BY <2>4
  <2>6. [g EXCEPT ![name][1] = x] = [g EXCEPT ![name] = <<x>>]
    <3>1. PICK a : a = [g EXCEPT ![name][1] = x]
      OBVIOUS
    <3>2. PICK b : b = [g EXCEPT ![name] = <<x>>]
      OBVIOUS
    <3>3. DOMAIN a = DOMAIN g /\ DOMAIN b = DOMAIN g
      BY <3>1, <3>2
    <3>4. \A n \in DOMAIN g : n # name => a[n] = g[n] /\ b[n] = g[n]
      BY <3>1, <3>2
    <3>5. name \in DOMAIN g => a[name] = [g[name] EXCEPT ![1] = x] /\ b[name] = <<x>>
      BY <3>1, <3>2
    <3>6. \A n \in DOMAIN g : a[n] = b[n]
      BY <2>5, <3>4, <3>5
    <3>7. a = [n \in DOMAIN g |-> a[n]] /\ b = [n \in DOMAIN g |-> b[n]]
      BY <3>1, <3>2, <3>3
    <3> QED BY <3>1, <3>2, <3>6, <3>7
  <2>7. [g EXCEPT ![name] = <<x>>] = Extended(f, name, <<x>>)
    BY <1>2 DEF Extended
  <2>8. State(g).parsed = g
    BY DEF State
  <2> QED BY <2>2, <2>3, <2>6, <2>7, <2>8, StateExcept
<1> QED BY <1>1, <1>2

(* The words after i that update_optional reads up to word j.              *)
ArgsTo(w, i, j) == {k \in i + 1..j : \A m \in i + 1..k : ~is_option(w[m])}
Stopped(w, i, j) == \E m \in i + 1..j : is_option(w[m])

LEMMA ArgsGrow ==
  ASSUME NEW w, NEW i \in Nat, NEW j \in Nat, i < j, NEW h \in Nat, h = j - 1
  PROVE  /\ Stopped(w, i, h) \/ is_option(w[j]) =>
              Stopped(w, i, j) /\ ArgsTo(w, i, j) = ArgsTo(w, i, h)
         /\ ~(Stopped(w, i, h) \/ is_option(w[j])) =>
              ~Stopped(w, i, j) /\ ArgsTo(w, i, j) = ArgsTo(w, i, h) \cup {j}
<1>1. \A k \in i + 1..j : k \in i + 1..h \/ k = j
  OBVIOUS
<1>2. i + 1..h \subseteq i + 1..j /\ j \in i + 1..j
  OBVIOUS
<1>3. \A k \in i + 1..h : i + 1..k \subseteq i + 1..h
  OBVIOUS
<1>4. CASE Stopped(w, i, h) \/ is_option(w[j])
  <2>1. Stopped(w, i, j)
    BY <1>2, <1>4 DEF Stopped
  <2>2. j \notin ArgsTo(w, i, j)
    BY <1>2, <1>4 DEF Stopped, ArgsTo
  <2>3. ArgsTo(w, i, j) = ArgsTo(w, i, h)
    BY <1>1, <1>2, <2>2 DEF ArgsTo
  <2> QED BY <1>4, <2>1, <2>3
<1>5. CASE ~(Stopped(w, i, h) \/ is_option(w[j]))
  <2>1. ~Stopped(w, i, j)
    BY <1>1, <1>5 DEF Stopped
  <2>2. j \in ArgsTo(w, i, j)
    BY <1>2, <2>1 DEF Stopped, ArgsTo
  <2>3. ArgsTo(w, i, j) = ArgsTo(w, i, h) \cup {j}
    BY <1>1, <1>2, <2>2 DEF ArgsTo
  <2> QED BY <1>5, <2>1, <2>3
<1> QED BY <1>4, <1>5

(* A new argument that is after all the others.                            *)
LEMMA HoldsNext ==
  ASSUME NEW w, NEW f, NEW name, name \notin DOMAIN f, NEW g, NEW T, Holds(g, f, name, T, w),
         NEW j \in Int, T \subseteq Int, \A k \in T : k <= j
  PROVE  \E h : /\ SetArgument(State(g), name, w[j]) = State(h)
                /\ Holds(h, f, name, T \cup {j}, w)
<1>1. SetArgument(State(g), name, w[j]) = State(Extended(f, name, <<w[j]>>))
  BY SetIs DEF Holds
<1>2. IsLast(j, T \cup {j})
  BY DEF IsLast
<1> QED BY <1>1, <1>2 DEF Holds

(* The loop of update_optional, begun at word i with the arguments T.      *)
ReadSo(r, f, name, T, w, i, j) ==
    \E g : /\ r = [p |-> State(g), stop |-> Stopped(w, i, j)]
           /\ Holds(g, f, name, T \cup ArgsTo(w, i, j), w)

LEMMA ReadStep ==
  ASSUME NEW w, NEW f, NEW o, o.long \notin DOMAIN f, NEW T, T \subseteq Int,
         NEW i \in Nat, NEW j \in Nat, i < j, NEW h \in Nat, h = j - 1, \A k \in T : k <= i,
         NEW r, ReadSo(r, f, o.long, T, w, i, h)
  PROVE  ReadSo(read_word(r, o, w[j]), f, o.long, T, w, i, j)
<1>1. PICK g : /\ r = [p |-> State(g), stop |-> Stopped(w, i, h)]
               /\ Holds(g, f, o.long, T \cup ArgsTo(w, i, h), w)
  BY DEF ReadSo
<1>2. r.p = State(g) /\ (r.stop <=> Stopped(w, i, h))
  BY <1>1
<1>3. CASE Stopped(w, i, h) \/ is_option(w[j])
  <2>1. read_word(r, o, w[j]) = [p |-> State(g), stop |-> TRUE]
    BY <1>2, <1>3, Zenon DEF read_word
  <2>2. Stopped(w, i, j) = TRUE
    BY <1>3, ArgsGrow DEF Stopped
  <2>3. ArgsTo(w, i, j) = ArgsTo(w, i, h)
    <3>1. Stopped(w, i, h) \/ is_option(w[j]) =>
              Stopped(w, i, j) /\ ArgsTo(w, i, j) = ArgsTo(w, i, h)
      BY ArgsGrow, SMTT(20)
    <3> QED BY <1>3, <3>1, Zenon
  <2> QED BY <1>1, <2>1, <2>2, <2>3, Zenon DEF ReadSo
<1>4. CASE ~(Stopped(w, i, h) \/ is_option(w[j]))
  <2>1. read_word(r, o, w[j]) = [p |-> SetArgument(State(g), o.long, w[j]), stop |-> FALSE]
    BY <1>2, <1>4, Zenon DEF read_word
  <2>2. Stopped(w, i, j) = FALSE
    BY <1>4, ArgsGrow DEF Stopped
  <2>3. ArgsTo(w, i, j) = ArgsTo(w, i, h) \cup {j}
    BY <1>4, ArgsGrow
  <2>4. PICK U : U = T \cup ArgsTo(w, i, h)
    OBVIOUS
  <2>5. U \subseteq Int /\ (\A k \in U : k <= j) /\ j \in Int /\ Holds(g, f, o.long, U, w)
    <3>1. \A k \in ArgsTo(w, i, h) : k \in Int /\ k <= j
      BY DEF ArgsTo
    <3>2. \A k \in T : k \in Int /\ k <= j
      OBVIOUS
    <3>3. \A k \in U : k \in Int /\ k <= j
      BY <2>4, <3>1, <3>2, Zenon
    <3>4. Holds(g, f, o.long, U, w) /\ j \in Int
      BY <1>1, <2>4
    <3> QED BY <3>3, <3>4, Zenon
  <2>6. PICK G : /\ SetArgument(State(g), o.long, w[j]) = State(G)
                 /\ Holds(G, f, o.long, U \cup {j}, w)
    BY <2>5, HoldsNext, Zenon
  <2>7. U \cup {j} = T \cup ArgsTo(w, i, j)
    BY <2>3, <2>4
  <2> QED BY <2>1, <2>2, <2>6, <2>7, Zenon DEF ReadSo
<1> QED BY <1>3, <1>4

LEMMA ReadLoop ==
  ASSUME NEW w, Len(w) \in Nat, NEW f, NEW o, o.long \notin DOMAIN f, NEW T, T \subseteq Int,
         NEW i \in 1..Len(w), \A k \in T : k <= i, NEW g, Holds(g, f, o.long, T, w)
  PROVE  \E h : /\ update_optional(State(g), o, w, i) = State(h)
                /\ Holds(h, f, o.long, T \cup ArgsTo(w, i, Len(w)), w)
<1>1. PICK R : /\ IsRead(R, State(g), o, w, i, Len(w))
               /\ update_optional(State(g), o, w, i) = R[Len(w)].p
  BY ReadIs
<1> DEFINE S == {n \in Nat : i + n <= Len(w) => ReadSo(R[i + n], f, o.long, T, w, i, i + n)}
<1>2. 0 \in S
  <2>1. i + 0 = i /\ i \in i..Len(w)
    OBVIOUS
  <2>2. R[i] = [p |-> State(g), stop |-> FALSE]
    BY <1>1, <2>1 DEF IsRead
  <2>3. ArgsTo(w, i, i) = {} /\ Stopped(w, i, i) = FALSE
    BY DEF ArgsTo, Stopped
  <2>4. T \cup ArgsTo(w, i, i) = T
    BY <2>3
  <2>5. ReadSo(R[i], f, o.long, T, w, i, i)
    BY <2>2, <2>3, <2>4, Zenon DEF ReadSo
  <2> QED BY <2>1, <2>5
<1>3. ASSUME NEW n \in Nat, n \in S PROVE n + 1 \in S
  <2> SUFFICES ASSUME i + (n + 1) <= Len(w)
               PROVE  ReadSo(R[i + (n + 1)], f, o.long, T, w, i, i + (n + 1))
    OBVIOUS
  <2>1. PICK j, h : j = i + (n + 1) /\ h = i + n
    OBVIOUS
  <2>2. j \in Nat /\ h \in Nat /\ h = j - 1 /\ i < j /\ j \in i..Len(w) /\ j # i /\ i \in Nat
    BY <2>1
  <2>3. R[j] = read_word(R[h], o, w[j])
    BY <1>1, <2>2 DEF IsRead
  <2>4. ReadSo(R[h], f, o.long, T, w, i, h)
    BY <1>3, <2>1
  <2>5. ReadSo(R[j], f, o.long, T, w, i, j)
    BY <2>2, <2>3, <2>4, ReadStep
  <2> QED BY <2>1, <2>5
<1>4. Nat \subseteq S
  <2> HIDE DEF S
  <2> QED BY <1>2, <1>3, Induct
<1>5. PICK n \in Nat : i + n = Len(w)
  <2>1. PICK n : n = Len(w) - i
    OBVIOUS
  <2> QED BY <2>1
<1>6. ReadSo(R[Len(w)], f, o.long, T, w, i, Len(w))
  BY <1>4, <1>5
<1>7. PICK h : /\ R[Len(w)] = [p |-> State(h), stop |-> Stopped(w, i, Len(w))]
               /\ Holds(h, f, o.long, T \cup ArgsTo(w, i, Len(w)), w)
  BY <1>6 DEF ReadSo
<1> QED BY <1>1, <1>7

-----------------------------------------------------------------------------
(* How the handler reads a whole line: every word that begins with a dash  *)
(* is an option, and Names says which.                                     *)

ReadAt(w, i) == {j \in i + 1..Len(w) : \A k \in i + 1..j : ~is_option(w[k])}
NamedIn(o, w) == {i \in 1..Len(w) : Names(o, w[i])}
LastRead(o, w) ==
    w[CHOOSE j \in 1..Len(w) :
        /\ \E i \in NamedIn(o, w) : j \in ReadAt(w, i)
        /\ \A i \in NamedIn(o, w) : \A k \in ReadAt(w, i) : k <= j]
Readable(w) ==
    /\ \A i \in 1..Len(w) : ~OutOfRange(w[i])
    /\ \A o \in ToSet(Declared) \cup {Help} : \A i \in NamedIn(o, w) :
          (o.kind = "bool") <=> (ReadAt(w, i) = {})
Reading(w) ==
    LET given == {o \in ToSet(Declared) : NamedIn(o, w) # {}}
        Value(o) == CASE o.kind = "bool" -> TRUE
                      [] o.kind = "int" -> Number(LastRead(o, w))
                      [] o.kind = "str" -> LastRead(o, w)
    IN IF /\ Readable(w)
          /\ NamedIn(Help, w) = {}
          /\ \A o \in given : Value(o) # BadNumber
       THEN [ok |-> TRUE,
             value |-> [n \in {o.long : o \in given} |-> Value(CHOOSE o \in given : o.long = n)]]
       ELSE [ok |-> FALSE, value |-> << >>]

-----------------------------------------------------------------------------
(* The pass of one option over the words 1..k.                             *)

(* The option at word i, or the word itself, makes the pass throw.         *)
WrongNext(o, w, i) ==
    \/ i < Len(w) /\ OutOfRange(w[i + 1])
    \/ IF o.kind = "bool" THEN i < Len(w) /\ ~is_option(w[i + 1])
                          ELSE i = Len(w) \/ is_option(w[i + 1])
WrongAt(o, w, i) == OutOfRange(w[i]) \/ (Names(o, w[i]) /\ WrongNext(o, w, i))
Wrong(o, w, k) == \E i \in 1..k : WrongAt(o, w, i)

OccurrencesTo(o, w, k) == {i \in 1..k : Names(o, w[i])}
ArgumentsTo(o, w, k) == {j \in 1..Len(w) : \E i \in OccurrencesTo(o, w, k) : j \in ReadAt(w, i)}

(* What is in the map after a pass that did not throw.                     *)
Found(g, f, o, w, k) ==
    IF o.kind = "bool"
    THEN g = IF OccurrencesTo(o, w, k) = {} THEN f ELSE Extended(f, o.long, << >>)
    ELSE Holds(g, f, o.long, ArgumentsTo(o, w, k), w)

PassSo(p, f, o, w, k) ==
    \/ Wrong(o, w, k) /\ p.threw
    \/ ~Wrong(o, w, k) /\ \E g : p = State(g) /\ Found(g, f, o, w, k)

LEMMA ThrowIs == ASSUME NEW g PROVE Throw(State(g)).threw
<1>1. ASSUME NEW b PROVE [[parsed |-> g, threw |-> b] EXCEPT !.threw = TRUE].threw
  OBVIOUS
<1> QED BY <1>1 DEF Throw, State

LEMMA OccurrencesGrow ==
  ASSUME NEW w, NEW o, NEW k \in Nat, NEW h \in Nat, h + 1 = k
  PROVE  /\ Names(o, w[k]) => OccurrencesTo(o, w, k) = OccurrencesTo(o, w, h) \cup {k}
         /\ ~Names(o, w[k]) => OccurrencesTo(o, w, k) = OccurrencesTo(o, w, h)
         /\ Wrong(o, w, k) <=> Wrong(o, w, h) \/ WrongAt(o, w, k)
<1>1. \A i : i \in 1..k <=> i \in 1..h \/ i = k
  OBVIOUS
<1>2. ASSUME Names(o, w[k]) PROVE OccurrencesTo(o, w, k) = OccurrencesTo(o, w, h) \cup {k}
  BY <1>1, <1>2 DEF OccurrencesTo
<1>3. ASSUME ~Names(o, w[k]) PROVE OccurrencesTo(o, w, k) = OccurrencesTo(o, w, h)
  BY <1>1, <1>3 DEF OccurrencesTo
<1>4. Wrong(o, w, k) <=> Wrong(o, w, h) \/ WrongAt(o, w, k)
  BY <1>1 DEF Wrong
<1> QED BY <1>2, <1>3, <1>4, Zenon

LEMMA OccurrencesSame ==
  ASSUME NEW w, NEW o, NEW k \in Nat, NEW h \in Nat, h + 1 = k, ~Names(o, w[k])
  PROVE  OccurrencesTo(o, w, k) = OccurrencesTo(o, w, h)
BY DEF OccurrencesTo

LEMMA ArgumentsGrow ==
  ASSUME NEW w, NEW o, Len(w) \in Nat, NEW k \in 1..Len(w), NEW h \in Nat, h + 1 = k
  PROVE  /\ Names(o, w[k]) =>
              ArgumentsTo(o, w, k) = ArgumentsTo(o, w, h) \cup ArgsTo(w, k, Len(w))
         /\ Names(o, w[k]) => \A j \in ArgumentsTo(o, w, h) : j <= k
<1>0. /\ Names(o, w[k]) => OccurrencesTo(o, w, k) = OccurrencesTo(o, w, h) \cup {k}
      /\ ~Names(o, w[k]) => OccurrencesTo(o, w, k) = OccurrencesTo(o, w, h)
  <2>1. k \in Nat /\ h \in Nat /\ h + 1 = k
    OBVIOUS
  <2> QED BY <2>1, OccurrencesGrow, SMTT(20)
<1>1. ReadAt(w, k) = ArgsTo(w, k, Len(w)) /\ ArgsTo(w, k, Len(w)) \subseteq 1..Len(w)
  BY DEF ReadAt, ArgsTo
<1>2. CASE Names(o, w[k])
  <2>1. OccurrencesTo(o, w, k) = OccurrencesTo(o, w, h) \cup {k}
    BY <1>0, <1>2
  <2>2. \A j \in 1..Len(w) : j \in ArgumentsTo(o, w, k) <=>
            j \in ArgumentsTo(o, w, h) \/ j \in ReadAt(w, k)
    BY <2>1 DEF ArgumentsTo
  <2>3. ArgumentsTo(o, w, k) \subseteq 1..Len(w) /\ ArgumentsTo(o, w, h) \subseteq 1..Len(w)
    BY DEF ArgumentsTo
  <2>4. ArgumentsTo(o, w, k) = ArgumentsTo(o, w, h) \cup ArgsTo(w, k, Len(w))
    BY <1>1, <2>2, <2>3
  <2>5. is_option(w[k])
    BY <1>2 DEF Names
  <2>6. ASSUME NEW j \in ArgumentsTo(o, w, h) PROVE j <= k
    <3>1. PICK i \in OccurrencesTo(o, w, h) : j \in ReadAt(w, i)
      BY <2>6 DEF ArgumentsTo
    <3>2. i \in 1..h /\ j \in i + 1..Len(w) /\ \A m \in i + 1..j : ~is_option(w[m])
      BY <3>1 DEF OccurrencesTo, ReadAt
    <3>3. k \notin i + 1..j
      BY <2>5, <3>2
    <3> QED BY <3>2, <3>3
  <2> QED BY <1>2, <2>4, <2>6
<1> QED BY <1>2

LEMMA PassStep ==
  ASSUME NEW w, Len(w) \in Nat, NEW f, NEW o, o.long \notin DOMAIN f,
         NEW k \in 1..Len(w), NEW h \in Nat, h + 1 = k, NEW p, PassSo(p, f, o, w, h)
  PROVE  PassSo(update_word(p, o, w, k), f, o, w, k)
<1>1. Wrong(o, w, k) <=> Wrong(o, w, h) \/ WrongAt(o, w, k)
  <2>1. k \in Nat
    OBVIOUS
  <2> QED BY <2>1, OccurrencesGrow
<1>2. CASE Wrong(o, w, h)
  <2>1. update_word(p, o, w, k) = p /\ p.threw
    BY <1>2 DEF PassSo, update_word
  <2> QED BY <1>1, <1>2, <2>1 DEF PassSo
<1>3. CASE ~Wrong(o, w, h)
  <2>1. PICK g : p = State(g) /\ Found(g, f, o, w, h)
    BY <1>3 DEF PassSo
  <2>2. p.threw = FALSE /\ Throw(p).threw
    BY <2>1, ThrowIs DEF State
  <2>3. CASE OutOfRange(w[k])
    <3>1. update_word(p, o, w, k) = Throw(p)
      BY <2>2, <2>3 DEF update_word
    <3>2. WrongAt(o, w, k)
      BY <2>3 DEF WrongAt
    <3> QED BY <1>1, <2>2, <3>1, <3>2 DEF PassSo
  <2>4. CASE ~OutOfRange(w[k]) /\ ~Names(o, w[k])
    <3>1. update_word(p, o, w, k) = p
      BY <2>2, <2>4 DEF update_word
    <3>2. ~Wrong(o, w, k)
      BY <1>1, <1>3, <2>4 DEF WrongAt
    <3>3. OccurrencesTo(o, w, k) = OccurrencesTo(o, w, h) /\ ArgumentsTo(o, w, k) = ArgumentsTo(o, w, h)
      <4>1. k \in Nat /\ h \in Nat /\ h + 1 = k
        OBVIOUS
      <4>2. ~Names(o, w[k]) => OccurrencesTo(o, w, k) = OccurrencesTo(o, w, h)
        BY <4>1, OccurrencesSame, Zenon
      <4>3. ~Names(o, w[k]) => ArgumentsTo(o, w, k) = ArgumentsTo(o, w, h)
        BY <4>2, Zenon DEF ArgumentsTo
      <4> QED BY <2>4, <4>2, <4>3, Zenon
    <3>4. Found(g, f, o, w, k)
      BY <2>1, <3>3, Zenon DEF Found
    <3> QED BY <2>1, <3>1, <3>2, <3>4 DEF PassSo
  <2>5. CASE ~OutOfRange(w[k]) /\ Names(o, w[k]) /\ WrongNext(o, w, k)
    <3>1. update_word(p, o, w, k) = Throw(p)
      BY <2>2, <2>5 DEF update_word, WrongNext, ArgumentType, update_none, update_required
    <3>2. WrongAt(o, w, k)
      BY <2>5 DEF WrongAt
    <3> QED BY <1>1, <2>2, <3>1, <3>2 DEF PassSo
  <2>6. CASE ~OutOfRange(w[k]) /\ Names(o, w[k]) /\ ~WrongNext(o, w, k)
    <3>1. ~Wrong(o, w, k)
      BY <1>1, <1>3, <2>6 DEF WrongAt
    <3>2. CASE o.kind = "bool"
      <4>1. update_word(p, o, w, k) = IF Has(p, o.long) THEN p ELSE Insert(p, o.long, << >>)
        BY <2>2, <2>6, <3>2 DEF update_word, WrongNext, ArgumentType, update_none
      <4>2. g = IF OccurrencesTo(o, w, h) = {} THEN f ELSE Extended(f, o.long, << >>)
        BY <2>1, <3>2 DEF Found
      <4>3. k \in OccurrencesTo(o, w, k)
        BY <2>6 DEF OccurrencesTo
      <4>4. update_word(p, o, w, k) = State(Extended(f, o.long, << >>))
        <5>1. CASE g = f
          BY <2>1, <4>1, <5>1, InsertIs DEF Has, State
        <5>2. CASE g = Extended(f, o.long, << >>)
          <6>1. Has(p, o.long)
            BY <2>1, <5>2 DEF Has, State, Extended
          <6> QED BY <2>1, <4>1, <5>2, <6>1
        <5> QED BY <4>2, <5>1, <5>2
      <4>5. Found(Extended(f, o.long, << >>), f, o, w, k)
        BY <3>2, <4>3 DEF Found
      <4> QED BY <3>1, <4>4, <4>5 DEF PassSo
    <3>3. CASE o.kind # "bool"
      <4>1. update_word(p, o, w, k) = update_optional(p, o, w, k)
        BY <2>2, <2>6, <3>3 DEF update_word, WrongNext, ArgumentType, update_required
      <4>2. PICK T : T = ArgumentsTo(o, w, h)
        OBVIOUS
      <4>3. Holds(g, f, o.long, T, w)
        BY <2>1, <3>3, <4>2 DEF Found
      <4>4. T \subseteq Int
        BY <4>2 DEF ArgumentsTo
      <4>5. \A j \in T : j <= k
        BY <2>6, <4>2, ArgumentsGrow
      <4>6. PICK G : /\ update_optional(State(g), o, w, k) = State(G)
                     /\ Holds(G, f, o.long, T \cup ArgsTo(w, k, Len(w)), w)
        BY <4>3, <4>4, <4>5, ReadLoop
      <4>7. T \cup ArgsTo(w, k, Len(w)) = ArgumentsTo(o, w, k)
        <5>1. Names(o, w[k]) =>
                ArgumentsTo(o, w, k) = ArgumentsTo(o, w, h) \cup ArgsTo(w, k, Len(w))
          BY ArgumentsGrow, SMTT(20)
        <5> QED BY <2>6, <4>2, <5>1
      <4>8. Found(G, f, o, w, k)
        BY <3>3, <4>6, <4>7 DEF Found
      <4> QED BY <2>1, <3>1, <4>1, <4>6, <4>8 DEF PassSo
    <3> QED BY <3>2, <3>3
  <2> QED BY <2>3, <2>4, <2>5, <2>6
<1> QED BY <1>2, <1>3

(* The whole pass of an option whose name is not in the map yet.           *)
LEMMA PassLoop ==
  ASSUME NEW w, Len(w) \in Nat, NEW f, NEW o, o.long \notin DOMAIN f
  PROVE  PassSo(add_option(State(f), o, w), f, o, w, Len(w))
<1>1. PICK U : IsUpdated(U, State(f), o, w, Len(w)) /\ add_option(State(f), o, w) = U[Len(w)]
  BY UpdatedIs
<1> DEFINE S == {n \in Nat : n <= Len(w) => PassSo(U[n], f, o, w, n)}
<1>2. 0 \in S
  <2>1. U[0] = State(f)
    BY <1>1 DEF IsUpdated
  <2>2. OccurrencesTo(o, w, 0) = {} /\ ArgumentsTo(o, w, 0) = {} /\ ~Wrong(o, w, 0)
    BY DEF OccurrencesTo, ArgumentsTo, Wrong
  <2>3. Found(f, f, o, w, 0)
    BY <2>2 DEF Found, Holds
  <2>4. PassSo(U[0], f, o, w, 0)
    BY <2>1, <2>2, <2>3 DEF PassSo
  <2> QED BY <2>4
<1>3. ASSUME NEW h \in Nat, h \in S PROVE h + 1 \in S
  <2> SUFFICES ASSUME h + 1 <= Len(w) PROVE PassSo(U[h + 1], f, o, w, h + 1)
    OBVIOUS
  <2>1. PICK k : k = h + 1
    OBVIOUS
  <2>2. k \in 1..Len(w) /\ h + 1 = k /\ k \in 0..Len(w) /\ k # 0 /\ h = k - 1
    BY <2>1
  <2>3. U[k] = update_word(U[h], o, w, k)
    BY <1>1, <2>2 DEF IsUpdated
  <2>4. PassSo(U[h], f, o, w, h)
    BY <1>3
  <2>5. PassSo(U[k], f, o, w, k)
    BY <2>2, <2>3, <2>4, PassStep
  <2> QED BY <2>1, <2>5
<1>4. Nat \subseteq S
  <2> HIDE DEF S
  <2> QED BY <1>2, <1>3, Induct
<1>5. PassSo(U[Len(w)], f, o, w, Len(w))
  BY <1>4
<1> QED BY <1>1, <1>5

(* A handler that threw is left alone.                                     *)
LEMMA ThrewLoop ==
  ASSUME NEW w, Len(w) \in Nat, NEW o, NEW p, p.threw
  PROVE  add_option(p, o, w) = p
<1>1. PICK U : IsUpdated(U, p, o, w, Len(w)) /\ add_option(p, o, w) = U[Len(w)]
  BY UpdatedIs
<1> DEFINE S == {n \in Nat : n <= Len(w) => U[n] = p}
<1>2. 0 \in S
  BY <1>1 DEF IsUpdated
<1>3. ASSUME NEW h \in Nat, h \in S PROVE h + 1 \in S
  <2> SUFFICES ASSUME h + 1 <= Len(w) PROVE U[h + 1] = p
    OBVIOUS
  <2>1. PICK k : k = h + 1
    OBVIOUS
  <2>2. k \in 0..Len(w) /\ k # 0 /\ h = k - 1
    BY <2>1
  <2>3. U[k] = update_word(U[h], o, w, k)
    BY <1>1, <2>2 DEF IsUpdated
  <2>4. U[h] = p
    BY <1>3
  <2>5. U[k] = p
    BY <2>3, <2>4 DEF update_word
  <2> QED BY <2>1, <2>5
<1>4. Nat \subseteq S
  <2> HIDE DEF S
  <2> QED BY <1>2, <1>3, Induct
<1> QED BY <1>1, <1>4

-----------------------------------------------------------------------------
(* The handler after the passes of the options before opt.                 *)

(* What the map says of an option that was registered.                     *)
Entry(g, o, w) ==
    /\ o.long \in DOMAIN g <=> NamedIn(o, w) # {}
    /\ NamedIn(o, w) # {} /\ o.kind # "bool" =>
          \E m \in 1..Len(w) : IsLast(m, ArgumentsTo(o, w, Len(w))) /\ g[o.long] = <<w[m]>>

HandlerSo(p, w, k) ==
    \/ p.threw /\ \E r \in 1..k : Wrong(Registered[r], w, Len(w))
    \/ /\ \A r \in 1..k : ~Wrong(Registered[r], w, Len(w))
       /\ \E g : /\ p = State(g)
                 /\ DOMAIN g \subseteq {Registered[r].long : r \in 1..k}
                 /\ \A r \in 1..k : Entry(g, Registered[r], w)

CInv == pc = "parse" =>
    /\ input \in Seq(Words)
    /\ opt \in 1..Len(Registered) + 1
    /\ \E k \in Nat : k + 1 = opt /\ HandlerSo(handler, input, k)

Kinds == {"bool", "int", "str"}

LEMMA DeclaredIs == DOMAIN Declared = 1..Len(Declared) /\ Len(Declared) \in Nat
<1>1. PICK D : D = Declared
  OBVIOUS
<1>2. D \in Seq([short : STRING, long : STRING, kind : {"bool", "int", "str"}])
  BY <1>1, OptionsAssumption
<1>3. Len(D) \in Nat /\ DOMAIN D = 1..Len(D)
  BY <1>2
<1> QED BY <1>1, <1>3

LEMMA RegisteredIs ==
  /\ Len(Registered) \in Nat /\ Len(Registered) > 0
  /\ Registered[Len(Registered)] = Help
  /\ Len(Registered) = Len(Declared) + 1
  /\ \A r \in 1..Len(Declared) : Registered[r] = Declared[r]
  /\ \A r \in 1..Len(Registered) : Registered[r].kind \in Kinds
  /\ \A r, q \in 1..Len(Registered) : Registered[r].long = Registered[q].long => r = q
<1>1. PICK D : D = Declared
  OBVIOUS
<1>2. D \in Seq([short : STRING, long : STRING, kind : {"bool", "int", "str"}])
  BY <1>1, OptionsAssumption
<1>3. Help.long = "help" /\ Help.kind \in Kinds
  BY DEF Help, Option, Kinds
<1>4. Len(D) \in Nat /\ DOMAIN D = 1..Len(D)
  BY <1>2
<1>5. /\ Len(Append(D, Help)) = Len(D) + 1 /\ Append(D, Help)[Len(D) + 1] = Help
      /\ \A r \in 1..Len(D) : Append(D, Help)[r] = D[r]
  BY <1>2
<1>6. ASSUME NEW r \in 1..Len(D) PROVE D[r].kind \in Kinds
  <2>1. PICK R : R = [short : STRING, long : STRING, kind : {"bool", "int", "str"}]
    OBVIOUS
  <2>2. D \in Seq(R)
    BY <1>2, <2>1, Zenon
  <2>3. D[r] \in R
    BY <2>2
  <2> QED BY <2>1, <2>3 DEF Kinds
<1>7. \A r \in 1..Len(D) : D[r].long # "help"
  BY <1>1, <1>4, OptionsAssumption
<1>8. \A r, q \in 1..Len(D) : D[r].long = D[q].long => r = q
  BY <1>1, <1>4, OptionsAssumption
<1>9. \A r \in 1..Len(D) + 1 : r \in 1..Len(D) \/ r = Len(D) + 1
  BY <1>4
<1>10. Registered = Append(D, Help)
  BY <1>1 DEF Registered
<1>11. /\ Len(Registered) = Len(D) + 1 /\ Registered[Len(D) + 1] = Help
       /\ \A r \in 1..Len(D) : Registered[r] = D[r]
  BY <1>5, <1>10, Zenon
<1>12. \A r \in 1..Len(D) + 1 : Registered[r].kind \in Kinds
  BY <1>3, <1>6, <1>9, <1>11
<1>13. \A r, q \in 1..Len(D) + 1 : Registered[r].long = Registered[q].long => r = q
  BY <1>3, <1>7, <1>8, <1>9, <1>11
<1> QED BY <1>1, <1>4, <1>11, <1>12, <1>13

(* An occurrence that is not wrong has arguments unless it is a bool.      *)
LEMMA RightNext ==
  ASSUME NEW w, Len(w) \in Nat, NEW o, o.kind # "bool", ~Wrong(o, w, Len(w)),
         NEW i \in NamedIn(o, w)
  PROVE  i + 1 \in ArgumentsTo(o, w, Len(w))
<1>1. i \in 1..Len(w) /\ Names(o, w[i]) /\ i \in OccurrencesTo(o, w, Len(w))
  BY DEF NamedIn, OccurrencesTo
<1>2. ~WrongNext(o, w, i)
  BY <1>1 DEF Wrong, WrongAt
<1>3. i # Len(w) /\ ~is_option(w[i + 1])
  BY <1>2 DEF WrongNext
<1>4. i + 1 \in ReadAt(w, i) /\ i + 1 \in 1..Len(w)
  BY <1>1, <1>3 DEF ReadAt
<1> QED BY <1>1, <1>4 DEF ArgumentsTo

LEMMA FoundEntry ==
  ASSUME NEW w, Len(w) \in Nat, NEW f, NEW o, o.long \notin DOMAIN f, ~Wrong(o, w, Len(w)),
         NEW g, Found(g, f, o, w, Len(w))
  PROVE  /\ Entry(g, o, w)
         /\ DOMAIN g \subseteq DOMAIN f \cup {o.long}
         /\ \A n \in DOMAIN f : n \in DOMAIN g /\ g[n] = f[n]
         /\ \A n : n # o.long => (n \in DOMAIN g <=> n \in DOMAIN f)
<1>1. ASSUME NEW x, g = Extended(f, o.long, x)
      PROVE  /\ o.long \in DOMAIN g /\ g[o.long] = x /\ DOMAIN g \subseteq DOMAIN f \cup {o.long}
             /\ \A n \in DOMAIN f : n \in DOMAIN g /\ g[n] = f[n]
             /\ \A n : n # o.long => (n \in DOMAIN g <=> n \in DOMAIN f)
  BY <1>1 DEF Extended
<1>2. OccurrencesTo(o, w, Len(w)) = NamedIn(o, w)
  BY DEF OccurrencesTo, NamedIn
<1>3. CASE o.kind = "bool"
  <2>1. g = IF NamedIn(o, w) = {} THEN f ELSE Extended(f, o.long, << >>)
    BY <1>2, <1>3 DEF Found
  <2>2. CASE NamedIn(o, w) = {}
    BY <1>3, <2>1, <2>2 DEF Entry
  <2>3. CASE NamedIn(o, w) # {}
    BY <1>1, <1>3, <2>1, <2>3 DEF Entry
  <2> QED BY <2>2, <2>3
<1>4. CASE o.kind # "bool"
  <2>1. PICK T : T = ArgumentsTo(o, w, Len(w))
    OBVIOUS
  <2>2. Holds(g, f, o.long, T, w)
    BY <1>4, <2>1 DEF Found
  <2>3. T \subseteq 1..Len(w)
    BY <2>1 DEF ArgumentsTo
  <2>4. NamedIn(o, w) # {} => T # {}
    BY <1>4, <2>1, RightNext
  <2>5. T # {} => NamedIn(o, w) # {}
    BY <1>2, <2>1 DEF ArgumentsTo
  <2>6. CASE T = {} /\ g = f
    BY <2>4, <2>6 DEF Entry
  <2>7. ASSUME NEW m \in T, IsLast(m, T), g = Extended(f, o.long, <<w[m]>>)
        PROVE  Entry(g, o, w)
    BY <1>1, <2>1, <2>3, <2>5, <2>7 DEF Entry
  <2> QED BY <1>1, <2>2, <2>6, <2>7 DEF Holds
<1> QED BY <1>3, <1>4

(* register_option, from one option to the next.                           *)
LEMMA RegisterKeeps ==
  ASSUME NEW w, Len(w) \in Nat, NEW k \in Nat, k < Len(Registered), NEW p, HandlerSo(p, w, k),
         NEW h \in Nat, h = k + 1
  PROVE  HandlerSo(add_option(p, Registered[h], w), w, h)
<1>0. \A r : r \in 1..h <=> r \in 1..k \/ r = h
  OBVIOUS
<1>1. CASE p.threw /\ \E r \in 1..k : Wrong(Registered[r], w, Len(w))
  <2>1. add_option(p, Registered[h], w) = p
    BY <1>1, ThrewLoop
  <2> QED BY <1>0, <1>1, <2>1 DEF HandlerSo
<1>2. ASSUME \A r \in 1..k : ~Wrong(Registered[r], w, Len(w)),
             NEW f, p = State(f), DOMAIN f \subseteq {Registered[r].long : r \in 1..k},
             \A r \in 1..k : Entry(f, Registered[r], w)
      PROVE  HandlerSo(add_option(p, Registered[h], w), w, h)
  <2>1. PICK o : o = Registered[h]
    OBVIOUS
  <2>2. h \in 1..Len(Registered) /\ \A r \in 1..k : r \in 1..Len(Registered) /\ r # h
    BY RegisteredIs
  <2>3. \A r \in 1..k : Registered[r].long # o.long
    BY <2>1, <2>2, RegisteredIs
  <2>4. o.long \notin DOMAIN f
    BY <1>2, <2>3
  <2>5. PassSo(add_option(State(f), o, w), f, o, w, Len(w))
    BY <2>4, PassLoop
  <2>6. CASE Wrong(o, w, Len(w))
    <3>1. add_option(State(f), o, w).threw
      BY <2>5, <2>6 DEF PassSo
    <3> QED BY <1>0, <1>2, <2>1, <2>6, <3>1 DEF HandlerSo
  <2>7. CASE ~Wrong(o, w, Len(w))
    <3>1. PICK g : add_option(State(f), o, w) = State(g) /\ Found(g, f, o, w, Len(w))
      BY <2>5, <2>7 DEF PassSo
    <3>2. /\ Entry(g, o, w)
          /\ DOMAIN g \subseteq DOMAIN f \cup {o.long}
          /\ \A n \in DOMAIN f : n \in DOMAIN g /\ g[n] = f[n]
          /\ \A n : n # o.long => (n \in DOMAIN g <=> n \in DOMAIN f)
      BY <2>4, <2>7, <3>1, FoundEntry
    <3>3. ASSUME NEW r \in 1..k PROVE Entry(g, Registered[r], w)
      <4>1. Entry(f, Registered[r], w) /\ Registered[r].long # o.long
        BY <1>2, <2>3, <3>3
      <4> QED BY <3>2, <4>1 DEF Entry
    <3>4. \A r \in 1..h : Entry(g, Registered[r], w) /\ ~Wrong(Registered[r], w, Len(w))
      BY <1>0, <1>2, <2>1, <2>7, <3>2, <3>3
    <3>5. DOMAIN g \subseteq {Registered[r].long : r \in 1..h}
      BY <1>0, <1>2, <2>1, <3>2
    <3> QED BY <1>2, <2>1, <3>1, <3>4, <3>5 DEF HandlerSo
  <2> QED BY <2>6, <2>7
<1> QED BY <1>1, <1>2 DEF HandlerSo

-----------------------------------------------------------------------------
(* The end of the parse, and the meaning of the command line.              *)

LEMMA NoArguments ==
  ASSUME NEW w, Len(w) \in Nat, NEW i \in 1..Len(w)
  PROVE  ReadAt(w, i) = {} <=> i = Len(w) \/ is_option(w[i + 1])
<1>1. ASSUME i # Len(w), ~is_option(w[i + 1]) PROVE i + 1 \in ReadAt(w, i)
  BY <1>1 DEF ReadAt
<1>2. ASSUME NEW j \in ReadAt(w, i) PROVE i # Len(w) /\ ~is_option(w[i + 1])
  <2>1. j \in i + 1..Len(w) /\ \A m \in i + 1..j : ~is_option(w[m])
    BY <1>2 DEF ReadAt
  <2>2. i + 1 \in i + 1..j /\ i # Len(w)
    BY <2>1
  <2> QED BY <2>1, <2>2
<1> QED BY <1>1, <1>2

InRange(w) == \A i \in 1..Len(w) : ~OutOfRange(w[i])
FormOf(o, w) == \A i \in NamedIn(o, w) : (o.kind = "bool") <=> (ReadAt(w, i) = {})

LEMMA RightIs ==
  ASSUME NEW w, Len(w) \in Nat, NEW o
  PROVE  ~Wrong(o, w, Len(w)) <=> InRange(w) /\ FormOf(o, w)
<1>1. ASSUME InRange(w), NEW i \in 1..Len(w)
      PROVE  WrongAt(o, w, i) <=>
               Names(o, w[i]) /\ ~((o.kind = "bool") <=> (ReadAt(w, i) = {}))
  <2>1. ~OutOfRange(w[i]) /\ (i < Len(w) => ~OutOfRange(w[i + 1]))
    BY <1>1 DEF InRange
  <2>2. WrongAt(o, w, i) <=> Names(o, w[i]) /\ WrongNext(o, w, i)
    BY <2>1 DEF WrongAt
  <2>3. WrongNext(o, w, i) <=> ~((o.kind = "bool") <=> (i = Len(w) \/ is_option(w[i + 1])))
    <3>1. i < Len(w) <=> i # Len(w)
      OBVIOUS
    <3> QED BY <2>1, <3>1, Zenon DEF WrongNext
  <2>4. ReadAt(w, i) = {} <=> i = Len(w) \/ is_option(w[i + 1])
    BY NoArguments
  <2> QED BY <2>2, <2>3, <2>4, Zenon
<1>2. CASE InRange(w)
  <2>1. Wrong(o, w, Len(w)) <=>
          \E i \in 1..Len(w) : Names(o, w[i]) /\ ~((o.kind = "bool") <=> (ReadAt(w, i) = {}))
    BY <1>1, <1>2, Zenon DEF Wrong
  <2>2. FormOf(o, w) <=>
          \A i \in 1..Len(w) : Names(o, w[i]) => ((o.kind = "bool") <=> (ReadAt(w, i) = {}))
    BY DEF FormOf, NamedIn
  <2> QED BY <1>2, <2>1, <2>2, Zenon
<1>3. CASE ~InRange(w)
  BY <1>3, Zenon DEF InRange, Wrong, WrongAt
<1> QED BY <1>2, <1>3

LEMMA WellFormedIs ==
  ASSUME NEW w, Len(w) \in Nat
  PROVE  Readable(w) <=> \A r \in 1..Len(Registered) : ~Wrong(Registered[r], w, Len(w))
<1>1. Readable(w) <=> InRange(w) /\ \A o \in ToSet(Declared) \cup {Help} : FormOf(o, w)
  BY Zenon DEF Readable, InRange, FormOf
<1>2. ToSet(Declared) \cup {Help} = {Registered[r] : r \in 1..Len(Registered)}
  <2>1. DOMAIN Declared = 1..Len(Declared) /\ Len(Declared) \in Nat
    BY DeclaredIs
  <2>2. ToSet(Declared) = {Registered[r] : r \in 1..Len(Declared)}
    BY <2>1, RegisteredIs DEF ToSet
  <2>3. \A r : r \in 1..Len(Registered) <=> r \in 1..Len(Declared) \/ r = Len(Registered)
    BY <2>1, RegisteredIs
  <2> QED BY <2>2, <2>3, RegisteredIs
<1>3. \A r \in 1..Len(Registered) : ~Wrong(Registered[r], w, Len(w)) <=> InRange(w) /\ FormOf(Registered[r], w)
  BY RightIs
<1>4. 1 \in 1..Len(Registered)
  BY RegisteredIs
<1> QED BY <1>1, <1>2, <1>3, <1>4

(* The argument the map holds is the last one of the last occurrence.      *)
LEMMA LastArgumentIs ==
  ASSUME NEW w, Len(w) \in Nat, NEW o, NEW m \in 1..Len(w), IsLast(m, ArgumentsTo(o, w, Len(w)))
  PROVE  LastRead(o, w) = w[m]
<1> DEFINE Q(j) == /\ \E i \in NamedIn(o, w) : j \in ReadAt(w, i)
                   /\ \A i \in NamedIn(o, w) : \A k \in ReadAt(w, i) : k <= j
<1>1. OccurrencesTo(o, w, Len(w)) = NamedIn(o, w)
  BY DEF OccurrencesTo, NamedIn
<1>2. \A i \in NamedIn(o, w) : ReadAt(w, i) \subseteq 1..Len(w)
  BY DEF NamedIn, ReadAt
<1>3. \A j \in 1..Len(w) : Q(j) <=> IsLast(j, ArgumentsTo(o, w, Len(w)))
  BY <1>1, <1>2, Zenon DEF IsLast, ArgumentsTo
<1>4. \A j \in 1..Len(w) : Q(j) => j = m
  <2>1. \A j \in 1..Len(w) : IsLast(j, ArgumentsTo(o, w, Len(w))) => j <= m /\ m <= j
    BY DEF IsLast
  <2>2. \A j \in 1..Len(w) : j <= m /\ m <= j => j = m
    OBVIOUS
  <2> QED BY <1>3, <2>1, <2>2, Zenon
<1>5. Q(m)
  BY <1>3
<1>6. (CHOOSE j \in 1..Len(w) : Q(j)) = m
  BY <1>4, <1>5
<1>7. LastRead(o, w) = w[CHOOSE j \in 1..Len(w) : Q(j)]
  BY DEF LastRead
<1> QED BY <1>6, <1>7

GivenBy(p) == {o \in ToSet(Declared) : get_option(p, o.long)}
GivenIn(w) == {o \in ToSet(Declared) : NamedIn(o, w) # {}}
ValueOf(o, w) == CASE o.kind = "bool" -> TRUE
                   [] o.kind = "int" -> Number(LastRead(o, w))
                   [] o.kind = "str" -> LastRead(o, w)
Refused == [ok |-> FALSE, value |-> << >>]
Answer(p, given) == [ok |-> TRUE, value |-> [n \in {o.long : o \in given} |->
                        Reads(p, CHOOSE o \in given : o.long = n)]]

LEMMA ParseMeans ==
  ASSUME NEW w \in Seq(Words), NEW p, HandlerSo(p, w, Len(Registered))
  PROVE  Parsed(p) = Reading(w)
<1>0. Len(w) \in Nat
  OBVIOUS
<1>1. Readable(w) <=> \A r \in 1..Len(Registered) : ~Wrong(Registered[r], w, Len(w))
  BY <1>0, WellFormedIs
<1>2. CASE p.threw /\ \E r \in 1..Len(Registered) : Wrong(Registered[r], w, Len(w))
  <2>1. Parsed(p) = Refused
    BY <1>2, Zenon DEF Parsed, Refused
  <2>2. ~Readable(w)
    BY <1>1, <1>2, Zenon
  <2>3. Reading(w) = Refused
    BY <2>2, Zenon DEF Reading, Refused
  <2> QED BY <2>1, <2>3
<1>3. ASSUME \A r \in 1..Len(Registered) : ~Wrong(Registered[r], w, Len(w)),
             NEW g, p = State(g), \A r \in 1..Len(Registered) : Entry(g, Registered[r], w)
      PROVE  Parsed(p) = Reading(w)
  <2>1. Readable(w) /\ ~p.threw /\ p.parsed = g
    BY <1>1, <1>3 DEF State
  <2>2. Entry(g, Help, w)
    BY <1>3, RegisteredIs
  <2>3. ASSUME NEW o \in ToSet(Declared) PROVE Entry(g, o, w) /\ o.kind \in Kinds
    <3>1. PICK r \in DOMAIN Declared : o = Declared[r]
      BY DEF ToSet
    <3>2. r \in 1..Len(Declared) /\ r \in 1..Len(Registered)
      <4>1. DOMAIN Declared = 1..Len(Declared) /\ Len(Declared) \in Nat
        BY DeclaredIs
      <4> QED BY <4>1, RegisteredIs
    <3> QED BY <1>3, <3>1, <3>2, RegisteredIs
  <2>4. \A n : get_option(p, n) <=> n \in DOMAIN g
    BY <2>1 DEF get_option, Has
  <2>5. get_option(p, "help") <=> NamedIn(Help, w) # {}
    BY <2>2, <2>4 DEF Entry, Help, Option
  <2>6. GivenBy(p) = GivenIn(w)
    BY <2>3, <2>4 DEF GivenBy, GivenIn, Entry
  <2>7. ASSUME NEW o \in GivenIn(w) PROVE Reads(p, o) = ValueOf(o, w)
    <3>1. o.kind \in Kinds /\ Entry(g, o, w) /\ NamedIn(o, w) # {}
      BY <2>3, <2>7 DEF GivenIn
    <3>2. CASE o.kind = "bool"
      BY <3>2, Zenon DEF Reads, ValueOf
    <3>3. CASE o.kind # "bool"
      <4>1. PICK m \in 1..Len(w) : /\ IsLast(m, ArgumentsTo(o, w, Len(w)))
                                   /\ g[o.long] = <<w[m]>>
        BY <3>1, <3>3 DEF Entry
      <4>2. get_argument(p, o.long) = LastRead(o, w)
        BY <1>0, <2>1, <4>1, LastArgumentIs DEF get_argument
      <4> QED BY <3>1, <3>3, <4>2 DEF Reads, ValueOf, Kinds
    <3> QED BY <3>2, <3>3
  <2> DEFINE ok == NamedIn(Help, w) = {} /\ \A o \in GivenIn(w) : ValueOf(o, w) # BadNumber
  <2>8. Parsed(p) = IF ~ok THEN Refused
                    ELSE Answer(p, GivenIn(w))
    <3>1. Parsed(p) = IF \/ p.threw \/ get_option(p, "help")
                         \/ \E o \in GivenBy(p) : Reads(p, o) = BadNumber
                      THEN Refused
                      ELSE Answer(p, GivenBy(p))
      BY Zenon DEF Parsed, GivenBy, Refused, Answer
    <3>2. (\/ p.threw \/ get_option(p, "help")
           \/ \E o \in GivenBy(p) : Reads(p, o) = BadNumber) <=> ~ok
      BY <2>1, <2>5, <2>6, <2>7, Zenon
    <3> QED BY <2>6, <3>1, <3>2, Zenon
  <2>9. Reading(w) = IF ~ok THEN Refused
                     ELSE [ok |-> TRUE, value |-> [n \in {o.long : o \in GivenIn(w)} |->
                                  ValueOf(CHOOSE o \in GivenIn(w) : o.long = n, w)]]
    <3>1. Reading(w) = IF Readable(w) /\ ok
                       THEN [ok |-> TRUE, value |-> [n \in {o.long : o \in GivenIn(w)} |->
                                  ValueOf(CHOOSE o \in GivenIn(w) : o.long = n, w)]]
                       ELSE Refused
      BY Zenon DEF Reading, GivenIn, ValueOf, Refused
    <3> QED BY <2>1, <3>1, Zenon
  <2>10. \A n \in {o.long : o \in GivenIn(w)} :
            Reads(p, CHOOSE o \in GivenIn(w) : o.long = n) =
            ValueOf(CHOOSE o \in GivenIn(w) : o.long = n, w)
    <3> SUFFICES ASSUME NEW n, \E o \in GivenIn(w) : n = o.long
                 PROVE  Reads(p, CHOOSE o \in GivenIn(w) : o.long = n) =
                        ValueOf(CHOOSE o \in GivenIn(w) : o.long = n, w)
      OBVIOUS
    <3>1. PICK q : q = CHOOSE o \in GivenIn(w) : o.long = n
      OBVIOUS
    <3>2. q \in GivenIn(w)
      BY <3>1
    <3> QED BY <2>7, <3>1, <3>2
  <2>11. [n \in {o.long : o \in GivenIn(w)} |->
              Reads(p, CHOOSE o \in GivenIn(w) : o.long = n)] =
         [n \in {o.long : o \in GivenIn(w)} |->
              ValueOf(CHOOSE o \in GivenIn(w) : o.long = n, w)]
    BY <2>10
  <2> HIDE DEF ok
  <2> QED BY <2>8, <2>9, <2>11, Zenon DEF Answer
<1> QED BY <1>2, <1>3 DEF HandlerSo

(* On a line without a doubtful word the handler reads every word as the   *)
(* help page does, and so the whole line.                                  *)
LEMMA PlainWord ==
  ASSUME NEW w \in Words, ~Doubtful(w), NEW o, o \in ToSet(Declared) \cup {Help}
  PROVE  /\ Names(o, w) <=> Gives(o, w)
         /\ ~is_option(w) <=> IsArgument(w)
         /\ ~OutOfRange(w) <=> w \notin {Word("", "", ""), Word("-", "", "")}
<1>1. w \in [c0 : STRING, c1 : STRING, rest : STRING]
      /\ (w.c0 = "" => w.c1 = "") /\ (w.c1 = "" => w.rest = "")
  BY DEF Words
<1>2. \A a, b, c : w = Word(a, b, c) <=> w.c0 = a /\ w.c1 = b /\ w.rest = c
  <2>1. w = [c0 |-> w.c0, c1 |-> w.c1, rest |-> w.rest]
    BY <1>1
  <2>2. ASSUME NEW a, NEW b, NEW c, w.c0 = a, w.c1 = b, w.rest = c PROVE w = Word(a, b, c)
    BY <2>1, <2>2, Zenon DEF Word
  <2>3. ASSUME NEW a, NEW b, NEW c, w = Word(a, b, c) PROVE w.c0 = a /\ w.c1 = b /\ w.rest = c
    BY <2>3 DEF Word
  <2> QED BY <2>2, <2>3
<1>3. o.long # "" /\ o.short # "" /\ o.short # "-"
  <2>1. CASE o = Help
    BY <2>1 DEF Help, Option
  <2>2. CASE o \in ToSet(Declared)
    <3>1. PICK i \in DOMAIN Declared : o = Declared[i]
      BY <2>2 DEF ToSet
    <3> QED BY <3>1, OptionsAssumption
  <2> QED BY <2>1, <2>2
<1>4. is_option(w) <=> w.c0 = "-"
  BY DEF is_option, is_long, is_short
<1>5. Names(o, w) <=> w.c0 = "-" /\ (w.c1 = o.short \/ w.rest = o.long)
  BY <1>4 DEF Names
<1>6. w.c0 = "-" => Number(w) = BadNumber /\ (w.c1 = "-" \/ (w.c1 # "?" /\ w.rest = ""))
  BY DEF Doubtful
<1>7. Gives(o, w) <=> /\ w.c0 = "-"
                      /\ \/ w.c1 = "-" /\ w.rest = o.long
                         \/ o.short # "?" /\ w.c1 = o.short /\ w.rest = ""
  BY <1>2, Zenon DEF Gives
<1>8. Names(o, w) <=> Gives(o, w)
  BY <1>3, <1>5, <1>6, <1>7, Zenon
<1>9. ~is_option(w) <=> IsArgument(w)
  BY <1>4, <1>6 DEF IsArgument
<1>10. OutOfRange(w) <=> w = Word("", "", "") \/ w = Word("-", "", "")
  BY <1>1, <1>2, Zenon DEF OutOfRange
<1> QED BY <1>8, <1>9, <1>10

LEMMA PlainMeans ==
  ASSUME NEW w \in Seq(Words), Plain(w)
  PROVE  Reading(w) = Meaning(w)
<1>1. ASSUME NEW i \in 1..Len(w), NEW o, o \in ToSet(Declared) \cup {Help}
      PROVE  /\ Names(o, w[i]) <=> Gives(o, w[i])
             /\ ~is_option(w[i]) <=> IsArgument(w[i])
             /\ ~OutOfRange(w[i]) <=> w[i] \notin {Word("", "", ""), Word("-", "", "")}
  <2>1. w[i] \in Words /\ ~Doubtful(w[i])
    BY <1>1 DEF Plain
  <2> QED BY <1>1, <2>1, PlainWord
<1>2. \A o \in ToSet(Declared) \cup {Help} : NamedIn(o, w) = Occurrences(o, w)
  BY <1>1 DEF NamedIn, Occurrences
<1>3. ASSUME NEW i \in 1..Len(w) PROVE ReadAt(w, i) = Arguments(w, i)
  <2>1. Help \in ToSet(Declared) \cup {Help}
    OBVIOUS
  <2>2. \A k \in 1..Len(w) : ~is_option(w[k]) <=> IsArgument(w[k])
    BY <1>1, <2>1
  <2>3. \A j \in i + 1..Len(w) : \A k \in i + 1..j : k \in 1..Len(w)
    OBVIOUS
  <2> QED BY <2>2, <2>3, Zenon DEF ReadAt, Arguments
<1>4. \A o \in ToSet(Declared) \cup {Help} : \A i \in Occurrences(o, w) :
         ReadAt(w, i) = Arguments(w, i)
  BY <1>3 DEF Occurrences
<1>5. ASSUME NEW o \in ToSet(Declared) \cup {Help} PROVE LastRead(o, w) = LastArgument(o, w)
  <2>1. \A j \in 1..Len(w) :
          (/\ \E i \in NamedIn(o, w) : j \in ReadAt(w, i)
           /\ \A i \in NamedIn(o, w) : \A k \in ReadAt(w, i) : k <= j) <=>
          (/\ \E i \in Occurrences(o, w) : j \in Arguments(w, i)
           /\ \A i \in Occurrences(o, w) : \A k \in Arguments(w, i) : k <= j)
    BY <1>2, <1>4, <1>5, Zenon
  <2> QED BY <2>1 DEF LastRead, LastArgument
<1>6. Readable(w) <=> WellFormed(w)
  <2>1. Help \in ToSet(Declared) \cup {Help}
    OBVIOUS
  <2>2. (\A i \in 1..Len(w) : ~OutOfRange(w[i])) <=>
        (\A i \in 1..Len(w) : w[i] \notin {Word("", "", ""), Word("-", "", "")})
    BY <1>1, <2>1
  <2>3. (\A o \in ToSet(Declared) \cup {Help} : \A i \in NamedIn(o, w) :
          (o.kind = "bool") <=> (ReadAt(w, i) = {})) <=>
        (\A o \in ToSet(Declared) \cup {Help} : \A i \in Occurrences(o, w) :
          (o.kind = "bool") <=> (Arguments(w, i) = {}))
    BY <1>2, <1>4, Zenon
  <2> QED BY <2>2, <2>3, Zenon DEF Readable, WellFormed
<1>7. \A o \in ToSet(Declared) : NamedIn(o, w) # {} <=> Occurrences(o, w) # {}
  BY <1>2
<1> DEFINE given == GivenIn(w)
           Value(o) == CASE o.kind = "bool" -> TRUE
                         [] o.kind = "int" -> Number(LastArgument(o, w))
                         [] o.kind = "str" -> LastArgument(o, w)
<1>8. given = {o \in ToSet(Declared) : Occurrences(o, w) # {}}
  BY <1>7 DEF GivenIn
<1>9. \A o \in given : o \in ToSet(Declared) \cup {Help} /\ ValueOf(o, w) = Value(o)
  BY <1>5, Zenon DEF ValueOf, GivenIn
<1>10. Meaning(w) = IF /\ WellFormed(w) /\ Occurrences(Help, w) = {}
                       /\ \A o \in given : Value(o) # BadNumber
                    THEN [ok |-> TRUE, value |-> [n \in {o.long : o \in given} |->
                              Value(CHOOSE o \in given : o.long = n)]]
                    ELSE Refused
  <2> DEFINE found == {o \in ToSet(Declared) : Occurrences(o, w) # {}}
  <2>1. Meaning(w) = IF /\ WellFormed(w) /\ Occurrences(Help, w) = {}
                        /\ \A o \in found : Value(o) # BadNumber
                     THEN [ok |-> TRUE, value |-> [n \in {o.long : o \in found} |->
                               Value(CHOOSE o \in found : o.long = n)]]
                     ELSE Refused
    BY Zenon DEF Meaning, Refused
  <2>2. found = given
    BY <1>8
  <2> HIDE DEF found, given, Value
  <2> QED BY <2>1, <2>2
<1>11. Reading(w) = IF /\ Readable(w) /\ NamedIn(Help, w) = {}
                       /\ \A o \in given : ValueOf(o, w) # BadNumber
                    THEN [ok |-> TRUE, value |-> [n \in {o.long : o \in given} |->
                              ValueOf(CHOOSE o \in given : o.long = n, w)]]
                    ELSE Refused
  BY Zenon DEF Reading, GivenIn, ValueOf, Refused
<1>12. [n \in {o.long : o \in given} |-> ValueOf(CHOOSE o \in given : o.long = n, w)] =
       [n \in {o.long : o \in given} |-> Value(CHOOSE o \in given : o.long = n)]
  <2> HIDE DEF given, Value
  <2>1. \A n \in {o.long : o \in given} :
          ValueOf(CHOOSE o \in given : o.long = n, w) = Value(CHOOSE o \in given : o.long = n)
    <3> SUFFICES ASSUME NEW n, \E o \in given : n = o.long
                 PROVE  ValueOf(CHOOSE o \in given : o.long = n, w) =
                        Value(CHOOSE o \in given : o.long = n)
      OBVIOUS
    <3>1. PICK q : q = CHOOSE o \in given : o.long = n
      OBVIOUS
    <3>2. q \in given
      BY <3>1
    <3> QED BY <1>9, <3>1, <3>2
  <2> QED BY <2>1
<1>13. NamedIn(Help, w) = {} <=> Occurrences(Help, w) = {}
  BY <1>2
<1> HIDE DEF given, Value
<1> QED BY <1>6, <1>9, <1>10, <1>11, <1>12, <1>13, Zenon

LEMMA NoInputIs == NoInput = State(<< >>) /\ DOMAIN (<< >>) = {}
BY DEF NoInput, State

LEMMA FreshParse ==
  ASSUME NEW w \in Seq(Words)
  PROVE  HandlerSo(NoInput, w, 0) /\ 1 \in 1..Len(Registered) + 1
<1>1. \A r \in 1..0 : FALSE
  OBVIOUS
<1>2. DOMAIN (<< >>) \subseteq {Registered[r].long : r \in 1..0}
  BY NoInputIs
<1>3. HandlerSo(NoInput, w, 0)
  BY <1>1, <1>2, NoInputIs DEF HandlerSo
<1> QED BY <1>3, RegisteredIs

LEMMA CInvInit == Init => CInv
<1> SUFFICES ASSUME Init PROVE CInv
  OBVIOUS
<1>1. input \in Seq(Words) /\ handler = NoInput /\ opt = 1
  BY LinesAssumption DEF Init
<1> QED BY <1>1, FreshParse DEF CInv

LEMMA CInvStep == CInv /\ [Next]_vars => CInv'
<1> SUFFICES ASSUME CInv, [Next]_vars PROVE CInv'
  OBVIOUS
<1>1. CASE RegisterOption
  <2>1. /\ pc = "parse" /\ opt <= Len(Registered) /\ pc' = pc /\ input' = input
        /\ handler' = add_option(handler, Registered[opt], input) /\ opt' = opt + 1
    BY <1>1 DEF RegisterOption
  <2>2. PICK k \in Nat : k + 1 = opt /\ HandlerSo(handler, input, k)
    BY <2>1 DEF CInv
  <2>3. input \in Seq(Words) /\ Len(input) \in Nat /\ opt \in Nat /\ k < Len(Registered)
    BY <2>1, <2>2, RegisteredIs DEF CInv
  <2>4. HandlerSo(handler', input, opt)
    <3>1. opt = k + 1
      BY <2>2, <2>3
    <3>2. HandlerSo(add_option(handler, Registered[opt], input), input, opt)
      BY <2>2, <2>3, <3>1, RegisterKeeps, Zenon
    <3> QED BY <2>1, <3>2
  <2>5. opt' \in 1..Len(Registered) + 1
    BY <2>1, <2>3, RegisteredIs
  <2>6. opt + 1 = opt' /\ HandlerSo(handler', input', opt)
    BY <2>1, <2>4
  <2> QED BY <2>1, <2>3, <2>5, <2>6 DEF CInv
<1>2. CASE Restart
  <2>1. input' \in Seq(Words) /\ handler' = NoInput /\ opt' = 1
    BY <1>2, LinesAssumption DEF Restart, Fresh
  <2> QED BY <2>1, FreshParse DEF CInv
<1>3. CASE pc' # "parse"
  BY <1>3 DEF CInv
<1>4. CASE UNCHANGED <<pc, cmd>>
  BY <1>4 DEF CInv, cmd
<1> QED
  BY <1>1, <1>2, <1>3, <1>4
  DEF Next, Main, Endpoints, Background, RegisterOption, ParseArgs, CreateLog, CreateStats,
      BeginRestore, RefuseRestore, FinishRestore, FailRestore, SkipRestore, OpenDb, FailOpenDb,
      StartTcp, StartHttp, HttpReturns, JoinTcp, DestroyDb, DbDeleted, StopStats, JoinStats,
      OpenThrows, Die, Restart, Signal, Kill, TcpStops, HttpStops, TcpBegin, TcpEnd,
      HttpBegin, HttpEnd, Key, Report, BackupCreate, BackupClean, LoopTest, RunEpochs, EndEpochs,
      BackgroundThrows, CallbackCrashes, vars, cmd

(* The passes of Handler::update over the words of the command line give   *)
(* every option what the help page says the line means, or refuse a line   *)
(* that is not well formed, for any options with different names and any   *)
(* line without a doubtful word.                                           *)
THEOREM LineIsUnderstood == Spec => []ParsedAsMeant
<1>1. CInv => ParsedAsMeant
  <2> SUFFICES ASSUME CInv, pc = "parse", opt > Len(Registered), Plain(input)
               PROVE  Parsed(handler) = Meaning(input)
    BY DEF ParsedAsMeant
  <2>1. PICK k \in Nat : k + 1 = opt /\ HandlerSo(handler, input, k)
    BY DEF CInv
  <2>2. k = Len(Registered) /\ input \in Seq(Words)
    BY <2>1, RegisteredIs DEF CInv
  <2> QED BY <2>1, <2>2, ParseMeans, PlainMeans
<1> QED BY <1>1, CInvInit, CInvStep, PTL DEF Spec
=============================================================================

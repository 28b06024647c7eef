------------------------------ MODULE Service ------------------------------
(***************************************************************************)
(* The process: main of service.cpp, the life of the database object and   *)
(* its pointer _db, the endpoints for backups, and the thread of the       *)
(* statistics as far as it uses the database.  The files of the database   *)
(* and its backups outlive the process, which may be killed at any time    *)
(* and started again with another command line.                            *)
(*                                                                         *)
(* The contents of the database are the number of writes applied to it.    *)
(* RocksDB, served and the resolver are not part of the repository: what   *)
(* they do is modelled from their use here, with Faults failures allowed.  *)
(***************************************************************************)
EXTENDS Options

CONSTANTS CommandLines,  \* the command lines the process is started with
          RestartLines,  \* those it is started again with
          LevelWords,    \* arguments of --log_level that log::create knows
          Lost,          \* contents of a database opened on a partial restore
          MaxRuns,       \* bound on starts of the process
          MaxWrites,     \* bound on writes
          MaxBackups,    \* bound on backups
          Faults         \* bound on failures of what is outside

ASSUME LinesAssumption == CommandLines \cup RestartLines \subseteq Seq(Words)

VARIABLES pc,        \* where main is
          input,     \* the words of the command line
          handler,   \* the option handler: NoInput and then what it parsed
          opt,       \* the option that is registered next
          conf,      \* the options main and rocks read
          db,        \* _db: wild, null, open, or being deleted
          stats,     \* the statsd aggregator: none, running, stopping
          bg,        \* its background thread
          epoch,     \* whether open has registered the epoch callback
          tcp, http, \* the servers: off, running, signalled, stopped
          tcpBusy,   \* a TCP thread is in a database call
          op,        \* what the HTTP thread is doing
          disk,      \* contents of the database files
          files,     \* ok, or partial during and after a cut restore
          backups,   \* contents of the backups, oldest first
          runs, faults

cmd == <<input, handler, opt>>
vars == <<pc, cmd, conf, db, stats, bg, epoch, tcp, http, tcpBusy, op,
          disk, files, backups, runs, faults>>
kept == <<disk, files, backups>>
threads == <<tcp, http, tcpBusy, op>>
thread == <<stats, bg, epoch>>

NoConf == [restore |-> FALSE, statsd |-> FALSE, level |-> TRUE]

Init ==
    /\ pc = "parse" /\ input \in CommandLines
    /\ handler = NoInput /\ opt = 1
    /\ conf = NoConf /\ db = "wild"
    /\ stats = "none" /\ bg = "none" /\ epoch = FALSE
    /\ tcp = "off" /\ http = "off" /\ tcpBusy = FALSE /\ op = "none"
    /\ disk = 0 /\ files = "ok" /\ backups = << >>
    /\ runs = 1 /\ faults = 0

(* The variables of a new process: the constructor of rocks leaves _db as  *)
(* it was in memory.                                                       *)
Fresh ==
    /\ handler' = NoInput /\ opt' = 1
    /\ conf' = NoConf /\ db' = "wild"
    /\ stats' = "none" /\ bg' = "none" /\ epoch' = FALSE
    /\ tcp' = "off" /\ http' = "off" /\ tcpBusy' = FALSE /\ op' = "none"

(* Start again, on the files that are there.                               *)
Restart ==
    /\ pc = "exited" /\ runs < MaxRuns
    /\ runs' = runs + 1
    /\ pc' = "parse" /\ input' \in RestartLines /\ Fresh
    /\ UNCHANGED <<kept, faults>>

(* The process is gone without a destructor: std::terminate, or a signal.  *)
Die ==
    /\ pc' = "exited" /\ input' = << >> /\ Fresh
    /\ UNCHANGED <<kept, runs>>

Fault == faults < Faults /\ faults' = faults + 1

-----------------------------------------------------------------------------
(* main up to open.                                                        *)

(* register_option: the handler reads the whole input for each option.     *)
RegisterOption ==
    /\ pc = "parse" /\ opt <= Len(Registered)
    /\ handler' = add_option(handler, Registered[opt], input)
    /\ opt' = opt + 1
    /\ UNCHANGED <<pc, input, conf, db, thread, threads, kept, runs, faults>>

(* A command line that is refused, or asks for help, ends main.            *)
ParseArgs ==
    /\ pc = "parse" /\ opt > Len(Registered)
    /\ LET r == Parsed(handler)
           Given(n) == r.ok /\ n \in DOMAIN r.value IN
       /\ pc' = IF r.ok THEN "log" ELSE "destroy"
       /\ conf' = [restore |-> Given("db_restore_backup"),
                   statsd |-> Given("statsd_address"),
                   level |-> Given("log_level") => r.value["log_level"] \in LevelWords]
    /\ input' = << >> /\ handler' = NoInput /\ opt' = 1
    /\ UNCHANGED <<db, thread, threads, kept, runs, faults>>

(* log::create throws on a level it does not know, and nobody catches it.  *)
CreateLog ==
    /\ pc = "log"
    /\ \/ /\ conf.level /\ pc' = "stats"
          /\ UNCHANGED <<cmd, conf, db, thread, threads, kept, runs, faults>>
       \/ ~conf.level /\ Die /\ UNCHANGED faults

(* The aggregator, or the null one; the address may not resolve.           *)
CreateStats ==
    /\ pc = "stats"
    /\ \/ /\ pc' = "open"
          /\ IF conf.statsd THEN stats' = "running" /\ bg' = "test"
             ELSE UNCHANGED <<stats, bg>>
          /\ UNCHANGED <<cmd, conf, db, epoch, threads, kept, runs, faults>>
       \/ conf.statsd /\ Fault /\ Die

-----------------------------------------------------------------------------
(* rocks::open.  An exception leaves it for main, which returns.           *)

OpenThrows == pc' = "destroy" /\ UNCHANGED <<cmd, conf, thread, threads, backups, runs>>

(* The answer to the question, and the engine that opens the backups.      *)
BeginRestore ==
    /\ pc = "open" /\ conf.restore
    /\ \/ /\ backups # << >>
          /\ pc' = "restoring" /\ files' = "partial"
          /\ UNCHANGED <<cmd, conf, db, thread, threads, disk, backups, runs, faults>>
       \/ backups = << >> /\ OpenThrows /\ UNCHANGED <<db, disk, files, faults>>

RefuseRestore ==
    /\ pc = "open" /\ conf.restore
    /\ OpenThrows /\ UNCHANGED <<db, disk, files, faults>>

FinishRestore ==
    /\ pc = "restoring"
    /\ files' = "ok" /\ disk' = Last(backups)
    /\ pc' = "opendb"
    /\ UNCHANGED <<cmd, conf, db, thread, threads, backups, runs, faults>>

FailRestore_GoesOn ==
    /\ pc = "restoring" /\ Fault
    /\ pc' = "opendb"
    /\ UNCHANGED <<cmd, conf, db, thread, threads, kept, runs>>

FailRestore ==
    /\ pc = "restoring" /\ Fault
    /\ OpenThrows /\ UNCHANGED <<db, disk, files>>

SkipRestore ==
    /\ pc = "open" /\ ~conf.restore
    /\ pc' = "opendb"
    /\ UNCHANGED <<cmd, conf, db, thread, threads, kept, runs, faults>>

OpenDb_CallbackFirst ==
    /\ pc = "opendb"
    /\ \/ /\ pc' = "servers" /\ db' = "open" /\ epoch' = TRUE
          /\ IF files = "partial" THEN disk' = Lost /\ files' = "ok"
             ELSE UNCHANGED <<disk, files>>
          /\ UNCHANGED <<cmd, conf, stats, bg, threads, backups, runs, faults>>
       \/ /\ ~epoch /\ epoch' = TRUE
          /\ UNCHANGED <<pc, cmd, conf, db, stats, bg, threads, kept, runs, faults>>

(* DBWithTTL::Open, then on_epoch.  Files that a cut restore left behind   *)
(* open, if they do, without the data.                                     *)
OpenDb ==
    /\ pc = "opendb"
    /\ pc' = "servers" /\ db' = "open" /\ epoch' = (stats = "running")
    /\ IF files = "partial" THEN disk' = Lost /\ files' = "ok"
       ELSE UNCHANGED <<disk, files>>
    /\ UNCHANGED <<cmd, conf, stats, bg, threads, backups, runs, faults>>

(* It fails: _db is set to nullptr before the exception.                   *)
FailOpenDb ==
    /\ pc = "opendb" /\ Fault
    /\ db' = "null"
    /\ OpenThrows /\ UNCHANGED <<disk, files>>

-----------------------------------------------------------------------------
(* The servers; a port that is taken throws, and nobody catches it.        *)

StartTcp ==
    /\ pc = "servers"
    /\ \/ /\ pc' = "http" /\ tcp' = "running"
          /\ UNCHANGED <<cmd, conf, db, thread, http, tcpBusy, op, kept, runs, faults>>
       \/ Fault /\ Die

StartHttp ==
    /\ pc = "http"
    /\ \/ /\ pc' = "run" /\ http' = "running"
          /\ UNCHANGED <<cmd, conf, db, thread, tcp, tcpBusy, op, kept, runs, faults>>
       \/ Fault /\ Die

(* SIGINT or SIGTERM reaches the servers that wait for it; before there is *)
(* one it ends the process.                                                *)
Stopping(s) == IF s = "running" THEN "signalled" ELSE s
Signal ==
    /\ pc # "exited"
    /\ \/ /\ tcp = "running" \/ http = "running"
          /\ tcp' = Stopping(tcp) /\ http' = Stopping(http)
          /\ UNCHANGED <<pc, cmd, conf, db, thread, tcpBusy, op, kept, runs, faults>>
       \/ tcp = "off" /\ Die /\ UNCHANGED faults

Kill == pc # "exited" /\ Die /\ UNCHANGED faults

(* The TCP server's run returns, once no handler is running.  It need not  *)
(* return at all: TcpServer has the connections that keep it waiting, and  *)
(* StoreCommands the mutex that does.                                      *)
TcpStops ==
    /\ tcp = "signalled" /\ ~tcpBusy /\ tcp' = "stopped"
    /\ UNCHANGED <<pc, cmd, conf, db, thread, http, tcpBusy, op, kept, runs, faults>>

(* The HTTP server's run returns when its handler is done.                 *)
HttpStops ==
    /\ http = "signalled" /\ op = "none" /\ http' = "stopped"
    /\ UNCHANGED <<pc, cmd, conf, db, thread, tcp, tcpBusy, op, kept, runs, faults>>

-----------------------------------------------------------------------------
(* Requests.  A handler is two steps: between them it holds the pointer.   *)

TcpBegin ==
    /\ tcp \in {"running", "signalled"} /\ ~tcpBusy /\ tcpBusy' = TRUE
    /\ UNCHANGED <<pc, cmd, conf, db, thread, tcp, http, op, kept, runs, faults>>

Writes == IF disk # Lost /\ disk < MaxWrites THEN {disk, disk + 1} ELSE {disk}

TcpEnd ==
    /\ tcpBusy /\ tcpBusy' = FALSE
    /\ disk' \in Writes
    /\ UNCHANGED <<pc, cmd, conf, db, thread, tcp, http, op, files, backups, runs, faults>>

HttpOps == {"key", "backup_create", "backup_clean", "backup_info", "stats", "endpoints"}

HttpBegin(o) ==
    /\ http = "running" /\ op = "none" /\ op' = o
    /\ o = "backup_create" => Len(backups) < MaxBackups
    /\ UNCHANGED <<pc, cmd, conf, db, thread, tcp, http, tcpBusy, kept, runs, faults>>

HttpEnd ==
    /\ op' = "none"
    /\ UNCHANGED <<pc, cmd, conf, db, thread, tcp, http, tcpBusy, files, runs>>

(* get, put and post of a key, and the endpoints that only report.         *)
Key == op = "key" /\ HttpEnd /\ disk' \in Writes /\ UNCHANGED <<backups, faults>>
Report == /\ op \in {"backup_info", "stats", "endpoints"} /\ HttpEnd
          /\ UNCHANGED <<disk, backups, faults>>

(* CreateNewBackup of what is in the database now.                         *)
BackupCreate ==
    /\ op = "backup_create" /\ HttpEnd
    /\ \/ backups' = Append(backups, disk) /\ UNCHANGED faults
       \/ Fault /\ UNCHANGED backups
    /\ UNCHANGED disk

(* PurgeOldBackups(1).                                                     *)
BackupClean ==
    /\ op = "backup_clean" /\ HttpEnd
    /\ \/ /\ backups' = IF Len(backups) > 1 THEN <<Last(backups)>> ELSE backups
          /\ UNCHANGED faults
       \/ Fault /\ UNCHANGED backups
    /\ UNCHANGED disk

-----------------------------------------------------------------------------
(* The background thread of the statistics.                                *)

LoopTest_Forever ==
    /\ bg = "test"
    /\ bg' = "epoch"
    /\ UNCHANGED <<pc, cmd, conf, db, stats, epoch, threads, kept, runs, faults>>

LoopTest ==
    /\ bg = "test"
    /\ bg' = IF stats = "running" THEN "epoch" ELSE "done"
    /\ UNCHANGED <<pc, cmd, conf, db, stats, epoch, threads, kept, runs, faults>>

RunEpochs ==
    /\ bg = "epoch"
    /\ bg' = IF epoch THEN "callback" ELSE "test"
    /\ UNCHANGED <<pc, cmd, conf, db, stats, epoch, threads, kept, runs, faults>>

(* The callback has asked _db for its properties and walked the folder.    *)
EndEpochs ==
    /\ bg = "callback" /\ bg' = "test"
    /\ UNCHANGED <<pc, cmd, conf, db, stats, epoch, threads, kept, runs, faults>>

(* The folder's iterator or the socket throws: the thread has no handler.  *)
BackgroundThrows == bg \in {"epoch", "callback"} /\ Fault /\ Die

(* A callback on a database that is gone.                                  *)
CallbackCrashes == bg = "callback" /\ db # "open" /\ Die /\ UNCHANGED faults

-----------------------------------------------------------------------------
(* The end of main.                                                        *)

HttpReturns ==
    /\ pc = "run" /\ http = "stopped"
    /\ pc' = "join"
    /\ UNCHANGED <<cmd, conf, db, thread, threads, kept, runs, faults>>

JoinTcp_Forgotten ==
    /\ pc = "join"
    /\ pc' = "destroy"
    /\ UNCHANGED <<cmd, conf, db, thread, threads, kept, runs, faults>>

JoinTcp ==
    /\ pc = "join" /\ tcp = "stopped"
    /\ pc' = "destroy"
    /\ UNCHANGED <<cmd, conf, db, thread, threads, kept, runs, faults>>

(* ~rocks: a pointer that was never set is deleted if it is not null by    *)
(* chance; a database that is open is closed.                              *)
DestroyDb ==
    /\ pc = "destroy"
    /\ \/ /\ pc' = (IF db = "open" THEN "deleting" ELSE "members")
          /\ db' = (IF db = "open" THEN "deleting" ELSE db)
          /\ UNCHANGED <<cmd, conf, thread, threads, kept, runs, faults>>
       \/ db = "wild" /\ Die /\ UNCHANGED faults

DbDeleted ==
    /\ pc = "deleting"
    /\ db' = "null" /\ pc' = "members"
    /\ UNCHANGED <<cmd, conf, thread, threads, kept, runs, faults>>

(* The members of rocks: _local_stats is the last to hold the aggregator,  *)
(* whose destructor stops and joins its thread.                            *)
StopStats ==
    /\ pc = "members" /\ stats # "stopping"
    /\ IF stats = "running" THEN stats' = "stopping" /\ UNCHANGED pc
       ELSE pc' = "exited" /\ UNCHANGED stats
    /\ UNCHANGED <<cmd, conf, db, bg, epoch, threads, kept, runs, faults>>

JoinStats ==
    /\ pc = "members" /\ stats = "stopping" /\ bg = "done"
    /\ pc' = "exited"
    /\ UNCHANGED <<cmd, conf, db, thread, threads, kept, runs, faults>>

Main ==
    \/ RegisterOption \/ ParseArgs \/ CreateLog \/ CreateStats
    \/ BeginRestore \/ RefuseRestore \/ FinishRestore \/ FailRestore \/ SkipRestore
    \/ OpenDb \/ FailOpenDb \/ StartTcp \/ StartHttp
    \/ HttpReturns \/ JoinTcp \/ DestroyDb \/ DbDeleted \/ StopStats \/ JoinStats

Endpoints == Key \/ Report \/ BackupCreate \/ BackupClean
Background == LoopTest \/ RunEpochs \/ EndEpochs

Next ==
    \/ Main \/ Endpoints \/ TcpEnd \/ Background
    \/ TcpStops \/ HttpStops
    \/ Restart \/ Signal \/ Kill
    \/ TcpBegin \/ (\E o \in HttpOps : HttpBegin(o))
    \/ BackgroundThrows \/ CallbackCrashes

(* main, the HTTP thread and the thread of the statistics run, and a call  *)
(* to the database returns.  Nothing is assumed of the TCP threads: their  *)
(* handlers may wait for ever, and their run may never return.             *)
Spec == /\ Init /\ [][Next]_vars
        /\ WF_vars(Main) /\ WF_vars(Endpoints) /\ WF_vars(Background) /\ WF_vars(HttpStops)

-----------------------------------------------------------------------------
ServiceTypeOK ==
    /\ pc \in {"parse", "log", "stats", "open", "restoring", "opendb", "servers", "http",
               "run", "join", "destroy", "deleting", "members", "exited"}
    /\ db \in {"wild", "null", "open", "deleting"}
    /\ stats \in {"none", "running", "stopping"}
    /\ bg \in {"none", "test", "epoch", "callback", "done"}
    /\ {tcp, http} \subseteq {"off", "running", "signalled", "stopped"}
    /\ op \in HttpOps \cup {"none"}
    /\ disk \in Nat \cup {Lost} /\ files \in {"ok", "partial"}

(* The passes of the option handler over the input find what the help page *)
(* says of the command line, whatever the order, the repetitions and the   *)
(* malformed words in it, unless one of its words is Doubtful.             *)
ParsedAsMeant == (pc = "parse" /\ opt > Len(Registered) /\ Plain(input))
                    => Parsed(handler) = Meaning(input)

(* No request touches the database before it is open or once main has      *)
(* begun to destroy it: both servers are down by then.                     *)
RequestsUseLiveDb == (tcpBusy \/ op # "none") => db = "open"

(* The epoch callback finds the database open, except while main destroys  *)
(* it: the aggregator outlives _db there, since _local_stats holds it.     *)
EpochWindow == bg \in {"epoch", "callback"} /\ epoch =>
    db = "open" \/ pc \in {"deleting", "members"}

(* Whatever failed or was cut before, a process that was asked to restore  *)
(* serves the newest backup or does not serve.                             *)
RestoreServesNewest == [][
    (db # "open" /\ db' = "open" /\ conf.restore) => disk' = Last(backups)]_vars

(* When the TCP server's run has returned and the signal has reached the   *)
(* HTTP server, the process ends: the HTTP request finishes, that run      *)
(* returns, the database is closed beside the callback of an epoch, and    *)
(* the thread of the statistics sees that it is to stop and is joined.     *)
EndsOnceTcpReturns == (tcp = "stopped" /\ http \in {"signalled", "stopped"}) ~> pc = "exited"
=============================================================================

---------------------------- MODULE LogRegistry ----------------------------
(***************************************************************************)
(* The registry of loggers and the loggers it makes.  Every function of    *)
(* the registry holds its mutex, except set_error_handler, which walks the *)
(* map without it.  Users keep a logger after it was dropped, so loggers   *)
(* are objects and the registry maps names to some of them.                *)
(*                                                                         *)
(* logger::log formats, hands the message to one sink after the other and  *)
(* flushes.  An asynchronous logger hands it to its async_log_helper and   *)
(* no sink; what that does with it is AsyncLog's.  An exception on the way *)
(* goes to the logger's error handler, by default one that reports at most *)
(* once a minute.                                                          *)
(***************************************************************************)
EXTENDS Naturals, Functions, Sequences

CONSTANTS Callers, Names, Sinks,
          Helper,           \* the async_log_helpers of asynchronous loggers
          SinkLists,        \* sequences of sinks to make loggers with
          Levels,           \* a set of levels, numbers
          Info, Off,        \* level::info and level::off
          Formatters, DefaultFormatter,
          Handlers, DefaultHandler,
          ErrInterval,      \* 60 seconds
          MaxRegCalls, MaxLogs, SinkFaults, LastMinute

ASSUME RegistryAssumption ==
    /\ Levels \subseteq Nat /\ Info \in Levels /\ Off \in Nat
    /\ ErrInterval \in Nat \ {0}
    /\ Helper \notin Sinks

(* Where a logger may hand a message to.                                   *)
Places == Sinks \cup {Helper}

VARIABLES objects,       \* loggers ever made, in order
          loggers,       \* _loggers: the index of the object, 0 for none
          registry,      \* _level, _formatter, _err_handler, _async_mode
          sink_level,    \* _level of each sink
          got,           \* messages each sink and the helpers were given
          flushed,       \* how many of them were, or are to be, flushed
          caller,        \* what each caller is doing
          owed,          \* history: places each message must reach
          handled,       \* messages whose exception reached the error handler
          overlap,       \* history: set_error_handler met another writer
          minute, regcalls, logs, sfaults

gvars == <<objects, loggers, registry, sink_level, got, flushed, caller, owed, handled,
           overlap, minute, regcalls, logs, sfaults>>

Idle == [at |-> "idle", object |-> 0, msg |-> 0, level |-> 0, next |-> 0,
         handler |-> DefaultHandler, seen |-> {}]

GInit ==
    /\ objects = << >>
    /\ loggers = [n \in Names |-> 0]
    /\ registry = [level |-> Info, formatter |-> DefaultFormatter,
                   handler |-> DefaultHandler, async |-> FALSE]
    /\ sink_level = [k \in Sinks |-> 0]
    /\ got = [k \in Places |-> << >>] /\ flushed = [k \in Places |-> 0]
    /\ caller = [c \in Callers |-> Idle]
    /\ owed = << >> /\ handled = {} /\ overlap = FALSE
    /\ minute = ErrInterval /\ regcalls = 0 /\ logs = 0 /\ sfaults = 0

RegCall(c) ==
    /\ caller[c].at = "idle" /\ regcalls < MaxRegCalls
    /\ regcalls' = regcalls + 1

Walking == {c \in Callers : caller[c].at = "handlers"}
Registered == {n \in Names : loggers[n] # 0}

(* The logger the constructor makes.                                       *)
NewLogger(sinks) ==
    [sinks |-> sinks, formatter |-> DefaultFormatter, level |-> Info, flush |-> Off,
     handler |-> DefaultHandler, last_err |-> 0, own |-> FALSE, async |-> FALSE]

create_KeepsLevel(c, n, sinks) ==
    /\ RegCall(c)
    /\ IF loggers[n] # 0 THEN UNCHANGED <<objects, loggers, overlap>>
       ELSE /\ objects' = Append(objects, [NewLogger(sinks) EXCEPT
                  !.formatter = registry.formatter, !.handler = registry.handler,
                  !.async = registry.async])
            /\ loggers' = [loggers EXCEPT ![n] = Len(objects) + 1]
            /\ overlap' = (overlap \/ Walking # {})
    /\ UNCHANGED <<registry, sink_level, got, flushed, caller, owed, handled, minute, logs, sfaults>>

(* create refuses a name in use; its sinks have been made by then.         *)
create(c, n, sinks) ==
    /\ RegCall(c)
    /\ IF loggers[n] # 0 THEN UNCHANGED <<objects, loggers, overlap>>
       ELSE /\ objects' = Append(objects, [NewLogger(sinks) EXCEPT
                  !.formatter = registry.formatter, !.handler = registry.handler,
                  !.level = registry.level, !.async = registry.async])
            /\ loggers' = [loggers EXCEPT ![n] = Len(objects) + 1]
            /\ overlap' = (overlap \/ Walking # {})
    /\ UNCHANGED <<registry, sink_level, got, flushed, caller, owed, handled, minute, logs, sfaults>>

(* register_logger takes a logger the user made and configured.            *)
register_logger(c, n, sinks) ==
    /\ RegCall(c) /\ loggers[n] = 0
    /\ objects' = Append(objects, [NewLogger(sinks) EXCEPT !.own = TRUE])
    /\ loggers' = [loggers EXCEPT ![n] = Len(objects) + 1]
    /\ overlap' = (overlap \/ Walking # {})
    /\ UNCHANGED <<registry, sink_level, got, flushed, caller, owed, handled, minute, logs, sfaults>>

(* drop of one name or, with drop_all, of all.                             *)
drop(c, names) ==
    /\ RegCall(c)
    /\ loggers' = [n \in Names |-> IF n \in names THEN 0 ELSE loggers[n]]
    /\ overlap' = (overlap \/ Walking # {})
    /\ UNCHANGED <<objects, registry, sink_level, got, flushed, caller, owed, handled, minute, logs, sfaults>>

(* A function that changes a setting of the registry and of every logger   *)
(* in it, holding the mutex.                                               *)
ApplyAll(c, field, value) ==
    /\ RegCall(c)
    /\ objects' = [i \in DOMAIN objects |->
         IF \E n \in Names : loggers[n] = i THEN [objects[i] EXCEPT ![field] = value]
         ELSE objects[i]]
    /\ registry' = [registry EXCEPT ![field] = value]
    /\ UNCHANGED <<loggers, sink_level, got, flushed, caller, owed, handled, overlap, minute, logs, sfaults>>

set_level(c, level) == ApplyAll(c, "level", level)
set_formatter(c, f) == ApplyAll(c, "formatter", f)

set_async_mode(c, async) ==
    /\ RegCall(c)
    /\ registry' = [registry EXCEPT !.async = async]
    /\ UNCHANGED <<objects, loggers, sink_level, got, flushed, caller, owed, handled, overlap,
                   minute, logs, sfaults>>

(* logger::set_level and sink::set_level by the user.                      *)
logger_set_level(c, i, level) ==
    /\ RegCall(c)
    /\ objects' = [objects EXCEPT ![i].level = level, ![i].own = TRUE]
    /\ UNCHANGED <<loggers, registry, sink_level, got, flushed, caller, owed, handled, overlap,
                   minute, logs, sfaults>>

flush_on(c, i, level) ==
    /\ RegCall(c)
    /\ objects' = [objects EXCEPT ![i].flush = level]
    /\ UNCHANGED <<loggers, registry, sink_level, got, flushed, caller, owed, handled, overlap,
                   minute, logs, sfaults>>

sink_set_level(c, k, level) ==
    /\ RegCall(c)
    /\ sink_level' = [sink_level EXCEPT ![k] = level]
    /\ UNCHANGED <<objects, loggers, registry, got, flushed, caller, owed, handled, overlap,
                   minute, logs, sfaults>>

(* set_error_handler: the walk, which other threads may change under it,   *)
(* visits what was there and perhaps what came; then the registry is set.  *)
set_error_handler(c, h) ==
    /\ RegCall(c)
    /\ caller' = [caller EXCEPT ![c] =
         [Idle EXCEPT !.at = "handlers", !.handler = h]]
    /\ overlap' = (overlap \/ Walking # {})
    /\ UNCHANGED <<objects, loggers, registry, sink_level, got, flushed, owed, handled, minute, logs, sfaults>>

VisitLogger(c) ==
    /\ caller[c].at = "handlers"
    /\ \E n \in Registered \ caller[c].seen :
         /\ objects' = [objects EXCEPT ![loggers[n]].handler = caller[c].handler]
         /\ caller' = [caller EXCEPT ![c].seen = @ \cup {n}]
    /\ UNCHANGED <<loggers, registry, sink_level, got, flushed, owed, handled, overlap,
                   minute, regcalls, logs, sfaults>>

SetHandler(c) ==
    /\ caller[c].at = "handlers"
    /\ Registered \subseteq caller[c].seen \/ overlap
    /\ registry' = [registry EXCEPT !.handler = caller[c].handler]
    /\ caller' = [caller EXCEPT ![c] = Idle]
    /\ UNCHANGED <<objects, loggers, sink_level, got, flushed, owed, handled, overlap,
                   minute, regcalls, logs, sfaults>>

-----------------------------------------------------------------------------
should_log(i, level) == level >= objects[i].level

(* The places to which _sink_it of a logger hands a message.               *)
Targets(i) == IF objects[i].async THEN <<Helper>> ELSE objects[i].sinks

(* logger::log, the level tested first.                                    *)
log(c, i, level) ==
    /\ caller[c].at = "idle" /\ logs < MaxLogs
    /\ should_log(i, level)
    /\ logs' = logs + 1
    /\ owed' = Append(owed, Range(Targets(i)))
    /\ caller' = [caller EXCEPT ![c] =
         [Idle EXCEPT !.at = "sinks", !.object = i, !.msg = logs + 1, !.level = level, !.next = 1]]
    /\ UNCHANGED <<objects, loggers, registry, sink_level, got, flushed, handled, overlap,
                   minute, regcalls, sfaults>>

SinksOf(c) == Targets(caller[c].object)

(* sink::should_log; the helper takes every level.                         *)
sink_should_log(k, level) == k = Helper \/ level >= sink_level[k]

logger_sink_it_StopsAtSilent(c) ==
    /\ caller[c].at = "sinks" /\ caller[c].next <= Len(SinksOf(c))
    /\ LET k == SinksOf(c)[caller[c].next]
           silent == ~ sink_should_log(k, caller[c].level)
       IN
       \/ /\ silent
          /\ caller' = [caller EXCEPT ![c].next = Len(SinksOf(c)) + 1]
          /\ owed' = [owed EXCEPT ![caller[c].msg] = @ \ {k}]
          /\ UNCHANGED <<got, sfaults>>
       \/ /\ ~ silent
          /\ got' = [got EXCEPT ![k] = Append(@, caller[c].msg)]
          /\ caller' = [caller EXCEPT ![c].next = @ + 1]
          /\ UNCHANGED <<owed, sfaults>>
       \/ /\ ~ silent /\ sfaults < SinkFaults
          /\ sfaults' = sfaults + 1
          /\ caller' = [caller EXCEPT ![c].at = "error"]
          /\ UNCHANGED <<owed, got>>
    /\ UNCHANGED <<objects, loggers, registry, sink_level, flushed, handled, overlap,
                   minute, regcalls, logs>>

(* _sink_it, one sink: base_sink::log holds the sink's mutex.  That of an  *)
(* asynchronous logger calls the log of its helper, which may throw too.   *)
logger_sink_it(c) ==
    /\ caller[c].at = "sinks" /\ caller[c].next <= Len(SinksOf(c))
    /\ LET k == SinksOf(c)[caller[c].next]
           silent == ~ sink_should_log(k, caller[c].level)
       IN
       \/ /\ silent
          /\ caller' = [caller EXCEPT ![c].next = @ + 1]
          /\ owed' = [owed EXCEPT ![caller[c].msg] = @ \ {k}]
          /\ UNCHANGED <<got, sfaults>>
       \/ /\ ~ silent
          /\ got' = [got EXCEPT ![k] = Append(@, caller[c].msg)]
          /\ caller' = [caller EXCEPT ![c].next = @ + 1]
          /\ UNCHANGED <<owed, sfaults>>
       \/ /\ ~ silent /\ sfaults < SinkFaults
          /\ sfaults' = sfaults + 1
          /\ caller' = [caller EXCEPT ![c].at = "error"]
          /\ UNCHANGED <<owed, got>>
    /\ UNCHANGED <<objects, loggers, registry, sink_level, flushed, handled, overlap,
                   minute, regcalls, logs>>

should_flush_on(c) ==
    caller[c].level >= objects[caller[c].object].flush /\ caller[c].level # Off

(* The end of _sink_it; flush takes no mutex of the sinks.  For the helper *)
(* it is one more message on the queue, which flushes what is before it.   *)
logger_flush(c) ==
    /\ caller[c].at = "sinks" /\ caller[c].next > Len(SinksOf(c))
    /\ flushed' = IF should_flush_on(c)
                  THEN [k \in Places |-> IF \E j \in DOMAIN SinksOf(c) : SinksOf(c)[j] = k
                                        THEN Len(got[k]) ELSE flushed[k]]
                  ELSE flushed
    /\ caller' = [caller EXCEPT ![c] = Idle]
    /\ UNCHANGED <<objects, loggers, registry, sink_level, got, owed, handled, overlap,
                   minute, regcalls, logs, sfaults>>

(* The handler is called; the default one looks at the clock first.        *)
err_handler(c) ==
    /\ caller[c].at = "error"
    /\ handled' = handled \cup {caller[c].msg}
    /\ LET l == objects[caller[c].object] IN
       caller' = IF l.handler = DefaultHandler /\ minute - l.last_err >= ErrInterval
                 THEN [caller EXCEPT ![c].at = "report", ![c].next = minute]
                 ELSE [caller EXCEPT ![c] = Idle]
    /\ UNCHANGED <<objects, loggers, registry, sink_level, got, flushed, owed, overlap,
                   minute, regcalls, logs, sfaults>>

(* The report goes to stderr, then the time of the look is kept.           *)
default_err_handler(c) ==
    /\ caller[c].at = "report"
    /\ objects' = [objects EXCEPT ![caller[c].object].last_err = caller[c].next]
    /\ caller' = [caller EXCEPT ![c] = Idle]
    /\ UNCHANGED <<loggers, registry, sink_level, got, flushed, owed, handled, overlap,
                   minute, regcalls, logs, sfaults>>

NextMinute ==
    /\ minute < LastMinute
    /\ minute' = minute + 1
    /\ UNCHANGED <<objects, loggers, registry, sink_level, got, flushed, caller, owed, handled,
                   overlap, regcalls, logs, sfaults>>

(* The factories make their sinks and call create.                         *)
CreateLogger(c) == \E n \in Names, sinks \in SinkLists : create(c, n, sinks)

RegistryStep(c) ==
    \/ CreateLogger(c)
    \/ \E n \in Names, sinks \in SinkLists : register_logger(c, n, sinks)
    \/ \E names \in {{n} : n \in Names} \cup {Names} : drop(c, names)
    \/ \E level \in Levels : set_level(c, level)
    \/ \E f \in Formatters : set_formatter(c, f)
    \/ \E async \in BOOLEAN : set_async_mode(c, async)
    \/ \E i \in DOMAIN objects, level \in Levels :
         logger_set_level(c, i, level) \/ flush_on(c, i, level)
    \/ \E k \in Sinks, level \in Levels : sink_set_level(c, k, level)
    \/ \E h \in Handlers : set_error_handler(c, h)
    \/ VisitLogger(c) \/ SetHandler(c)

LogStep(c) ==
    \/ \E i \in DOMAIN objects, level \in Levels \cup {Off} : log(c, i, level)
    \/ logger_sink_it(c) \/ logger_flush(c) \/ err_handler(c) \/ default_err_handler(c)

GNext == NextMinute \/ \E c \in Callers : RegistryStep(c) \/ LogStep(c)

GSpec == GInit /\ [][GNext]_gvars

-----------------------------------------------------------------------------
(* A logger the registry made and its user left alone has the settings of  *)
(* the registry, however creations and settings interleave.  For the error *)
(* handler this needs that no logger came or went, and no second handler   *)
(* was set, during the walk of set_error_handler, which takes no lock.     *)
LoggersAgree == \A n \in Registered :
    LET l == objects[loggers[n]] IN ~ l.own =>
    /\ l.level = registry.level /\ l.formatter = registry.formatter
    /\ (Walking = {} /\ ~ overlap) => l.handler = registry.handler

(* When the call for a message has returned, every sink of a synchronous   *)
(* logger that did not refuse its level has it, once; that of an           *)
(* asynchronous logger has been handed to its helper, once; or the         *)
(* exception of one of them has reached the error handler.                 *)
DeliveredOrHandled == \A m \in 1..logs :
    /\ \A k \in Places : \A i, j \in DOMAIN got[k] : got[k][i] = m /\ got[k][j] = m => i = j
    /\ (\A c \in Callers : caller[c].msg # m) /\ m \notin handled =>
         \A k \in owed[m] : m \in Range(got[k])
=============================================================================

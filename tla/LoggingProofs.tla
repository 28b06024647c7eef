--------------------------- MODULE LoggingProofs ---------------------------
(***************************************************************************)
(* Proofs about the logging library: the registry of loggers, the          *)
(* synchronous logger and the two file sinks.  The three components share  *)
(* no state; each has its own inductive invariant.                         *)
(***************************************************************************)
EXTENDS LogRegistry, RotatingFile, DailyFile, TLAPS

(* The registry, for any number of callers, names and sinks.  GInv says    *)
(* what the loggers in the map have in common with the registry's own      *)
(* settings, and what a caller that walks the map has done so far.         *)

AllFormatters == Formatters \cup {DefaultFormatter}
AllHandlers == Handlers \cup {DefaultHandler}

LoggerRecords ==
    [sinks : SinkLists, formatter : AllFormatters, level : Levels, flush : Levels \cup {Off},
     handler : AllHandlers, last_err : Nat, own : BOOLEAN, async : BOOLEAN]

CallerRecords ==
    [at : {"idle", "handlers", "sinks", "error", "report"}, object : Nat, msg : Nat,
     level : Nat, next : Nat, handler : AllHandlers, seen : SUBSET Names]

RegistryTypes ==
    /\ objects \in Seq(LoggerRecords)
    /\ loggers \in [Names -> Nat]
    /\ registry \in [level : Levels, formatter : AllFormatters, handler : AllHandlers,
                     async : BOOLEAN]
    /\ caller \in [Callers -> CallerRecords]
    /\ overlap \in BOOLEAN /\ minute \in Nat /\ logs \in Nat

(* A logger has one name.                                                  *)
Names1 ==
    /\ \A n \in Names : loggers[n] <= Len(objects)
    /\ \A n, m \in Names : (loggers[n] = loggers[m] /\ loggers[n] # 0) => n = m

(* Loggers the registry made and their users left alone.                   *)
Plain(n) == n \in Names /\ loggers[n] # 0 /\ objects[loggers[n]].own = FALSE

Settings == \A n \in Names : Plain(n) =>
    /\ objects[loggers[n]].level = registry.level
    /\ objects[loggers[n]].formatter = registry.formatter

(* While one walk of set_error_handler is under way and met nobody, the    *)
(* loggers it has visited have the new handler, the others the old one.    *)
Handlers1 == ~ overlap =>
    /\ \A c, d \in Walking : c = d
    /\ \A c \in Walking, n \in Names : Plain(n) =>
         objects[loggers[n]].handler =
             IF n \in caller[c].seen THEN caller[c].handler ELSE registry.handler
    /\ Walking = {} => \A n \in Names : Plain(n) =>
         objects[loggers[n]].handler = registry.handler

GInv == RegistryTypes /\ Names1 /\ Settings /\ Handlers1

-----------------------------------------------------------------------------
(* Steps that leave names, settings and walks alone.                       *)
LEMMA QuietStep ==
  ASSUME GInv, RegistryTypes', UNCHANGED <<loggers, registry, overlap>>,
         Len(objects') = Len(objects),
         \A i \in 1..Len(objects) : objects'[i].own = FALSE =>
             /\ objects[i].own = FALSE /\ objects'[i].level = objects[i].level
             /\ objects'[i].formatter = objects[i].formatter
             /\ objects'[i].handler = objects[i].handler,
         \A d \in Callers : /\ caller'[d].at = "handlers" <=> caller[d].at = "handlers"
                            /\ caller[d].at = "handlers" => caller'[d] = caller[d]
  PROVE  GInv'
<1>1. Names1'
  BY DEF GInv, Names1
<1>2. \A n \in Names : loggers[n] # 0 => loggers[n] \in 1..Len(objects)
  BY DEF GInv, Names1, RegistryTypes
<1>3. \A n \in Names : Plain(n)' =>
         /\ Plain(n) /\ objects'[loggers'[n]].level = objects[loggers[n]].level
         /\ objects'[loggers'[n]].formatter = objects[loggers[n]].formatter
         /\ objects'[loggers'[n]].handler = objects[loggers[n]].handler
  BY <1>2 DEF Plain
<1>4. Settings'
  BY <1>3 DEF GInv, Settings
<1>5. Walking' = Walking /\ \A d \in Walking : d \in Callers /\ caller'[d] = caller[d]
  BY DEF Walking
<1>6. Handlers1'
  BY <1>3, <1>5 DEF GInv, Handlers1
<1> QED BY <1>1, <1>4, <1>6 DEF GInv

(* Changing one field of one logger.                                       *)
LEMMA SetField ==
  ASSUME objects \in Seq(LoggerRecords), NEW i \in Nat, NEW r,
         i \in 1..Len(objects) => r \in LoggerRecords,
         objects' = [objects EXCEPT ![i] = r]
  PROVE  /\ objects' \in Seq(LoggerRecords) /\ Len(objects') = Len(objects)
         /\ \A j \in 1..Len(objects) : objects'[j] = IF j = i THEN r ELSE objects[j]
<1>1. Len(objects) \in Nat /\ objects \in [1..Len(objects) -> LoggerRecords]
  OBVIOUS
<1>2. objects' \in [1..Len(objects) -> LoggerRecords]
  BY <1>1
<1>3. objects' \in Seq(LoggerRecords) /\ Len(objects') = Len(objects)
  BY <1>1, <1>2
<1> QED BY <1>1, <1>3

(* A new logger under a free name, with its settings from the registry or  *)
(* configured by its user.                                                 *)
LEMMA NewName ==
  ASSUME GInv, NEW n \in Names, NEW o \in LoggerRecords, loggers[n] = 0,
         objects' = Append(objects, o), loggers' = [loggers EXCEPT ![n] = Len(objects) + 1],
         overlap' = (overlap \/ Walking # {}),
         UNCHANGED <<registry, caller, minute, logs>>,
         o.own = FALSE => /\ o.level = registry.level /\ o.formatter = registry.formatter
                          /\ o.handler = registry.handler
  PROVE  GInv'
<1>1. /\ objects' \in Seq(LoggerRecords) /\ Len(objects') = Len(objects) + 1
      /\ \A i \in 1..Len(objects) : objects'[i] = objects[i]
      /\ objects'[Len(objects) + 1] = o
  BY DEF GInv, RegistryTypes
<1>2. loggers' \in [Names -> Nat]
  BY DEF GInv, RegistryTypes
<1>3. overlap' \in BOOLEAN
  BY Zenon
<1>4. RegistryTypes'
  BY <1>1, <1>2, <1>3 DEF GInv, RegistryTypes
<1>5. Names1'
  BY <1>1 DEF GInv, Names1, RegistryTypes
<1>6. \A m \in Names : m # n /\ Plain(m)' => Plain(m) /\ objects'[loggers'[m]] = objects[loggers[m]]
  BY <1>1 DEF Plain, GInv, Names1, RegistryTypes
<1>7. loggers'[n] = Len(objects) + 1 /\ objects'[loggers'[n]] = o
  BY <1>1 DEF GInv, RegistryTypes
<1>8. Settings'
  BY <1>6, <1>7 DEF GInv, Settings, Plain
<1>9. Walking' = Walking
  BY DEF Walking
<1>10. Handlers1'
  <2>1. ~ overlap' => ~ overlap /\ Walking = {}
    BY Zenon
  <2> QED BY <1>6, <1>7, <1>9, <2>1 DEF GInv, Handlers1, Plain
<1> QED BY <1>4, <1>5, <1>8, <1>10 DEF GInv

(* The registry changes a setting of its own and of all its loggers.       *)
LEMMA SettingForAll ==
  ASSUME GInv, NEW c \in Callers, NEW v,
         (v \in Levels /\ ApplyAll(c, "level", v))
           \/ (v \in AllFormatters /\ ApplyAll(c, "formatter", v))
  PROVE  GInv'
<1>0. UNCHANGED <<loggers, caller, overlap, minute, logs>>
  BY DEF ApplyAll
<1>1. Len(objects) \in Nat /\ DOMAIN objects = 1..Len(objects)
  BY DEF GInv, RegistryTypes
<1> DEFINE Named(i) == \E n \in Names : loggers[n] = i
<1>2. ASSUME v \in Levels, ApplyAll(c, "level", v) PROVE GInv'
  <2>1. objects' = [i \in 1..Len(objects) |->
           IF Named(i) THEN [objects[i] EXCEPT !.level = v] ELSE objects[i]]
    BY <1>1, <1>2 DEF ApplyAll
  <2>2. \A i \in 1..Len(objects) : objects[i] \in LoggerRecords
    BY DEF GInv, RegistryTypes
  <2>3. \A i \in 1..Len(objects) :
           /\ objects'[i] \in LoggerRecords
           /\ objects'[i].own = objects[i].own /\ objects'[i].handler = objects[i].handler
           /\ objects'[i].formatter = objects[i].formatter
           /\ Named(i) => objects'[i].level = v
    BY <1>2, <2>1, <2>2 DEF LoggerRecords
  <2> HIDE DEF Named
  <2>4. objects' \in Seq(LoggerRecords) /\ Len(objects') = Len(objects)
    BY <1>1, <2>1, <2>3
  <2> USE DEF Named
  <2>5. /\ registry' \in [level : Levels, formatter : AllFormatters, handler : AllHandlers,
                          async : BOOLEAN]
        /\ registry'.level = v /\ registry'.formatter = registry.formatter
        /\ registry'.handler = registry.handler
    BY <1>2 DEF ApplyAll, GInv, RegistryTypes
  <2>6. RegistryTypes'
    BY <1>0, <2>4, <2>5 DEF GInv, RegistryTypes
  <2>7. Names1'
    BY <1>0, <2>4 DEF GInv, Names1
  <2>8. \A n \in Names : Plain(n)' =>
          /\ Plain(n) /\ loggers[n] \in 1..Len(objects)
          /\ objects'[loggers'[n]].level = v
          /\ objects'[loggers'[n]].formatter = objects[loggers[n]].formatter
          /\ objects'[loggers'[n]].handler = objects[loggers[n]].handler
    <3>1. \A n \in Names : loggers[n] # 0 => loggers[n] \in 1..Len(objects)
      BY DEF GInv, Names1, RegistryTypes
    <3> QED BY <1>0, <2>3, <3>1 DEF Plain
  <2>9. Settings'
    BY <2>5, <2>8 DEF GInv, Settings
  <2>10. Handlers1'
    <3>1. Walking' = Walking
      BY <1>0 DEF Walking
    <3> QED BY <1>0, <2>5, <2>8, <3>1 DEF GInv, Handlers1
  <2> QED BY <2>6, <2>7, <2>9, <2>10 DEF GInv
<1>3. ASSUME v \in AllFormatters, ApplyAll(c, "formatter", v) PROVE GInv'
  <2>1. objects' = [i \in 1..Len(objects) |->
           IF Named(i) THEN [objects[i] EXCEPT !.formatter = v] ELSE objects[i]]
    BY <1>1, <1>3 DEF ApplyAll
  <2>2. \A i \in 1..Len(objects) : objects[i] \in LoggerRecords
    BY DEF GInv, RegistryTypes
  <2>3. \A i \in 1..Len(objects) :
           /\ objects'[i] \in LoggerRecords
           /\ objects'[i].own = objects[i].own /\ objects'[i].handler = objects[i].handler
           /\ objects'[i].level = objects[i].level
           /\ Named(i) => objects'[i].formatter = v
    BY <1>3, <2>1, <2>2 DEF LoggerRecords
  <2> HIDE DEF Named
  <2>4. objects' \in Seq(LoggerRecords) /\ Len(objects') = Len(objects)
    BY <1>1, <2>1, <2>3
  <2> USE DEF Named
  <2>5. /\ registry' \in [level : Levels, formatter : AllFormatters, handler : AllHandlers,
                          async : BOOLEAN]
        /\ registry'.formatter = v /\ registry'.level = registry.level
        /\ registry'.handler = registry.handler
    BY <1>3 DEF ApplyAll, GInv, RegistryTypes
  <2>6. RegistryTypes'
    BY <1>0, <2>4, <2>5 DEF GInv, RegistryTypes
  <2>7. Names1'
    BY <1>0, <2>4 DEF GInv, Names1
  <2>8. \A n \in Names : Plain(n)' =>
          /\ Plain(n) /\ loggers[n] \in 1..Len(objects)
          /\ objects'[loggers'[n]].formatter = v
          /\ objects'[loggers'[n]].level = objects[loggers[n]].level
          /\ objects'[loggers'[n]].handler = objects[loggers[n]].handler
    <3>1. \A n \in Names : loggers[n] # 0 => loggers[n] \in 1..Len(objects)
      BY DEF GInv, Names1, RegistryTypes
    <3> QED BY <1>0, <2>3, <3>1 DEF Plain
  <2>9. Settings'
    BY <2>5, <2>8 DEF GInv, Settings
  <2>10. Handlers1'
    <3>1. Walking' = Walking
      BY <1>0 DEF Walking
    <3> QED BY <1>0, <2>5, <2>8, <3>1 DEF GInv, Handlers1
  <2> QED BY <2>6, <2>7, <2>9, <2>10 DEF GInv
<1> QED BY <1>2, <1>3

-----------------------------------------------------------------------------
LEMMA CreateKeeps ==
  ASSUME GInv, NEW c \in Callers, NEW n \in Names, NEW sinks \in SinkLists,
         create(c, n, sinks) \/ register_logger(c, n, sinks)
  PROVE  GInv'
<1>0. Info \in Levels
  BY RegistryAssumption
<1>1. NewLogger(sinks) \in LoggerRecords
  BY <1>0 DEF NewLogger, LoggerRecords, AllFormatters, AllHandlers
<1>2. UNCHANGED <<registry, caller, minute, logs>>
  BY DEF create, register_logger
<1>3. CASE create(c, n, sinks) /\ loggers[n] # 0
  <2>1. UNCHANGED <<objects, loggers, overlap>>
    BY <1>3 DEF create
  <2> QED BY <1>2, <2>1 DEF GInv, RegistryTypes, Names1, Settings, Plain, Handlers1, Walking
<1>4. CASE create(c, n, sinks) /\ loggers[n] = 0
  <2> DEFINE o == [NewLogger(sinks) EXCEPT
               !.formatter = registry.formatter, !.handler = registry.handler,
               !.level = registry.level, !.async = registry.async]
  <2>1. /\ o \in LoggerRecords /\ o.level = registry.level
        /\ o.formatter = registry.formatter /\ o.handler = registry.handler
    BY <1>1 DEF GInv, RegistryTypes, LoggerRecords
  <2>2. /\ objects' = Append(objects, o) /\ loggers' = [loggers EXCEPT ![n] = Len(objects) + 1]
        /\ overlap' = (overlap \/ Walking # {})
    BY <1>4, Zenon DEF create
  <2> HIDE DEF o
  <2> QED BY <1>2, <1>4, <2>1, <2>2, NewName
<1>5. CASE register_logger(c, n, sinks)
  <2> DEFINE o == [NewLogger(sinks) EXCEPT !.own = TRUE]
  <2>1. o \in LoggerRecords /\ o.own = TRUE
    BY <1>1 DEF LoggerRecords
  <2>2. /\ objects' = Append(objects, o) /\ loggers' = [loggers EXCEPT ![n] = Len(objects) + 1]
        /\ overlap' = (overlap \/ Walking # {}) /\ loggers[n] = 0
    BY <1>5, Zenon DEF register_logger
  <2> HIDE DEF o
  <2> QED BY <1>2, <2>1, <2>2, NewName
<1> QED BY <1>3, <1>4, <1>5

LEMMA DropKeeps ==
  ASSUME GInv, NEW c \in Callers, NEW names \in SUBSET Names, drop(c, names) PROVE GInv'
<1>1. /\ UNCHANGED <<objects, registry, caller, minute, logs>>
      /\ loggers' = [n \in Names |-> IF n \in names THEN 0 ELSE loggers[n]]
      /\ overlap' = (overlap \/ Walking # {})
  BY Zenon DEF drop
<1>2. overlap' \in BOOLEAN /\ (~ overlap' => ~ overlap /\ Walking = {})
  BY <1>1, Zenon
<1>3. RegistryTypes' /\ Names1'
  BY <1>1, <1>2 DEF GInv, RegistryTypes, Names1
<1>4. \A n \in Names : Plain(n)' => Plain(n) /\ loggers'[n] = loggers[n]
  BY <1>1 DEF Plain
<1>5. Settings'
  BY <1>1, <1>4 DEF GInv, Settings
<1>6. Handlers1'
  <2>1. Walking' = Walking
    BY <1>1 DEF Walking
  <2> QED BY <1>1, <1>2, <1>4, <2>1 DEF GInv, Handlers1
<1> QED BY <1>3, <1>5, <1>6 DEF GInv

(* Steps that change one logger outside the three settings, or mark it as  *)
(* its user's own.                                                         *)
LEMMA UserKeeps ==
  ASSUME GInv, NEW c \in Callers, NEW i \in DOMAIN objects, NEW level \in Levels,
         logger_set_level(c, i, level) \/ flush_on(c, i, level)
  PROVE  GInv'
<1>0. i \in Nat /\ i \in 1..Len(objects) /\ objects \in Seq(LoggerRecords)
      /\ objects[i] \in LoggerRecords
  BY DEF GInv, RegistryTypes
<1>1. UNCHANGED <<loggers, registry, overlap, caller, minute, logs>>
  BY DEF logger_set_level, flush_on
<1>2. PICK r \in LoggerRecords :
        /\ objects' = [objects EXCEPT ![i] = r]
        /\ r.own = FALSE => /\ objects[i].own = FALSE /\ r.level = objects[i].level
                            /\ r.formatter = objects[i].formatter
                            /\ r.handler = objects[i].handler
  <2>1. CASE logger_set_level(c, i, level)
    <3> DEFINE r == [objects[i] EXCEPT !.level = level, !.own = TRUE]
    <3>1. r \in LoggerRecords /\ r.own = TRUE
      BY <1>0 DEF LoggerRecords
    <3>2. objects' = [objects EXCEPT ![i] = r]
      BY <1>0, <2>1 DEF logger_set_level, LoggerRecords
    <3> HIDE DEF r
    <3> QED BY <3>1, <3>2
  <2>2. CASE flush_on(c, i, level)
    <3> DEFINE r == [objects[i] EXCEPT !.flush = level]
    <3>1. /\ r \in LoggerRecords /\ r.own = objects[i].own /\ r.level = objects[i].level
          /\ r.formatter = objects[i].formatter /\ r.handler = objects[i].handler
      BY <1>0 DEF LoggerRecords
    <3>2. objects' = [objects EXCEPT ![i] = r]
      BY <2>2 DEF flush_on
    <3> HIDE DEF r
    <3> QED BY <3>1, <3>2
  <2> QED BY <2>1, <2>2
<1>3. /\ objects' \in Seq(LoggerRecords) /\ Len(objects') = Len(objects)
      /\ \A j \in 1..Len(objects) : objects'[j] = IF j = i THEN r ELSE objects[j]
  BY <1>0, <1>2, SetField
<1>4. RegistryTypes'
  BY <1>1, <1>3 DEF GInv, RegistryTypes
<1> QED BY <1>1, <1>2, <1>3, <1>4, QuietStep

(* The walk of set_error_handler.                                          *)
LEMMA WalkStarts ==
  ASSUME GInv, NEW c \in Callers, NEW h \in Handlers, set_error_handler(c, h)
  PROVE  GInv'
<1>0. /\ UNCHANGED <<objects, loggers, registry, minute, logs>> /\ caller[c].at = "idle"
      /\ overlap' = (overlap \/ Walking # {})
  BY Zenon DEF set_error_handler, RegCall
<1>1. overlap' \in BOOLEAN /\ (~ overlap' => ~ overlap /\ Walking = {})
  BY <1>0, Zenon
<1>2. /\ caller' \in [Callers -> CallerRecords] /\ caller'[c].at = "handlers"
      /\ caller'[c].seen = {} /\ caller'[c].handler = h
      /\ \A d \in Callers : d # c => caller'[d] = caller[d]
  BY DEF set_error_handler, Idle, GInv, RegistryTypes, CallerRecords, AllHandlers
<1>3. RegistryTypes' /\ Names1'
  BY <1>0, <1>1, <1>2 DEF GInv, RegistryTypes, Names1
<1>4. Settings'
  BY <1>0 DEF GInv, Settings, Plain
<1>5. Handlers1'
  <2>1. Walking' = Walking \cup {c}
    BY <1>2 DEF Walking
  <2>2. \A n : Plain(n)' <=> Plain(n)
    BY <1>0 DEF Plain
  <2> QED BY <1>0, <1>1, <1>2, <2>1, <2>2 DEF GInv, Handlers1
<1> QED BY <1>3, <1>4, <1>5 DEF GInv

LEMMA WalkVisits == ASSUME GInv, NEW c \in Callers, VisitLogger(c) PROVE GInv'
<1>1. PICK n \in Registered \ caller[c].seen :
        /\ objects' = [objects EXCEPT ![loggers[n]].handler = caller[c].handler]
        /\ caller' = [caller EXCEPT ![c].seen = @ \cup {n}]
  BY DEF VisitLogger
<1>2. UNCHANGED <<loggers, registry, overlap, minute, logs>> /\ caller[c].at = "handlers"
  BY DEF VisitLogger
<1>3. /\ n \in Names /\ loggers[n] \in 1..Len(objects) /\ loggers[n] \in Nat
      /\ objects \in Seq(LoggerRecords) /\ objects[loggers[n]] \in LoggerRecords
      /\ caller[c] \in CallerRecords
  BY DEF GInv, RegistryTypes, Names1, Registered
<1> DEFINE r == [objects[loggers[n]] EXCEPT !.handler = caller[c].handler]
<1>4. /\ r \in LoggerRecords /\ r.own = objects[loggers[n]].own
      /\ r.level = objects[loggers[n]].level /\ r.formatter = objects[loggers[n]].formatter
      /\ r.handler = caller[c].handler
  BY <1>3 DEF LoggerRecords, CallerRecords
<1>5. objects' = [objects EXCEPT ![loggers[n]] = r]
  BY <1>1
<1> HIDE DEF r
<1>6. /\ objects' \in Seq(LoggerRecords) /\ Len(objects') = Len(objects)
      /\ \A j \in 1..Len(objects) : objects'[j] = IF j = loggers[n] THEN r ELSE objects[j]
  BY <1>3, <1>4, <1>5, SetField
<1>7. /\ caller' \in [Callers -> CallerRecords] /\ caller'[c].at = "handlers"
      /\ caller'[c].handler = caller[c].handler /\ caller'[c].seen = caller[c].seen \cup {n}
      /\ \A d \in Callers : d # c => caller'[d] = caller[d]
  BY <1>1, <1>2, <1>3 DEF GInv, RegistryTypes, CallerRecords
<1>8. RegistryTypes' /\ Names1'
  BY <1>2, <1>6, <1>7 DEF GInv, RegistryTypes, Names1
<1>9. \A m \in Names : Plain(m)' =>
        /\ Plain(m) /\ objects'[loggers'[m]].level = objects[loggers[m]].level
        /\ objects'[loggers'[m]].formatter = objects[loggers[m]].formatter
        /\ objects'[loggers'[m]].handler =
              IF m = n THEN caller[c].handler ELSE objects[loggers[m]].handler
  <2>1. \A m \in Names : loggers[m] # 0 => loggers[m] \in 1..Len(objects)
    BY DEF GInv, RegistryTypes, Names1
  <2>2. \A m \in Names : loggers[m] = loggers[n] /\ loggers[m] # 0 => m = n
    BY <1>3 DEF GInv, Names1
  <2> QED BY <1>2, <1>3, <1>4, <1>6, <2>1, <2>2 DEF Plain
<1>10. Settings'
  BY <1>2, <1>9 DEF GInv, Settings
<1>11. Handlers1'
  <2>1. Walking' = Walking /\ c \in Walking
    BY <1>2, <1>7 DEF Walking
  <2> SUFFICES ASSUME ~ overlap
               PROVE  /\ \A d, e \in Walking : d = e
                      /\ \A d \in Walking, m \in Names : Plain(m)' =>
                           objects'[loggers'[m]].handler = IF m \in caller'[d].seen
                              THEN caller'[d].handler ELSE registry.handler
    BY <1>2, <2>1 DEF Handlers1
  <2>2. \A d \in Walking : d = c
    BY <2>1 DEF GInv, Handlers1
  <2>3. \A m \in Names : Plain(m) =>
           objects[loggers[m]].handler =
             IF m \in caller[c].seen THEN caller[c].handler ELSE registry.handler
    BY <2>1 DEF GInv, Handlers1
  <2> QED BY <1>1, <1>7, <1>9, <2>2, <2>3
<1> QED BY <1>8, <1>10, <1>11 DEF GInv

LEMMA WalkEnds == ASSUME GInv, NEW c \in Callers, SetHandler(c) PROVE GInv'
<1>1. /\ UNCHANGED <<objects, loggers, overlap, minute, logs>> /\ caller[c].at = "handlers"
      /\ ~ overlap => Registered \subseteq caller[c].seen
      /\ registry' = [registry EXCEPT !.handler = caller[c].handler]
      /\ caller' = [caller EXCEPT ![c] = Idle]
  BY DEF SetHandler
<1>2. caller[c] \in CallerRecords /\ Idle \in CallerRecords
  BY DEF GInv, RegistryTypes, Idle, CallerRecords, AllHandlers
<1>3. /\ registry' \in [level : Levels, formatter : AllFormatters, handler : AllHandlers,
                         async : BOOLEAN]
      /\ registry'.level = registry.level /\ registry'.formatter = registry.formatter
      /\ registry'.handler = caller[c].handler
  BY <1>1, <1>2 DEF GInv, RegistryTypes, CallerRecords
<1>4. RegistryTypes' /\ Names1'
  BY <1>1, <1>2, <1>3 DEF GInv, RegistryTypes, Names1
<1>5. \A n : Plain(n)' <=> Plain(n)
  BY <1>1 DEF Plain
<1>6. Settings'
  BY <1>1, <1>3, <1>5 DEF GInv, Settings
<1>7. Handlers1'
  <2>1. c \in Walking
    BY <1>1 DEF Walking
  <2>2. Walking' = Walking \ {c}
    BY <1>1 DEF Walking, Idle, GInv, RegistryTypes
  <2> SUFFICES ASSUME ~ overlap
               PROVE  /\ Walking' = {}
                      /\ \A n \in Names : Plain(n) =>
                           objects[loggers[n]].handler = caller[c].handler
    BY <1>1, <1>3, <1>5 DEF Handlers1
  <2>3. Walking' = {}
    BY <2>1, <2>2 DEF GInv, Handlers1
  <2>4. \A n \in Names : Plain(n) => n \in caller[c].seen
    BY <1>1 DEF Plain, Registered
  <2> QED BY <2>1, <2>3, <2>4 DEF GInv, Handlers1
<1> QED BY <1>4, <1>6, <1>7 DEF GInv

(* Logging touches only the time of the last report.                       *)
LEMMA LogKeeps == ASSUME GInv, NEW c \in Callers, LogStep(c) PROVE GInv'
<1>0. /\ UNCHANGED <<loggers, registry, overlap, minute>>
      /\ caller[c].at # "handlers" /\ caller[c] \in CallerRecords /\ Idle \in CallerRecords
      /\ Levels \subseteq Nat /\ Off \in Nat /\ logs \in Nat
  BY RegistryAssumption
     DEF LogStep, log, logger_sink_it, logger_flush, err_handler, default_err_handler, GInv,
         RegistryTypes, Idle, CallerRecords, AllHandlers
<1>1. logs' \in Nat
  <2>1. logs' = logs \/ logs' = logs + 1
    BY Zenon DEF LogStep, log, logger_sink_it, logger_flush, err_handler, default_err_handler
  <2> QED BY <1>0, <2>1
<1>2. PICK w \in CallerRecords : caller' = [caller EXCEPT ![c] = w] /\ w.at # "handlers"
  <2>1. CASE \E i \in DOMAIN objects, level \in Levels \cup {Off} : log(c, i, level)
    <3>1. PICK i \in DOMAIN objects, level \in Levels \cup {Off} : log(c, i, level)
      BY <2>1
    <3>2. i \in Nat /\ level \in Nat /\ logs + 1 \in Nat /\ 1 \in Nat
      BY <1>0 DEF GInv, RegistryTypes
    <3> DEFINE w == [Idle EXCEPT !.at = "sinks", !.object = i, !.msg = logs + 1,
                                 !.level = level, !.next = 1]
    <3>3. w \in CallerRecords /\ w.at = "sinks"
      BY <3>2 DEF Idle, CallerRecords, AllHandlers
    <3>4. caller' = [caller EXCEPT ![c] = w]
      BY <3>1 DEF log
    <3> HIDE DEF w
    <3> QED BY <3>3, <3>4
  <2>2. CASE logger_sink_it(c)
    <3>1. \/ caller' = [caller EXCEPT ![c].next = @ + 1]
          \/ caller' = [caller EXCEPT ![c].at = "error"]
      BY <2>2 DEF logger_sink_it
    <3>2. /\ [caller[c] EXCEPT !.next = @ + 1] \in CallerRecords
          /\ [caller[c] EXCEPT !.next = @ + 1].at = caller[c].at
      BY <1>0 DEF CallerRecords
    <3>3. /\ [caller[c] EXCEPT !.at = "error"] \in CallerRecords
          /\ [caller[c] EXCEPT !.at = "error"].at = "error"
      BY <1>0 DEF CallerRecords
    <3>4. CASE caller' = [caller EXCEPT ![c].next = @ + 1]
      BY <1>0, <3>2, <3>4
    <3>5. CASE caller' = [caller EXCEPT ![c].at = "error"]
      BY <3>3, <3>5
    <3> QED BY <3>1, <3>4, <3>5
  <2>3. CASE logger_flush(c) \/ default_err_handler(c)
    BY <1>0, <2>3 DEF logger_flush, default_err_handler, Idle
  <2>4. CASE err_handler(c)
    <3> DEFINE w == [caller[c] EXCEPT !.at = "report", !.next = minute]
    <3>1. w \in CallerRecords /\ w.at = "report"
      BY <1>0 DEF CallerRecords, GInv, RegistryTypes
    <3>2. \/ caller' = [caller EXCEPT ![c] = Idle]
          \/ caller' = [caller EXCEPT ![c].at = "report", ![c].next = minute]
      BY <2>4 DEF err_handler
    <3>3. ASSUME caller' = [caller EXCEPT ![c].at = "report", ![c].next = minute]
          PROVE  caller' = [caller EXCEPT ![c] = w]
      BY <1>0, <3>3 DEF GInv, RegistryTypes
    <3> HIDE DEF w
    <3>4. Idle.at # "handlers"
      BY DEF Idle
    <3> QED BY <1>0, <3>1, <3>2, <3>3, <3>4
  <2> QED BY <2>1, <2>2, <2>3, <2>4 DEF LogStep
<1>3. /\ caller' \in [Callers -> CallerRecords]
      /\ \A d \in Callers : /\ caller'[d].at = "handlers" <=> caller[d].at = "handlers"
                            /\ caller[d].at = "handlers" => caller'[d] = caller[d]
  BY <1>0, <1>2 DEF GInv, RegistryTypes
<1>4. /\ objects' \in Seq(LoggerRecords) /\ Len(objects') = Len(objects)
      /\ \A i \in 1..Len(objects) :
           /\ objects'[i].own = objects[i].own /\ objects'[i].level = objects[i].level
           /\ objects'[i].formatter = objects[i].formatter
           /\ objects'[i].handler = objects[i].handler
  <2>1. CASE UNCHANGED objects
    BY <2>1 DEF GInv, RegistryTypes
  <2>2. CASE default_err_handler(c)
    <3> DEFINE i == caller[c].object
               r == [objects[i] EXCEPT !.last_err = caller[c].next]
    <3>1. i \in Nat /\ caller[c].next \in Nat /\ objects \in Seq(LoggerRecords)
      BY <1>0 DEF CallerRecords, GInv, RegistryTypes
    <3>2. ASSUME i \in 1..Len(objects)
          PROVE  /\ r \in LoggerRecords /\ r.own = objects[i].own
                 /\ r.level = objects[i].level /\ r.formatter = objects[i].formatter
                 /\ r.handler = objects[i].handler
      <4>1. objects[i] \in LoggerRecords
        BY <3>1, <3>2
      <4> QED BY <3>1, <4>1 DEF LoggerRecords
    <3>3. objects' = [objects EXCEPT ![i] = r]
      BY <2>2 DEF default_err_handler
    <3> HIDE DEF i, r
    <3>4. /\ objects' \in Seq(LoggerRecords) /\ Len(objects') = Len(objects)
          /\ \A j \in 1..Len(objects) : objects'[j] = IF j = i THEN r ELSE objects[j]
      BY <3>1, <3>2, <3>3, SetField
    <3> QED BY <3>2, <3>4
  <2> QED
    BY <2>1, <2>2 DEF LogStep, log, logger_sink_it, logger_flush, err_handler
<1>5. RegistryTypes'
  BY <1>0, <1>1, <1>3, <1>4 DEF GInv, RegistryTypes
<1> QED BY <1>0, <1>3, <1>4, <1>5, QuietStep

LEMMA RegistryKeeps == ASSUME GInv, NEW c \in Callers, RegistryStep(c) PROVE GInv'
<1>1. CASE CreateLogger(c) \/ \E n \in Names, sinks \in SinkLists : register_logger(c, n, sinks)
  BY <1>1, CreateKeeps DEF CreateLogger
<1>2. CASE \E names \in {{n} : n \in Names} \cup {Names} : drop(c, names)
  <2>1. PICK names \in SUBSET Names : drop(c, names)
    BY <1>2
  <2> QED BY <2>1, DropKeeps
<1>3. CASE \/ \E level \in Levels : set_level(c, level)
           \/ \E f \in Formatters : set_formatter(c, f)
  BY <1>3, SettingForAll DEF set_level, set_formatter, AllFormatters
<1>4. CASE \E async \in BOOLEAN : set_async_mode(c, async)
  <2>1. PICK async \in BOOLEAN : set_async_mode(c, async)
    BY <1>4
  <2>2. /\ UNCHANGED <<objects, loggers, overlap, caller, minute, logs>>
        /\ registry' \in [level : Levels, formatter : AllFormatters, handler : AllHandlers,
                           async : BOOLEAN]
        /\ registry'.level = registry.level /\ registry'.formatter = registry.formatter
        /\ registry'.handler = registry.handler
    BY <2>1 DEF set_async_mode, GInv, RegistryTypes
  <2>3. RegistryTypes' /\ Names1'
    BY <2>2 DEF GInv, RegistryTypes, Names1
  <2>4. Settings' /\ Handlers1'
    BY <2>2 DEF GInv, Settings, Handlers1, Plain, Walking
  <2> QED BY <2>3, <2>4 DEF GInv
<1>5. CASE \E i \in DOMAIN objects, level \in Levels :
             logger_set_level(c, i, level) \/ flush_on(c, i, level)
  BY <1>5, UserKeeps
<1>6. CASE \E k \in Sinks, level \in Levels : sink_set_level(c, k, level)
  BY <1>6 DEF sink_set_level, GInv, RegistryTypes, Names1, Settings, Plain, Handlers1, Walking
<1>7. CASE \E h \in Handlers : set_error_handler(c, h)
  BY <1>7, WalkStarts
<1>8. CASE VisitLogger(c) \/ SetHandler(c)
  BY <1>8, WalkVisits, WalkEnds
<1> QED
  BY <1>1, <1>2, <1>3, <1>4, <1>5, <1>6, <1>7, <1>8 DEF RegistryStep

-----------------------------------------------------------------------------
LEMMA RegistryInitial == ASSUME GInit PROVE GInv
<1>1. Info \in Levels /\ ErrInterval \in Nat
  BY RegistryAssumption
<1>2. RegistryTypes
  <2>1. /\ objects \in Seq(LoggerRecords) /\ loggers \in [Names -> Nat]
        /\ minute \in Nat /\ logs \in Nat
    BY <1>1 DEF GInit
  <2>2. Idle \in CallerRecords
    BY DEF Idle, CallerRecords, AllHandlers
  <2>3. caller \in [Callers -> CallerRecords]
    BY <2>2 DEF GInit
  <2>4. registry \in [level : Levels, formatter : AllFormatters, handler : AllHandlers,
                      async : BOOLEAN]
    BY <1>1 DEF GInit, AllHandlers, AllFormatters
  <2>5. overlap \in BOOLEAN
    BY DEF GInit
  <2> QED BY <2>1, <2>3, <2>4, <2>5 DEF RegistryTypes
<1>3. Names1 /\ Settings
  BY DEF GInit, Names1, Settings, Plain
<1>4. Handlers1
  BY DEF GInit, Handlers1, Walking, Plain, Idle
<1> QED BY <1>2, <1>3, <1>4 DEF GInv

LEMMA RegistryStepKeeps == ASSUME GInv, [GNext]_gvars PROVE GInv'
<1>1. CASE NextMinute
  BY <1>1 DEF NextMinute, GInv, RegistryTypes, Names1, Settings, Plain, Handlers1, Walking
<1>2. CASE UNCHANGED gvars
  BY <1>2 DEF gvars, GInv, RegistryTypes, Names1, Settings, Plain, Handlers1, Walking
<1> QED BY <1>1, <1>2, RegistryKeeps, LogKeeps DEF GNext

(* For any callers, names and loggers, and however creations, drops,       *)
(* settings and messages interleave, a registered logger that its user     *)
(* left alone has the level and the formatter of the registry, and its     *)
(* error handler too unless a walk of set_error_handler, which takes no    *)
(* lock, met another change.                                               *)
THEOREM RegistryAgrees == GSpec => []LoggersAgree
<1>1. GInit => GInv
  BY RegistryInitial
<1>2. GInv /\ [GNext]_gvars => GInv'
  BY RegistryStepKeeps
<1>3. GInv => LoggersAgree
  <2> SUFFICES ASSUME GInv, NEW n \in Registered, ~ objects[loggers[n]].own
               PROVE  /\ objects[loggers[n]].level = registry.level
                      /\ objects[loggers[n]].formatter = registry.formatter
                      /\ (Walking = {} /\ ~ overlap) =>
                            objects[loggers[n]].handler = registry.handler
    BY DEF LoggersAgree
  <2>1. objects[loggers[n]] \in LoggerRecords /\ n \in Names /\ loggers[n] # 0
    BY DEF GInv, RegistryTypes, Names1, Registered
  <2>2. Plain(n)
    BY <2>1 DEF Plain, LoggerRecords
  <2> QED BY <2>1, <2>2 DEF GInv, Settings, Handlers1
<1> QED BY <1>1, <1>2, <1>3, PTL DEF GSpec

-----------------------------------------------------------------------------
(* Delivery by a logger, to its sinks or to its helper.  DeliveryInv       *)
(* follows a message from the call of log to the last of them: the places  *)
(* the caller has passed have it once if they should, and the others have  *)
(* nothing of it.                                                          *)

(* A sink stands once in the list of a logger.                             *)
DistinctSinks == \A s \in SinkLists :
    s \in Seq(Sinks) /\ \A i, j \in 1..Len(s) : s[i] = s[j] => i = j

(* Two states of a logger that hand messages to the same places.           *)
SameTargets(r, l) == r.sinks = l.sinks /\ r.async = l.async

(* A logger hands messages to distinct places.                             *)
LEMMA TargetsAre ==
  ASSUME GInv, DistinctSinks, NEW i \in 1..Len(objects)
  PROVE  /\ Targets(i) \in Seq(Places) /\ Len(Targets(i)) \in Nat
         /\ \A a, b \in 1..Len(Targets(i)) : Targets(i)[a] = Targets(i)[b] => a = b
<1>1. objects[i].sinks \in SinkLists
  <2>1. objects[i] \in LoggerRecords
    BY DEF GInv, RegistryTypes
  <2> QED BY <2>1 DEF LoggerRecords
<1>2. \A s \in Seq(Sinks) : s \in Seq(Places)
  BY DEF Places
<1>3. <<Helper>> \in Seq(Places) /\ Len(<<Helper>>) = 1
  BY DEF Places
<1>4. CASE objects[i].async
  <2>1. Targets(i) = <<Helper>>
    BY <1>4 DEF Targets
  <2> QED BY <1>3, <2>1
<1>5. CASE ~ objects[i].async
  <2>1. Targets(i) = objects[i].sinks
    BY <1>5 DEF Targets
  <2> QED BY <1>1, <1>2, <2>1 DEF DistinctSinks
<1> QED BY <1>4, <1>5

(* A message on its way: its caller works through the sinks, has met an    *)
(* exception, or reports one.                                              *)
Logging(c) == caller[c].at \in {"sinks", "error", "report"}
Has(k, m) == \E j \in 1..Len(got[k]) : got[k][j] = m

DeliveryTypes ==
    /\ owed \in Seq(SUBSET Places) /\ Len(owed) = logs
    /\ got \in [Places -> Seq(Nat)]

(* No sink has a message twice, or one nobody logged.                      *)
Once == \A k \in Places :
    /\ \A j \in 1..Len(got[k]) : got[k][j] \in 1..logs
    /\ \A i, j \in 1..Len(got[k]) : got[k][i] = got[k][j] => i = j

(* Every message on its way has one caller.                                *)
OneCaller ==
    /\ \A c \in Callers :
         /\ Logging(c) => caller[c].msg \in 1..logs /\ caller[c].object \in 1..Len(objects)
         /\ ~ Logging(c) => caller[c].msg = 0
         /\ caller[c].at = "report" => caller[c].msg \in handled
    /\ \A c, d \in Callers :
         (Logging(c) /\ Logging(d) /\ caller[c].msg = caller[d].msg) => c = d

(* The sinks passed have the message unless they refused it, the ones to   *)
(* come do not have it.                                                    *)
Passed(c) ==
    /\ caller[c].next >= 1
    /\ \A k \in owed[caller[c].msg] : \E p \in 1..Len(SinksOf(c)) : SinksOf(c)[p] = k
    /\ \A p \in 1..Len(SinksOf(c)) :
         IF p < caller[c].next
         THEN SinksOf(c)[p] \in owed[caller[c].msg] => Has(SinksOf(c)[p], caller[c].msg)
         ELSE ~ Has(SinksOf(c)[p], caller[c].msg)

Progress == \A c \in Callers : caller[c].at = "sinks" => Passed(c)

(* What nobody is busy with has arrived or was handled.                    *)
Arrived == \A m \in 1..logs :
    (\A c \in Callers : caller[c].msg # m) /\ m \notin handled => \A k \in owed[m] : Has(k, m)

DeliveryInv == DeliveryTypes /\ Once /\ OneCaller /\ Progress /\ Arrived

-----------------------------------------------------------------------------
(* Steps that leave the messages alone, and the sinks of loggers and the   *)
(* callers busy with a message.                                            *)
LEMMA NoMessage ==
  ASSUME DeliveryInv, UNCHANGED <<got, owed, handled, logs>>,
         Len(objects) \in Nat, Len(objects') \in Nat, Len(objects') >= Len(objects),
         \A i \in 1..Len(objects) : SameTargets(objects'[i], objects[i]),
         \A d \in Callers : /\ Logging(d)' <=> Logging(d)
                            /\ Logging(d) => caller'[d] = caller[d]
                            /\ ~ Logging(d) => caller'[d].msg = 0
  PROVE  DeliveryInv'
<1>1. DeliveryTypes' /\ Once'
  BY DEF DeliveryInv, DeliveryTypes, Once
<1>2. \A d \in Callers : Logging(d) => caller[d].object \in 1..Len(objects)
  BY DEF DeliveryInv, OneCaller
<1>3. \A d \in Callers : caller'[d].msg = caller[d].msg
  BY DEF DeliveryInv, OneCaller
<1>4. OneCaller'
  <2>1. \A d \in Callers : caller'[d].at = "report" => Logging(d) /\ caller[d].at = "report"
    <3>1. \A d \in Callers : caller'[d].at = "report" => Logging(d)'
      BY DEF Logging
    <3> QED BY <3>1
  <2>2. \A d \in Callers : Logging(d) => caller'[d].object \in 1..Len(objects')
    BY <1>2
  <2>3. \A d \in Callers : /\ Logging(d)' => caller'[d].msg \in 1..logs'
                           /\ caller'[d].at = "report" => caller'[d].msg \in handled'
    BY <1>3, <2>1 DEF DeliveryInv, OneCaller
  <2>4. \A d, e \in Callers :
           (Logging(d)' /\ Logging(e)' /\ caller'[d].msg = caller'[e].msg) => d = e
    BY <1>3 DEF DeliveryInv, OneCaller
  <2> QED BY <2>2, <2>3, <2>4 DEF OneCaller
<1>5. Progress'
  <2> SUFFICES ASSUME NEW d \in Callers, caller'[d].at = "sinks" PROVE Passed(d)'
    BY DEF Progress
  <2>1. Logging(d)' /\ Logging(d) /\ caller'[d] = caller[d]
    BY DEF Logging
  <2>2. Passed(d)
    BY <2>1 DEF DeliveryInv, Progress
  <2>3. SinksOf(d)' = SinksOf(d)
    BY <1>2, <2>1 DEF SinksOf, Targets, SameTargets
  <2>4. \A k, m : Has(k, m)' <=> Has(k, m)
    BY DEF Has
  <2> QED BY <2>1, <2>2, <2>3, <2>4 DEF Passed
<1>6. Arrived'
  <2>1. \A k, m : Has(k, m)' <=> Has(k, m)
    BY DEF Has
  <2> QED BY <1>3, <2>1 DEF DeliveryInv, Arrived
<1> QED BY <1>1, <1>4, <1>5, <1>6 DEF DeliveryInv

(* No function of the registry or of a logger changes the list of sinks.   *)
LEMMA SinksStay ==
  ASSUME GInv, NEW c \in Callers, RegistryStep(c)
  PROVE  /\ Len(objects') \in Nat /\ Len(objects') >= Len(objects)
         /\ \A i \in 1..Len(objects) : SameTargets(objects'[i], objects[i])
<1>0. /\ Len(objects) \in Nat /\ DOMAIN objects = 1..Len(objects)
      /\ objects \in Seq(LoggerRecords)
      /\ \A i \in 1..Len(objects) : objects[i] \in LoggerRecords
  BY DEF GInv, RegistryTypes
<1>1. CASE UNCHANGED objects
  BY <1>0, <1>1 DEF SameTargets
<1>2. CASE \E o : objects' = Append(objects, o)
  <2>1. PICK o : objects' = Append(objects, o)
    BY <1>2
  <2>2. Len(objects') = Len(objects) + 1 /\ \A i \in 1..Len(objects) : objects'[i] = objects[i]
    BY <1>0, <2>1
  <2> QED BY <1>0, <2>2 DEF SameTargets
<1>3. ASSUME NEW field \in {"level", "formatter"}, NEW value, ApplyAll(c, field, value)
      PROVE  /\ Len(objects') = Len(objects)
             /\ \A i \in 1..Len(objects) : SameTargets(objects'[i], objects[i])
  <2> DEFINE F(i) == IF \E n \in Names : loggers[n] = i
                     THEN [objects[i] EXCEPT ![field] = value] ELSE objects[i]
  <2>1. objects' = [i \in 1..Len(objects) |-> F(i)]
    BY <1>0, <1>3 DEF ApplyAll
  <2>2. \A i \in 1..Len(objects) : SameTargets(F(i), objects[i])
    BY <1>0 DEF LoggerRecords, SameTargets
  <2> HIDE DEF F
  <2>3. Len(objects') = Len(objects)
    BY <1>0, <2>1
  <2> QED BY <2>1, <2>2, <2>3
<1>4. ASSUME NEW i \in 1..Len(objects), NEW r, objects' = [objects EXCEPT ![i] = r],
             SameTargets(r, objects[i])
      PROVE  /\ Len(objects') = Len(objects)
             /\ \A j \in 1..Len(objects) : SameTargets(objects'[j], objects[j])
  <2>1. DOMAIN objects' = 1..Len(objects)
    BY <1>0, <1>4
  <2>2. Len(objects') = Len(objects)
    BY <1>0, <1>4
  <2> QED BY <1>0, <1>4, <2>2 DEF SameTargets
<1>5. CASE \E i \in DOMAIN objects, level \in Levels :
             logger_set_level(c, i, level) \/ flush_on(c, i, level)
  <2>1. PICK i \in DOMAIN objects, level \in Levels :
             logger_set_level(c, i, level) \/ flush_on(c, i, level)
    BY <1>5
  <2>2. i \in 1..Len(objects) /\ objects[i] \in LoggerRecords
    BY <1>0
  <2>3. CASE logger_set_level(c, i, level)
    <3> DEFINE r == [objects[i] EXCEPT !.level = level, !.own = TRUE]
    <3>1. SameTargets(r, objects[i])
      BY <2>2 DEF LoggerRecords, SameTargets
    <3>2. objects' = [objects EXCEPT ![i] = r]
      BY <1>0, <2>2, <2>3 DEF logger_set_level, LoggerRecords
    <3> HIDE DEF r
    <3>3. /\ Len(objects') = Len(objects)
          /\ \A j \in 1..Len(objects) : SameTargets(objects'[j], objects[j])
      BY <1>4, <2>2, <3>1, <3>2
    <3> QED BY <1>0, <3>3
  <2>4. CASE flush_on(c, i, level)
    <3> DEFINE r == [objects[i] EXCEPT !.flush = level]
    <3>1. SameTargets(r, objects[i])
      BY <2>2 DEF LoggerRecords, SameTargets
    <3>2. objects' = [objects EXCEPT ![i] = r]
      BY <2>4 DEF flush_on
    <3> HIDE DEF r
    <3>3. /\ Len(objects') = Len(objects)
          /\ \A j \in 1..Len(objects) : SameTargets(objects'[j], objects[j])
      BY <1>4, <2>2, <3>1, <3>2
    <3> QED BY <1>0, <3>3
  <2> QED BY <2>1, <2>3, <2>4
<1>6. CASE VisitLogger(c)
  <2>1. PICK n \in Registered \ caller[c].seen :
          objects' = [objects EXCEPT ![loggers[n]].handler = caller[c].handler]
    BY <1>6 DEF VisitLogger
  <2>2. loggers[n] \in 1..Len(objects) /\ objects[loggers[n]] \in LoggerRecords
    BY <1>0 DEF GInv, RegistryTypes, Names1, Registered
  <2> DEFINE r == [objects[loggers[n]] EXCEPT !.handler = caller[c].handler]
  <2>3. SameTargets(r, objects[loggers[n]])
    BY <2>2 DEF LoggerRecords, SameTargets
  <2>4. objects' = [objects EXCEPT ![loggers[n]] = r]
    BY <2>1
  <2> HIDE DEF r
  <2>5. /\ Len(objects') = Len(objects)
        /\ \A j \in 1..Len(objects) : SameTargets(objects'[j], objects[j])
    BY <1>4, <2>2, <2>3, <2>4
  <2> QED BY <1>0, <2>5
<1>7. CASE \/ CreateLogger(c)
           \/ \E n \in Names, sinks \in SinkLists : register_logger(c, n, sinks)
  <2>1. UNCHANGED objects \/ \E o : objects' = Append(objects, o)
    BY <1>7 DEF CreateLogger, create, register_logger
  <2> QED BY <1>1, <1>2, <2>1
<1>8. CASE \/ \E level \in Levels : set_level(c, level)
           \/ \E f \in Formatters : set_formatter(c, f)
  BY <1>0, <1>3, <1>8 DEF set_level, set_formatter
<1>9. CASE \/ \E names \in {{n} : n \in Names} \cup {Names} : drop(c, names)
           \/ \E async \in BOOLEAN : set_async_mode(c, async)
           \/ \E k \in Sinks, level \in Levels : sink_set_level(c, k, level)
           \/ \E h \in Handlers : set_error_handler(c, h)
           \/ SetHandler(c)
  <2>1. UNCHANGED objects
    BY <1>9 DEF drop, set_async_mode, sink_set_level, set_error_handler, SetHandler
  <2> QED BY <1>1, <2>1
<1> QED BY <1>5, <1>6, <1>7, <1>8, <1>9 DEF RegistryStep

(* Nor does it touch a message or a caller busy with one.                  *)
LEMMA RegistryDelivers ==
  ASSUME GInv, DeliveryInv, NEW c \in Callers, RegistryStep(c)
  PROVE  DeliveryInv'
<1>1. UNCHANGED <<got, owed, handled, logs>>
  BY DEF RegistryStep, CreateLogger, create, register_logger, drop, set_level, set_formatter,
         ApplyAll, set_async_mode, logger_set_level, flush_on, sink_set_level,
         set_error_handler, VisitLogger, SetHandler
<1>2. \/ UNCHANGED caller /\ caller[c].at = "idle"
      \/ \E h \in Handlers : set_error_handler(c, h)
      \/ VisitLogger(c)
      \/ SetHandler(c)
  BY DEF RegistryStep, CreateLogger, create, register_logger, drop, set_level, set_formatter,
         ApplyAll, set_async_mode, logger_set_level, flush_on, sink_set_level, RegCall
<1>3. \A d \in Callers : caller[d] \in CallerRecords
  BY DEF GInv, RegistryTypes
<1>4. \A d \in Callers : /\ Logging(d)' <=> Logging(d)
                         /\ Logging(d) => caller'[d] = caller[d]
                         /\ ~ Logging(d) => caller'[d].msg = 0
  <2>0. \A d \in Callers : ~ Logging(d) => caller[d].msg = 0
    BY DEF DeliveryInv, OneCaller
  <2>1. CASE UNCHANGED caller
    BY <2>0, <2>1 DEF Logging
  <2>2. ASSUME NEW w, caller' = [caller EXCEPT ![c] = w], ~ Logging(c),
               w.at \in {"idle", "handlers"}, w.msg = 0
        PROVE  \A d \in Callers : /\ Logging(d)' <=> Logging(d)
                                  /\ Logging(d) => caller'[d] = caller[d]
                                  /\ ~ Logging(d) => caller'[d].msg = 0
    <3>1. \A d \in Callers : caller'[d] = IF d = c THEN w ELSE caller[d]
      BY <2>2 DEF GInv, RegistryTypes
    <3>2. ~ Logging(c)'
      BY <2>2, <3>1 DEF Logging
    <3>3. \A d \in Callers : d # c => (Logging(d)' <=> Logging(d))
      BY <3>1 DEF Logging
    <3> QED BY <2>0, <2>2, <3>1, <3>2, <3>3
  <2>3. CASE \E h \in Handlers : set_error_handler(c, h)
    <3>1. PICK h \in Handlers : set_error_handler(c, h)
      BY <2>3
    <3> DEFINE w == [Idle EXCEPT !.at = "handlers", !.handler = h]
    <3>2. w.at = "handlers" /\ w.msg = 0
      BY DEF Idle
    <3>3. ~ Logging(c) /\ caller' = [caller EXCEPT ![c] = w]
      BY <3>1 DEF set_error_handler, RegCall, Logging
    <3> HIDE DEF w
    <3> QED BY <2>2, <3>2, <3>3
  <2>4. CASE VisitLogger(c)
    <3>1. PICK n : caller' = [caller EXCEPT ![c].seen = @ \cup {n}]
      BY <2>4 DEF VisitLogger
    <3> DEFINE w == [caller[c] EXCEPT !.seen = @ \cup {n}]
    <3>2. caller[c].at = "handlers" /\ ~ Logging(c)
      BY <2>4 DEF VisitLogger, Logging
    <3>3. w.at = "handlers" /\ w.msg = 0
      BY <1>3, <2>0, <3>2 DEF CallerRecords
    <3>4. caller' = [caller EXCEPT ![c] = w]
      BY <3>1
    <3> HIDE DEF w
    <3> QED BY <2>2, <3>2, <3>3, <3>4
  <2>5. CASE SetHandler(c)
    <3>1. Idle.at = "idle" /\ Idle.msg = 0
      BY DEF Idle
    <3>2. ~ Logging(c) /\ caller' = [caller EXCEPT ![c] = Idle]
      BY <2>5 DEF SetHandler, Logging
    <3> QED BY <2>2, <3>1, <3>2
  <2> QED BY <1>2, <2>1, <2>3, <2>4, <2>5
<1>5. /\ Len(objects) \in Nat /\ Len(objects') \in Nat /\ Len(objects') >= Len(objects)
      /\ \A i \in 1..Len(objects) : SameTargets(objects'[i], objects[i])
  BY SinksStay DEF GInv, RegistryTypes
<1> QED BY <1>1, <1>4, <1>5, NoMessage

-----------------------------------------------------------------------------
(* A new message: no sink has it yet.                                      *)
LEMMA LogDelivers ==
  ASSUME GInv, DeliveryInv, DistinctSinks, NEW c \in Callers, NEW i \in DOMAIN objects,
         NEW level \in Levels \cup {Off}, log(c, i, level)
  PROVE  DeliveryInv'
<1>m. PICK m : m = logs + 1
  OBVIOUS
<1> DEFINE w == [Idle EXCEPT !.at = "sinks", !.object = i, !.msg = m, !.level = level,
                             !.next = 1]
<1>0. /\ logs \in Nat /\ m \in Nat /\ Len(objects) \in Nat /\ i \in 1..Len(objects)
      /\ objects[i] \in LoggerRecords
  BY <1>m DEF GInv, RegistryTypes
<1>s. PICK S : S = Targets(i)
  OBVIOUS
<1>1. /\ UNCHANGED <<objects, got, handled>> /\ logs' = m
      /\ owed' = Append(owed, Range(S))
      /\ caller' = [caller EXCEPT ![c] = w] /\ caller[c].at = "idle"
  BY <1>m, <1>s DEF log
<1>2. w.at = "sinks" /\ w.object = i /\ w.msg = m /\ w.next = 1
  BY DEF Idle
<1>3. \A d \in Callers : caller'[d] = IF d = c THEN w ELSE caller[d]
  BY <1>1 DEF GInv, RegistryTypes
<1> HIDE DEF w
<1>4. S \in Seq(Places) /\ Range(S) \in SUBSET Places
  BY <1>0, <1>s, TargetsAre DEF Range
<1>5. /\ owed \in Seq(SUBSET Places) /\ Len(owed) = logs
      /\ owed' \in Seq(SUBSET Places) /\ Len(owed') = m
      /\ \A q \in 1..logs : owed'[q] = owed[q]
      /\ owed'[m] = Range(S)
  <2>1. owed \in Seq(SUBSET Places) /\ Len(owed) = logs
    BY DEF DeliveryInv, DeliveryTypes
  <2> DEFINE R == Range(S)
  <2>2. owed' = Append(owed, R) /\ R \in SUBSET Places
    BY <1>1, <1>4
  <2> HIDE DEF R
  <2>3. /\ owed' \in Seq(SUBSET Places) /\ Len(owed') = logs + 1 /\ owed'[logs + 1] = R
        /\ \A q \in 1..logs : owed'[q] = owed[q]
    BY <1>0, <2>1, <2>2
  <2> QED BY <1>m, <2>1, <2>3 DEF R
<1>6. DeliveryTypes'
  BY <1>1, <1>5 DEF DeliveryInv, DeliveryTypes
<1>7. Once'
  BY <1>0, <1>1, <1>m DEF DeliveryInv, Once
<1>8. \A k \in Places : ~ Has(k, m)
  BY <1>0, <1>m DEF DeliveryInv, Once, Has
<1>9. \A k, q : Has(k, q)' <=> Has(k, q)
  BY <1>1 DEF Has
<1>10. ~ Logging(c) /\ caller[c].msg = 0
  BY <1>1 DEF Logging, DeliveryInv, OneCaller
<1>11. Logging(c)' /\ \A d \in Callers : d # c => (Logging(d)' <=> Logging(d))
  BY <1>2, <1>3 DEF Logging
<1>12. \A d \in Callers : Logging(d) => caller[d].msg \in 1..logs /\ d # c
  BY <1>10 DEF DeliveryInv, OneCaller
<1>13. OneCaller'
  <2>1. \A d \in Callers : Logging(d)' => /\ caller'[d].msg \in 1..logs'
                                          /\ caller'[d].object \in 1..Len(objects')
    BY <1>0, <1>1, <1>2, <1>3, <1>11, <1>m DEF DeliveryInv, OneCaller
  <2>2. \A d \in Callers : ~ Logging(d)' => caller'[d].msg = 0
    BY <1>3, <1>11 DEF DeliveryInv, OneCaller
  <2>3. \A d \in Callers : caller'[d].at = "report" => caller'[d].msg \in handled'
    BY <1>1, <1>2, <1>3 DEF DeliveryInv, OneCaller
  <2>4. \A d \in Callers : d # c /\ Logging(d)' => caller'[d].msg # m /\ caller'[c].msg = m
    BY <1>0, <1>2, <1>3, <1>11, <1>12, <1>m
  <2>5. \A d, e \in Callers :
           (Logging(d)' /\ Logging(e)' /\ caller'[d].msg = caller'[e].msg) => d = e
    BY <1>3, <1>11, <2>4 DEF DeliveryInv, OneCaller
  <2> QED BY <2>1, <2>2, <2>3, <2>5 DEF OneCaller
<1>14. Progress'
  <2> SUFFICES ASSUME NEW d \in Callers, caller'[d].at = "sinks" PROVE Passed(d)'
    BY DEF Progress
  <2>1. CASE d = c
    <3>1. SinksOf(d)' = S /\ caller'[d].msg = m /\ caller'[d].next = 1
      BY <1>s, <1>1, <1>2, <1>3, <2>1 DEF SinksOf, Targets
    <3>2. \A k \in owed'[m] : \E p \in 1..Len(S) : S[p] = k
      BY <1>4, <1>5 DEF Range
    <3>3. \A p \in 1..Len(S) : ~ (p < 1) /\ ~ Has(S[p], m)'
      BY <1>4, <1>8, <1>9
    <3> QED BY <3>1, <3>2, <3>3 DEF Passed
  <2>2. CASE d # c
    <3>1. caller'[d] = caller[d] /\ caller[d].at = "sinks" /\ SinksOf(d)' = SinksOf(d)
      BY <1>1, <1>3, <2>2 DEF SinksOf, Targets
    <3>2. Passed(d) /\ caller[d].msg \in 1..logs
      BY <1>12, <3>1 DEF DeliveryInv, Progress, Logging
    <3>3. owed'[caller[d].msg] = owed[caller[d].msg]
      BY <1>5, <3>2
    <3> QED BY <1>9, <3>1, <3>2, <3>3 DEF Passed
  <2> QED BY <2>1, <2>2
<1>15. Arrived'
  <2> SUFFICES ASSUME NEW q \in 1..logs', \A d \in Callers : caller'[d].msg # q,
                      q \notin handled', NEW k \in owed'[q]
               PROVE  Has(k, q)'
    BY DEF Arrived
  <2>1. q # m
    BY <1>2, <1>3
  <2>2. q \in 1..logs
    BY <1>0, <1>1, <1>m, <2>1
  <2>3. \A d \in Callers : caller[d].msg # q
    BY <1>3, <1>10, <2>2
  <2>4. k \in owed[q]
    BY <1>5, <2>2
  <2> QED BY <1>1, <1>9, <2>2, <2>3, <2>4 DEF DeliveryInv, Arrived
<1> QED BY <1>6, <1>7, <1>13, <1>14, <1>15 DEF DeliveryInv

LEMMA AppendOnce ==
  ASSUME NEW g \in Seq(Nat), NEW m \in Nat, NEW N, m \in N, \A j \in 1..Len(g) : g[j] # m,
         \A j \in 1..Len(g) : g[j] \in N, \A a, b \in 1..Len(g) : g[a] = g[b] => a = b
  PROVE  LET h == Append(g, m) IN
         /\ \A j \in 1..Len(h) : h[j] \in N
         /\ \A a, b \in 1..Len(h) : h[a] = h[b] => a = b
         /\ \A q : (\E j \in 1..Len(h) : h[j] = q) <=> (q = m \/ \E j \in 1..Len(g) : g[j] = q)
<1>1. PICK n \in Nat : n = Len(g)
  OBVIOUS
<1>2. PICK h : h = Append(g, m)
  OBVIOUS
<1>3. Len(h) = n + 1 /\ h[n + 1] = m /\ \A j \in 1..n : h[j] = g[j]
  BY <1>1, <1>2
<1>4. \A j \in 1..(n + 1) : j = n + 1 \/ j \in 1..n
  BY <1>1
<1>5. n + 1 \in 1..(n + 1) /\ \A j \in 1..n : j \in 1..(n + 1)
  BY <1>1
<1>6. \A j \in 1..(n + 1) : h[j] \in N
  BY <1>1, <1>3, <1>4
<1>7. \A a, b \in 1..(n + 1) : h[a] = h[b] => a = b
  BY <1>1, <1>3, <1>4
<1>8. \A q : (\E j \in 1..(n + 1) : h[j] = q) <=> (q = m \/ \E j \in 1..n : g[j] = q)
  BY <1>1, <1>3, <1>4, <1>5
<1> QED BY <1>1, <1>2, <1>3, <1>6, <1>7, <1>8

(* One sink refuses the level, takes the message, or throws.               *)
LEMMA SinkDelivers ==
  ASSUME GInv, DeliveryInv, DistinctSinks, NEW c \in Callers, logger_sink_it(c)
  PROVE  DeliveryInv'
<1>m. PICK m, S, p : m = caller[c].msg /\ S = SinksOf(c) /\ p = caller[c].next
  OBVIOUS
<1>k. PICK k : k = S[p]
  OBVIOUS
<1>0. caller[c].at = "sinks" /\ p <= Len(S) /\ Logging(c) /\ caller[c] \in CallerRecords
  BY <1>m DEF logger_sink_it, Logging, GInv, RegistryTypes
<1>1. m \in 1..logs /\ caller[c].object \in 1..Len(objects) /\ logs \in Nat
  BY <1>0, <1>m DEF DeliveryInv, OneCaller, GInv, RegistryTypes
<1>3. S \in Seq(Places) /\ Len(S) \in Nat /\ \A a, b \in 1..Len(S) : S[a] = S[b] => a = b
  BY <1>1, <1>m, TargetsAre DEF SinksOf
<1>4. /\ p \in Nat /\ p >= 1
      /\ \A k1 \in owed[m] : \E q \in 1..Len(S) : S[q] = k1
      /\ \A q \in 1..Len(S) : IF q < p THEN S[q] \in owed[m] => Has(S[q], m)
                                       ELSE ~ Has(S[q], m)
  BY <1>0, <1>m DEF DeliveryInv, Progress, Passed, CallerRecords
<1>5. p \in 1..Len(S) /\ k \in Places /\ ~ Has(k, m)
  BY <1>0, <1>3, <1>4, <1>k
<1>6. UNCHANGED <<objects, handled, logs>>
  BY DEF logger_sink_it
<1>7. \A d \in Callers : d # c /\ Logging(d) => caller[d].msg # m /\ caller[d].msg \in 1..logs
  BY <1>0, <1>m DEF DeliveryInv, OneCaller
<1>8. /\ owed \in Seq(SUBSET Places) /\ Len(owed) = logs /\ got \in [Places -> Seq(Nat)]
  BY DEF DeliveryInv, DeliveryTypes
<1> DEFINE go == [caller[c] EXCEPT !.next = @ + 1]
           fail == [caller[c] EXCEPT !.at = "error"]
<1>9. /\ go.at = "sinks" /\ go.msg = m /\ go.object = caller[c].object /\ go.next = p + 1
      /\ fail.at = "error" /\ fail.msg = m /\ fail.object = caller[c].object
  BY <1>0, <1>m DEF CallerRecords
<1>10. \/ /\ caller' = [caller EXCEPT ![c] = go] /\ UNCHANGED got
          /\ owed' = [owed EXCEPT ![m] = @ \ {k}]
       \/ /\ caller' = [caller EXCEPT ![c] = go] /\ UNCHANGED owed
          /\ got' = [got EXCEPT ![k] = Append(@, m)]
       \/ caller' = [caller EXCEPT ![c] = fail] /\ UNCHANGED <<owed, got>>
  BY <1>m, <1>k DEF logger_sink_it
<1>11. PICK w \in {go, fail} : caller' = [caller EXCEPT ![c] = w]
  BY <1>10
<1>12. \A d \in Callers : caller'[d] = IF d = c THEN w ELSE caller[d]
  BY <1>11 DEF GInv, RegistryTypes
<1> HIDE DEF go, fail
<1>13. w.at \in {"sinks", "error"} /\ w.msg = m /\ w.object = caller[c].object
  BY <1>9, <1>11
<1>14. \A d \in Callers : /\ Logging(d)' <=> Logging(d)
                          /\ caller'[d].msg = caller[d].msg
                          /\ caller'[d].object = caller[d].object
                          /\ SinksOf(d)' = SinksOf(d)
                          /\ caller'[d].at = "report" => caller[d].at = "report"
  BY <1>0, <1>m, <1>6, <1>12, <1>13 DEF Logging, SinksOf, Targets
<1>15. OneCaller'
  BY <1>6, <1>14 DEF DeliveryInv, OneCaller
(* What the step does to the sinks and to what is owed.                    *)
<1>20. ASSUME UNCHANGED got PROVE \A k1, q : Has(k1, q)' <=> Has(k1, q)
  BY <1>20 DEF Has
<1>21. ASSUME got' = [got EXCEPT ![k] = Append(@, m)]
       PROVE  /\ got' \in [Places -> Seq(Nat)] /\ Once' /\ Has(k, m)'
              /\ \A k1 \in Places : \A q : Has(k1, q) => Has(k1, q)'
              /\ \A k1 \in Places : \A q : Has(k1, q)' => Has(k1, q) \/ (k1 = k /\ q = m)
  <2>1. got[k] \in Seq(Nat) /\ m \in Nat
    BY <1>1, <1>5, <1>8
  <2>2. /\ got' \in [Places -> Seq(Nat)] /\ got'[k] = Append(got[k], m)
        /\ \A k1 \in Places : k1 # k => got'[k1] = got[k1]
    BY <1>5, <1>8, <1>21, <2>1
  <2>4. \A j \in 1..Len(got[k]) : got[k][j] # m
    BY <1>5 DEF Has
  <2>5. /\ \A j \in 1..Len(got[k]) : got[k][j] \in 1..logs
        /\ \A a, b \in 1..Len(got[k]) : got[k][a] = got[k][b] => a = b
    BY <1>5 DEF DeliveryInv, Once
  <2>6. /\ \A j \in 1..Len(got'[k]) : got'[k][j] \in 1..logs
        /\ \A a, b \in 1..Len(got'[k]) : got'[k][a] = got'[k][b] => a = b
        /\ \A q : (\E j \in 1..Len(got'[k]) : got'[k][j] = q) <=>
                 (q = m \/ \E j \in 1..Len(got[k]) : got[k][j] = q)
    <3>1. m \in 1..logs
      BY <1>1
    <3>2. got'[k] = Append(got[k], m)
      BY <2>2
    <3>3. PICK g : g = got[k]
      OBVIOUS
    <3>4. /\ \A j \in 1..Len(g) : g[j] \in 1..logs /\ g[j] # m
          /\ \A a, b \in 1..Len(g) : g[a] = g[b] => a = b
          /\ g \in Seq(Nat)
      BY <2>1, <2>4, <2>5, <3>3
    <3>5. LET h == Append(g, m) IN
          /\ \A j \in 1..Len(h) : h[j] \in 1..logs
          /\ \A a, b \in 1..Len(h) : h[a] = h[b] => a = b
          /\ \A q : (\E j \in 1..Len(h) : h[j] = q) <=> (q = m \/ \E j \in 1..Len(g) : g[j] = q)
      BY <2>1, <3>1, <3>4, AppendOnce
    <3> QED BY <3>2, <3>3, <3>5
  <2>7. Once'
    BY <1>6, <2>2, <2>6 DEF DeliveryInv, Once
  <2>8. Has(k, m)' /\ \A q : Has(k, q)' <=> (Has(k, q) \/ q = m)
    BY <2>6 DEF Has
  <2>9. \A k1 \in Places : \A q : k1 # k => (Has(k1, q)' <=> Has(k1, q))
    BY <2>2 DEF Has
  <2> QED BY <2>2, <2>7, <2>8, <2>9
<1>22. ASSUME owed' = [owed EXCEPT ![m] = @ \ {k}]
       PROVE  /\ owed' \in Seq(SUBSET Places) /\ Len(owed') = logs
              /\ owed'[m] = owed[m] \ {k}
              /\ \A q \in 1..logs : q # m => owed'[q] = owed[q]
  <2>1. owed' \in [1..logs -> SUBSET Places]
    BY <1>1, <1>8, <1>22
  <2>2. owed' \in Seq(SUBSET Places) /\ Len(owed') = logs
    BY <1>1, <2>1
  <2> QED BY <1>1, <1>8, <1>22, <2>2
<1>23. DeliveryTypes'
  BY <1>6, <1>8, <1>10, <1>21, <1>22 DEF DeliveryTypes
<1>24. Once'
  BY <1>6, <1>10, <1>21 DEF DeliveryInv, Once
<1>25. \A k1 \in Places : \A q : Has(k1, q) => Has(k1, q)'
  BY <1>10, <1>20, <1>21
<1>26. \A k1 \in Places : \A q : q # m => (Has(k1, q)' <=> Has(k1, q))
  BY <1>10, <1>20, <1>21
<1>27. /\ \A q \in 1..logs : q # m => owed'[q] = owed[q]
       /\ owed'[m] \subseteq owed[m]
  BY <1>10, <1>22
<1>28. w = go => (k \in owed'[m] => Has(k, m)')
  <2>1. w.at = "error" => w # go
    BY <1>9
  <2>2. CASE caller' = [caller EXCEPT ![c] = fail]
    <3>1. caller'[c] = fail
      BY <2>2 DEF GInv, RegistryTypes
    <3>2. w = fail
      BY <1>12, <3>1
    <3> QED BY <1>9, <3>2
  <2> QED BY <1>10, <1>21, <1>22, <2>2
<1>29. \A q \in 1..Len(S) : q > p => (Has(S[q], m)' <=> Has(S[q], m))
  <2>1. \A q \in 1..Len(S) : q > p => S[q] # k /\ S[q] \in Places
    BY <1>3, <1>5, <1>k
  <2> QED BY <1>10, <1>20, <1>21, <2>1
<1>30. Progress'
  <2> SUFFICES ASSUME NEW d \in Callers, caller'[d].at = "sinks" PROVE Passed(d)'
    BY DEF Progress
  <2>1. CASE d = c
    <3>1. w = go /\ caller'[d] = go
      BY <1>9, <1>11, <1>12, <2>1
    <3>2. caller'[d].msg = m /\ caller'[d].next = p + 1 /\ SinksOf(d)' = S
      BY <1>m, <1>9, <1>14, <2>1, <3>1
    <3>3. \A k1 \in owed'[m] : \E q \in 1..Len(S) : S[q] = k1
      BY <1>4, <1>27
    <3>4. \A q \in 1..Len(S) : q < p => (S[q] \in owed'[m] => Has(S[q], m)')
      BY <1>3, <1>4, <1>25, <1>27
    <3>5. \A q \in 1..Len(S) : q > p => ~ Has(S[q], m)'
      BY <1>4, <1>29
    <3>6. S[p] \in owed'[m] => Has(S[p], m)'
      BY <1>k, <1>28, <3>1
    <3>7. \A q \in 1..Len(S) : IF q < p + 1 THEN S[q] \in owed'[m] => Has(S[q], m)'
                                            ELSE ~ Has(S[q], m)'
      BY <1>3, <1>4, <3>4, <3>5, <3>6
    <3>8. p + 1 >= 1
      BY <1>4
    <3> QED BY <3>2, <3>3, <3>7, <3>8 DEF Passed
  <2>2. CASE d # c
    <3>1. caller'[d] = caller[d] /\ caller[d].at = "sinks" /\ SinksOf(d)' = SinksOf(d)
      BY <1>12, <1>14, <2>2
    <3>2. Passed(d) /\ caller[d].msg \in 1..logs /\ caller[d].msg # m /\ Logging(d)
      BY <1>7, <2>2, <3>1 DEF DeliveryInv, Progress, Logging
    <3>3. owed'[caller[d].msg] = owed[caller[d].msg]
      BY <1>27, <3>2
    <3>4. SinksOf(d) \in Seq(Places)
      <4>1. caller[d].object \in 1..Len(objects)
        BY <3>2 DEF DeliveryInv, OneCaller
      <4> QED BY <4>1, TargetsAre DEF SinksOf
    <3>5. \A q \in 1..Len(SinksOf(d)) :
             Has(SinksOf(d)[q], caller[d].msg)' <=> Has(SinksOf(d)[q], caller[d].msg)
      <4>1. \A q \in 1..Len(SinksOf(d)) : SinksOf(d)[q] \in Places
        BY <3>4
      <4>2. \A q \in 1..Len(SinksOf(d)) :
               Has(SinksOf(d)[q], caller[d].msg)' <=>
               \E j \in 1..Len(got'[SinksOf(d)[q]]) : got'[SinksOf(d)[q]][j] = caller[d].msg
        BY <3>1 DEF Has
      <4>3. \A k1, q : Has(k1, q)' <=> \E j \in 1..Len(got'[k1]) : got'[k1][j] = q
        BY DEF Has
      <4> QED BY <1>26, <3>2, <4>1, <4>2, <4>3
    <3> QED BY <3>1, <3>2, <3>3, <3>5 DEF Passed
  <2> QED BY <2>1, <2>2
<1>31. Arrived'
  <2> SUFFICES ASSUME NEW q \in 1..logs', \A d \in Callers : caller'[d].msg # q,
                      q \notin handled', NEW k1 \in owed'[q]
               PROVE  Has(k1, q)'
    BY DEF Arrived
  <2>1. q \in 1..logs /\ q # m /\ \A d \in Callers : caller[d].msg # q
    BY <1>m, <1>6, <1>14
  <2>2. k1 \in owed[q] /\ k1 \in Places
    BY <1>8, <1>27, <2>1
  <2>3. Has(k1, q)
    BY <1>6, <2>1, <2>2 DEF DeliveryInv, Arrived
  <2> QED BY <1>25, <2>2, <2>3
<1> QED BY <1>15, <1>23, <1>24, <1>30, <1>31 DEF DeliveryInv

(* A caller is done with its message, all of its sinks passed or the       *)
(* exception handled, or goes on to report the exception.                  *)
LEMMA MessageEnds ==
  ASSUME GInv, DeliveryInv, NEW c \in Callers, Logging(c), UNCHANGED <<got, owed, logs>>,
         handled \subseteq handled', NEW w, caller' = [caller EXCEPT ![c] = w],
         w = Idle \/ (w.at = "report" /\ w.msg = caller[c].msg /\ w.object = caller[c].object),
         caller[c].msg \in handled' \/ (w = Idle /\ \A k \in owed[caller[c].msg] : Has(k, caller[c].msg)),
         Len(objects') = Len(objects),
         \A i \in 1..Len(objects) : SameTargets(objects'[i], objects[i])
  PROVE  DeliveryInv'
<1>0. Idle.at = "idle" /\ Idle.msg = 0
  BY DEF Idle
<1>1. DeliveryTypes' /\ Once'
  BY DEF DeliveryInv, DeliveryTypes, Once
<1>2. \A d \in Callers : caller'[d] = IF d = c THEN w ELSE caller[d]
  BY DEF GInv, RegistryTypes
<1>3. \A d \in Callers : d # c => (Logging(d)' <=> Logging(d))
  BY <1>2 DEF Logging
<1>4. Logging(c)' => /\ w.at = "report" /\ w.msg = caller[c].msg
                     /\ w.object = caller[c].object /\ caller[c].msg \in handled'
  BY <1>0, <1>2 DEF Logging
<1>5. ~ Logging(c)' => w = Idle
  BY <1>2 DEF Logging
<1>6. OneCaller'
  <2>1. \A d \in Callers : Logging(d)' => /\ Logging(d)
                                          /\ caller'[d].msg = caller[d].msg
                                          /\ caller'[d].object = caller[d].object
    BY <1>2, <1>3, <1>4
  <2>2. \A d \in Callers : ~ Logging(d)' => caller'[d].msg = 0
    BY <1>0, <1>2, <1>3, <1>5 DEF DeliveryInv, OneCaller
  <2>3. \A d \in Callers : caller'[d].at = "report" => caller'[d].msg \in handled'
    <3>1. caller'[c].at = "report" => caller'[c].msg \in handled'
      BY <1>0, <1>2
    <3>2. \A d \in Callers : d # c /\ caller'[d].at = "report" => caller'[d].msg \in handled'
      BY <1>2 DEF DeliveryInv, OneCaller
    <3> QED BY <3>1, <3>2
  <2>4. \A d \in Callers : Logging(d)' => /\ caller'[d].msg \in 1..logs'
                                          /\ caller'[d].object \in 1..Len(objects')
    BY <2>1 DEF DeliveryInv, OneCaller
  <2>5. \A d, e \in Callers :
           (Logging(d)' /\ Logging(e)' /\ caller'[d].msg = caller'[e].msg) => d = e
    BY <2>1 DEF DeliveryInv, OneCaller
  <2> QED BY <2>2, <2>3, <2>4, <2>5 DEF OneCaller
<1>7. \A k, m : Has(k, m)' <=> Has(k, m)
  BY DEF Has
<1>8. Progress'
  <2> SUFFICES ASSUME NEW d \in Callers, caller'[d].at = "sinks" PROVE Passed(d)'
    BY DEF Progress
  <2>1. d # c /\ caller'[d] = caller[d] /\ caller[d].at = "sinks"
    BY <1>0, <1>2
  <2>2. Passed(d) /\ caller[d].object \in 1..Len(objects)
    BY <2>1 DEF DeliveryInv, Progress, OneCaller, Logging
  <2>3. SinksOf(d)' = SinksOf(d)
    BY <2>1, <2>2 DEF SinksOf, Targets, SameTargets
  <2> QED BY <1>7, <2>1, <2>2, <2>3 DEF Passed
<1>9. Arrived'
  <2> SUFFICES ASSUME NEW q \in 1..logs', \A d \in Callers : caller'[d].msg # q,
                      q \notin handled', NEW k \in owed'[q]
               PROVE  Has(k, q)'
    BY DEF Arrived
  <2>1. \A d \in Callers : d # c => caller[d].msg # q
    BY <1>2
  <2>2. CASE caller[c].msg = q
    BY <1>7, <2>2
  <2>3. CASE caller[c].msg # q
    BY <1>7, <2>1, <2>3 DEF DeliveryInv, Arrived
  <2> QED BY <2>2, <2>3
<1> QED BY <1>1, <1>6, <1>8, <1>9 DEF DeliveryInv

LEMMA EndDelivers ==
  ASSUME GInv, DeliveryInv, DistinctSinks, NEW c \in Callers,
         logger_flush(c) \/ err_handler(c) \/ default_err_handler(c)
  PROVE  DeliveryInv'
<1>0. /\ Logging(c) /\ UNCHANGED <<got, owed, logs>> /\ handled \subseteq handled'
      /\ caller[c] \in CallerRecords /\ caller[c].object \in 1..Len(objects)
      /\ objects[caller[c].object] \in LoggerRecords
  <2>1. Logging(c) /\ UNCHANGED <<got, owed, logs>> /\ handled \subseteq handled'
    BY DEF logger_flush, err_handler, default_err_handler, Logging
  <2>2. caller[c].object \in 1..Len(objects)
    BY <2>1 DEF DeliveryInv, OneCaller
  <2> QED BY <2>1, <2>2 DEF GInv, RegistryTypes
<1>1. CASE logger_flush(c)
  <2>1. /\ UNCHANGED objects /\ caller' = [caller EXCEPT ![c] = Idle]
        /\ caller[c].at = "sinks" /\ caller[c].next > Len(SinksOf(c))
    BY <1>1 DEF logger_flush
  <2>2. Passed(c) /\ caller[c].next \in Nat
    BY <1>0, <2>1 DEF DeliveryInv, Progress, CallerRecords
  <2>3. Len(SinksOf(c)) \in Nat
    BY <1>0, TargetsAre DEF SinksOf
  <2>4. \A p \in 1..Len(SinksOf(c)) : p < caller[c].next
    BY <2>1, <2>2, <2>3
  <2>5. \A k \in owed[caller[c].msg] : Has(k, caller[c].msg)
    BY <2>2, <2>4 DEF Passed
  <2> QED BY <1>0, <2>1, <2>5, MessageEnds DEF SameTargets
<1>2. CASE err_handler(c)
  <2>1. UNCHANGED objects /\ caller[c].msg \in handled'
    BY <1>2 DEF err_handler
  <2> DEFINE w == [caller[c] EXCEPT !.at = "report", !.next = minute]
  <2>2. w.at = "report" /\ w.msg = caller[c].msg /\ w.object = caller[c].object
    BY <1>0 DEF CallerRecords
  <2>3. \/ caller' = [caller EXCEPT ![c] = Idle]
        \/ caller' = [caller EXCEPT ![c].at = "report", ![c].next = minute]
    BY <1>2 DEF err_handler
  <2>4. ASSUME caller' = [caller EXCEPT ![c].at = "report", ![c].next = minute]
        PROVE  caller' = [caller EXCEPT ![c] = w]
    BY <1>0, <2>4 DEF GInv, RegistryTypes
  <2> HIDE DEF w
  <2>5. CASE caller' = [caller EXCEPT ![c] = Idle]
    BY <1>0, <2>1, <2>5, MessageEnds DEF SameTargets
  <2>6. CASE caller' = [caller EXCEPT ![c] = w]
    BY <1>0, <2>1, <2>2, <2>6, MessageEnds DEF SameTargets
  <2> QED BY <2>3, <2>4, <2>5, <2>6
<1>3. CASE default_err_handler(c)
  <2>1. /\ caller' = [caller EXCEPT ![c] = Idle] /\ UNCHANGED handled
        /\ caller[c].at = "report"
    BY <1>3 DEF default_err_handler
  <2>2. caller[c].msg \in handled'
    BY <2>1 DEF DeliveryInv, OneCaller
  <2> DEFINE i == caller[c].object
             r == [objects[i] EXCEPT !.last_err = caller[c].next]
  <2>3. r \in LoggerRecords /\ SameTargets(r, objects[i])
    BY <1>0 DEF LoggerRecords, CallerRecords, SameTargets
  <2>4. objects' = [objects EXCEPT ![i] = r]
    BY <1>3 DEF default_err_handler
  <2>5. i \in Nat /\ objects \in Seq(LoggerRecords)
    BY <1>0 DEF GInv, RegistryTypes, CallerRecords
  <2> HIDE DEF i, r
  <2>6. /\ Len(objects') = Len(objects)
        /\ \A j \in 1..Len(objects) : objects'[j] = IF j = i THEN r ELSE objects[j]
    BY <2>3, <2>4, <2>5, SetField
  <2>7. \A j \in 1..Len(objects) : SameTargets(objects'[j], objects[j])
    BY <2>3, <2>6 DEF SameTargets
  <2> QED BY <1>0, <2>1, <2>2, <2>6, <2>7, MessageEnds
<1> QED BY <1>1, <1>2, <1>3

(* For any callers, loggers and lists of distinct sinks, however calls,    *)
(* settings, drops and exceptions of sinks interleave: when the call for a *)
(* message has returned, every sink of a synchronous logger that did not   *)
(* refuse its level has it, the helper of an asynchronous one has it, and  *)
(* none has it twice, or its exception has reached the error handler.      *)
THEOREM EveryMessageArrives == ASSUME DistinctSinks PROVE GSpec => []DeliveredOrHandled
<1>1. GInit => GInv /\ DeliveryInv
  <2> SUFFICES ASSUME GInit PROVE DeliveryInv
    BY RegistryInitial
  <2>1. DeliveryTypes /\ Once
    <3>1. owed \in Seq(SUBSET Places) /\ Len(owed) = 0 /\ logs = 0
      BY DEF GInit
    <3>2. \A k \in Places : got[k] = << >> /\ Len(got[k]) = 0
      BY DEF GInit
    <3>3. got \in [Places -> Seq(Nat)]
      BY DEF GInit
    <3> QED BY <3>1, <3>2, <3>3 DEF DeliveryTypes, Once
  <2>2. \A c \in Callers : ~ Logging(c) /\ caller[c].at = "idle" /\ caller[c].msg = 0
    BY DEF GInit, Idle, Logging
  <2>3. OneCaller /\ Progress
    BY <2>2 DEF OneCaller, Progress
  <2>4. Arrived
    BY DEF GInit, Arrived
  <2> QED BY <2>1, <2>3, <2>4 DEF DeliveryInv
<1>2. GInv /\ DeliveryInv /\ [GNext]_gvars => GInv' /\ DeliveryInv'
  <2> SUFFICES ASSUME GInv, DeliveryInv, [GNext]_gvars PROVE DeliveryInv'
    BY RegistryStepKeeps
  <2>1. CASE NextMinute \/ UNCHANGED gvars
    <3>1. UNCHANGED <<objects, got, owed, handled, logs, caller>>
      BY <2>1 DEF NextMinute, gvars
    <3>2. \A d \in Callers : Logging(d)' <=> Logging(d)
      BY <3>1 DEF Logging
    <3>3. Len(objects) \in Nat
      BY DEF GInv, RegistryTypes
    <3>4. \A d \in Callers : ~ Logging(d) => caller'[d].msg = 0
      BY <3>1 DEF DeliveryInv, OneCaller
    <3> QED BY <3>1, <3>2, <3>3, <3>4, NoMessage DEF SameTargets
  <2>2. ASSUME NEW c \in Callers, RegistryStep(c) PROVE DeliveryInv'
    BY <2>2, RegistryDelivers
  <2>3. ASSUME NEW c \in Callers, LogStep(c) PROVE DeliveryInv'
    BY <2>3, LogDelivers, SinkDelivers, EndDelivers DEF LogStep
  <2> QED BY <2>1, <2>2, <2>3 DEF GNext
<1>3. GInv /\ DeliveryInv => DeliveredOrHandled
  <2> SUFFICES ASSUME GInv, DeliveryInv PROVE DeliveredOrHandled
    OBVIOUS
  <2>1. \A k \in Places : DOMAIN got[k] = 1..Len(got[k])
    BY DEF DeliveryInv, DeliveryTypes
  <2>2. \A k \in Places : \A m : Has(k, m) => m \in Range(got[k])
    BY <2>1, Zenon DEF Has, Range
  <2>3. \A m \in 1..logs : \A k \in owed[m] : k \in Places
    BY DEF DeliveryInv, DeliveryTypes
  <2>4. \A m \in 1..logs, k \in Places : \A i, j \in DOMAIN got[k] :
           got[k][i] = m /\ got[k][j] = m => i = j
    BY <2>1 DEF DeliveryInv, Once
  <2>5. \A m \in 1..logs : (\A c \in Callers : caller[c].msg # m) /\ m \notin handled =>
           \A k \in owed[m] : m \in Range(got[k])
    BY <2>2, <2>3 DEF DeliveryInv, Arrived
  <2> QED BY <2>4, <2>5 DEF DeliveredOrHandled
<1> QED BY <1>1, <1>2, <1>3, PTL DEF GSpec

-----------------------------------------------------------------------------
(* The daily file.  DailyInv relates the rotation time, the name of the    *)
(* open file and the clock between the two looks _sink_it takes at it.     *)

(* A moment is some whole days and less than a day.                        *)
LEMMA DayDivision ==
  ASSUME NEW t \in Nat
  PROVE  /\ t \div DayLength \in Nat /\ (t \div DayLength) * DayLength \in Nat
         /\ (t \div DayLength) * DayLength <= t
         /\ t < (t \div DayLength) * DayLength + DayLength
<1>1. ASSUME NEW n \in Nat, n > 0
      PROVE  /\ t \div n \in Nat /\ t % n \in Nat /\ t % n < n
             /\ t = n * (t \div n) + (t % n)
  BY <1>1
<1>2. ASSUME NEW n \in Nat, NEW q \in Nat
      PROVE  q * n = n * q /\ q * n \in Nat
  OBVIOUS
<1>3. DayLength \in Nat /\ DayLength > 0
  BY DailyAssumption
<1>4. /\ t \div DayLength \in Nat /\ t % DayLength \in Nat /\ t % DayLength < DayLength
      /\ t = DayLength * (t \div DayLength) + (t % DayLength)
  BY <1>1, <1>3
<1> DEFINE q == t \div DayLength
<1>5. q \in Nat /\ t = DayLength * q + (t % DayLength)
  BY <1>4
<1> HIDE DEF q
<1>6. q * DayLength = DayLength * q /\ q * DayLength \in Nat
  BY <1>2, <1>3, <1>5
<1>7. q * DayLength <= t /\ t < q * DayLength + DayLength
  BY <1>3, <1>4, <1>5, <1>6
<1> QED BY <1>5, <1>6, <1>7, Zenon DEF q

LEMMA DaysAreNat == \A k \in Nat : k * DayLength \in Nat
BY DailyAssumption

(* More days are longer by one at least.                                   *)
LEMMA DayMultiples ==
  ASSUME NEW a \in Nat, NEW b \in Nat, a < b
  PROVE  /\ a * DayLength \in Nat /\ b * DayLength \in Nat
         /\ a * DayLength + DayLength <= b * DayLength
<1>1. PICK c \in Nat : b = a + 1 + c
  <2> WITNESS b - a - 1 \in Nat
  <2> QED OBVIOUS
<1>2. b * DayLength = a * DayLength + DayLength + c * DayLength
  BY <1>1, DailyAssumption
<1>3. c * DayLength \in Nat /\ a * DayLength \in Nat /\ b * DayLength \in Nat
  BY DailyAssumption
<1> QED BY <1>2, <1>3, DailyAssumption

(* Where a moment lies in days tells how many whole days there are.        *)
LEMMA WholeDays ==
  ASSUME NEW t \in Nat, NEW k \in Nat
  PROVE  /\ k * DayLength <= t => k <= t \div DayLength
         /\ t < k * DayLength + DayLength => t \div DayLength <= k
<1> DEFINE q == t \div DayLength
<1>2. q \in Nat /\ q * DayLength <= t /\ t < q * DayLength + DayLength
  BY DayDivision, Zenon
<1> HIDE DEF q
<1>3. k * DayLength \in Nat /\ q * DayLength \in Nat /\ DayLength \in Nat
  BY <1>2, DaysAreNat, DailyAssumption
<1>4. ASSUME q < k PROVE q * DayLength + DayLength <= k * DayLength
  BY <1>2, <1>4, DayMultiples
<1>5. ASSUME k < q PROVE k * DayLength + DayLength <= q * DayLength
  BY <1>2, <1>5, DayMultiples
<1>6. k * DayLength <= t => k <= q
  BY <1>2, <1>3, <1>4
<1>7. t < k * DayLength + DayLength => q <= k
  BY <1>2, <1>3, <1>5
<1> QED BY <1>6, <1>7 DEF q

-----------------------------------------------------------------------------
(* t is a moment at which the files rotate.                                *)
RotationMoment(t) == \E k \in Nat : t = k * DayLength + rotation_time

(* The next rotation is ahead, by a day at most.                           *)
LEMMA NextRotation ==
  ASSUME clock \in Nat, rotation_time \in Nat, rotation_time < DayLength
  PROVE  /\ next_rotation_tp \in Nat
         /\ RotationMoment(next_rotation_tp)
         /\ next_rotation_tp <= clock + DayLength
<1> DEFINE q == clock \div DayLength
<1>1. q \in Nat /\ q * DayLength <= clock /\ clock < q * DayLength + DayLength
  BY DayDivision, Zenon
<1> HIDE DEF q
<1>2. /\ q * DayLength \in Nat /\ DayLength \in Nat
      /\ (q + 1) * DayLength = q * DayLength + DayLength
  BY <1>1, DailyAssumption
<1>3. next_rotation_tp = IF q * DayLength + rotation_time > clock
                         THEN q * DayLength + rotation_time
                         ELSE q * DayLength + rotation_time + DayLength
  BY DEF next_rotation_tp, q
<1>4. CASE q * DayLength + rotation_time > clock
  <2>1. next_rotation_tp = q * DayLength + rotation_time BY <1>3, <1>4
  <2> QED BY <1>1, <1>2, <2>1 DEF RotationMoment
<1>5. CASE ~(q * DayLength + rotation_time > clock)
  <2>1. next_rotation_tp = (q + 1) * DayLength + rotation_time BY <1>2, <1>3, <1>5
  <2>2. next_rotation_tp <= clock + DayLength BY <1>2, <1>1, <1>3, <1>5
  <2>3. next_rotation_tp \in Nat BY <1>2, <1>3, <1>5
  <2>4. q + 1 \in Nat BY <1>1
  <2> QED BY <2>1, <2>2, <2>3, <2>4 DEF RotationMoment
<1> QED BY <1>4, <1>5

(* A moment before a rotation that comes at most two days after another    *)
(* moment is at most one period later than that one.                       *)
LEMMA PeriodBefore ==
  ASSUME NEW t \in Nat, NEW u \in Nat, NEW r \in Nat, rotation_time \in Nat,
         rotation_time < DayLength, RotationMoment(r), t < r, r <= u + 2 * DayLength
  PROVE  PeriodOf(t) <= PeriodOf(u) + 1
<1>1. PICK k \in Nat : r = k * DayLength + rotation_time
  BY DEF RotationMoment
<1>2. DayLength \in Nat /\ k * DayLength \in Nat
  BY DailyAssumption
<1> DEFINE p == t + DayLength - rotation_time  q == u + DayLength - rotation_time
<1>3. p \in Nat /\ q \in Nat
  BY <1>2
<1>4. p < k * DayLength + DayLength
  BY <1>1, <1>2
<1>5. p \div DayLength <= k
  BY <1>3, <1>4, WholeDays
<1>6. k <= q \div DayLength + 1
  <2>1. q \div DayLength \in Nat BY <1>3, DayDivision
  <2>2. CASE k = 0 BY <2>1, <2>2
  <2>3. CASE k > 0
    <3>1. k - 1 \in Nat /\ (k - 1) * DayLength = k * DayLength - DayLength
      BY <2>3, <1>2
    <3>2. (k - 1) * DayLength <= q
      BY <3>1, <1>1, <1>2
    <3>3. k - 1 <= q \div DayLength
      BY <3>1, <3>2, <1>3, WholeDays
    <3> QED BY <3>1, <3>3, <2>1
  <2> QED BY <2>2, <2>3
<1>7. p \div DayLength \in Nat /\ q \div DayLength \in Nat
  BY <1>3, DayDivision
<1>8. PeriodOf(t) = p \div DayLength /\ PeriodOf(u) = q \div DayLength
  BY DEF PeriodOf
<1> HIDE DEF p, q
<1> QED BY <1>5, <1>6, <1>7, <1>8

(* Periods do not go back.                                                 *)
LEMMA PeriodMonotonic ==
  ASSUME NEW t \in Nat, NEW u \in Nat, rotation_time \in Nat,
         rotation_time < DayLength, t <= u
  PROVE  PeriodOf(t) <= PeriodOf(u) + 1
<1> DEFINE p == t + DayLength - rotation_time  q == u + DayLength - rotation_time
<1>1. p \in Nat /\ q \in Nat /\ p <= q
  BY DailyAssumption
<1> DEFINE k == p \div DayLength
<1>2. k \in Nat /\ k * DayLength <= p /\ k * DayLength \in Nat
  BY <1>1, DayDivision, Zenon
<1> HIDE DEF k
<1>3. k * DayLength <= q
  BY <1>1, <1>2
<1>4. k <= q \div DayLength /\ q \div DayLength \in Nat
  BY <1>1, <1>2, <1>3, WholeDays, DayDivision
<1>5. k <= q \div DayLength + 1
  BY <1>2, <1>4
<1>6. PeriodOf(t) = p \div DayLength /\ PeriodOf(u) = q \div DayLength
  BY DEF PeriodOf
<1> QED BY <1>5, <1>6, Zenon DEF k

-----------------------------------------------------------------------------
DailyTypes ==
    /\ clock \in Nat /\ rotation_time \in Nat /\ rotation_tp \in Nat
    /\ named \in Nat /\ seen \in Nat /\ dfaults \in Nat
    /\ dpc \in {"new", "refused", "first_open", "idle", "open", "next_tp", "write"}

(* The rotation time is never more than two days after the moment the file *)
(* was named: one until the time was taken, one until the rotation it gave.*)
(* A sink without a file is past its rotation time and will open one.      *)
Rotations ==
    /\ dpc \notin {"new", "refused"} =>
         rotation_time < DayLength /\ RotationMoment(rotation_tp)
    /\ dpc = "first_open" => rotation_tp <= clock + DayLength
    /\ dpc \in {"idle", "open", "next_tp", "write"} =>
         named <= clock /\ rotation_tp <= named + 2 * DayLength
    /\ dpc \in {"open", "next_tp"} => seen <= clock /\ clock < seen + DayLength
    /\ dpc = "open" => rotation_tp <= seen
    /\ dpc = "next_tp" => day_fd /\ seen <= named
    /\ dpc = "write" => day_fd /\ (seen < rotation_tp \/ seen <= named)
    /\ dpc = "idle" => day_fd \/ rotation_tp <= clock

DailyInv == DailyTypes /\ Rotations

LEMMA DailyInitial == DInit => DailyInv
BY DailyAssumption DEF DInit, DailyInv, DailyTypes, Rotations

LEMMA DailyStep == DailyInv /\ [DNext]_dvars => DailyInv'
<1> SUFFICES ASSUME DailyInv, [DNext]_dvars PROVE DailyInv' OBVIOUS
<1> USE DailyAssumption DEF DailyInv, DailyTypes, Rotations, RotationMoment
<1>1. CASE DailyConstruct
  <2>1. CASE rotation_time >= DayLength
    BY <1>1, <2>1 DEF DailyConstruct
  <2>2. CASE ~(rotation_time >= DayLength)
    <3>1. /\ next_rotation_tp \in Nat /\ next_rotation_tp <= clock + DayLength
          /\ RotationMoment(next_rotation_tp)
      BY <2>2, NextRotation
    <3> QED BY <1>1, <2>2, <3>1 DEF DailyConstruct
  <2> QED BY <2>1, <2>2
<1>2. CASE DailyOpen
  <2>1. CASE day_fd' = TRUE /\ dpc' = (IF dpc = "open" THEN "next_tp" ELSE "idle")
             /\ UNCHANGED dfaults
    BY <1>2, <2>1 DEF DailyOpen
  <2>2. CASE /\ dfaults < DayFaults /\ dfaults' = dfaults + 1 /\ day_fd' = FALSE
             /\ dpc' = IF dpc = "open" THEN "idle" ELSE "refused"
    BY <1>2, <2>2 DEF DailyOpen
  <2> QED BY <1>2, <2>1, <2>2 DEF DailyOpen
<1>3. CASE DailySinkIt
  BY <1>3 DEF DailySinkIt
<1>4. CASE DailyNext
  <2>1. /\ next_rotation_tp \in Nat /\ next_rotation_tp <= clock + DayLength
        /\ RotationMoment(next_rotation_tp)
    BY <1>4, NextRotation DEF DailyNext
  <2> QED BY <1>4, <2>1 DEF DailyNext
<1>5. CASE DailyWrite
  BY <1>5 DEF DailyWrite
<1>6. ASSUME NEW n \in {1, DayLength}, Tick(n) PROVE DailyInv'
  BY <1>6 DEF Tick
<1>7. CASE UNCHANGED dvars
  BY <1>7 DEF dvars
<1> HIDE DEF DailyInv
<1> QED BY <1>1, <1>2, <1>3, <1>4, <1>5, <1>6, <1>7 DEF DNext

(* A message is written to an open file, and the file is at most one       *)
(* rotation behind the moment the message came, whatever the length of the *)
(* day and the time of rotation, and however often opening has failed.     *)
THEOREM DailyFileIsFresh == DSpec => []DailyFileFresh
<1>1. DailyInv => DailyFileFresh
  <2> SUFFICES ASSUME DailyInv, dpc = "write"
               PROVE  day_fd /\ PeriodOf(seen) <= PeriodOf(named) + 1
    BY DEF DailyFileFresh
  <2>1. /\ seen \in Nat /\ named \in Nat /\ rotation_tp \in Nat /\ rotation_time \in Nat
        /\ rotation_time < DayLength /\ RotationMoment(rotation_tp)
        /\ rotation_tp <= named + 2 * DayLength
        /\ day_fd /\ (seen < rotation_tp \/ seen <= named)
    BY DEF DailyInv, DailyTypes, Rotations
  <2> QED BY <2>1, PeriodBefore, PeriodMonotonic
<1> QED BY <1>1, DailyInitial, DailyStep, PTL DEF DSpec

-----------------------------------------------------------------------------
(* The rotating files.  RotatingInv says which gap in the files the loop   *)
(* of _rotate is about to fill, how _current_size relates to the size of   *)
(* the open file, and that every file continues the one after it.          *)

RotatingTypes ==
    /\ file \in [0..MaxFiles -> Files \cup {Absent}]
    /\ current_size \in Nat /\ buffered \in Nat /\ msgs \in Nat
    /\ rpc \in {"closed", "idle", "rotate", "rename", "write"}
    /\ index \in 0..MaxFiles
    /\ msg \in Messages
    /\ written \in Seq(Messages)

(* Where the loop of _rotate is, its target is gone already; what is only  *)
(* buffered is at the end of the base file.                                *)
Loop ==
    /\ rpc \in {"rotate", "rename"} => buffered = 0
    /\ rpc = "rotate" /\ index < MaxFiles => ~Exists(index)
    /\ rpc = "rename" => index > 0 /\ ~Exists(index)
    /\ buffered > 0 => Exists(0) /\ buffered <= Len(file[0].msgs)

(* _current_size is never less than the size of the open file, and tells a *)
(* sink without a file by being too large.                                 *)
Sizes ==
    /\ rpc \in {"rotate", "rename"} => ~fd /\ current_size > MaxSize
    /\ rpc = "idle" /\ ~fd => current_size > MaxSize
    /\ rpc = "idle" /\ fd => Exists(0) /\ SizeOf(file[0]) <= current_size
    /\ rpc = "write" =>
         /\ fd /\ Exists(0)
         /\ SizeOf(file[0]) + msg.size <= current_size
         /\ current_size <= MaxSize \/ Len(file[0].msgs) = 0
    /\ \A i \in 0..MaxFiles : Exists(i) =>
         \A j \in 1..Len(file[i].msgs) :
           file[i].msgs[j].end <= MaxSize \/ Len(file[i].msgs) = 1

(* No file reaches into a newer one.                                       *)
Apart ==
    \A i \in 0..MaxFiles : Exists(i) =>
      /\ EndsAt(i) <= Len(written)
      /\ \A k \in 0..i - 1 : Exists(k) => EndsAt(i) <= file[k].from

RotatingInv == RotatingTypes /\ Loop /\ Sizes /\ Apart /\ FilesAreSuffix

LEMMA Limits == MaxFiles \in Nat /\ MaxSize \in Nat /\ 0 \in 0..MaxFiles
BY RotatingAssumption

LEMMA FileFields ==
  /\ \A f \in Files : f.from \in Nat /\ f.msgs \in Seq(Messages) /\ Len(f.msgs) \in Nat
  /\ \A f \in Files : f = [from |-> f.from, msgs |-> f.msgs]
  /\ \A a \in Nat, q \in Seq(Messages) : [from |-> a, msgs |-> q] \in Files
  /\ Absent \notin Files
BY RotatingAssumption DEF Files

LEMMA NewMsgs ==
  ASSUME NEW f \in Files, NEW q \in Seq(Messages)
  PROVE  [f EXCEPT !.msgs = q] = [from |-> f.from, msgs |-> q]
BY DEF Files

LEMMA NewEnd ==
  ASSUME NEW m \in Messages, NEW e \in Nat
  PROVE  [m EXCEPT !.end = e] \in Messages /\ [m EXCEPT !.end = e].end = e
BY DEF Messages

LEMMA SizeIsNat == \A f \in Files : SizeOf(f) \in Nat
<1> SUFFICES ASSUME NEW f \in Files PROVE SizeOf(f) \in Nat OBVIOUS
<1>1. f.msgs \in Seq(Messages)
  BY FileFields
<1>2. CASE Len(f.msgs) = 0
  BY <1>2 DEF SizeOf
<1>3. CASE Len(f.msgs) # 0
  <2>1. f.msgs[Len(f.msgs)] \in Messages
    BY <1>1, <1>3
  <2> QED BY <1>3, <2>1 DEF SizeOf, Messages
<1> QED BY <1>2, <1>3

(* A message put at the end of a file, or the last ones cut off.           *)
LEMMA Appended ==
  ASSUME NEW q \in Seq(Messages), NEW m \in Messages
  PROVE  /\ Append(q, m) \in Seq(Messages)
         /\ Len(Append(q, m)) = Len(q) + 1 /\ Append(q, m)[Len(q) + 1] = m
         /\ \A j \in 1..Len(q) : Append(q, m)[j] = q[j]
OBVIOUS

LEMMA CutOff ==
  ASSUME NEW q \in Seq(Messages), NEW n \in Nat, n <= Len(q)
  PROVE  /\ SubSeq(q, 1, Len(q) - n) \in Seq(Messages)
         /\ Len(SubSeq(q, 1, Len(q) - n)) = Len(q) - n
         /\ \A j \in 1..Len(q) - n : SubSeq(q, 1, Len(q) - n)[j] = q[j]
OBVIOUS

LEMMA RotatingInitial == RInit => RotatingInv
<1> SUFFICES ASSUME RInit PROVE RotatingInv OBVIOUS
<1>1. RotatingTypes
  BY RotatingAssumption DEF RInit, RotatingTypes, Messages
<1>2. \A i \in 0..MaxFiles : ~Exists(i)
  BY DEF RInit, Exists
<1> QED BY <1>1, <1>2, RotatingAssumption DEF RInit, RotatingInv, Loop, Sizes, Apart,
     FilesAreSuffix

-----------------------------------------------------------------------------
(* Steps that leave the files alone.                                       *)
LEMMA FilesKept ==
  ASSUME RotatingInv, UNCHANGED <<file, written>>
  PROVE  FilesAreSuffix' /\ Apart'
BY DEF RotatingInv, FilesAreSuffix, Apart, Exists, EndsAt

LEMMA LeaveStep ==
  ASSUME RotatingInv, LeaveLog, rpc # "closed"
  PROVE  RotatingInv'
<1>1. RotatingTypes'
  BY DEF RotatingInv, RotatingTypes, LeaveLog
<1>2. Loop' /\ Sizes'
  <2>1. rpc = "write" => SizeOf(file[0]) \in Nat /\ msg.size \in Nat
    BY SizeIsNat, Limits DEF RotatingInv, RotatingTypes, Sizes, Exists, Messages
  <2>2. CASE rpc = "write"
    BY <2>1, <2>2 DEF RotatingInv, RotatingTypes, Loop, Sizes, LeaveLog, Exists, SizeOf
  <2>3. CASE rpc # "write"
    BY <2>3 DEF RotatingInv, RotatingTypes, Loop, Sizes, LeaveLog, Exists, SizeOf
  <2> QED BY <2>2, <2>3
<1>3. FilesAreSuffix' /\ Apart'
  BY FilesKept DEF LeaveLog
<1> QED BY <1>1, <1>2, <1>3 DEF RotatingInv

LEMMA FlushStep ==
  ASSUME RotatingInv, Flush
  PROVE  RotatingInv'
<1>1. RotatingTypes' /\ Loop' /\ Sizes'
  BY DEF RotatingInv, RotatingTypes, Loop, Sizes, Flush, Exists, SizeOf
<1>3. FilesAreSuffix' /\ Apart'
  BY FilesKept DEF Flush
<1> QED BY <1>1, <1>3 DEF RotatingInv

LEMMA SinkItStep ==
  ASSUME RotatingInv, NEW s \in MsgSizes, sink_it(s)
  PROVE  RotatingInv'
<1>0. s \in Nat
  BY RotatingAssumption
<1>1. RotatingTypes'
  BY <1>0, Limits DEF RotatingInv, RotatingTypes, sink_it, Messages
<1>2. Exists(0) => SizeOf(file[0]) \in Nat
  BY SizeIsNat, Limits DEF RotatingInv, RotatingTypes, Exists
<1>3. msg'.size = s
  BY DEF sink_it
<1>4. Loop'
  BY Limits DEF RotatingInv, RotatingTypes, Loop, sink_it, Exists
<1>5. Sizes'
  BY <1>0, <1>2, <1>3, Limits DEF RotatingInv, RotatingTypes, Sizes, sink_it, Exists, SizeOf
<1>6. FilesAreSuffix' /\ Apart'
  BY FilesKept DEF sink_it
<1> QED BY <1>1, <1>4, <1>5, <1>6 DEF RotatingInv

-----------------------------------------------------------------------------
LEMMA ConstructStep ==
  ASSUME RotatingInv, Construct
  PROVE  RotatingInv'
<1> DEFINE base == IF Exists(0) THEN file[0] ELSE NewFile
<1>1. base \in Files /\ base # Absent
  <2>1. NewFile \in Files
    <3>1. Len(written) \in Nat /\ << >> \in Seq(Messages)
      BY DEF RotatingInv, RotatingTypes
    <3> QED BY <3>1, FileFields DEF NewFile
  <2>2. Exists(0) => file[0] \in Files
    BY Limits DEF RotatingInv, RotatingTypes, Exists
  <2> QED BY <2>1, <2>2, FileFields
<1>2. base = file[0] \/ (~Exists(0) /\ base.from = Len(written) /\ Len(base.msgs) = 0)
  <2>1. NewFile.from = Len(written) /\ Len(NewFile.msgs) = 0
    BY DEF NewFile
  <2>2. CASE Exists(0)
    BY <2>2 DEF Exists
  <2>3. CASE ~Exists(0)
    BY <2>1, <2>3
  <2> QED BY <2>2, <2>3
<1>8. /\ file' = [file EXCEPT ![0] = base] /\ current_size' = SizeOf(base)
      /\ fd' = TRUE /\ rpc = "closed" /\ rpc' = "idle"
      /\ UNCHANGED <<index, msg, buffered, written, msgs>>
  BY DEF Construct
<1> HIDE DEF base
<1>9. file'[0] = base /\ \A i \in 1..MaxFiles : file'[i] = file[i]
  BY <1>8, Limits DEF RotatingInv, RotatingTypes
<1>3. SizeOf(base) \in Nat /\ base.from \in Nat /\ Len(base.msgs) \in Nat /\ 0 \in 0..MaxFiles
  BY <1>1, SizeIsNat, FileFields, RotatingAssumption
<1>4. RotatingTypes'
  BY <1>1, <1>3, <1>8 DEF RotatingInv, RotatingTypes
<1>5. Loop'
  BY <1>1, <1>2, <1>3, <1>8, <1>9 DEF RotatingInv, RotatingTypes, Loop, Exists
<1>6. Sizes'
  BY <1>1, <1>2, <1>3, <1>8, <1>9 DEF RotatingInv, RotatingTypes, Sizes, Exists, SizeOf
<1>7. FilesAreSuffix'
  <2>1. CASE base = file[0]
    <3>1. file' = file
      BY <1>8, <2>1 DEF RotatingInv, RotatingTypes
    <3> QED BY <1>8, <3>1, FilesKept
  <2>2. CASE ~Exists(0) /\ base.from = Len(written) /\ Len(base.msgs) = 0
    <3> SUFFICES ASSUME NEW i \in 0..MaxFiles, Exists(i)'
                 PROVE  (/\ \A j \in 1..Len(file[i].msgs) : file[i].msgs[j] = written[file[i].from + j]
                         /\ \A k \in 0..i - 1 : Exists(k) /\ (\A l \in k + 1..i - 1 : ~Exists(l)) =>
                              file[k].from = EndsAt(i)
                         /\ (\A k \in 0..i - 1 : ~Exists(k)) => EndsAt(i) = Len(written))'
      BY DEF FilesAreSuffix
    <3>1. CASE i = 0
      BY <1>1, <1>3, <1>8, <1>9, <2>2, <3>1 DEF EndsAt, RotatingInv, RotatingTypes
    <3>2. CASE i # 0
      <4>1. i \in 1..MaxFiles /\ file'[i] = file[i] /\ Exists(i)
        BY <1>9, <3>2 DEF Exists
      <4>2. \A k \in 0..i - 1 : k # 0 => file'[k] = file[k]
        BY <1>9, <4>1, Limits
      <4> QED BY <1>8, <1>9, <2>2, <4>1, <4>2 DEF RotatingInv, FilesAreSuffix, Exists, EndsAt
    <3> QED BY <3>1, <3>2
  <2> QED BY <1>2, <2>1, <2>2
<1>10. Apart'
  <2>1. \A i \in 1..MaxFiles : Exists(i)' => Exists(i) /\ EndsAt(i)' = EndsAt(i)
    BY <1>9 DEF Exists, EndsAt
  <2>2. \A i \in 1..MaxFiles : Exists(i) => EndsAt(i) <= Len(written) /\ EndsAt(i) <= base.from
    BY <1>1, <1>2, Limits DEF RotatingInv, Apart, Exists
  <2>3. EndsAt(0)' <= Len(written)
    <3>1. EndsAt(0)' = base.from + Len(base.msgs)
      BY <1>9 DEF EndsAt
    <3>2. CASE base = file[0]
      <4>1. Exists(0) /\ EndsAt(0) = base.from + Len(base.msgs)
        BY <1>1, <3>2 DEF Exists, EndsAt
      <4> QED BY <3>1, <4>1, Limits DEF RotatingInv, Apart
    <3>3. CASE base.from = Len(written) /\ Len(base.msgs) = 0
      BY <1>3, <3>1, <3>3
    <3> QED BY <1>2, <3>2, <3>3
  <2>4. \A i \in 1..MaxFiles : \A k \in 1..i - 1 : file'[k] = file[k]
    BY <1>9, Limits
  <2> QED BY <1>8, <1>9, <2>1, <2>2, <2>3, <2>4, Limits DEF RotatingInv, Apart, Exists
<1> QED BY <1>4, <1>5, <1>6, <1>7, <1>10 DEF RotatingInv

-----------------------------------------------------------------------------
(* The steps of the loop.                                                  *)

(* What the order of the files is about one of them.                       *)
InOrder(i) ==
    /\ \A j \in 1..Len(file[i].msgs) : file[i].msgs[j] = written[file[i].from + j]
    /\ \A k \in 0..i - 1 : Exists(k) /\ (\A l \in k + 1..i - 1 : ~Exists(l)) =>
         file[k].from = EndsAt(i)
    /\ (\A k \in 0..i - 1 : ~Exists(k)) => EndsAt(i) = Len(written)

LEMMA OrderOfEach == FilesAreSuffix <=> \A i \in 0..MaxFiles : Exists(i) => InOrder(i)
BY DEF FilesAreSuffix, InOrder

LEMMA RemoveStep ==
  ASSUME RotatingInv, RemoveTarget
  PROVE  RotatingInv'
<1>1. CASE Exists(index) /\ LeaveLog
  BY <1>1, LeaveStep DEF RemoveTarget
<1>2. CASE /\ file' = [file EXCEPT ![index] = Absent]
           /\ rpc' = "rename"
           /\ UNCHANGED <<fd, current_size, index, msg, buffered, written, msgs>>
  <2>1. /\ index \in 1..MaxFiles /\ file'[index] = Absent
        /\ \A i \in 0..MaxFiles : i # index => file'[i] = file[i]
    BY <1>2, Limits DEF RotatingInv, RotatingTypes, RemoveTarget
  <2>2. RotatingTypes'
    BY <1>2 DEF RotatingInv, RotatingTypes
  <2>3. rpc = "rotate" /\ buffered = 0 /\ ~fd /\ current_size > MaxSize
    BY DEF RotatingInv, Loop, Sizes, RemoveTarget
  <2>4. Loop'
    BY <1>2, <2>1, <2>3, Limits DEF Loop, Exists
  <2>5. Sizes'
    BY <1>2, <2>1, <2>3 DEF RotatingInv, RotatingTypes, Sizes, Exists
  <2>6. FilesAreSuffix'
    <3>1. CASE index < MaxFiles
      <4>1. file[index] = Absent
        BY <2>1, <2>3, <3>1 DEF RotatingInv, Loop, Exists
      <4>2. file' = file
        BY <1>2, <4>1 DEF RotatingInv, RotatingTypes
      <4> QED BY <1>2, <4>2, FilesKept
    <3>2. CASE index = MaxFiles
      <4> SUFFICES ASSUME NEW i \in 0..MaxFiles, Exists(i)'
                   PROVE  InOrder(i)'
        BY OrderOfEach DEF FilesAreSuffix, InOrder
      <4>1. i # index /\ i < MaxFiles /\ \A k \in 0..i : k \in 0..MaxFiles /\ k # index
        BY <2>1, <3>2, Limits DEF Exists
      <4>2. \A k \in 0..i : file'[k] = file[k]
        BY <2>1, <4>1
      <4>3. InOrder(i)
        <5>1. Exists(i)
          BY <4>1, <4>2 DEF Exists
        <5> QED BY <5>1, OrderOfEach DEF RotatingInv
      <4>4. written' = written
        BY <1>2
      <4>5. \A k \in 0..i - 1 : k \in 0..i /\ \A l \in k + 1..i - 1 : l \in 0..i
        OBVIOUS
      <4>6. i \in 0..i
        OBVIOUS
      <4> QED BY <4>2, <4>3, <4>4, <4>5, <4>6 DEF InOrder, Exists, EndsAt
    <3> QED BY <2>1, <3>1, <3>2, Limits
  <2>7. Apart'
    BY <1>2, <2>1, Limits DEF RotatingInv, Apart, Exists, EndsAt
  <2> QED BY <2>2, <2>4, <2>5, <2>6, <2>7 DEF RotatingInv
<1> QED BY <1>1, <1>2 DEF RemoveTarget

LEMMA RenameStep ==
  ASSUME RotatingInv, RenameSource
  PROVE  RotatingInv'
<1>1. CASE Exists(index - 1) /\ LeaveLog
  BY <1>1, LeaveStep DEF RenameSource
<1>2. CASE /\ file' = IF Exists(index - 1)
                       THEN [file EXCEPT ![index] = file[index - 1], ![index - 1] = Absent]
                       ELSE file
           /\ rpc' = "rotate" /\ index' = index - 1
           /\ UNCHANGED <<fd, current_size, msg, buffered, written, msgs>>
  <2>1. /\ index \in 1..MaxFiles /\ index - 1 \in 0..MaxFiles /\ file[index] = Absent
        /\ rpc = "rename" /\ buffered = 0 /\ ~fd /\ current_size > MaxSize
    BY Limits DEF RotatingInv, RotatingTypes, Loop, Sizes, RenameSource, Exists
  <2>2. CASE ~Exists(index - 1)
    <3>1. file' = file
      BY <1>2, <2>2
    <3>2. RotatingTypes'
      BY <1>2, <2>1, <3>1 DEF RotatingInv, RotatingTypes
    <3>3. Loop' /\ Sizes'
      BY <1>2, <2>1, <2>2, <3>1 DEF RotatingInv, RotatingTypes, Loop, Sizes, Exists
    <3>4. FilesAreSuffix' /\ Apart'
      BY <1>2, <3>1, FilesKept
    <3> QED BY <3>2, <3>3, <3>4 DEF RotatingInv
  <2>3. CASE Exists(index - 1)
    <3>1. file' = [file EXCEPT ![index] = file[index - 1], ![index - 1] = Absent]
      BY <1>2, <2>3
    <3>2. /\ file'[index] = file[index - 1] /\ file'[index - 1] = Absent
          /\ \A i \in 0..MaxFiles : i # index /\ i # index - 1 => file'[i] = file[i]
      BY <2>1, <3>1 DEF RotatingInv, RotatingTypes
    <3>3. RotatingTypes'
      BY <1>2, <2>1, <3>1 DEF RotatingInv, RotatingTypes
    <3>4. Loop'
      BY <1>2, <2>1, <3>2 DEF Loop, Exists
    <3>5. Sizes'
      BY <1>2, <2>1, <2>3, <3>2 DEF RotatingInv, RotatingTypes, Sizes, Exists
    <3>6. FilesAreSuffix'
      <4> SUFFICES ASSUME NEW i \in 0..MaxFiles, Exists(i)'
                   PROVE  InOrder(i)'
        BY OrderOfEach DEF FilesAreSuffix, InOrder
      <4>1. written' = written
        BY <1>2
      <4>2. CASE i = index
        <5>1. InOrder(index - 1)
          BY <2>1, <2>3, OrderOfEach DEF RotatingInv
        <5>2. \A k \in 0..index - 2 : file'[k] = file[k]
          BY <2>1, <3>2, Limits
        <5>3. \A j \in 1..Len(file'[i].msgs) : file'[i].msgs[j] = written'[file'[i].from + j]
          BY <3>2, <4>1, <4>2, <5>1 DEF InOrder
        <5>4. EndsAt(i)' = EndsAt(index - 1)
          BY <3>2, <4>2 DEF EndsAt
        <5>5. ASSUME NEW k \in 0..i - 1, Exists(k)', \A l \in k + 1..i - 1 : ~Exists(l)'
              PROVE  file'[k].from = EndsAt(i)'
          <6>1. k \in 0..index - 1 - 1 /\ file'[k] = file[k] /\ Exists(k)
            BY <2>1, <3>2, <4>2, <5>2, <5>5 DEF Exists
          <6>2. \A l \in k + 1..index - 1 - 1 : ~Exists(l)
            BY <2>1, <4>2, <5>2, <5>5 DEF Exists
          <6> QED BY <5>1, <5>4, <6>1, <6>2 DEF InOrder
        <5>6. (\A k \in 0..i - 1 : ~Exists(k)') => \A k \in 0..index - 1 - 1 : ~Exists(k)
          BY <2>1, <4>2, <5>2 DEF Exists
        <5>7. (\A k \in 0..i - 1 : ~Exists(k)') => EndsAt(i)' = Len(written)'
          BY <4>1, <5>1, <5>4, <5>6 DEF InOrder
        <5> QED BY <5>3, <5>5, <5>7 DEF InOrder
      <4>3. CASE i < index - 1
        <5>1. \A k \in 0..i : file'[k] = file[k]
          BY <2>1, <3>2, <4>3, Limits
        <5>2. InOrder(i)
          <6>1. Exists(i)
            BY <5>1 DEF Exists
          <6> QED BY <6>1, OrderOfEach DEF RotatingInv
        <5> QED BY <4>1, <5>1, <5>2 DEF InOrder, Exists, EndsAt
      <4>4. CASE i > index
        <5>1. file'[i] = file[i] /\ Exists(i) /\ InOrder(i)
          <6>1. file'[i] = file[i] /\ Exists(i)
            BY <2>1, <3>2, <4>4 DEF Exists
          <6> QED BY <6>1, OrderOfEach DEF RotatingInv
        <5>2. \A k \in 0..i - 1 : k # index /\ k # index - 1 => file'[k] = file[k]
          BY <2>1, <3>2, <4>4, Limits
        <5>3. \A j \in 1..Len(file'[i].msgs) : file'[i].msgs[j] = written'[file'[i].from + j]
          BY <5>1, <4>1 DEF InOrder
        <5>4. EndsAt(i)' = EndsAt(i)
          BY <5>1 DEF EndsAt
        <5>5. ASSUME NEW k \in 0..i - 1, Exists(k)', \A l \in k + 1..i - 1 : ~Exists(l)'
              PROVE  file'[k].from = EndsAt(i)'
          <6>1. CASE k = index
            <7>1. \A l \in index..i - 1 : ~Exists(l)
              BY <2>1, <5>2, <5>5, <6>1 DEF Exists
            <7>2. \A l \in index - 1 + 1..i - 1 : ~Exists(l)
              BY <2>1, <7>1
            <7> QED BY <2>1, <2>3, <3>2, <4>4, <5>1, <5>4, <6>1, <7>2 DEF InOrder
          <6>2. CASE k # index
            <7>1. k # index - 1 /\ k > index
              BY <2>1, <3>2, <4>4, <5>5, <6>2, <2>3 DEF Exists
            <7>2. Exists(k) /\ \A l \in k + 1..i - 1 : ~Exists(l)
              BY <2>1, <5>2, <5>5, <7>1 DEF Exists
            <7> QED BY <2>1, <5>1, <5>2, <5>4, <7>1, <7>2 DEF InOrder
          <6> QED BY <6>1, <6>2
        <5>6. ~ \A k \in 0..i - 1 : ~Exists(k)'
          BY <2>1, <2>3, <3>2, <4>4 DEF Exists
        <5> QED BY <5>3, <5>5, <5>6 DEF InOrder
      <4>5. i # index - 1
        BY <3>2 DEF Exists
      <4> QED BY <2>1, <4>2, <4>3, <4>4, <4>5
    <3>7. Apart'
      <4> SUFFICES ASSUME NEW i \in 0..MaxFiles, Exists(i)'
                   PROVE  /\ EndsAt(i)' <= Len(written')
                          /\ \A k \in 0..i - 1 : Exists(k)' => EndsAt(i)' <= file'[k].from
        BY DEF Apart
      <4> DEFINE Was(k) == IF k = index THEN index - 1 ELSE k
      <4>1. \A k \in 0..MaxFiles : Exists(k)' =>
              Was(k) \in 0..MaxFiles /\ Exists(Was(k)) /\ file'[k] = file[Was(k)]
        BY <2>1, <2>3, <3>2 DEF Exists
      <4>2. \A k \in 0..i - 1 : Exists(k)' =>
              k \in 0..MaxFiles /\ Was(k) \in 0..Was(i) - 1
        BY <2>1, <3>2, Limits DEF Exists
      <4>3. EndsAt(i)' = EndsAt(Was(i)) /\ written' = written
        BY <1>2, <4>1 DEF EndsAt
      <4> HIDE DEF Was
      <4> QED BY <4>1, <4>2, <4>3 DEF RotatingInv, Apart
    <3> QED BY <3>3, <3>4, <3>5, <3>6, <3>7 DEF RotatingInv
  <2> QED BY <2>2, <2>3
<1> QED BY <1>1, <1>2 DEF RenameSource

-----------------------------------------------------------------------------
LEMMA ReopenStep ==
  ASSUME RotatingInv, Reopen
  PROVE  RotatingInv'
<1>1. CASE LeaveLog
  BY <1>1, LeaveStep DEF Reopen
<1>2. CASE /\ file' = [file EXCEPT ![0] = NewFile]
           /\ fd' = TRUE
           /\ current_size' = msg.size
           /\ rpc' = "write"
           /\ UNCHANGED <<index, msg, buffered, written, msgs>>
  <2>1. /\ NewFile \in Files /\ NewFile # Absent /\ Len(written) \in Nat
        /\ NewFile.from = Len(written) /\ Len(NewFile.msgs) = 0 /\ SizeOf(NewFile) = 0
    <3>1. Len(written) \in Nat /\ << >> \in Seq(Messages)
      BY DEF RotatingInv, RotatingTypes
    <3>2. NewFile \in Files
      BY <3>1, FileFields DEF NewFile
    <3> QED BY <3>1, <3>2, FileFields DEF NewFile, SizeOf
  <2>2. /\ file'[0] = NewFile /\ \A i \in 1..MaxFiles : file'[i] = file[i]
        /\ index = 0 /\ rpc = "rotate" /\ buffered = 0 /\ msg.size \in Nat
    BY <1>2, Limits DEF RotatingInv, RotatingTypes, Loop, Reopen, Messages
  <2>3. RotatingTypes'
    BY <1>2, <2>1, <2>2 DEF RotatingInv, RotatingTypes
  <2>4. Loop'
    BY <1>2, <2>2 DEF Loop
  <2>5. Sizes'
    <3>1. /\ fd' /\ Exists(0)' /\ SizeOf(file'[0]) + msg'.size <= current_size'
          /\ Len(file'[0].msgs) = 0
      BY <1>2, <2>1, <2>2 DEF Exists
    <3>2. \A i \in 1..MaxFiles : Exists(i)' => \A j \in 1..Len(file'[i].msgs) :
             file'[i].msgs[j].end <= MaxSize \/ Len(file'[i].msgs) = 1
      BY <2>2, Limits DEF RotatingInv, Sizes, Exists
    <3>3. \A j \in 1..Len(file'[0].msgs) : FALSE
      BY <3>1
    <3>4. SizeOf(file[0])' = SizeOf(file'[0])
      BY DEF SizeOf
    <3> QED BY <1>2, <3>1, <3>2, <3>3, <3>4, Limits DEF Sizes
  <2>6. Apart'
    BY <1>2, <2>1, <2>2, Limits DEF RotatingInv, Apart, Exists, EndsAt
  <2>7. FilesAreSuffix'
    <3> SUFFICES ASSUME NEW i \in 0..MaxFiles, Exists(i)'
                 PROVE  InOrder(i)'
      BY OrderOfEach DEF FilesAreSuffix, InOrder
    <3>1. CASE i = 0
      BY <1>2, <2>1, <2>2, <3>1 DEF InOrder, EndsAt
    <3>2. CASE i # 0
      <4>1. i \in 1..MaxFiles /\ index < MaxFiles /\ ~Exists(0) /\ file'[i] = file[i]
        BY <2>2, <3>2, Limits DEF RotatingInv, Loop
      <4>2. InOrder(i)
        <5>1. Exists(i)
          BY <4>1 DEF Exists
        <5> QED BY <5>1, OrderOfEach DEF RotatingInv
      <4>3. \A k \in 0..i - 1 : k # 0 => file'[k] = file[k]
        BY <2>2, <4>1, Limits
      <4> QED BY <1>2, <2>1, <2>2, <4>1, <4>2, <4>3 DEF InOrder, Exists, EndsAt
    <3> QED BY <3>1, <3>2
  <2> QED BY <2>3, <2>4, <2>5, <2>6, <2>7 DEF RotatingInv
<1> QED BY <1>1, <1>2 DEF Reopen

LEMMA WithinEnd ==
  ASSUME NEW f \in Nat, NEW n \in Nat, NEW e \in Nat, f + n <= e
  PROVE  \A j \in 1..n : f + j \in 1..e
OBVIOUS

(* The base file changes at its end, and written as it does.               *)
EndChange ==
    /\ Exists(0) /\ file' \in [0..MaxFiles -> Files \cup {Absent}]
    /\ Exists(0)' /\ written' \in Seq(Messages)
    /\ file'[0].from = file[0].from
    /\ \A i \in 1..MaxFiles : file'[i] = file[i]
    /\ Len(file'[0].msgs) + Len(written) = Len(file[0].msgs) + Len(written')
    /\ \A p \in 1..file[0].from : written'[p] = written[p]
    /\ \A j \in 1..Len(file'[0].msgs) : file'[0].msgs[j] = written'[file[0].from + j]

LEMMA EndChanges ==
  ASSUME RotatingInv, EndChange
  PROVE  FilesAreSuffix' /\ Apart'
<1>1. /\ file[0].from \in Nat /\ Len(file[0].msgs) \in Nat /\ Len(file'[0].msgs) \in Nat
      /\ Len(written) \in Nat /\ Len(written') \in Nat
  BY FileFields, Limits DEF RotatingInv, RotatingTypes, Exists, EndChange
<1>2. EndsAt(0) = Len(written) /\ EndsAt(0)' = Len(written')
  <2>1. EndsAt(0) = Len(written)
    BY Limits DEF RotatingInv, FilesAreSuffix, EndChange
  <2>2. EndsAt(0) = file[0].from + Len(file[0].msgs)
    BY DEF EndsAt
  <2>3. EndsAt(0)' = file[0].from + Len(file'[0].msgs)
    BY DEF EndsAt, EndChange
  <2>4. Len(file'[0].msgs) + Len(written) = Len(file[0].msgs) + Len(written')
    BY DEF EndChange
  <2> DEFINE f == file[0].from  a == Len(file[0].msgs)  b == Len(file'[0].msgs)
             v == Len(written)  w == Len(written')
  <2>5. /\ f \in Nat /\ a \in Nat /\ b \in Nat /\ v \in Nat /\ w \in Nat
        /\ f + a = v /\ b + v = a + w
    BY <1>1, <2>1, <2>2, <2>4, Zenon
  <2> HIDE DEF f, a, b, v, w
  <2>6. f + b = w
    BY <2>5
  <2> QED BY <2>1, <2>3, <2>6, Zenon DEF f, b, w
<1>3. \A i \in 1..MaxFiles : /\ Exists(i)' <=> Exists(i)
                             /\ EndsAt(i)' = EndsAt(i)
  BY DEF Exists, EndsAt, EndChange
<1>4. \A i \in 1..MaxFiles : Exists(i) => EndsAt(i) <= file[0].from /\ EndsAt(i) \in Nat
  <2> SUFFICES ASSUME NEW i \in 1..MaxFiles, Exists(i)
               PROVE  EndsAt(i) <= file[0].from /\ EndsAt(i) \in Nat
    OBVIOUS
  <2>1. file[i] \in Files
    BY DEF Exists, RotatingInv, RotatingTypes
  <2>2. EndsAt(i) \in Nat
    BY <2>1, FileFields DEF EndsAt
  <2> QED BY <2>2, Limits DEF RotatingInv, Apart, EndChange
<1>5. Apart'
  <2> SUFFICES ASSUME NEW i \in 0..MaxFiles, Exists(i)'
               PROVE  /\ EndsAt(i)' <= Len(written')
                      /\ \A k \in 0..i - 1 : Exists(k)' => EndsAt(i)' <= file'[k].from
    BY DEF Apart
  <2>1. CASE i = 0
    BY <1>1, <1>2, <2>1
  <2>2. CASE i # 0
    <3>1. i \in 1..MaxFiles /\ Exists(i) /\ EndsAt(i)' = EndsAt(i)
      BY <1>3, <2>2
    <3>2. EndsAt(i) <= file[0].from /\ EndsAt(i) \in Nat
      BY <1>4, <3>1
    <3>3. file[0].from <= Len(written') /\ file'[0].from = file[0].from
      <4>1. EndsAt(0)' = file[0].from + Len(file'[0].msgs) /\ file'[0].from = file[0].from
        BY DEF EndsAt, EndChange
      <4> QED BY <1>1, <1>2, <4>1
    <3>4. \A k \in 1..i - 1 : Exists(k)' => EndsAt(i) <= file'[k].from
      BY <1>3, <3>1, Limits DEF RotatingInv, Apart, EndChange
    <3> QED BY <1>1, <3>1, <3>2, <3>3, <3>4
  <2> QED BY <2>1, <2>2
<1>6. FilesAreSuffix'
  <2> SUFFICES ASSUME NEW i \in 0..MaxFiles, Exists(i)'
               PROVE  InOrder(i)'
    BY OrderOfEach DEF FilesAreSuffix, InOrder
  <2>1. CASE i = 0
    BY <1>1, <1>2, <2>1 DEF InOrder, EndChange
  <2>2. CASE i # 0
    <3>1. i \in 1..MaxFiles /\ Exists(i) /\ EndsAt(i)' = EndsAt(i) /\ file'[i] = file[i]
      BY <1>3, <2>2 DEF EndChange
    <3>2. InOrder(i)
      BY <3>1, OrderOfEach DEF RotatingInv
    <3>3. file[i].from \in Nat /\ Len(file[i].msgs) \in Nat
      BY <3>1, FileFields DEF Exists, RotatingInv, RotatingTypes
    <3>4. \A j \in 1..Len(file[i].msgs) : file[i].from + j \in 1..file[0].from
      <4>1. file[i].from + Len(file[i].msgs) <= file[0].from
        BY <1>4, <3>1 DEF EndsAt
      <4> QED BY <1>1, <3>3, <4>1, WithinEnd, Zenon
    <3>5. \A j \in 1..Len(file'[i].msgs) : file'[i].msgs[j] = written'[file'[i].from + j]
      BY <3>1, <3>2, <3>4 DEF InOrder, EndChange
    <3>6. \A k \in 0..i - 1 : (Exists(k)' <=> Exists(k)) /\ (Exists(k) => file'[k].from = file[k].from)
      BY <1>3, <3>1, Limits DEF EndChange
    <3>7. ASSUME NEW k \in 0..i - 1, Exists(k)', \A l \in k + 1..i - 1 : ~Exists(l)'
          PROVE  file'[k].from = EndsAt(i)'
      <4>1. \A l \in k + 1..i - 1 : ~Exists(l)
        BY <3>6, <3>7
      <4> QED BY <3>1, <3>2, <3>6, <3>7, <4>1 DEF InOrder
    <3>8. ~ \A k \in 0..i - 1 : ~Exists(k)'
      BY <3>1 DEF EndChange
    <3> QED BY <3>5, <3>7, <3>8 DEF InOrder
  <2> QED BY <2>1, <2>2
<1> QED BY <1>5, <1>6

LEMMA EndProcessStep ==
  ASSUME RotatingInv, EndProcess
  PROVE  RotatingInv'
<1>1. PICK lost \in 0..buffered :
        /\ file' = IF lost = 0 THEN file
                   ELSE [file EXCEPT ![0].msgs = SubSeq(@, 1, Len(@) - lost)]
        /\ written' = SubSeq(written, 1, Len(written) - lost)
  BY DEF EndProcess
<1>2. /\ rpc' = "closed" /\ buffered' = 0
      /\ UNCHANGED <<current_size, index, msg, msgs>>
      /\ lost \in Nat /\ lost <= buffered /\ written \in Seq(Messages)
  BY <1>1 DEF EndProcess, RotatingInv, RotatingTypes
<1>3. CASE lost = 0
  <2>1. file' = file
    BY <1>1, <1>3
  <2>2. written' = written
    <3>1. SubSeq(written, 1, Len(written)) = written
      BY <1>2
    <3>2. Len(written) - lost = Len(written)
      BY <1>2, <1>3
    <3> QED BY <1>1, <3>1, <3>2
  <2>3. RotatingTypes'
    BY <1>2, <2>1, <2>2 DEF RotatingInv, RotatingTypes
  <2>4. Loop' /\ Sizes'
    BY <1>2, <2>1 DEF RotatingInv, Loop, Sizes, Exists
  <2> QED BY <2>1, <2>2, <2>3, <2>4, FilesKept DEF RotatingInv
<1>4. CASE lost # 0
  <2> DEFINE kept == SubSeq(file[0].msgs, 1, Len(file[0].msgs) - lost)
             base == [from |-> file[0].from, msgs |-> kept]
  <2>1. Exists(0) /\ file[0] \in Files /\ lost <= Len(file[0].msgs)
    BY <1>2, <1>4, Limits DEF RotatingInv, RotatingTypes, Loop, Exists
  <2>2. /\ file[0].from \in Nat /\ file[0].msgs \in Seq(Messages)
        /\ Len(file[0].msgs) \in Nat /\ Len(written) \in Nat
    BY <1>2, <2>1, FileFields
  <2>3. kept \in Seq(Messages) /\ Len(kept) = Len(file[0].msgs) - lost
    BY <1>2, <2>1, <2>2, CutOff
  <2>14. \A j \in 1..Len(file[0].msgs) - lost : kept[j] = file[0].msgs[j]
    BY <1>2, <2>1, <2>2, CutOff
  <2>4. /\ EndsAt(0) = Len(written) /\ EndsAt(0) = file[0].from + Len(file[0].msgs)
        /\ \A j \in 1..Len(file[0].msgs) : file[0].msgs[j] = written[file[0].from + j]
    BY <2>1, Limits DEF RotatingInv, FilesAreSuffix, EndsAt
  <2>5. lost <= Len(written) /\ file[0].from <= Len(written) - lost
    BY <1>2, <2>1, <2>2, <2>4
  <2>6. written' \in Seq(Messages) /\ Len(written') = Len(written) - lost
    BY <1>1, <1>2, <2>5, CutOff
  <2>15. \A p \in 1..Len(written) - lost : written'[p] = written[p]
    BY <1>1, <1>2, <2>5, CutOff
  <2>7. file' = [file EXCEPT ![0] = base]
    <3>1. file' = [file EXCEPT ![0].msgs = kept]
      BY <1>1, <1>4
    <3>2. [file[0] EXCEPT !.msgs = kept] = base
      BY <2>1, <2>3, NewMsgs
    <3> QED BY <3>1, <3>2
  <2>8. base \in Files /\ base.from = file[0].from /\ base.msgs = kept
    BY <2>2, <2>3, FileFields
  <2> HIDE DEF base, kept
  <2>9. file'[0] = base /\ \A i \in 1..MaxFiles : file'[i] = file[i]
    BY <2>7, Limits DEF RotatingInv, RotatingTypes
  <2>10. RotatingTypes'
    BY <1>2, <2>6, <2>7, <2>8, Limits DEF RotatingInv, RotatingTypes
  <2>11. Loop'
    BY <1>2 DEF Loop
  <2>12. Sizes'
    <3>1. \A j \in 1..Len(file'[0].msgs) :
            file'[0].msgs[j].end <= MaxSize \/ Len(file'[0].msgs) = 1
      <4>1. \A j \in 1..Len(kept) : kept[j].end <= MaxSize \/ Len(file[0].msgs) = 1
        <5> SUFFICES ASSUME NEW j \in 1..Len(kept)
                     PROVE  kept[j].end <= MaxSize \/ Len(file[0].msgs) = 1
          OBVIOUS
        <5>1. j \in 1..Len(file[0].msgs) /\ j \in 1..Len(file[0].msgs) - lost
          BY <1>2, <2>1, <2>2, <2>3
        <5>2. kept[j] = file[0].msgs[j]
          BY <2>14, <5>1
        <5> QED BY <2>1, <5>1, <5>2, Limits DEF RotatingInv, Sizes
      <4>2. Len(file[0].msgs) = 1 => Len(kept) = 0
        BY <1>2, <1>4, <2>1, <2>2, <2>3
      <4> QED BY <2>8, <2>9, <4>1, <4>2
    <3>2. \A i \in 1..MaxFiles : Exists(i)' => \A j \in 1..Len(file'[i].msgs) :
             file'[i].msgs[j].end <= MaxSize \/ Len(file'[i].msgs) = 1
      BY <2>9, Limits DEF RotatingInv, Sizes, Exists
    <3> QED BY <1>2, <3>1, <3>2, Limits DEF Sizes
  <2>13. FilesAreSuffix' /\ Apart'
    <3>1. Exists(0)'
      BY <2>8, <2>9, FileFields DEF Exists
    <3>2. file' \in [0..MaxFiles -> Files \cup {Absent}]
      BY <2>10 DEF RotatingTypes
    <3>3. Len(file'[0].msgs) + Len(written) = Len(file[0].msgs) + Len(written')
      <4>1. Len(file'[0].msgs) = Len(file[0].msgs) - lost
        BY <2>3, <2>8, <2>9
      <4> QED BY <1>2, <2>2, <2>6, <4>1
    <3>4. \A p \in 1..file[0].from : written'[p] = written[p]
      <4>1. \A p \in 1..file[0].from : p \in 1..Len(written) - lost
        BY <1>2, <2>2, <2>5
      <4> QED BY <4>1, <2>15
    <3>5. \A j \in 1..Len(file'[0].msgs) : file'[0].msgs[j] = written'[file[0].from + j]
      <4> SUFFICES ASSUME NEW j \in 1..Len(kept)
                   PROVE  kept[j] = written'[file[0].from + j]
        BY <2>8, <2>9
      <4>1. j \in 1..Len(file[0].msgs) /\ file[0].from + j \in 1..Len(written) - lost
        <5> DEFINE a == Len(file[0].msgs)  w == Len(written)  f == file[0].from
        <5>1. a \in Nat /\ w \in Nat /\ f \in Nat /\ w = f + a /\ j \in 1..a - lost
          BY <2>2, <2>3, <2>4
        <5> HIDE DEF a, w, f
        <5>2. j \in 1..a /\ f + j \in 1..w - lost
          BY <1>2, <5>1
        <5> QED BY <5>2 DEF a, w, f
      <4>2. kept[j] = file[0].msgs[j]
        BY <1>2, <2>2, <2>3, <2>14
      <4> QED BY <2>4, <2>15, <4>1, <4>2
    <3>6. file'[0].from = file[0].from
      BY <2>8, <2>9
    <3> QED BY <2>1, <2>6, <2>9, <3>1, <3>2, <3>3, <3>4, <3>5, <3>6, EndChanges DEF EndChange
  <2> QED BY <2>10, <2>11, <2>12, <2>13 DEF RotatingInv
<1> QED BY <1>3, <1>4

LEMMA WriteStep ==
  ASSUME RotatingInv, Write
  PROVE  RotatingInv'
<1>1. CASE LeaveLog
  BY <1>1, LeaveStep DEF Write
<1> DEFINE placed == [msg EXCEPT !.end = SizeOf(file[0]) + msg.size]
           longer == Append(file[0].msgs, placed)
           base == [from |-> file[0].from, msgs |-> longer]
<1>2. CASE /\ file' = [file EXCEPT ![0].msgs = Append(@, placed)]
           /\ written' = Append(written, placed)
           /\ buffered' = buffered + 1
           /\ rpc' = "idle"
           /\ UNCHANGED <<fd, current_size, index, msg, msgs>>
  <2>1. /\ rpc = "write" /\ fd /\ Exists(0) /\ file[0] \in Files
        /\ written \in Seq(Messages) /\ msg \in Messages
    BY Limits DEF Write, RotatingInv, RotatingTypes, Sizes, Exists
  <2>2. /\ file[0].from \in Nat /\ file[0].msgs \in Seq(Messages)
        /\ Len(file[0].msgs) \in Nat /\ Len(written) \in Nat
        /\ SizeOf(file[0]) \in Nat /\ msg.size \in Nat
    BY <2>1, FileFields, SizeIsNat DEF Messages
  <2>3. placed \in Messages /\ placed.end = SizeOf(file[0]) + msg.size
    <3>1. SizeOf(file[0]) + msg.size \in Nat
      BY <2>2
    <3> QED BY <2>1, <3>1, NewEnd
  <2>4. /\ SizeOf(file[0]) + msg.size <= current_size
        /\ current_size <= MaxSize \/ Len(file[0].msgs) = 0
    BY <2>1 DEF RotatingInv, Sizes
  <2> HIDE DEF placed
  <2>5. /\ longer \in Seq(Messages) /\ Len(longer) = Len(file[0].msgs) + 1
        /\ longer[Len(file[0].msgs) + 1] = placed
    BY <2>2, <2>3, Appended
  <2>15. \A j \in 1..Len(file[0].msgs) : longer[j] = file[0].msgs[j]
    BY <2>2, <2>3, Appended
  <2>6. /\ written' \in Seq(Messages) /\ Len(written') = Len(written) + 1
        /\ written'[Len(written) + 1] = placed
    BY <1>2, <2>1, <2>3, Appended
  <2>16. \A j \in 1..Len(written) : written'[j] = written[j]
    BY <1>2, <2>1, <2>3, Appended
  <2>7. file' = [file EXCEPT ![0] = base]
    <3>1. file' = [file EXCEPT ![0].msgs = longer]
      BY <1>2
    <3>2. [file[0] EXCEPT !.msgs = longer] = base
      BY <2>1, <2>5, NewMsgs
    <3> QED BY <3>1, <3>2
  <2>8. base \in Files /\ base.from = file[0].from /\ base.msgs = longer
    BY <2>2, <2>5, FileFields
  <2> HIDE DEF base, longer
  <2>9. file'[0] = base /\ \A i \in 1..MaxFiles : file'[i] = file[i]
    BY <2>7, Limits DEF RotatingInv, RotatingTypes
  <2>10. RotatingTypes'
    <3>1. file' \in [0..MaxFiles -> Files \cup {Absent}]
      BY <2>7, <2>8, Limits DEF RotatingInv, RotatingTypes
    <3>2. buffered' \in Nat
      BY <1>2 DEF RotatingInv, RotatingTypes
    <3> QED BY <1>2, <2>6, <3>1, <3>2 DEF RotatingInv, RotatingTypes
  <2>11. Exists(0)'
    BY <2>8, <2>9, FileFields DEF Exists
  <2>12. Loop'
    <3>1. buffered <= Len(file[0].msgs) /\ buffered \in Nat
      BY <2>1, <2>2 DEF RotatingInv, RotatingTypes, Loop
    <3>2. buffered' <= Len(file'[0].msgs)
      BY <1>2, <2>2, <2>5, <2>8, <2>9, <3>1
    <3> QED BY <1>2, <2>11, <3>2 DEF Loop
  <2>13. Sizes'
    <3>1. SizeOf(file[0])' = SizeOf(file[0]) + msg.size
      BY <2>2, <2>3, <2>5, <2>8, <2>9 DEF SizeOf
    <3>2. \A j \in 1..Len(longer) : longer[j].end <= MaxSize \/ Len(longer) = 1
      <4>1. CASE Len(file[0].msgs) = 0
        BY <2>5, <4>1
      <4>2. CASE Len(file[0].msgs) > 0
        <5>1. SizeOf(file[0]) + msg.size <= MaxSize /\ SizeOf(file[0]) <= MaxSize
          BY <2>2, <2>4, <4>2, Limits DEF RotatingInv, RotatingTypes
        <5>2. file[0].msgs[Len(file[0].msgs)].end <= MaxSize
          BY <4>2, <5>1 DEF SizeOf
        <5>3. \A j \in 1..Len(file[0].msgs) : file[0].msgs[j].end <= MaxSize
          BY <2>1, <2>2, <4>2, <5>2, Limits DEF RotatingInv, Sizes
        <5>4. longer[Len(file[0].msgs) + 1].end <= MaxSize
          BY <2>3, <2>5, <5>1
        <5>5. \A j \in 1..Len(file[0].msgs) : longer[j].end <= MaxSize
          BY <2>15, <5>3
        <5> QED BY <2>2, <2>5, <5>4, <5>5
      <4> QED BY <2>2, <4>1, <4>2
    <3>3. \A i \in 1..MaxFiles : Exists(i)' => \A j \in 1..Len(file'[i].msgs) :
             file'[i].msgs[j].end <= MaxSize \/ Len(file'[i].msgs) = 1
      BY <2>9, Limits DEF RotatingInv, Sizes, Exists
    <3>4. \A j \in 1..Len(file'[0].msgs) :
             file'[0].msgs[j].end <= MaxSize \/ Len(file'[0].msgs) = 1
      BY <2>8, <2>9, <3>2
    <3>5. fd' /\ SizeOf(file[0])' <= current_size'
      BY <1>2, <2>1, <2>4, <3>1
    <3> QED BY <1>2, <2>11, <3>3, <3>4, <3>5, Limits DEF Sizes
  <2>14. FilesAreSuffix' /\ Apart'
    <3>1. file' \in [0..MaxFiles -> Files \cup {Absent}]
      BY <2>10 DEF RotatingTypes
    <3>2. Len(file'[0].msgs) + Len(written) = Len(file[0].msgs) + Len(written')
      <4>1. Len(file'[0].msgs) = Len(file[0].msgs) + 1 /\ Len(written') = Len(written) + 1
        BY <2>5, <2>6, <2>8, <2>9
      <4> DEFINE a == Len(file[0].msgs)  b == Len(file'[0].msgs)
                 v == Len(written)  w == Len(written')
      <4>2. a \in Nat /\ v \in Nat /\ b = a + 1 /\ w = v + 1
        BY <2>2, <4>1, Zenon
      <4> HIDE DEF a, b, v, w
      <4>3. b + v = a + w
        BY <4>2
      <4> QED BY <4>3, Zenon DEF a, b, v, w
    <3>3. /\ EndsAt(0) = Len(written) /\ EndsAt(0) = file[0].from + Len(file[0].msgs)
          /\ \A j \in 1..Len(file[0].msgs) : file[0].msgs[j] = written[file[0].from + j]
      BY <2>1, Limits DEF RotatingInv, FilesAreSuffix, EndsAt
    <3>4. \A p \in 1..file[0].from : written'[p] = written[p]
      <4>1. \A p \in 1..file[0].from : p \in 1..Len(written)
        <5>1. Len(written) = file[0].from + Len(file[0].msgs)
          BY <3>3
        <5> QED BY <2>2, <5>1
      <4> QED BY <2>16, <4>1
    <3>5. \A j \in 1..Len(file'[0].msgs) : file'[0].msgs[j] = written'[file[0].from + j]
      <4> SUFFICES ASSUME NEW j \in 1..Len(longer)
                   PROVE  longer[j] = written'[file[0].from + j]
        BY <2>8, <2>9
      <4>1. CASE j = Len(file[0].msgs) + 1
        <5>1. file[0].from + j = Len(written) + 1
          <6>1. Len(written) = file[0].from + Len(file[0].msgs)
            BY <3>3
          <6> QED BY <2>2, <4>1, <6>1
        <5> QED BY <2>5, <2>6, <4>1, <5>1
      <4>2. CASE j \in 1..Len(file[0].msgs)
        <5>1. file[0].from + j \in 1..Len(written)
          <6>1. Len(written) = file[0].from + Len(file[0].msgs)
            BY <3>3
          <6> QED BY <2>2, <4>2, <6>1
        <5> QED BY <2>15, <2>16, <3>3, <4>2, <5>1
      <4> QED BY <2>2, <2>5, <4>1, <4>2
    <3>6. file'[0].from = file[0].from
      BY <2>8, <2>9
    <3> QED BY <2>1, <2>6, <2>9, <2>11, <3>1, <3>2, <3>4, <3>5, <3>6, EndChanges DEF EndChange
  <2> QED BY <2>10, <2>12, <2>13, <2>14 DEF RotatingInv
<1> QED BY <1>1, <1>2 DEF Write

LEMMA RotatingStep == RotatingInv /\ [RNext]_rvars => RotatingInv'
<1> SUFFICES ASSUME RotatingInv, [RNext]_rvars PROVE RotatingInv' OBVIOUS
<1>1. CASE UNCHANGED rvars
  <2>1. UNCHANGED <<file, fd, current_size, rpc, index, msg, buffered, written, msgs>>
    BY <1>1 DEF rvars
  <2> QED BY <2>1, FilesKept
          DEF RotatingInv, RotatingTypes, Loop, Sizes, Exists, SizeOf
<1> QED BY <1>1, ConstructStep, EndProcessStep, FlushStep, SinkItStep, RemoveStep, RenameStep,
           ReopenStep, WriteStep
        DEF RNext

LEMMA RotatingInvariant == RSpec => []RotatingInv
BY RotatingInitial, RotatingStep, PTL DEF RSpec

(* However many files, sizes, failures and restarts there are, the files   *)
(* together are the last messages written, in order and without a gap.     *)
THEOREM RotationKeepsSuffix == RSpec => []FilesAreSuffix
<1>1. RotatingInv => FilesAreSuffix BY DEF RotatingInv
<1> QED BY <1>1, RotatingInvariant, PTL

(* fwrite has a file whenever it is called, and a file is larger than      *)
(* max_size only if it holds a single message.                             *)
THEOREM RotationIsSafe == RSpec => []RotationSafe
<1>1. RotatingInv => RotationSafe
  <2> SUFFICES ASSUME RotatingInv PROVE RotationSafe OBVIOUS
  <2>1. rpc = "write" => fd /\ Exists(0)
    BY DEF RotatingInv, Sizes
  <2>2. ASSUME NEW i \in 0..MaxFiles, Exists(i)
        PROVE  SizeOf(file[i]) <= MaxSize \/ Len(file[i].msgs) = 1
    <3>1. file[i] \in Files /\ Len(file[i].msgs) \in Nat
      BY <2>2, FileFields DEF RotatingInv, RotatingTypes, Exists
    <3> QED BY <2>2, <3>1, Limits DEF RotatingInv, Sizes, SizeOf
  <2> QED BY <2>1, <2>2 DEF RotationSafe
<1> QED BY <1>1, RotatingInvariant, PTL
=============================================================================

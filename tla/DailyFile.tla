----------------------------- MODULE DailyFile -----------------------------
(***************************************************************************)
(* daily_file_sink: the first message at or after _rotation_tp opens the   *)
(* file named after the local time of that moment and then computes the    *)
(* next rotation time from a second look at the clock.  Opening can fail,  *)
(* which leaves the sink without a file and with the old rotation time.    *)
(*                                                                         *)
(* A day has DayLength units of the clock, RotationTime is the time of day *)
(* given to the constructor as hour and minute; all days are alike.        *)
(***************************************************************************)
EXTENDS Naturals

CONSTANTS DayLength, RotationTimes,
          LastTime,     \* bound on the clock
          DayFaults     \* bound on failures to open a file

ASSUME DailyAssumption ==
    /\ DayLength \in Nat \ {0} /\ LastTime \in Nat /\ DayFaults \in Nat
    /\ RotationTimes \subseteq Nat

VARIABLES clock,
          rotation_time,   \* _rotation_h and _rotation_m
          rotation_tp,     \* _rotation_tp
          named,           \* the moment _filename stands for
          day_fd,          \* whether _fd is open
          dpc,             \* where the constructor or _sink_it is
          seen,            \* the clock when _sink_it looked at it
          dfaults

dvars == <<clock, rotation_time, rotation_tp, named, day_fd, dpc, seen, dfaults>>

DInit ==
    /\ clock \in 0..DayLength
    /\ rotation_time \in RotationTimes
    /\ rotation_tp = 0 /\ named = 0 /\ day_fd = FALSE
    /\ dpc = "new" /\ seen = 0 /\ dfaults = 0

(* _next_rotation_tp: today's rotation, or tomorrow's if it is not ahead.  *)
next_rotation_tp ==
    LET today == (clock \div DayLength) * DayLength + rotation_time IN
    IF today > clock THEN today ELSE today + DayLength

(* The constructor refuses a time that no day has, then takes the rotation *)
(* time before it opens the file.                                          *)
DailyConstruct ==
    /\ dpc = "new"
    /\ IF rotation_time >= DayLength
       THEN dpc' = "refused" /\ UNCHANGED rotation_tp
       ELSE dpc' = "first_open" /\ rotation_tp' = next_rotation_tp
    /\ UNCHANGED <<clock, rotation_time, named, day_fd, seen, dfaults>>

(* file_helper::open: the old file is closed and the new name kept before  *)
(* the attempts to open it, which may all fail.                            *)
DailyOpen ==
    /\ dpc \in {"first_open", "open"}
    /\ named' = clock
    /\ \/ /\ day_fd' = TRUE
          /\ dpc' = IF dpc = "open" THEN "next_tp" ELSE "idle"
          /\ UNCHANGED dfaults
       \/ /\ dfaults < DayFaults /\ dfaults' = dfaults + 1
          /\ day_fd' = FALSE
          /\ dpc' = IF dpc = "open" THEN "idle" ELSE "refused"
    /\ UNCHANGED <<clock, rotation_time, rotation_tp, seen>>

DailySinkIt_TimeFirst ==
    /\ dpc = "idle"
    /\ seen' = clock
    /\ IF clock >= rotation_tp
       THEN dpc' = "open" /\ rotation_tp' = next_rotation_tp
       ELSE dpc' = "write" /\ UNCHANGED rotation_tp
    /\ UNCHANGED <<clock, rotation_time, named, day_fd, dfaults>>

DailySinkIt ==
    /\ dpc = "idle"
    /\ seen' = clock
    /\ dpc' = IF clock >= rotation_tp THEN "open" ELSE "write"
    /\ UNCHANGED <<clock, rotation_time, rotation_tp, named, day_fd, dfaults>>

DailyNext ==
    /\ dpc = "next_tp"
    /\ rotation_tp' = next_rotation_tp
    /\ dpc' = "write"
    /\ UNCHANGED <<clock, rotation_time, named, day_fd, seen, dfaults>>

DailyWrite ==
    /\ dpc = "write"
    /\ dpc' = "idle"
    /\ UNCHANGED <<clock, rotation_time, rotation_tp, named, day_fd, seen, dfaults>>

(* Time passes; less than a day between two looks of one call.             *)
Tick(n) ==
    /\ clock + n <= LastTime
    /\ dpc \in {"open", "next_tp", "write"} => clock + n < seen + DayLength
    /\ clock' = clock + n
    /\ UNCHANGED <<rotation_time, rotation_tp, named, day_fd, dpc, seen, dfaults>>

DNext ==
    \/ DailyConstruct \/ DailyOpen \/ DailySinkIt \/ DailyNext \/ DailyWrite
    \/ \E n \in {1, DayLength} : Tick(n)

DSpec == DInit /\ [][DNext]_dvars

-----------------------------------------------------------------------------
(* The number of rotation times up to t.                                   *)
PeriodOf(t) == (t + DayLength - rotation_time) \div DayLength

(* A message goes to an open file, and the file is that of the message's   *)
(* own period or of the one before, the second only because _sink_it takes *)
(* the next rotation time after it opened the file: a rotation that falls  *)
(* between the two looks at the clock is skipped, never more than one.     *)
DailyFileFresh == dpc = "write" =>
    /\ day_fd
    /\ PeriodOf(seen) <= PeriodOf(named) + 1
=============================================================================

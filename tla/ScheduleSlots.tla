---------------------------- MODULE ScheduleSlots ----------------------------
(***************************************************************************)
(* When a backup is due (schedule.go): evaluateSchedule compares the time  *)
(* of a run with the last success that the schedule state keeps.  Time is  *)
(* counted in ticks of one clock; a zone is the number of ticks it is      *)
(* ahead.  The run computes with "now" in BACKUP_SCHEDULE_TIMEZONE and     *)
(* with the last success in the zone of the process.                       *)
(***************************************************************************)
EXTENDS Integers, FiniteSetsExt

CONSTANTS
  Day, Week,        \* ticks of a day, days of a week
  Schedules,        \* [kind, times, weekday, every], see ScheduleKinds
  ScheduleZone,     \* ticks that BACKUP_SCHEDULE_TIMEZONE is ahead
  LocalZone,        \* ticks that the zone of the process is ahead
  Horizon           \* bound: the clock stops here

ScheduleKinds == {"always", "disabled", "interval", "daily", "weekly"}

ASSUME SlotAssumption ==
  /\ Day \in Nat \ {0} /\ Week \in Nat \ {0} /\ Horizon \in Nat /\ Week * Day <= Horizon
  /\ ScheduleZone \in Int /\ LocalZone \in Int
  /\ \A s \in Schedules :
       /\ s \in [kind : ScheduleKinds, times : SUBSET (0..Day - 1), weekday : 0..Week - 1, every : Nat]
       /\ s.times # {}

VARIABLES
  now,          \* the clock
  schedule,     \* LogicalSchedule
  last,         \* logical_last_success of the state file, or Never
  run_start     \* when the active run started, or Never

slotVars == <<now, schedule, last, run_start>>

Never == -1
Instants == Week * Day..Horizon     \* the first week is the past of the clock

SlotTypeOK ==
  /\ now \in Instants /\ schedule \in Schedules /\ schedule.kind \in ScheduleKinds
  /\ last \in Instants \cup {Never} /\ run_start \in Instants \cup {Never}

SlotInit ==
  /\ now = Week * Day /\ schedule \in Schedules
  /\ last \in {Never, now} /\ run_start = Never

-----------------------------------------------------------------------------
(* Calendar arithmetic in a zone.                                          *)
DayStart(t, zone) == ((t + zone) \div Day) * Day - zone
Weekday(t, zone) == ((t + zone) \div Day) % Week
WeeklyTarget(day, s) == day + Min(s.times)

DailyTargets(day, s) == {day + h : h \in s.times}

latestDueDailyTarget(t, s) == {target \in DailyTargets(DayStart(t, ScheduleZone), s) : target <= t}

nextDailyTargetAfterMut(t, s) ==
  Min({target \in DailyTargets(DayStart(t, LocalZone), s) : target >= t}
        \cup {DayStart(t, LocalZone) + Day + Min(s.times)})

nextDailyTargetAfter(t, s) ==
  LET day   == DayStart(t, LocalZone)
      later == {target \in DailyTargets(day, s) : target > t}
  IN  IF later # {} THEN Min(later) ELSE day + Day + Min(s.times)

latestDueWeeklyTarget(t, s) ==
  LET back   == (Week + Weekday(t, ScheduleZone) - s.weekday) % Week
      target == WeeklyTarget(DayStart(t, ScheduleZone) - back * Day, s)
  IN  {target} \cap 0..t

nextWeeklyTargetAfter(t, s) ==
  LET ahead  == (Week + s.weekday - Weekday(t, LocalZone)) % Week
      target == WeeklyTarget(DayStart(t, LocalZone) + ahead * Day, s)
  IN  IF target > t THEN target ELSE target + Week * Day

(* evaluateSchedule: without a last success only the targets of this day,  *)
(* or of the last seven, count.                                            *)
Due(t, s, success) ==
  CASE s.kind = "always"   -> TRUE
    [] s.kind = "disabled" -> FALSE
    [] s.kind = "interval" -> success = Never \/ t >= success + s.every
    [] s.kind = "daily"    -> IF success = Never THEN latestDueDailyTarget(t, s) # {}
                              ELSE t >= nextDailyTargetAfter(success, s)
    [] s.kind = "weekly"   -> IF success = Never THEN latestDueWeeklyTarget(t, s) # {}
                              ELSE t >= nextWeeklyTargetAfter(success, s)

-----------------------------------------------------------------------------
Tick ==
  /\ now < Horizon
  /\ now' = now + 1
  /\ UNCHANGED <<schedule, last, run_start>>

(* The timer fires; a run that is not due is skipped.                      *)
StartDue ==
  /\ run_start = Never /\ Due(now, schedule, last)
  /\ run_start' = now
  /\ UNCHANGED <<now, schedule, last>>

(* An operator starts a run with force.                                    *)
StartForced ==
  /\ run_start = Never
  /\ run_start' = now
  /\ UNCHANGED <<now, schedule, last>>

(* The state keeps the time at which the dump had succeeded, not the time  *)
(* the run was due; a failed run leaves it.                                *)
EndRun ==
  /\ run_start # Never
  /\ last' \in {last, now}
  /\ run_start' = Never
  /\ UNCHANGED <<now, schedule>>

EditSchedule ==
  /\ schedule' \in Schedules
  /\ UNCHANGED <<now, last, run_start>>

SlotNext ==
  \/ Tick
  \/ StartDue
  \/ StartForced
  \/ EndRun
  \/ EditSchedule

SlotSpec == SlotInit /\ [][SlotNext]_slotVars

-----------------------------------------------------------------------------
(* The slots of a calendar schedule, in the zone that the operator named.  *)
Slots(s) ==
  {t \in 0..Horizon : /\ t - DayStart(t, ScheduleZone) \in
                           (IF s.kind = "weekly" THEN {Min(s.times)} ELSE s.times)
                      /\ s.kind = "weekly" => Weekday(t, ScheduleZone) = s.weekday}

(* "BACKUP_SCHEDULE_TIMEZONE makes timezone interpretation explicit"       *)
(* (README.md:323): whatever run, failure or edit came before, a run       *)
(* counts as due exactly when a slot of the schedule, in that zone, lies   *)
(* between the last success and now.  It holds when the process runs in    *)
(* the same zone; the last success is read in the zone of the process.     *)
DueAtSlots ==
  schedule.kind \in {"daily", "weekly"} /\ last # Never =>
    (Due(now, schedule, last) <=> \E t \in Slots(schedule) : last < t /\ t <= now)
=============================================================================

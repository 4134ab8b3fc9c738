---------------------------- MODULE ScheduleTime ----------------------------
(***************************************************************************)
(* When a schedule is due (internal/scheduler/schedule.go), and what keeps  *)
(* next_run_at there (store.go): ComputeNextRun beside the slots that the   *)
(* spec describes. One schedule; module Scheduler has what its occurrences  *)
(* become, and the handlers between their statements.                       *)
(*                                                                         *)
(* A time is a number of nanoseconds, of which Second make a second and     *)
(* Year a year; NoTime is the zero time, NULL in the table. A time.Duration *)
(* is at most MaxDuration (292 years), and Sub does not go beyond it. A     *)
(* cron table is the set of the seconds at which it fires, in whatever time *)
(* zone; the search in it is the cron library's.                            *)
(* Bounds: Anchors, CronTables, LastInstant.                                *)
(***************************************************************************)
EXTENDS Integers, FiniteSets, FiniteSetsExt

CONSTANTS Second, Year, MaxDuration, Anchors, CronTables, LastInstant

ASSUME ScheduleTimeAssumption ==
  /\ Second \in Nat \ {0} /\ Year \in Nat \ {0} /\ MaxDuration \in Nat /\ LastInstant \in Nat \ {0}
  /\ Anchors \subseteq Nat \ {0}
  /\ CronTables \subseteq SUBSET (Nat \ {0})
  /\ \A table \in CronTables : \A s \in table : s % Second = 0

VARIABLES
  spec,         \* the schedule's ScheduleSpec
  enabled,
  nextRunAt,
  instant,      \* the clock
  computedFor   \* history: the instant that nextRunAt was computed for

scheduleTimeVars == <<spec, enabled, nextRunAt, instant, computedFor>>

NoTime == 0

\* What ValidateSpec lets through. An interval comes from a Duration (--every,
\* every_hours) and so fits one.
Specs ==
  [kind : {"at"}, at : Anchors, every : {0}, cron : {{}}]
    \cup [kind : {"every"}, at : Anchors, every : 1..(MaxDuration \div Second), cron : {{}}]
    \cup [kind : {"cron"}, at : {NoTime}, every : {0}, cron : CronTables]

\* Mutant: a slot that is now is taken for one that is past.
NextAfter(anchor, interval, now) ==
  LET since == Min({now - anchor, MaxDuration})
      next == anchor + (since \div interval) * interval
  IN  IF next <= now THEN next + interval ELSE next

NextSlotOf(anchor, interval, now) ==
  LET since == Min({now - anchor, MaxDuration})
      next == anchor + (since \div interval) * interval
  IN  IF next < now THEN next + interval ELSE next

\* cron's Schedule.Next: the first time after t, from the second after it to the
\* end of the fifth year that follows.
SecondAfter(t) == (t \div Second + 1) * Second
SearchEnd(t) == (SecondAfter(t) \div Year + 6) * Year
NextOfTable(table, t) ==
  LET later == {s \in table : s >= SecondAfter(t) /\ s < SearchEnd(t)}
  IN  IF later = {} THEN NoTime ELSE Min(later)

ComputeNextRun(s, now) ==
  CASE s.kind = "at" -> IF s.at < now THEN NoTime ELSE s.at
    [] s.kind = "every" -> IF s.at >= now THEN s.at ELSE NextSlotOf(s.at, s.every * Second, now)
    [] s.kind = "cron" -> NextOfTable(s.cron, now - 1)

-----------------------------------------------------------------------------

Computed(s, now) == nextRunAt' = ComputeNextRun(s, now) /\ computedFor' = now
NotComputed == nextRunAt' = NoTime /\ UNCHANGED computedFor

\* CreateSchedule
ScheduleTimeInit ==
  /\ spec \in Specs /\ enabled \in BOOLEAN
  /\ instant = 1 /\ computedFor = 1
  /\ nextRunAt = IF enabled THEN ComputeNextRun(spec, 1) ELSE NoTime

TimePasses ==
  /\ instant < LastInstant /\ instant' \in {instant + 1, LastInstant}
  /\ UNCHANGED <<spec, enabled, nextRunAt, computedFor>>

\* A pass of the loop goes on with the clock reading that it began with.
Readings == {instant, instant - 1} \ {0}

\* Whether the slot is taken, skipped or had a row already.
ClaimDueOccurrence ==
  /\ enabled /\ nextRunAt # NoTime
  /\ \E now \in Readings : nextRunAt <= now /\ Computed(spec, now + 1)
  /\ UNCHANGED <<spec, enabled, instant>>

\* A patch of other fields writes back the next_run_at that was read.
UpdateSchedule ==
  /\ spec' \in Specs
  /\ IF enabled THEN Computed(spec', instant) ELSE NotComputed
  /\ UNCHANGED <<enabled, instant>>

SetScheduleEnabled ==
  /\ enabled' \in BOOLEAN
  /\ IF enabled' THEN Computed(spec, instant) ELSE NotComputed
  /\ UNCHANGED <<spec, instant>>

RepairMissingNextRunAt ==
  /\ enabled /\ nextRunAt = NoTime
  /\ \E now \in Readings : Computed(spec, now)
  /\ UNCHANGED <<spec, enabled, instant>>

ScheduleTimeNext ==
  TimePasses \/ ClaimDueOccurrence \/ UpdateSchedule \/ SetScheduleEnabled \/ RepairMissingNextRunAt

ScheduleTimeSpec == ScheduleTimeInit /\ [][ScheduleTimeNext]_scheduleTimeVars

-----------------------------------------------------------------------------

Horizon == LastInstant + MaxDuration

\* The slots that a spec describes.
SlotsOf(s) ==
  CASE s.kind = "at" -> {s.at}
    [] s.kind = "every" -> {t \in s.at..(s.at + Horizon) : (t - s.at) % (s.every * Second) = 0}
    [] s.kind = "cron" -> s.cron

ScheduleTimeTypeOK ==
  /\ spec \in Specs /\ enabled \in BOOLEAN /\ instant \in 1..LastInstant
  /\ nextRunAt \in 0..Horizon /\ computedFor \in 1..(LastInstant + 1)
  /\ ~enabled => nextRunAt = NoTime

\* A schedule that is enabled is due at the earliest of its slots that was not
\* past when that was computed, and has no time only if there is none left: no
\* slot is passed over, none is invented. Of a cron table the slots count that
\* the search reaches; one beyond (the 29th of February around 2100) is found
\* once it does. Excepted is a schedule whose anchor is longer ago than a
\* Duration can tell: it gets a slot that is long past.
NextRunIsEarliest ==
  enabled /\ (spec.kind = "every" => computedFor - spec.at <= MaxDuration) =>
    LET left == {s \in SlotsOf(spec) :
                   s >= computedFor /\ (spec.kind = "cron" => s < SearchEnd(computedFor - 1))}
    IN  nextRunAt = IF left = {} THEN NoTime ELSE Min(left)

\* Without the exception: what it takes is an anchor in the year 1, say.
NextRunIsAlwaysEarliest ==
  enabled => nextRunAt = NoTime \/ nextRunAt >= computedFor
=============================================================================

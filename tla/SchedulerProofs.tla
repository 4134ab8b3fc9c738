--------------------------- MODULE SchedulerProofs ---------------------------
(***************************************************************************)
(* Scheduler, for every number of schedules, clients and processes, every  *)
(* recurrence, grace period, limit, clock bound and number of crashes,     *)
(* with and without faults: the claim invariant of everybody; what the     *)
(* loop keeps where it is the only client (the overlap policy, the failure *)
(* count, the promise of ScheduledTask); and the truth of a schedule's     *)
(* history where handlers dispatch in time.                                *)
(***************************************************************************)
EXTENDS Scheduler, WellFoundedInduction, FiniteSetTheorems, TLAPS

-----------------------------------------------------------------------------
(* Recurrences                                                             *)

(* A nonempty set of slots has an earliest one.                            *)
LEMMA EarliestExists ==
    ASSUME NEW S, S \subseteq Nat, S # {}
    PROVE  \E n \in S : \A m \in S : n <= m
<1> DEFINE R == OpToRel(<, Nat)
<1>1. IsWellFoundedOn(R, Nat)
  BY NatLessThanWellFounded DEF R
<1>2. \A m, n \in Nat : m < n => <<m, n>> \in R
  BY Zenon DEF OpToRel, R
<1> HIDE DEF R
<1>3. PICK n \in S : \A m \in S : ~(<<m, n>> \in R)
  BY <1>1, WFMin
<1>4. \A m \in S : ~(m < n)
  BY <1>2, <1>3
<1>5. \A m \in S : m \in Nat /\ n \in Nat /\ n <= m
  BY <1>4
<1> QED
  BY <1>5

(* ComputeNextRun returns a slot of the recurrence that is not before t,   *)
(* or nothing.                                                             *)
LEMMA NextSlotType ==
    ASSUME NEW spec \in Specs, NEW t \in Nat
    PROVE  NextSlot(spec, t) \in Slots \cup {Null}
<1> DEFINE later == {n \in spec : n >= t}
<1>1. CASE later = {}
  BY <1>1 DEF NextSlot
<1>2. CASE later # {}
  <2>1. spec \subseteq Nat
    BY ConstantsAssumption
  <2>2. \E n \in later : \A m \in later : n <= m
    BY <1>2, <2>1, EarliestExists
  <2>3. NextSlot(spec, t) \in later
    BY <1>2, <2>2 DEF NextSlot
  <2> QED
    BY <2>3 DEF Slots
<1> QED
  BY <1>1, <1>2

LEMMA SlotsAreNat == Slots \subseteq Nat
<1>1. \A t \in (UNION Specs) : t \in Nat
  BY ConstantsAssumption
<1>2. \A t \in 1 .. MaxNow : t \in Nat
  BY ConstantsAssumption
<1> QED
  BY <1>1, <1>2 DEF Slots

-----------------------------------------------------------------------------
(* Type correctness                                                        *)

(* What a process may have in hand next.                                   *)
LEMMA GotoType ==
    ASSUME TypeOK, NEW p \in Procs, NEW o \in Occurrences, NEW pc, NEW seen,
           \/ pc \in {"claim", "dispatch", "recover", "accept", "fail"} /\ seen = "none"
           \/ pc \in {"acceptSync", "sync"} /\ seen \in RunStatus \ {"none"},
           Goto(p, pc, o, seen)
    PROVE  task' \in [Procs -> Task]
<1>1. [pc |-> pc, occ |-> o, seen |-> seen] \in Task
  BY DEF Task
<1> QED
  BY <1>1 DEF Goto, TypeOK

LEMMA ReturnType ==
    ASSUME TypeOK, NEW p, Return(p)
    PROVE  task' \in [Procs -> Task]
BY DEF Return, TypeOK, Task

(* A process that is past the claim has an occurrence in hand.             *)
LEMMA TaskInHand ==
    ASSUME TypeOK, NEW p \in Procs, task[p].pc # "none"
    PROVE  /\ task[p].occ \in Occurrences
           /\ task[p].pc \in {"acceptSync", "sync"} => task[p].seen \in RunStatus \ {"none"}
<1>1. task[p] \in Task /\ task[p] # NoTask
  BY DEF TypeOK, NoTask
<1> QED
  BY <1>1 DEF Task

LEMMA StopDaemonType ==
    ASSUME TypeOK, StopDaemon
    PROVE  /\ stops' \in Nat
           /\ driver' \in [Occurrences -> Procs \cup {NoProc}]
           /\ loop' \in LoopState
           /\ task' \in [Procs -> Task]
           /\ edit' \in [Clients -> Edit]
<1>1. stops' \in Nat
  BY DEF StopDaemon, TypeOK
<1>2. driver' \in [Occurrences -> Procs \cup {NoProc}]
  BY DEF StopDaemon, TypeOK
<1>3. loop' \in LoopState
  BY DEF StopDaemon, DownLoop, LoopState
<1>4. task' \in [Procs -> Task]
  BY DEF StopDaemon, TypeOK, Task
<1>5. edit' \in [Clients -> Edit]
  BY DEF StopDaemon, TypeOK, Edit
<1> QED
  BY <1>1, <1>2, <1>3, <1>4, <1>5

LEMMA InsertOccurrenceType ==
    ASSUME TypeOK, NEW p \in Procs, NEW s \in Schedules, NEW slot \in Slots, NEW created \in Nat,
           InsertOccurrence(p, s, slot, created)
    PROVE  occ' \in [Occurrences -> OccurrenceRow] /\ task' \in [Procs -> Task]
<1>1. <<s, slot>> \in Occurrences
  BY DEF Occurrences
<1>2. InsertedRow(s, slot, created) \in OccurrenceRow
  BY DEF InsertedRow, OccurrenceRow, OccurrenceStatus, OpenStatus
<1>3. occ' \in [Occurrences -> OccurrenceRow]
  BY <1>1, <1>2 DEF InsertOccurrence, TypeOK
<1>4. task' \in [Procs -> Task]
  BY <1>1, GotoType, ReturnType DEF InsertOccurrence
<1> QED
  BY <1>3, <1>4

LEMMA SummaryType ==
    ASSUME NEW row \in ScheduleRow, NEW target \in RunStatus \ {"none"}
    PROVE  Summary(row, target) \in ScheduleRow
<1>1. target \in OccurrenceStatus /\ FailureCount(row) \in Nat /\ 0 \in Nat
  BY DEF FailureCount, ScheduleRow, RunStatus, OccurrenceStatus, OpenStatus, TerminalStatus
<1>2. \A n \in Nat : [row EXCEPT !.lastStatus = target, !.failures = n] \in ScheduleRow
  BY <1>1 DEF ScheduleRow
<1>3. [row EXCEPT !.lastStatus = target] \in ScheduleRow
  BY <1>1 DEF ScheduleRow
<1>4. CASE target = "active"
  BY <1>4 DEF Summary
<1>5. CASE target = "needs_approval"
  BY <1>3, <1>5 DEF Summary
<1>6. CASE target = "failed"
  BY <1>1, <1>2, <1>6 DEF Summary
<1>7. CASE target \notin {"active", "needs_approval", "failed"}
  BY <1>1, <1>2, <1>7 DEF Summary
<1> QED
  BY <1>4, <1>5, <1>6, <1>7

LEMMA InitType == Init => TypeOK
<1> SUFFICES ASSUME Init PROVE TypeOK
  OBVIOUS
<1>1. now \in 1 .. MaxNow /\ stops \in Nat
  BY ConstantsAssumption DEF Init
<1>2. sched \in [Schedules -> ScheduleRow]
  BY DEF Init, ScheduleRow, OccurrenceStatus
<1>3. occ \in [Occurrences -> OccurrenceRow]
  BY DEF Init, OccurrenceRow, OccurrenceStatus, NoOccurrence
<1>4. run \in [Occurrences -> RunStatus] /\ driver \in [Occurrences -> Procs \cup {NoProc}]
  BY DEF Init, RunStatus
<1>5. loop \in LoopState
  BY DEF Init, DownLoop, LoopState
<1>6. task \in [Procs -> Task] /\ edit \in [Clients -> Edit]
  BY DEF Init, Task, Edit
<1> QED
  BY <1>1, <1>2, <1>3, <1>4, <1>5, <1>6 DEF TypeOK

(* The steps of the loop, of a process with an occurrence in hand, of the  *)
(* clients and of the environment, one lemma each.                         *)
LEMMA TaskStepType == ASSUME TypeOK, NEW p \in Procs, TaskStep(p) PROVE TypeOK'
<1>1. CASE Dispatch(p)
  <2>1. task[p].occ \in Occurrences
    BY <1>1, TaskInHand DEF Dispatch
  <2>2. task' \in [Procs -> Task]
    BY <1>1, <2>1, GotoType DEF Dispatch
  <2>3. run' \in [Occurrences -> RunStatus] /\ driver' \in [Occurrences -> Procs \cup {NoProc}]
    BY <1>1 DEF Dispatch, TypeOK, RunStatus, Executor, Procs
  <2> QED
    BY <1>1, <2>2, <2>3 DEF Dispatch, TypeOK
<1>2. CASE RecoverRun(p)
  <2>1. task[p].occ \in Occurrences /\ run[task[p].occ] \in RunStatus
    BY <1>2, TaskInHand DEF RecoverRun, TypeOK
  <2>2. task' \in [Procs -> Task]
    BY <1>2, <2>1, GotoType DEF RecoverRun
  <2> QED
    BY <1>2, <2>2 DEF RecoverRun, TypeOK
<1>3. CASE MarkOccurrenceAccepted(p)
  <2>1. /\ task[p].occ \in Occurrences
        /\ task[p].pc = "acceptSync" => task[p].seen \in RunStatus \ {"none"}
    BY <1>3, TaskInHand DEF MarkOccurrenceAccepted
  <2>2. task' \in [Procs -> Task]
    BY <1>3, <2>1, GotoType, ReturnType DEF MarkOccurrenceAccepted
  <2>3. occ' \in [Occurrences -> OccurrenceRow]
    BY <1>3 DEF MarkOccurrenceAccepted, TypeOK, OccurrenceRow, OccurrenceStatus, OpenStatus
  <2> QED
    BY <1>3, <2>2, <2>3 DEF MarkOccurrenceAccepted, TypeOK
<1>4. CASE MarkOccurrenceFailed(p)
  <2> DEFINE o == task[p].occ
  <2>1. o \in Occurrences /\ o[1] \in Schedules
    BY <1>4, TaskInHand DEF MarkOccurrenceFailed, Occurrences
  <2>2. CASE occ[o].status = "absent" /\ p = Loop
    BY <1>4, <2>2, StopDaemonType DEF MarkOccurrenceFailed, ReturnError, TypeOK, db
  <2>3. CASE occ[o].status = "absent" /\ p # Loop
    BY <1>4, <2>3 DEF MarkOccurrenceFailed, ReturnError, TypeOK, db, Task
  <2>4. CASE occ[o].status # "absent"
    <3>1. occ' \in [Occurrences -> OccurrenceRow]
      BY <1>4, <2>4 DEF MarkOccurrenceFailed, TypeOK, OccurrenceRow, OccurrenceStatus, TerminalStatus
    <3>2. sched' \in [Schedules -> ScheduleRow]
      BY <1>4, <2>1, <2>4
      DEF MarkOccurrenceFailed, TypeOK, ScheduleRow, FailureCount, OccurrenceStatus, TerminalStatus
    <3>3. task' \in [Procs -> Task]
      BY <1>4, <2>4, ReturnType DEF MarkOccurrenceFailed
    <3> QED
      BY <1>4, <2>4, <3>1, <3>2, <3>3 DEF MarkOccurrenceFailed, TypeOK
  <2> QED
    BY <2>2, <2>3, <2>4
<1>5. CASE SyncOccurrenceWithRun(p)
  <2> DEFINE o == task[p].occ
  <2>1. /\ o \in Occurrences /\ o[1] \in Schedules
        /\ task[p].seen \in RunStatus \ {"none"}
    BY <1>5, TaskInHand DEF SyncOccurrenceWithRun, Occurrences
  <2>2. CASE occ[o].status = "absent" /\ p = Loop
    BY <1>5, <2>2, StopDaemonType DEF SyncOccurrenceWithRun, ReturnError, TypeOK, db
  <2>3. CASE occ[o].status = "absent" /\ p # Loop
    BY <1>5, <2>3 DEF SyncOccurrenceWithRun, ReturnError, TypeOK, db, Task
  <2>4. CASE occ[o].status # "absent"
    <3>1. occ' \in [Occurrences -> OccurrenceRow]
      BY <1>5, <2>1, <2>4 DEF SyncOccurrenceWithRun, OccurrenceStatusFromRun, TypeOK, db,
                              OccurrenceRow, OccurrenceStatus, RunStatus, OpenStatus
    <3>2. sched' \in [Schedules -> ScheduleRow]
      BY <1>5, <2>1, <2>4, SummaryType
      DEF SyncOccurrenceWithRun, OccurrenceStatusFromRun, TypeOK, db
    <3>3. task' \in [Procs -> Task]
      BY <1>5, <2>4, ReturnType DEF SyncOccurrenceWithRun
    <3> QED
      BY <1>5, <2>4, <3>1, <3>2, <3>3 DEF SyncOccurrenceWithRun, TypeOK
  <2> QED
    BY <2>2, <2>3, <2>4
<1> QED
  BY <1>1, <1>2, <1>3, <1>4, <1>5 DEF TaskStep

LEMMA ClaimType ==
    ASSUME TypeOK, NEW s \in Schedules, ClaimDueOccurrence(s)
    PROVE  TypeOK'
<1>1. loop.now \in Nat /\ sched[s] \in ScheduleRow
  BY DEF TypeOK, LoopState
<1>2. loop' \in LoopState
  BY DEF ClaimDueOccurrence, TypeOK, LoopState
<1>3. CASE UNCHANGED <<sched, occ, task>>
  BY <1>2, <1>3 DEF ClaimDueOccurrence, TypeOK
<1>4. CASE ~UNCHANGED <<sched, occ, task>>
  <2>1. /\ sched' = [sched EXCEPT ![s].next = NextSlot(sched[s].spec, loop.now + 1)]
        /\ sched[s].next # Null
        /\ InsertOccurrence(Loop, s, sched[s].next, loop.now)
    BY <1>4 DEF ClaimDueOccurrence
  <2>2. NextSlot(sched[s].spec, loop.now + 1) \in Slots \cup {Null}
    BY <1>1, NextSlotType DEF ScheduleRow
  <2>3. sched' \in [Schedules -> ScheduleRow]
    BY <2>1, <2>2 DEF TypeOK, ScheduleRow
  <2>4. occ' \in [Occurrences -> OccurrenceRow] /\ task' \in [Procs -> Task]
    BY <1>1, <2>1, InsertOccurrenceType DEF ScheduleRow, Procs
  <2> QED
    BY <1>2, <2>3, <2>4 DEF ClaimDueOccurrence, TypeOK
<1> QED
  BY <1>3, <1>4

LEMMA InspectType ==
    ASSUME TypeOK, NEW r \in loop.todo, InspectOccurrence(r)
    PROVE  TypeOK'
<1>1. r \in Snapshot /\ r.occ \in Occurrences /\ run[r.occ] \in RunStatus
  BY DEF TypeOK, LoopState, Snapshot
<1>2. Loop \in Procs
  BY DEF Procs
<1>3. CASE ReturnError(Loop)
  BY <1>3, StopDaemonType DEF InspectOccurrence, ReturnError, TypeOK
<1>4. CASE ~ReturnError(Loop)
  <2>1. loop' \in LoopState
    BY <1>4 DEF InspectOccurrence, TypeOK, LoopState
  <2>2. CASE run[r.occ] # "none"
    <3>1. Goto(Loop, IF r.linked THEN "sync" ELSE "acceptSync", r.occ, run[r.occ])
      BY <1>4, <2>2 DEF InspectOccurrence
    <3>2. task' \in [Procs -> Task]
      BY <1>1, <1>2, <2>2, <3>1, GotoType
    <3> QED
      BY <1>4, <2>1, <3>2 DEF InspectOccurrence, TypeOK
  <2>3. CASE run[r.occ] = "none"
    <3>1. task' \in [Procs -> Task]
      BY <1>1, <1>2, <1>4, <2>3, GotoType DEF InspectOccurrence, TypeOK
    <3> QED
      BY <1>4, <2>1, <3>1 DEF InspectOccurrence, TypeOK
  <2> QED
    BY <2>2, <2>3
<1> QED
  BY <1>3, <1>4

LEMMA ListedType == ASSUME TypeOK PROVE OpenOccurrences \subseteq Snapshot
<1>1. \A o \in Occurrences : IsOpen(o) =>
        [occ |-> o, status |-> occ[o].status, linked |-> occ[o].linked,
         created |-> occ[o].created] \in Snapshot
  BY DEF TypeOK, IsOpen, Snapshot, OccurrenceRow
<1> QED
  BY <1>1 DEF OpenOccurrences, Listed

LEMMA StartReconcileType ==
    ASSUME TypeOK, NEW booting \in BOOLEAN, StartReconcile(booting)
    PROVE  loop' \in LoopState
<1>1. now \in Nat /\ OpenOccurrences \in SUBSET Snapshot
  BY ListedType, ConstantsAssumption DEF TypeOK
<1>2. \A t \in Nat, S \in SUBSET Snapshot :
        [loop EXCEPT !.phase = "reconcile", !.booting = booting, !.now = t, !.todo = S] \in LoopState
  BY DEF TypeOK, LoopState
<1> QED
  BY <1>1, <1>2 DEF StartReconcile

LEMMA LoopStepType == ASSUME TypeOK, LoopStep PROVE TypeOK'
<1>1. CASE WakeUp
  BY <1>1, StartReconcileType DEF WakeUp, TypeOK
<1>2. CASE ListMissingNextRun
  <2>1. \A S \in SUBSET Schedules : {<<s, sched[s].spec>> : s \in S} \subseteq Schedules \X Specs
    BY DEF TypeOK, ScheduleRow
  <2>2. PICK S \in SUBSET Schedules :
          loop' = [loop EXCEPT !.phase = "repair", !.fix = {<<s, sched[s].spec>> : s \in S}]
    BY <1>2 DEF ListMissingNextRun
  <2>3. loop' \in LoopState
    BY <2>1, <2>2 DEF TypeOK, LoopState
  <2> QED
    BY <1>2, <2>3 DEF ListMissingNextRun, TypeOK
<1>3. CASE ListDueSchedules
  <2>1. SleepingLoop \in LoopState
    BY DEF LoopState, SleepingLoop, DownLoop
  <2>2. \E S \in SUBSET Schedules :
          loop' = IF loop.booting THEN SleepingLoop
                  ELSE [loop EXCEPT !.phase = "claim", !.due = S]
    BY <1>3 DEF ListDueSchedules
  <2>3. loop' \in LoopState
    BY <2>1, <2>2 DEF TypeOK, LoopState
  <2> QED
    BY <1>3, <2>3 DEF ListDueSchedules, TypeOK
<1>4. CASE FinishRunOnce
  BY <1>4 DEF FinishRunOnce, TypeOK, LoopState, SleepingLoop, DownLoop
<1>5. CASE \E r \in loop.todo : InspectOccurrence(r)
  BY <1>5, InspectType
<1>6. ASSUME NEW f \in loop.fix, RepairNextRun(f) PROVE TypeOK'
  <2>1. f[1] \in Schedules /\ f[2] \in Specs /\ loop.now \in Nat
    BY <1>6 DEF TypeOK, LoopState
  <2>2. NextSlot(f[2], loop.now) \in Slots \cup {Null}
    BY <2>1, NextSlotType
  <2>3. sched' \in [Schedules -> ScheduleRow]
    BY <1>6, <2>1, <2>2 DEF RepairNextRun, TypeOK, ScheduleRow
  <2>4. loop' \in LoopState
    BY <1>6 DEF RepairNextRun, TypeOK, LoopState
  <2> QED
    BY <1>6, <2>3, <2>4 DEF RepairNextRun, TypeOK
<1>7. CASE \E s \in Schedules : ClaimDueOccurrence(s)
  BY <1>7, ClaimType
<1> QED
  BY <1>1, <1>2, <1>3, <1>4, <1>5, <1>6, <1>7 DEF LoopStep

LEMMA ClientStepType == ASSUME TypeOK, NEW c \in Clients, ClientStep(c) PROVE TypeOK'
<1>1. c \in Procs /\ now \in Nat /\ now \in Slots
  BY ConstantsAssumption DEF Procs, TypeOK, Slots
<1>2. CASE ClaimManualOccurrence(c)
  <2> DEFINE o == task[c].occ
  <2>1. o \in Occurrences
    BY <1>1, <1>2, TaskInHand DEF ClaimManualOccurrence
  <2>2. o[1] \in Schedules /\ o[2] \in Slots /\ o[2] \in Nat
    BY <2>1, SlotsAreNat DEF Occurrences
  <2>3. occ' \in [Occurrences -> OccurrenceRow] /\ task' \in [Procs -> Task]
    BY <1>1, <1>2, <2>2, InsertOccurrenceType, ReturnType DEF ClaimManualOccurrence, TypeOK
  <2> QED
    BY <1>2, <2>3 DEF ClaimManualOccurrence, TypeOK
<1>3. CASE WriteEdit(c)
  <2>1. edit[c] \in Edit /\ edit[c] # NoEdit
    BY <1>3 DEF WriteEdit, TypeOK
  <2>2. sched' \in [Schedules -> ScheduleRow]
    BY <1>3, <2>1 DEF WriteEdit, TypeOK, Edit, ScheduleRow
  <2>3. edit' \in [Clients -> Edit]
    BY <1>3 DEF WriteEdit, TypeOK, Edit
  <2> QED
    BY <1>3, <2>2, <2>3 DEF WriteEdit, TypeOK
<1>4. CASE ClientAborts(c)
  BY <1>4 DEF ClientAborts, TypeOK, Task, Edit
<1>5. CASE CliExits(c)
  BY <1>5 DEF CliExits, TypeOK
<1>6. ASSUME NEW s \in Schedules, RunNow(c, s) PROVE TypeOK'
  <2>1. <<s, now>> \in Occurrences
    BY <1>1 DEF Occurrences
  <2>2. task' \in [Procs -> Task]
    BY <1>1, <1>6, <2>1, GotoType DEF RunNow
  <2> QED
    BY <1>6, <2>2 DEF RunNow, TypeOK
<1>7. ASSUME NEW e \in Edit, BeginEdit(c, e) PROVE TypeOK'
  BY <1>7 DEF BeginEdit, TypeOK
<1>8. ASSUME NEW s \in Schedules, NEW b \in BOOLEAN, LoadForSetEnabled(c, s, b) PROVE TypeOK'
  <2>1. NextSlot(sched[s].spec, now) \in Slots \cup {Null}
    BY <1>1, NextSlotType DEF TypeOK, ScheduleRow
  <2>2. [op |-> "setEnabled", s |-> s, enabled |-> b,
         next |-> IF b THEN NextSlot(sched[s].spec, now) ELSE Null] \in Edit
    BY <2>1 DEF Edit
  <2> QED
    BY <1>7, <1>8, <2>2 DEF LoadForSetEnabled
<1>9. ASSUME NEW s \in Schedules, NEW spec \in Specs, LoadForUpdate(c, s, spec) PROVE TypeOK'
  <2> DEFINE next == CASE spec = sched[s].spec -> sched[s].next
                       [] spec # sched[s].spec /\ sched[s].enabled -> NextSlot(spec, now)
                       [] OTHER -> Null
  <2>1. NextSlot(spec, now) \in Slots \cup {Null}
    BY <1>1, NextSlotType
  <2>2. next \in Slots \cup {Null}
    BY <2>1 DEF TypeOK, ScheduleRow
  <2>3. [op |-> "update", s |-> s, spec |-> spec, next |-> next] \in Edit
    BY <2>2 DEF Edit
  <2> QED
    BY <1>7, <1>9, <2>3 DEF LoadForUpdate
<1> QED
  BY <1>2, <1>3, <1>4, <1>5, <1>6, <1>8, <1>9 DEF ClientStep

LEMMA EnvironmentStepType == ASSUME TypeOK, EnvironmentStep PROVE TypeOK'
<1>1. CASE Tick
  BY <1>1, ConstantsAssumption DEF Tick, TypeOK
<1>2. CASE DaemonStops
  BY <1>2, StopDaemonType DEF DaemonStops, TypeOK
<1>3. ASSUME NEW s \in Schedules, DeleteSchedule(s) PROVE TypeOK'
  <2>1. sched' \in [Schedules -> ScheduleRow]
    <3>1. [sched[s] EXCEPT !.exists = "deleted", !.enabled = FALSE, !.next = Null] \in ScheduleRow
      BY DEF TypeOK, ScheduleRow
    <3>2. sched' = [sched EXCEPT ![s] = [sched[s] EXCEPT !.exists = "deleted", !.enabled = FALSE,
                                                         !.next = Null]]
      BY <1>3 DEF DeleteSchedule, TypeOK, ScheduleRow
    <3> QED
      BY <3>1, <3>2 DEF TypeOK
  <2>2. occ' \in [Occurrences -> OccurrenceRow]
    BY <1>3 DEF DeleteSchedule, TypeOK, OccurrenceRow, NoOccurrence, OccurrenceStatus
  <2> QED
    BY <1>3, <2>1, <2>2 DEF DeleteSchedule, TypeOK
<1>4. ASSUME NEW s \in Schedules, NEW spec \in Specs, NEW b \in BOOLEAN, CreateSchedule(s, spec, b)
      PROVE  TypeOK'
  <2>1. NextSlot(spec, now) \in Slots \cup {Null}
    BY NextSlotType, ConstantsAssumption DEF TypeOK
  <2>2. sched' \in [Schedules -> ScheduleRow]
    <3> DEFINE next == IF b THEN NextSlot(spec, now) ELSE Null
               row == [sched[s] EXCEPT !.exists = "yes", !.enabled = b, !.spec = spec, !.next = next]
    <3>1. row \in ScheduleRow
      BY <2>1 DEF TypeOK, ScheduleRow
    <3>2. sched' = [sched EXCEPT ![s] = row]
      BY <1>4 DEF CreateSchedule, TypeOK, ScheduleRow
    <3> QED
      BY <3>1, <3>2 DEF TypeOK
  <2> QED
    BY <1>4, <2>2 DEF CreateSchedule, TypeOK
<1>5. ASSUME NEW o \in Occurrences, NEW b \in BOOLEAN, ResolveApproval(o, b) PROVE TypeOK'
  BY <1>5 DEF ResolveApproval, TypeOK, RunStatus, TerminalStatus, Procs
<1>6. ASSUME NEW o \in Occurrences, NEW st \in Outcomes \cup {x \in {run[o]} : Faults},
             RunLoopReturns(o, st)
      PROVE  TypeOK'
  <2>1. st \in RunStatus
    BY ConstantsAssumption DEF TypeOK, RunStatus
  <2> QED
    BY <1>6, <2>1 DEF RunLoopReturns, TypeOK
<1> QED
  BY <1>1, <1>2, <1>3, <1>4, <1>5, <1>6 DEF EnvironmentStep

LEMMA NextType == ASSUME TypeOK, [Next]_vars PROVE TypeOK'
<1>1. CASE StartDaemon
  <2>1. loop' \in LoopState
    BY <1>1, StartReconcileType DEF StartDaemon
  <2>2. run' \in [Occurrences -> RunStatus]
    BY <1>1 DEF StartDaemon, TypeOK, RunStatus, TerminalStatus
  <2> QED
    BY <1>1, <2>1, <2>2 DEF StartDaemon, TypeOK
<1>2. CASE UNCHANGED vars
  BY <1>2 DEF vars, TypeOK
<1> QED
  BY <1>1, <1>2, LoopStepType, EnvironmentStepType, TaskStepType, ClientStepType DEF Next

(* Every variable keeps its type: in particular the loop's lists hold only *)
(* rows that were open and schedules that exist in the tables' domain, and *)
(* a process that goes on to sync has read a run's status.                 *)
THEOREM TypeCorrect == Spec => []TypeOK
<1>1. Init => TypeOK
  BY InitType
<1>2. TypeOK /\ [Next]_vars => TypeOK'
  BY NextType
<1> QED
  BY <1>1, <1>2, PTL DEF Spec

-----------------------------------------------------------------------------
(* The claim invariant                                                     *)

LEMMA InitClaimInv == Init => ClaimInv
<1> SUFFICES ASSUME Init PROVE ClaimInv
  OBVIOUS
<1>1. \A p \in Procs : task[p].pc = "none"
  BY DEF Init, NoTask
<1>2. loop.todo = {}
  BY DEF Init, DownLoop
<1>3. \A o \in Occurrences : run[o] = "none" /\ driver[o] = NoProc /\ ~occ[o].linked
  BY DEF Init, NoOccurrence
<1>4. UnclaimedIsUntouched
  BY <1>1, <1>2, <1>3 DEF UnclaimedIsUntouched, Handled
<1>5. RunsAreThere
  BY <1>1, <1>2, <1>3 DEF RunsAreThere
<1>6. DispatchesOnce
  BY <1>1 DEF DispatchesOnce
<1> QED
  BY <1>4, <1>5, <1>6, InitType DEF ClaimInv

(* Every step but a claim and a dispatch: it starts no run, turns no row   *)
(* into a skipped or an absent one (except by deleting the schedule), and  *)
(* whatever it puts in a process's hands, or on the loop's list, was       *)
(* handled already or is a claimed row.                                    *)
LEMMA QuietStep ==
    ASSUME ClaimInv, TypeOK',
           \A o \in Occurrences :
              /\ run'[o] = "none" <=> run[o] = "none"
              /\ occ'[o].linked \/ driver'[o] # NoProc => run[o] # "none"
              /\ occ'[o].status = "skipped" => occ[o].status = "skipped"
              /\ occ'[o].status = "absent" /\ sched'[o[1]].exists # "deleted" =>
                    occ[o].status = "absent" /\ sched[o[1]].exists # "deleted",
           \A r \in loop'.todo :
              \/ r \in loop.todo
              \/ /\ occ'[r.occ].status \notin {"skipped", "absent"}
                 /\ r.linked => run[r.occ] # "none",
           \A p \in Procs :
              \/ task'[p] = task[p]
              \/ task'[p].pc \in {"none", "claim"}
              \/ /\ task'[p].pc # "dispatch" /\ Handled(task'[p].occ)
                 /\ task'[p].pc \in {"accept", "acceptSync", "sync"} => run[task'[p].occ] # "none"
    PROVE  ClaimInv'
<1>1. \A r \in loop'.todo : r.occ \in Occurrences
  BY DEF TypeOK, LoopState, Snapshot
<1>2. \A p \in Procs : task'[p].pc # "none" => task'[p].occ \in Occurrences
  BY DEF TypeOK, Task, NoTask
<1>3. ASSUME NEW o \in Occurrences,
             \/ occ'[o].status = "skipped"
             \/ occ'[o].status = "absent" /\ sched'[o[1]].exists # "deleted"
      PROVE  run'[o] = "none" /\ ~Handled(o)'
  <2>1. run[o] = "none" /\ ~Handled(o)
    BY <1>3 DEF ClaimInv, UnclaimedIsUntouched
  <2>2. \A r \in loop'.todo : r.occ # o
    BY <1>3, <2>1 DEF Handled
  <2>3. \A p \in Procs : ~(task'[p].pc \notin {"none", "claim"} /\ task'[p].occ = o)
    BY <2>1 DEF Handled
  <2> QED
    BY <2>1, <2>2, <2>3 DEF Handled
<1>4. UnclaimedIsUntouched'
  BY <1>3 DEF UnclaimedIsUntouched
<1>5. RunsAreThere'
  BY <1>1, <1>2 DEF ClaimInv, RunsAreThere
<1>6. DispatchesOnce'
  BY <1>2 DEF ClaimInv, DispatchesOnce
<1> QED
  BY <1>4, <1>5, <1>6 DEF ClaimInv

(* The insert of a claim transaction: the unique index sees to it that     *)
(* only an unclaimed, hence untouched, slot is handed out.                 *)
LEMMA InsertStep ==
    ASSUME ClaimInv, TypeOK', NEW p \in Procs, NEW s \in Schedules, NEW slot \in Slots,
           NEW created, InsertOccurrence(p, s, slot, created),
           task[p].pc \in {"none", "claim"}, sched[s].exists = "yes",
           \A x \in Schedules : sched'[x].exists = sched[x].exists,
           run' = run, driver' = driver, loop'.todo = loop.todo
    PROVE  ClaimInv'
<1> DEFINE o == <<s, slot>>
<1>1. o \in Occurrences /\ \A x \in Occurrences : x[1] \in Schedules
  BY DEF Occurrences
<1>2. \A q \in Procs \ {p} : task'[q] = task[q]
  BY DEF InsertOccurrence, Return, Goto, ClaimInv, TypeOK
<1>3. CASE Return(p) /\ UNCHANGED occ
  <2>1. task'[p].pc = "none"
    BY <1>3 DEF Return, ClaimInv, TypeOK, NoTask
  <2> QED
    BY <1>1, <1>2, <1>3, <2>1, QuietStep DEF ClaimInv, RunsAreThere
<1>4. CASE ~(Return(p) /\ UNCHANGED occ)
  <2>1. occ[o].status = "absent" /\ occ' = [occ EXCEPT ![o] = InsertedRow(s, slot, created)]
    BY <1>4 DEF InsertOccurrence
  <2>2. /\ ~occ'[o].linked
        /\ occ'[o].status \in {"skipped", "dispatching"}
        /\ \A x \in Occurrences \ {o} : occ'[x] = occ[x]
    BY <1>1, <2>1 DEF InsertedRow, ClaimInv, TypeOK
  <2>3. run[o] = "none" /\ ~Handled(o)
    BY <1>1, <2>1 DEF ClaimInv, UnclaimedIsUntouched
  <2>4. \/ task'[p].pc = "none"
        \/ occ'[o].status = "dispatching" /\ task'[p].pc = "dispatch" /\ task'[p].occ = o
    BY <1>1, <1>4, <2>1 DEF InsertOccurrence, Return, Goto, ClaimInv, TypeOK, NoTask
  <2>5. ASSUME NEW x \in Occurrences,
               \/ occ'[x].status = "skipped"
               \/ occ'[x].status = "absent" /\ sched'[x[1]].exists # "deleted"
        PROVE  run'[x] = "none" /\ ~Handled(x)'
    <3>1. run[x] = "none" /\ ~Handled(x)
      BY <1>1, <2>2, <2>3, <2>5 DEF ClaimInv, UnclaimedIsUntouched
    <3>2. ~(task'[p].pc \notin {"none", "claim"} /\ task'[p].occ = x)
      BY <2>4, <2>5
    <3> QED
      BY <1>2, <3>1, <3>2 DEF Handled
  <2>6. UnclaimedIsUntouched'
    BY <2>5 DEF UnclaimedIsUntouched
  <2>7. RunsAreThere'
    BY <1>1, <1>2, <2>2, <2>4 DEF ClaimInv, RunsAreThere
  <2>8. \A q \in Procs \ {p} : task[q].pc = "dispatch" => task[q].occ # o
    BY <2>3 DEF Handled
  <2>9. DispatchesOnce'
    BY <1>2, <2>3, <2>4, <2>8 DEF ClaimInv, DispatchesOnce
  <2> QED
    BY <2>6, <2>7, <2>9 DEF ClaimInv
<1> QED
  BY <1>3, <1>4

(* The dispatch transaction creates the run of the occurrence in hand.     *)
LEMMA DispatchStep ==
    ASSUME ClaimInv, TypeOK', NEW p \in Procs, Dispatch(p)
    PROVE  ClaimInv'
<1> DEFINE o == task[p].occ
<1>1. o \in Occurrences /\ Handled(o) /\ task[p].pc = "dispatch"
  BY TaskInHand DEF Dispatch, ClaimInv, Handled
<1>2. /\ UNCHANGED <<occ, sched, loop>>
      /\ task'[p].occ = o /\ task'[p].pc \in {"accept", "recover"}
      /\ \A q \in Procs \ {p} : task'[q] = task[q]
      /\ task'[p].pc = "accept" => run'[o] # "none"
  BY <1>1 DEF Dispatch, Goto, ClaimInv, TypeOK
<1>3. \A x \in Occurrences :
         /\ run[x] # "none" => run'[x] # "none"
         /\ x # o => run'[x] = run[x]
         /\ driver'[x] # driver[x] => run'[x] # "none"
  BY <1>1 DEF Dispatch, ClaimInv, TypeOK
<1>4. \A x \in Occurrences : Handled(x)' => Handled(x)
  BY <1>1, <1>2 DEF Handled
<1>5. UnclaimedIsUntouched'
  BY <1>1, <1>2, <1>3, <1>4 DEF ClaimInv, UnclaimedIsUntouched
<1>6. RunsAreThere'
  <2>1. \A x \in Occurrences : occ'[x].linked \/ driver'[x] # NoProc => run'[x] # "none"
    BY <1>2, <1>3 DEF ClaimInv, RunsAreThere
  <2>2. \A r \in loop'.todo : r.linked => run'[r.occ] # "none"
    BY <1>2, <1>3 DEF ClaimInv, RunsAreThere, TypeOK, LoopState, Snapshot
  <2>3. \A q \in Procs \ {p} : task'[q].pc \in {"accept", "acceptSync", "sync"} =>
                                 run'[task'[q].occ] # "none"
    BY <1>2, <1>3, TaskInHand DEF ClaimInv, RunsAreThere
  <2> QED
    BY <1>2, <2>1, <2>2, <2>3 DEF RunsAreThere
<1>7. DispatchesOnce'
  <2>1. \A q \in Procs \ {p} : task[q].pc = "dispatch" =>
          task[q].occ \in Occurrences /\ task[q].occ # o
    BY <1>1, TaskInHand DEF ClaimInv, DispatchesOnce
  <2> QED
    BY <1>2, <1>3, <2>1 DEF ClaimInv, DispatchesOnce
<1> QED
  BY <1>5, <1>6, <1>7 DEF ClaimInv

(* What a stop of the daemon leaves in hand.                               *)
LEMMA StopDaemonQuiet ==
    ASSUME TypeOK, StopDaemon
    PROVE  /\ loop'.todo = {}
           /\ \A p \in Procs : task'[p] = task[p] \/ task'[p].pc = "none"
           /\ \A o \in Occurrences : driver'[o] # NoProc => driver[o] # NoProc
BY DEF StopDaemon, DownLoop, NoTask, TypeOK

(* An error return from a step that writes nothing.                        *)
LEMMA ReturnErrorStep ==
    ASSUME ClaimInv, TypeOK', NEW p \in Procs, ReturnError(p), UNCHANGED <<sched, occ, run>>
    PROVE  ClaimInv'
<1>1. CASE p = Loop
  BY <1>1, StopDaemonQuiet, QuietStep DEF ReturnError, ClaimInv, RunsAreThere
<1>2. CASE p # Loop
  <2>1. \A q \in Procs : task'[q] = task[q] \/ task'[q].pc = "none"
    BY <1>2 DEF ReturnError, ClaimInv, TypeOK, NoTask
  <2> QED
    BY <1>2, <2>1, QuietStep DEF ReturnError, ClaimInv, RunsAreThere
<1> QED
  BY <1>1, <1>2

LEMMA TaskStepStep ==
    ASSUME ClaimInv, TypeOK', NEW p \in Procs, TaskStep(p)
    PROVE  ClaimInv'
<1> DEFINE o == task[p].occ
<1> SUFFICES ASSUME ~Dispatch(p) PROVE ClaimInv'
  BY DispatchStep
<1>1. o \in Occurrences /\ Handled(o)
  BY TaskInHand DEF TaskStep, RecoverRun, MarkOccurrenceAccepted, MarkOccurrenceFailed,
                    SyncOccurrenceWithRun, ClaimInv, Handled
<1>2. occ[o].status # "skipped"
  BY <1>1 DEF ClaimInv, UnclaimedIsUntouched
<1>3. CASE RecoverRun(p)
  <2>1. \A q \in Procs : \/ task'[q] = task[q]
                         \/ q = p /\ task'[p].occ = o /\ task'[p].pc = "fail"
                         \/ q = p /\ task'[p].occ = o /\ task'[p].pc = "acceptSync" /\ run[o] # "none"
    BY <1>3 DEF RecoverRun, Goto, ClaimInv, TypeOK
  <2> QED
    BY <1>1, <1>3, <2>1, QuietStep DEF RecoverRun, ClaimInv, RunsAreThere
<1>4. CASE MarkOccurrenceAccepted(p)
  <2>1. run[o] # "none"
    BY <1>4 DEF MarkOccurrenceAccepted, ClaimInv, RunsAreThere
  <2>2. \A q \in Procs : \/ task'[q] = task[q]
                         \/ q = p /\ task'[p].pc = "none"
                         \/ q = p /\ task'[p].occ = o /\ task'[p].pc = "sync"
    BY <1>4 DEF MarkOccurrenceAccepted, Goto, Return, NoTask, ClaimInv, TypeOK
  <2>3. \A x \in Occurrences : \/ occ'[x] = occ[x]
                               \/ x = o /\ occ'[x].status = "active"
    BY <1>1, <1>4 DEF MarkOccurrenceAccepted, ClaimInv, TypeOK, OccurrenceRow
  <2> QED
    BY <1>1, <1>4, <2>1, <2>2, <2>3, QuietStep DEF MarkOccurrenceAccepted, ClaimInv, RunsAreThere
<1>5. CASE MarkOccurrenceFailed(p)
  <2>1. CASE occ[o].status = "absent"
    BY <1>5, <2>1, ReturnErrorStep DEF MarkOccurrenceFailed, db
  <2>2. CASE occ[o].status # "absent"
    <3>1. \A q \in Procs : task'[q] = task[q] \/ task'[q].pc = "none"
      BY <1>5, <2>2 DEF MarkOccurrenceFailed, Return, NoTask, ClaimInv, TypeOK
    <3>2. \A x \in Occurrences : \/ occ'[x] = occ[x]
                                 \/ x = o /\ occ'[x].status = "failed" /\ occ'[x].linked = occ[x].linked
      BY <1>5, <2>2 DEF MarkOccurrenceFailed, ClaimInv, TypeOK, OccurrenceRow
    <3>3. \A x \in Occurrences : sched'[x[1]].exists = sched[x[1]].exists
      <4>1. \A x \in Schedules \ {o[1]} : sched'[x] = sched[x]
        BY <1>5, <2>2 DEF MarkOccurrenceFailed, ClaimInv, TypeOK
      <4>2. o[1] \in Schedules /\ \A x \in Occurrences : x[1] \in Schedules
        BY <1>1 DEF Occurrences
      <4>3. sched'[o[1]].exists = sched[o[1]].exists
        BY <1>5, <2>2, <4>2 DEF MarkOccurrenceFailed, ClaimInv, TypeOK, ScheduleRow
      <4> QED
        BY <4>1, <4>2, <4>3
    <3> QED
      BY <1>5, <2>2, <3>1, <3>2, <3>3, QuietStep DEF MarkOccurrenceFailed, ClaimInv, RunsAreThere
  <2> QED
    BY <2>1, <2>2
<1>6. CASE SyncOccurrenceWithRun(p)
  <2>1. CASE occ[o].status = "absent"
    BY <1>6, <2>1, ReturnErrorStep DEF SyncOccurrenceWithRun, db
  <2>2. CASE occ[o].status # "absent"
    <3>1. \A q \in Procs : task'[q] = task[q] \/ task'[q].pc = "none"
      BY <1>6, <2>2 DEF SyncOccurrenceWithRun, Return, NoTask, ClaimInv, TypeOK
    <3>2. task[p].seen \in RunStatus \ {"none"}
      BY <1>6, TaskInHand DEF SyncOccurrenceWithRun, ClaimInv
    <3>3. \A x \in Occurrences : /\ occ'[x].linked = occ[x].linked
                                 /\ \/ occ'[x] = occ[x]
                                    \/ x = o /\ occ'[x].status \notin {"skipped", "absent"}
      BY <1>6, <2>2, <3>2 DEF SyncOccurrenceWithRun, OccurrenceStatusFromRun, db, ClaimInv, TypeOK,
                              OccurrenceRow, RunStatus, TerminalStatus
    <3>4. \A row \in ScheduleRow, target \in RunStatus : Summary(row, target).exists = row.exists
      BY DEF Summary, ScheduleRow
    <3>5. \A x \in Occurrences : sched'[x[1]].exists = sched[x[1]].exists
      BY <1>6, <2>2, <3>2, <3>4
      DEF SyncOccurrenceWithRun, OccurrenceStatusFromRun, db, ClaimInv, TypeOK, Occurrences
    <3> QED
      BY <1>6, <2>2, <3>1, <3>3, <3>5, QuietStep DEF SyncOccurrenceWithRun, ClaimInv, RunsAreThere
  <2> QED
    BY <2>1, <2>2
<1> QED
  BY <1>3, <1>4, <1>5, <1>6 DEF TaskStep

(* The rows on a fresh list are claimed ones.                              *)
LEMMA StartReconcileListed ==
    ASSUME ClaimInv, NEW booting, StartReconcile(booting)
    PROVE  \A r \in loop'.todo :
              \/ r \in loop.todo
              \/ /\ occ[r.occ].status \notin {"skipped", "absent"}
                 /\ r.linked => run[r.occ] # "none"
<1>1. loop'.todo = OpenOccurrences
  BY DEF StartReconcile, ClaimInv, TypeOK, LoopState
<1>2. ASSUME NEW r \in OpenOccurrences
      PROVE  /\ occ[r.occ].status \notin {"skipped", "absent"}
             /\ r.linked => run[r.occ] # "none"
  <2>1. PICK o \in Occurrences : r.occ = o /\ IsOpen(o) /\ r.linked = occ[o].linked
    BY DEF OpenOccurrences, Listed
  <2> QED
    BY <2>1 DEF IsOpen, OpenStatus, ClaimInv, RunsAreThere
<1> QED
  BY <1>1, <1>2

LEMMA LoopStepStep ==
    ASSUME ClaimInv, TypeOK', LoopStep
    PROVE  ClaimInv'
<1>1. Loop \in Procs /\ \A x \in Occurrences : x[1] \in Schedules
  BY DEF Procs, Occurrences
<1>2. CASE WakeUp
  <2>1. \A r \in loop'.todo :
          \/ r \in loop.todo
          \/ /\ occ'[r.occ].status \notin {"skipped", "absent"}
             /\ r.linked => run[r.occ] # "none"
    BY <1>2, StartReconcileListed DEF WakeUp
  <2> QED
    BY <1>2, <2>1, QuietStep DEF WakeUp, ClaimInv, RunsAreThere
<1>3. CASE ListMissingNextRun
  <2>1. loop'.todo = {}
    BY <1>3 DEF ListMissingNextRun, ClaimInv, TypeOK, LoopState
  <2> QED
    BY <1>3, <2>1, QuietStep DEF ListMissingNextRun, ClaimInv, RunsAreThere
<1>4. CASE ListDueSchedules
  <2>1. loop'.todo = {} \/ loop'.todo = loop.todo
    BY <1>4 DEF ListDueSchedules, SleepingLoop, DownLoop, ClaimInv, TypeOK, LoopState
  <2> QED
    BY <1>4, <2>1, QuietStep DEF ListDueSchedules, ClaimInv, RunsAreThere
<1>5. CASE FinishRunOnce
  <2>1. loop'.todo = {}
    BY <1>5 DEF FinishRunOnce, SleepingLoop, DownLoop
  <2> QED
    BY <1>5, <2>1, QuietStep DEF FinishRunOnce, ClaimInv, RunsAreThere
<1>6. ASSUME NEW r \in loop.todo, InspectOccurrence(r) PROVE ClaimInv'
  <2>1. CASE ReturnError(Loop)
    BY <1>1, <1>6, <2>1, ReturnErrorStep DEF InspectOccurrence
  <2>2. CASE ~ReturnError(Loop)
    <3>1. loop'.todo \subseteq loop.todo /\ driver' = driver
      BY <1>6, <2>2 DEF InspectOccurrence, ClaimInv, TypeOK, LoopState
    <3>2. r.occ \in Occurrences /\ Handled(r.occ)
      BY DEF Handled, ClaimInv, TypeOK, LoopState, Snapshot
    <3>3. \A q \in Procs :
            \/ task'[q] = task[q]
            \/ /\ task'[q].occ = r.occ /\ task'[q].pc \in {"sync", "acceptSync", "fail"}
               /\ task'[q].pc # "fail" => run[r.occ] # "none"
      BY <1>1, <1>6, <2>2 DEF InspectOccurrence, Goto, ClaimInv, TypeOK
    <3> QED
      BY <1>6, <3>1, <3>2, <3>3, QuietStep DEF InspectOccurrence, ClaimInv, RunsAreThere
  <2> QED
    BY <2>1, <2>2
<1>7. ASSUME NEW f \in loop.fix, RepairNextRun(f) PROVE ClaimInv'
  <2>1. loop'.todo = loop.todo
    BY <1>7 DEF RepairNextRun, ClaimInv, TypeOK, LoopState
  <2>2. \A x \in Schedules : sched'[x].exists = sched[x].exists
    BY <1>7 DEF RepairNextRun, ClaimInv, TypeOK, ScheduleRow
  <2> QED
    BY <1>1, <1>7, <2>1, <2>2, QuietStep DEF RepairNextRun, ClaimInv, RunsAreThere
<1>8. ASSUME NEW s \in Schedules, ClaimDueOccurrence(s) PROVE ClaimInv'
  <2>1. loop'.todo = loop.todo /\ task[Loop].pc = "none"
    BY <1>8 DEF ClaimDueOccurrence, ClaimInv, TypeOK, LoopState, NoTask
  <2>2. CASE UNCHANGED <<sched, occ, task>>
    BY <1>8, <2>1, <2>2, QuietStep DEF ClaimDueOccurrence, ClaimInv, RunsAreThere
  <2>3. CASE ~UNCHANGED <<sched, occ, task>>
    <3>1. /\ sched[s].exists = "yes" /\ sched[s].next # Null
          /\ sched' = [sched EXCEPT ![s].next = NextSlot(sched[s].spec, loop.now + 1)]
          /\ InsertOccurrence(Loop, s, sched[s].next, loop.now)
      BY <1>8, <2>3 DEF ClaimDueOccurrence
    <3>2. sched[s].next \in Slots
      BY <3>1 DEF ClaimInv, TypeOK, ScheduleRow
    <3>3. \A x \in Schedules : sched'[x].exists = sched[x].exists
      BY <3>1 DEF ClaimInv, TypeOK, ScheduleRow
    <3> QED
      BY <1>1, <1>8, <2>1, <3>1, <3>2, <3>3, InsertStep DEF ClaimDueOccurrence
  <2> QED
    BY <2>2, <2>3
<1> QED
  BY <1>2, <1>3, <1>4, <1>5, <1>6, <1>7, <1>8 DEF LoopStep

LEMMA ClientStepStep ==
    ASSUME ClaimInv, TypeOK', NEW c \in Clients, ClientStep(c)
    PROVE  ClaimInv'
<1>1. c \in Procs /\ \A x \in Occurrences : x[1] \in Schedules
  BY DEF Procs, Occurrences
<1>2. CASE ClaimManualOccurrence(c)
  <2> DEFINE o == task[c].occ
  <2>1. o \in Occurrences
    BY <1>1, <1>2, TaskInHand DEF ClaimManualOccurrence, ClaimInv
  <2>2. o[1] \in Schedules /\ o[2] \in Slots
    BY <2>1 DEF Occurrences
  <2>3. CASE sched[o[1]].exists = "yes"
    BY <1>1, <1>2, <2>2, <2>3, InsertStep DEF ClaimManualOccurrence
  <2>4. CASE sched[o[1]].exists # "yes"
    <3>1. \A q \in Procs : task'[q] = task[q] \/ task'[q].pc = "none"
      BY <1>2, <2>4 DEF ClaimManualOccurrence, Return, NoTask, ClaimInv, TypeOK
    <3> QED
      BY <1>2, <2>4, <3>1, QuietStep DEF ClaimManualOccurrence, ClaimInv, RunsAreThere
  <2> QED
    BY <2>3, <2>4
<1>3. CASE WriteEdit(c)
  <2>1. edit[c] \in Edit /\ edit[c] # NoEdit
    BY <1>3 DEF WriteEdit, ClaimInv, TypeOK
  <2>2. \A x \in Schedules : sched'[x].exists = sched[x].exists
    BY <1>3, <2>1 DEF WriteEdit, ClaimInv, TypeOK, ScheduleRow, Edit
  <2> QED
    BY <1>1, <1>3, <2>2, QuietStep DEF WriteEdit, ClaimInv, RunsAreThere
<1>4. CASE ClientAborts(c)
  <2>1. \A q \in Procs : task'[q] = task[q] \/ task'[q].pc = "none"
    BY <1>4 DEF ClientAborts, NoTask, ClaimInv, TypeOK
  <2> QED
    BY <1>4, <2>1, QuietStep DEF ClientAborts, ClaimInv, RunsAreThere
<1>5. CASE CliExits(c)
  <2>1. \A o \in Occurrences : driver'[o] # NoProc => driver[o] # NoProc
    BY <1>5 DEF CliExits, ClaimInv, TypeOK
  <2> QED
    BY <1>5, <2>1, QuietStep DEF CliExits, ClaimInv, RunsAreThere
<1>6. ASSUME NEW s \in Schedules, RunNow(c, s) PROVE ClaimInv'
  <2>1. \A q \in Procs : task'[q] = task[q] \/ task'[q].pc = "claim"
    BY <1>6 DEF RunNow, Goto, ClaimInv, TypeOK
  <2> QED
    BY <1>6, <2>1, QuietStep DEF RunNow, ClaimInv, RunsAreThere
<1>7. ASSUME NEW e, BeginEdit(c, e) PROVE ClaimInv'
  BY <1>7, QuietStep DEF BeginEdit, ClaimInv, RunsAreThere
<1> QED
  BY <1>2, <1>3, <1>4, <1>5, <1>6, <1>7 DEF ClientStep, LoadForSetEnabled, LoadForUpdate

LEMMA EnvironmentStepStep ==
    ASSUME ClaimInv, TypeOK', EnvironmentStep
    PROVE  ClaimInv'
<1>1. \A x \in Occurrences : x[1] \in Schedules
  BY DEF Occurrences
<1>2. CASE Tick
  BY <1>2, QuietStep DEF Tick, ClaimInv, RunsAreThere
<1>3. CASE DaemonStops
  BY <1>3, StopDaemonQuiet, QuietStep DEF DaemonStops, ClaimInv, RunsAreThere
<1>4. ASSUME NEW s \in Schedules, DeleteSchedule(s) PROVE ClaimInv'
  <2>1. /\ sched'[s].exists = "deleted"
        /\ \A x \in Schedules \ {s} : sched'[x] = sched[x]
    BY <1>4 DEF DeleteSchedule, ClaimInv, TypeOK, ScheduleRow
  <2>2. \A o \in Occurrences : IF o[1] = s THEN occ'[o].status = "absent" /\ ~occ'[o].linked
                                          ELSE occ'[o] = occ[o]
    BY <1>4 DEF DeleteSchedule, NoOccurrence
  <2>3. \A r \in loop'.todo : r \in loop.todo
    BY <1>4 DEF DeleteSchedule
  <2> QED
    BY <1>1, <1>4, <2>1, <2>2, <2>3, QuietStep DEF DeleteSchedule, ClaimInv, RunsAreThere
<1>5. ASSUME NEW s \in Schedules, NEW spec \in Specs, NEW b \in BOOLEAN, CreateSchedule(s, spec, b)
      PROVE  ClaimInv'
  <2>1. \A x \in Schedules \ {s} : sched'[x] = sched[x]
    BY <1>5 DEF CreateSchedule, ClaimInv, TypeOK
  <2>2. \A o \in Occurrences : sched'[o[1]].exists # "deleted" => sched[o[1]].exists # "deleted"
    BY <1>1, <1>5, <2>1 DEF CreateSchedule
  <2> QED
    BY <1>5, <2>2, QuietStep DEF CreateSchedule, ClaimInv, RunsAreThere
<1>6. ASSUME NEW o \in Occurrences, NEW b \in BOOLEAN, ResolveApproval(o, b) PROVE ClaimInv'
  <2>1. \A x \in Occurrences : /\ run'[x] = "none" <=> run[x] = "none"
                               /\ driver'[x] # NoProc => run[x] # "none"
    BY <1>6 DEF ResolveApproval, ClaimInv, TypeOK, RunsAreThere
  <2> QED
    BY <1>6, <2>1, QuietStep DEF ResolveApproval, ClaimInv, RunsAreThere
<1>7. ASSUME NEW o \in Occurrences, NEW st \in Outcomes \cup {x \in {run[o]} : Faults},
             RunLoopReturns(o, st)
      PROVE  ClaimInv'
  <2>1. run[o] # "none"
    BY <1>7 DEF RunLoopReturns, ClaimInv, RunsAreThere
  <2>2. st # "none"
    BY <2>1, ConstantsAssumption DEF TerminalStatus
  <2>3. \A x \in Occurrences : /\ run'[x] = "none" <=> run[x] = "none"
                               /\ driver'[x] # NoProc => driver[x] # NoProc
    BY <1>7, <2>1, <2>2 DEF RunLoopReturns, ClaimInv, TypeOK
  <2> QED
    BY <1>7, <2>3, QuietStep DEF RunLoopReturns, ClaimInv, RunsAreThere
<1> QED
  BY <1>2, <1>3, <1>4, <1>5, <1>6, <1>7 DEF EnvironmentStep

LEMMA StartDaemonStep ==
    ASSUME ClaimInv, TypeOK', StartDaemon
    PROVE  ClaimInv'
<1>1. \A r \in loop'.todo :
        \/ r \in loop.todo
        \/ /\ occ'[r.occ].status \notin {"skipped", "absent"}
           /\ r.linked => run[r.occ] # "none"
  BY StartReconcileListed DEF StartDaemon
<1>2. \A o \in Occurrences : run'[o] = "none" <=> run[o] = "none"
  BY DEF StartDaemon
<1> QED
  BY <1>1, <1>2, QuietStep DEF StartDaemon, ClaimInv, RunsAreThere

LEMMA NextClaimInv == ClaimInv /\ [Next]_vars => ClaimInv'
<1> SUFFICES ASSUME ClaimInv, [Next]_vars PROVE ClaimInv'
  OBVIOUS
<1>1. TypeOK'
  BY NextType DEF ClaimInv
<1>2. CASE UNCHANGED vars
  <2>1. UnclaimedIsUntouched'
    BY <1>2 DEF vars, ClaimInv, UnclaimedIsUntouched, Handled
  <2>2. RunsAreThere' /\ DispatchesOnce'
    BY <1>2 DEF vars, ClaimInv, RunsAreThere, DispatchesOnce
  <2> QED
    BY <1>1, <2>1, <2>2 DEF ClaimInv
<1> QED
  BY <1>1, <1>2, StartDaemonStep, LoopStepStep, EnvironmentStepStep, TaskStepStep, ClientStepStep
  DEF Next

LEMMA ClaimInvariant == Spec => []ClaimInv
<1> QED
  BY InitClaimInv, NextClaimInv, PTL DEF Spec

(* A run is started once for an occurrence: whoever is about to dispatch   *)
(* it is alone, and it has no run yet.                                     *)
THEOREM NoSecondDispatch == Spec => []DispatchesOnce
<1>1. ClaimInv => DispatchesOnce
  BY DEF ClaimInv
<1> QED
  BY <1>1, ClaimInvariant, PTL

(* A skipped slot never had a run, and a row links only a run that exists. *)
THEOREM RowsAreTruthful == Spec => []RowsMatchReceipts
<1>1. ClaimInv => RowsMatchReceipts
  BY DEF ClaimInv, UnclaimedIsUntouched, RunsAreThere, RowsMatchReceipts
<1> QED
  BY <1>1, ClaimInvariant, PTL

-----------------------------------------------------------------------------
(* What the claim invariant says of steps                                  *)

LEMMA ClaimedOnceStep ==
    ASSUME ClaimInv, [Next]_vars, NEW o \in Occurrences
    PROVE  /\ occ'[o].status = "dispatching" => occ[o].status \in {"absent", "dispatching"}
           /\ occ[o].status = "skipped" => occ'[o].status \in {"skipped", "absent"}
<1> SUFFICES ASSUME occ'[o] # occ[o]
             PROVE  /\ occ'[o].status = "dispatching" => occ[o].status \in {"absent", "dispatching"}
                    /\ occ[o].status = "skipped" => occ'[o].status \in {"skipped", "absent"}
  OBVIOUS
<1>1. ASSUME NEW p, NEW s \in Schedules, NEW slot \in Slots, NEW created,
             InsertOccurrence(p, s, slot, created)
      PROVE  occ[o].status = "absent"
  <2>1. \A x \in Occurrences : x # <<s, slot>> => occ'[x] = occ[x]
    BY <1>1 DEF InsertOccurrence, ClaimInv, TypeOK
  <2> QED
    BY <1>1, <2>1 DEF InsertOccurrence
<1>2. CASE \E s \in Schedules : ClaimDueOccurrence(s)
  <2>1. PICK s \in Schedules : ClaimDueOccurrence(s)
    BY <1>2
  <2>2. sched[s].next # Null /\ InsertOccurrence(Loop, s, sched[s].next, loop.now)
    BY <2>1 DEF ClaimDueOccurrence
  <2>3. sched[s].next \in Slots
    BY <2>2 DEF ClaimInv, TypeOK, ScheduleRow
  <2> QED
    BY <1>1, <2>2, <2>3
<1>3. ASSUME NEW c \in Clients, ClaimManualOccurrence(c) PROVE occ[o].status = "absent"
  <2> DEFINE m == task[c].occ
  <2>1. InsertOccurrence(c, m[1], m[2], m[2])
    BY <1>3 DEF ClaimManualOccurrence
  <2>2. m[1] \in Schedules /\ m[2] \in Slots
    BY <1>3, TaskInHand DEF ClaimManualOccurrence, Procs, Occurrences, ClaimInv
  <2> QED
    BY <1>1, <2>1, <2>2
<1>4. ASSUME NEW p \in Procs, TaskStep(p)
      PROVE  occ'[o].status # "dispatching" /\ occ[o].status # "skipped"
  <2> DEFINE t == task[p].occ
  <2>1. t \in Occurrences /\ Handled(t)
    BY <1>4, TaskInHand DEF TaskStep, Dispatch, RecoverRun, MarkOccurrenceAccepted,
                            MarkOccurrenceFailed, SyncOccurrenceWithRun, ClaimInv, Handled
  <2>2. occ[t].status # "skipped"
    BY <2>1 DEF ClaimInv, UnclaimedIsUntouched
  <2>3. o = t
    BY <1>4 DEF TaskStep, Dispatch, RecoverRun, MarkOccurrenceAccepted, MarkOccurrenceFailed,
                SyncOccurrenceWithRun, db, ClaimInv, TypeOK
  <2>4. CASE MarkOccurrenceAccepted(p)
    BY <2>2, <2>3, <2>4 DEF MarkOccurrenceAccepted, ClaimInv, TypeOK, OccurrenceRow
  <2>5. CASE MarkOccurrenceFailed(p)
    BY <2>2, <2>3, <2>5 DEF MarkOccurrenceFailed, db, ClaimInv, TypeOK, OccurrenceRow
  <2>6. CASE SyncOccurrenceWithRun(p)
    <3>1. task[p].seen \in RunStatus
      BY <2>6, TaskInHand DEF SyncOccurrenceWithRun, ClaimInv
    <3> QED
      BY <2>2, <2>3, <2>6, <3>1 DEF SyncOccurrenceWithRun, OccurrenceStatusFromRun, db, ClaimInv,
                                    TypeOK, OccurrenceRow, RunStatus, TerminalStatus
  <2> QED
    BY <1>4, <2>4, <2>5, <2>6 DEF TaskStep, Dispatch, RecoverRun
<1>5. CASE \E s \in Schedules : DeleteSchedule(s)
  BY <1>5 DEF DeleteSchedule, NoOccurrence
<1> QED
  <2>1. CASE EnvironmentStep
    BY <1>5, <2>1 DEF EnvironmentStep, Tick, DaemonStops, CreateSchedule, ResolveApproval, RunLoopReturns
  <2>2. CASE LoopStep
    BY <1>2, <2>2 DEF LoopStep, WakeUp, ListMissingNextRun, ListDueSchedules, FinishRunOnce,
                      InspectOccurrence, RepairNextRun
  <2>3. ASSUME NEW c \in Clients, ClientStep(c) PROVE occ[o].status = "absent"
    BY <1>3, <2>3 DEF ClientStep, WriteEdit, ClientAborts, CliExits, RunNow, LoadForSetEnabled,
                      LoadForUpdate, BeginEdit
  <2> QED
    BY <1>4, <2>1, <2>2, <2>3 DEF Next, StartDaemon, vars

(* A slot is claimed once: no step takes a row back to "dispatching", and  *)
(* a skipped slot stays skipped until its schedule is deleted.             *)
THEOREM ClaimsAreFinal == Spec => SlotsAreClaimedOnce
<1>1. ClaimInv /\ [Next]_vars =>
        [\A o \in Occurrences :
            /\ occ'[o].status = "dispatching" => occ[o].status \in {"absent", "dispatching"}
            /\ occ[o].status = "skipped" => occ'[o].status \in {"skipped", "absent"}]_occ
  BY ClaimedOnceStep
<1> QED
  BY <1>1, ClaimInvariant, PTL DEF Spec, SlotsAreClaimedOnce

(* Where schedules are not deleted, the loop's error returns are out of    *)
(* reach: every row it works on is there, and so is every run a row links. *)
NothingDeleted == \A s \in Schedules : sched[s].exists # "deleted"

LEMMA NothingDeletedStep ==
    ASSUME "delete" \notin Ops, ClaimInv, NothingDeleted, [Next]_vars
    PROVE  NothingDeleted'
<1> SUFFICES ASSUME NEW s \in Schedules, sched' # sched PROVE sched'[s].exists # "deleted"
  BY DEF NothingDeleted
<1>1. sched[s].exists # "deleted" /\ s \in DOMAIN sched /\ sched[s] \in ScheduleRow
  BY DEF NothingDeleted, ClaimInv, TypeOK
<1>2. CASE LoopStep
  <2>1. ASSUME NEW x \in Schedules, ClaimDueOccurrence(x) PROVE sched'[s].exists # "deleted"
    BY <1>1, <2>1 DEF ClaimDueOccurrence, ClaimInv, TypeOK, ScheduleRow
  <2>2. ASSUME NEW f \in loop.fix, RepairNextRun(f) PROVE sched'[s].exists # "deleted"
    BY <1>1, <2>2 DEF RepairNextRun, ClaimInv, TypeOK, ScheduleRow
  <2> QED
    BY <1>2, <2>1, <2>2 DEF LoopStep, WakeUp, ListMissingNextRun, ListDueSchedules, FinishRunOnce,
                            InspectOccurrence
<1>3. ASSUME NEW p \in Procs, TaskStep(p) PROVE sched'[s].exists # "deleted"
  <2> DEFINE t == task[p].occ
  <2>1. t[1] \in Schedules /\ task[p].pc = "sync" => task[p].seen \in RunStatus
    BY <1>3, TaskInHand DEF TaskStep, Dispatch, RecoverRun, MarkOccurrenceAccepted,
                            MarkOccurrenceFailed, SyncOccurrenceWithRun, ClaimInv, Occurrences
  <2>2. CASE MarkOccurrenceFailed(p)
    BY <1>1, <2>2 DEF MarkOccurrenceFailed, db, ClaimInv, TypeOK, ScheduleRow
  <2>3. CASE SyncOccurrenceWithRun(p)
    <3>1. \A row \in ScheduleRow, target \in RunStatus : Summary(row, target).exists = row.exists
      BY DEF Summary, ScheduleRow
    <3> QED
      BY <1>1, <2>1, <2>3, <3>1 DEF SyncOccurrenceWithRun, OccurrenceStatusFromRun, db, ClaimInv, TypeOK
  <2> QED
    BY <1>3, <2>2, <2>3 DEF TaskStep, Dispatch, RecoverRun, MarkOccurrenceAccepted
<1>4. ASSUME NEW c \in Clients, ClientStep(c) PROVE sched'[s].exists # "deleted"
  <2>1. CASE WriteEdit(c)
    <3>1. edit[c] \in Edit /\ edit[c] # NoEdit
      BY <2>1 DEF WriteEdit, ClaimInv, TypeOK
    <3> QED
      BY <1>1, <2>1, <3>1 DEF WriteEdit, ClaimInv, TypeOK, ScheduleRow, Edit
  <2> QED
    BY <1>4, <2>1 DEF ClientStep, ClaimManualOccurrence, ClientAborts, CliExits, RunNow,
                      LoadForSetEnabled, LoadForUpdate, BeginEdit
<1>5. CASE EnvironmentStep
  <2>1. ASSUME NEW x \in Schedules, NEW spec \in Specs, NEW b \in BOOLEAN, CreateSchedule(x, spec, b)
        PROVE  sched'[s].exists # "deleted"
    BY <1>1, <2>1 DEF CreateSchedule, ClaimInv, TypeOK, ScheduleRow
  <2> QED
    BY <1>5, <2>1 DEF EnvironmentStep, Tick, DaemonStops, DeleteSchedule, ResolveApproval, RunLoopReturns
<1> QED
  BY <1>2, <1>3, <1>4, <1>5 DEF Next, StartDaemon, vars

LEMMA NoErrorStep ==
    ASSUME ClaimInv, NothingDeleted, stops <= MaxStops, [Next]_vars
    PROVE  stops' <= MaxStops
<1> SUFFICES ASSUME stops' # stops PROVE stops' <= MaxStops
  OBVIOUS
<1>1. \A o \in Occurrences : Handled(o) => occ[o].status # "absent"
  BY DEF ClaimInv, UnclaimedIsUntouched, NothingDeleted, Occurrences
<1>2. CASE EnvironmentStep
  <2>1. DaemonStops
    BY <1>2 DEF EnvironmentStep, Tick, DeleteSchedule, CreateSchedule, ResolveApproval, RunLoopReturns
  <2>2. stops \in Nat /\ MaxStops \in Nat
    BY ConstantsAssumption DEF ClaimInv, TypeOK
  <2> QED
    BY <2>1, <2>2 DEF DaemonStops, StopDaemon
<1>3. ASSUME NEW p \in Procs, TaskStep(p) PROVE FALSE
  <2>1. CASE MarkOccurrenceFailed(p) \/ SyncOccurrenceWithRun(p)
    <3>1. task[p].occ \in Occurrences /\ Handled(task[p].occ)
      BY <2>1, TaskInHand DEF MarkOccurrenceFailed, SyncOccurrenceWithRun, ClaimInv, Handled
    <3> QED
      BY <1>1, <2>1, <3>1 DEF MarkOccurrenceFailed, SyncOccurrenceWithRun
  <2> QED
    BY <1>3, <2>1 DEF TaskStep, Dispatch, RecoverRun, MarkOccurrenceAccepted
<1>4. ASSUME NEW r \in loop.todo, InspectOccurrence(r) PROVE FALSE
  BY <1>4 DEF InspectOccurrence, ClaimInv, RunsAreThere
<1>5. CASE LoopStep
  BY <1>4, <1>5 DEF LoopStep, ClaimDueOccurrence, RepairNextRun, WakeUp, ListMissingNextRun,
                    ListDueSchedules, FinishRunOnce
<1>6. ASSUME NEW c \in Clients, ClientStep(c) PROVE FALSE
  BY <1>6 DEF ClientStep, ClaimManualOccurrence, WriteEdit, ClientAborts, CliExits, RunNow,
              LoadForSetEnabled, LoadForUpdate, BeginEdit
<1> QED
  BY <1>2, <1>3, <1>5, <1>6 DEF Next, StartDaemon, vars

(* Without deletions the scheduler never stops the daemon: every stop is   *)
(* one that the environment caused.                                        *)
THEOREM DaemonSurvives == ASSUME "delete" \notin Ops PROVE Spec => []LoopSurvives
<1>1. Init => NothingDeleted /\ stops <= MaxStops
  BY ConstantsAssumption DEF Init, NothingDeleted
<1>2. ClaimInv /\ NothingDeleted /\ stops <= MaxStops /\ [Next]_vars
      => (NothingDeleted /\ stops <= MaxStops)'
  BY NothingDeletedStep, NoErrorStep
<1>3. NothingDeleted /\ stops <= MaxStops => LoopSurvives
  BY DEF LoopSurvives
<1> QED
  BY <1>1, <1>2, <1>3, ClaimInvariant, PTL DEF Spec

-----------------------------------------------------------------------------
(* The loop alone                                                          *)

LEMMA NextSlotIsLater ==
    ASSUME NEW spec \in Specs, NEW t \in Nat, NextSlot(spec, t) # Null
    PROVE  NextSlot(spec, t) >= t
<1> DEFINE later == {n \in spec : n >= t}
<1>1. later # {}
  BY DEF NextSlot
<1>2. spec \subseteq Nat
  BY ConstantsAssumption
<1>3. \E n \in later : \A m \in later : n <= m
  BY <1>1, <1>2, EarliestExists
<1>4. NextSlot(spec, t) \in later
  BY <1>1, <1>3 DEF NextSlot
<1> QED
  BY <1>4

(* A schedule has finitely many failed occurrences.                        *)
FailedSlots(s) == {t \in Slots : occ[<<s, t>>].status = "failed"}

LEMMA FailedSlotsFinite ==
    ASSUME TypeOK, SlotsAreBehind, NEW s \in Schedules
    PROVE  IsFiniteSet(FailedSlots(s)) /\ Cardinality(FailedSlots(s)) \in Nat
<1>1. now \in Nat
  BY ConstantsAssumption DEF TypeOK
<1>2. \A t \in Slots : occ[<<s, t>>].status = "failed" => t <= now
  BY DEF SlotsAreBehind, Occurrences
<1>3. FailedSlots(s) \subseteq 0 .. now
  <2>1. ASSUME NEW t \in FailedSlots(s) PROVE t \in 0 .. now
    <3>1. t \in Slots /\ t <= now
      BY <1>2 DEF FailedSlots
    <3> QED
      BY <1>1, <3>1, SlotsAreNat
  <2> QED
    BY <2>1
<1>4. IsFiniteSet(0 .. now)
  BY <1>1, FS_Interval
<1> QED
  BY <1>3, <1>4, FS_Subset, FS_CardinalityType

(* A step that leaves the tables alone.                                    *)
LEMMA LoopQuiet ==
    ASSUME LoopInv, TypeOK', UNCHANGED <<sched, occ>>, WorkIsOpen', loop'.now <= now', now <= now',
           loop'.phase \in {"reconcile", "repair", "claim"} =>
              \/ loop'.now = now
              \/ loop'.now = loop.now /\ loop.phase \in {"reconcile", "repair", "claim"},
           ClaimInv'
    PROVE  LoopInv'
<1>1. now \in Nat /\ now' \in Nat /\ loop.now \in Nat /\ loop'.now \in Nat
  BY ConstantsAssumption DEF LoopInv, ClaimInv, TypeOK, LoopState
<1>2. \A o \in Occurrences : o[2] \in Nat
  BY SlotsAreNat DEF Occurrences
<1>3. SlotsAreBehind'
  BY <1>1, <1>2 DEF LoopInv, SlotsAreBehind
<1>4. AtMostOneOpen' /\ FailuresAreDistinct'
  BY DEF LoopInv, AtMostOneOpen, FailuresAreDistinct, IsOpen
<1> QED
  BY <1>3, <1>4 DEF LoopInv, LoopClock

(* The work in hand after a step that neither closes a row nor takes up a  *)
(* new one.                                                                *)
LEMMA WorkStays ==
    ASSUME LoopInv, loop'.todo \subseteq loop.todo,
           \A o \in Occurrences : Unsettled(o) => Unsettled(o)',
           \/ task'[Loop].pc = "none"
           \/ /\ task[Loop].pc # "none" /\ task'[Loop].occ = task[Loop].occ
              /\ task'[Loop].pc # "claim" /\ loop'.phase = loop.phase
    PROVE  WorkIsOpen'
<1>1. \A r \in loop.todo : r.occ \in Occurrences
  BY DEF LoopInv, ClaimInv, TypeOK, LoopState, Snapshot
<1>2. task[Loop].pc # "none" => task[Loop].occ \in Occurrences
  BY TaskInHand DEF LoopInv, ClaimInv, Procs
<1> QED
  BY <1>1, <1>2 DEF LoopInv, WorkIsOpen

LEMMA StartReconcileWork ==
    ASSUME LoopInv, NEW booting, StartReconcile(booting), UNCHANGED occ, task'[Loop].pc = "none"
    PROVE  WorkIsOpen'
<1>1. loop'.todo = OpenOccurrences
  BY DEF StartReconcile, LoopInv, ClaimInv, TypeOK, LoopState
<1>2. \A r \in OpenOccurrences : IsOpen(r.occ)
  BY DEF OpenOccurrences, Listed
<1>3. \A r, q \in OpenOccurrences : q.occ = r.occ => q = r
  BY DEF OpenOccurrences, Listed
<1>4. \A o : IsOpen(o)' <=> IsOpen(o)
  BY DEF IsOpen
<1> QED
  BY <1>1, <1>2, <1>3, <1>4 DEF WorkIsOpen, Unsettled

(* An update of an open row that leaves the schedule's slots alone.        *)
LEMMA RowUpdate ==
    ASSUME LoopInv, NEW o \in Occurrences, IsOpen(o), NEW row \in OccurrenceRow,
           row.status \notin {"absent", "skipped"},
           occ' = [occ EXCEPT ![o] = row],
           \A s \in Schedules : sched'[s].exists = sched[s].exists /\ sched'[s].next = sched[s].next,
           \A s \in Schedules : sched'[s].failures = sched[s].failures \/ sched[s].exists = "yes",
           UNCHANGED <<now, loop>>
    PROVE  SlotsAreBehind' /\ AtMostOneOpen'
<1>1. \A x \in Occurrences : occ'[x] = IF x = o THEN row ELSE occ[x]
  BY DEF LoopInv, ClaimInv, TypeOK
<1>2. \A x \in Occurrences : x[1] \in Schedules
  BY DEF Occurrences
<1>3. occ[o].status # "absent"
  BY DEF IsOpen, OpenStatus
<1>4. SlotsAreBehind'
  <2>1. \A x \in Occurrences : occ'[x].status # "absent" => occ[x].status # "absent"
    BY <1>1, <1>3
  <2>2. \A s \in Schedules : sched'[s].exists = "no" => sched'[s].failures = 0
    BY DEF LoopInv, SlotsAreBehind
  <2> QED
    BY <1>2, <2>1, <2>2 DEF LoopInv, SlotsAreBehind
<1>5. \A x \in Occurrences : IsOpen(x)' => IsOpen(x)
  BY <1>1 DEF IsOpen
<1>6. AtMostOneOpen'
  BY <1>5 DEF LoopInv, AtMostOneOpen, Occurrences
<1> QED
  BY <1>4, <1>6

(* An occurrence that becomes a failure is one more, and is counted as     *)
(* one; one that ends otherwise leaves the count where it was, or resets.  *)
LEMMA FailuresCounted ==
    ASSUME LoopInv, NEW o \in Occurrences, IsOpen(o), NEW row \in OccurrenceRow,
           occ' = [occ EXCEPT ![o] = row],
           \A s \in Schedules : s # o[1] => sched'[s] = sched[s],
           sched'[o[1]].failures <= sched[o[1]].failures + (IF row.status = "failed" THEN 1 ELSE 0)
           \/ sched'[o[1]].failures = IF row.status = "failed" THEN 1 ELSE 0,
           sched' \in [Schedules -> ScheduleRow],
           sched'[o[1]].exists = sched[o[1]].exists
    PROVE  FailuresAreDistinct'
<1>1. PICK s \in Schedules, slot \in Slots : o = <<s, slot>>
  BY DEF Occurrences
<1>2. \A x \in Occurrences : occ'[x] = IF x = o THEN row ELSE occ[x]
  BY DEF LoopInv, ClaimInv, TypeOK
<1>3. \A x \in Schedules, t \in Slots : <<x, t>> \in Occurrences
  BY DEF Occurrences
<1>4. slot \notin FailedSlots(s)
  BY <1>1 DEF IsOpen, OpenStatus, FailedSlots
<1>5. FailedSlots(s)' = IF row.status = "failed" THEN FailedSlots(s) \cup {slot} ELSE FailedSlots(s)
  BY <1>1, <1>2, <1>3, <1>4 DEF FailedSlots
<1>6. \A x \in Schedules : x # s => FailedSlots(x)' = FailedSlots(x)
  BY <1>1, <1>2, <1>3 DEF FailedSlots
<1>7. /\ IsFiniteSet(FailedSlots(s)) /\ Cardinality(FailedSlots(s)) \in Nat
      /\ Cardinality(FailedSlots(s) \cup {slot}) = Cardinality(FailedSlots(s)) + 1
  BY <1>4, FailedSlotsFinite, FS_AddElement DEF LoopInv, ClaimInv
<1>8. /\ sched[s].failures \in Nat /\ sched'[s].failures \in Nat
      /\ sched[s].exists = "yes" => sched[s].failures <= Cardinality(FailedSlots(s))
  BY DEF LoopInv, ClaimInv, TypeOK, ScheduleRow, FailuresAreDistinct, FailedSlots
<1>9. sched'[s].exists = "yes" => sched'[s].failures <= Cardinality(FailedSlots(s)')
  <2>1. CASE row.status = "failed"
    BY <1>1, <1>5, <1>7, <1>8, <2>1
  <2>2. CASE row.status # "failed"
    BY <1>1, <1>5, <1>7, <1>8, <2>2
  <2> QED
    BY <2>1, <2>2
<1>10. \A x \in Schedules : x # s /\ sched'[x].exists = "yes" =>
          sched'[x].failures <= Cardinality(FailedSlots(x)')
  BY <1>1, <1>6 DEF LoopInv, FailuresAreDistinct, FailedSlots
<1> QED
  BY <1>9, <1>10 DEF FailuresAreDistinct, FailedSlots

(* The loop's own statements on the occurrence in hand.                    *)
LEMMA LoopTaskStep ==
    ASSUME LoopInv, ClaimInv', TypeOK', TaskStep(Loop)
    PROVE  LoopInv'
<1> DEFINE o == task[Loop].occ
<1>1. Loop \in Procs
  BY DEF Procs
<1>2. /\ o \in Occurrences /\ o[1] \in Schedules /\ task[Loop].pc # "none"
      /\ task[Loop].pc \in {"acceptSync", "sync"} => task[Loop].seen \in RunStatus \ {"none"}
  BY <1>1, TaskInHand DEF TaskStep, Dispatch, RecoverRun, MarkOccurrenceAccepted,
     MarkOccurrenceFailed, SyncOccurrenceWithRun, LoopInv, ClaimInv, Occurrences
<1>3. IsOpen(o) \/ occ[o].status = "absent"
  BY <1>2 DEF LoopInv, WorkIsOpen, Unsettled
<1>4. now \in Nat /\ loop.now \in Nat
  BY ConstantsAssumption DEF LoopInv, ClaimInv, TypeOK, LoopState
<1>a. occ[o] \in OccurrenceRow
  BY <1>2 DEF LoopInv, ClaimInv, TypeOK
<1>b. \A st \in OccurrenceStatus :
        /\ [occ[o] EXCEPT !.status = st] \in OccurrenceRow
        /\ [occ[o] EXCEPT !.status = st].status = st
  BY <1>a DEF OccurrenceRow
<1>5. CASE UNCHANGED <<sched, occ, loop, now>>
  <2>1. \/ task'[Loop].pc = "none"
        \/ task'[Loop].occ = o /\ task'[Loop].pc # "claim"
    BY <1>1, <1>5 DEF TaskStep, Dispatch, RecoverRun, MarkOccurrenceAccepted, MarkOccurrenceFailed,
       SyncOccurrenceWithRun, Goto, Return, ReturnError, StopDaemon, NoTask, LoopInv, ClaimInv, TypeOK
  <2>2. WorkIsOpen'
    BY <1>2, <1>5, <2>1, WorkStays DEF Unsettled, IsOpen
  <2> QED
    BY <1>4, <1>5, <2>2, LoopQuiet DEF LoopInv, LoopClock
<1>6. CASE occ[o].status = "absent" /\ task[Loop].pc \in {"fail", "sync"}
  <2>1. StopDaemon /\ UNCHANGED <<sched, occ, now>>
    BY <1>6 DEF TaskStep, Dispatch, RecoverRun, MarkOccurrenceAccepted, MarkOccurrenceFailed,
       SyncOccurrenceWithRun, ReturnError, db
  <2>2. loop' = DownLoop /\ task'[Loop].pc = "none"
    BY <1>1, <2>1, ConstantsAssumption DEF StopDaemon, NoTask, Clients
  <2>3. WorkIsOpen'
    BY <2>2 DEF WorkIsOpen, DownLoop
  <2> QED
    BY <1>4, <2>1, <2>2, <2>3, LoopQuiet DEF DownLoop
<1>7. CASE MarkOccurrenceAccepted(Loop) /\ occ[o].status # "absent"
  <2> DEFINE row == [occ[o] EXCEPT !.linked = TRUE, !.status = "active"]
  <2>1. occ' = [occ EXCEPT ![o] = row] /\ UNCHANGED <<sched, now, loop>>
    BY <1>7 DEF MarkOccurrenceAccepted, LoopInv, ClaimInv, TypeOK
  <2>2. row \in OccurrenceRow /\ row.status = "active"
    BY <1>a DEF OccurrenceRow, OccurrenceStatus, OpenStatus
  <2>3. SlotsAreBehind' /\ AtMostOneOpen'
    BY <1>2, <1>3, <1>7, <2>1, <2>2, RowUpdate
  <2>4. FailuresAreDistinct'
    <3>1. sched[o[1]].failures \in Nat /\ sched \in [Schedules -> ScheduleRow]
      BY <1>2 DEF LoopInv, ClaimInv, TypeOK, ScheduleRow
    <3>2. /\ \A s \in Schedules : s # o[1] => sched'[s] = sched[s]
          /\ sched' \in [Schedules -> ScheduleRow]
          /\ sched'[o[1]].exists = sched[o[1]].exists
          /\ sched'[o[1]].failures <= sched[o[1]].failures + 0
          /\ row.status # "failed"
      BY <2>1, <2>2, <3>1
    <3> HIDE DEF row
    <3> QED
      BY <1>2, <1>3, <1>7, <2>1, <2>2, <3>1, <3>2, FailuresCounted
  <2>5. WorkIsOpen'
    <3>1. \A x \in Occurrences : Unsettled(x) => Unsettled(x)'
      BY <2>1, <2>2 DEF Unsettled, IsOpen, OpenStatus, LoopInv, ClaimInv, TypeOK
    <3>2. \/ task'[Loop].pc = "none"
          \/ task'[Loop].occ = o /\ task'[Loop].pc # "claim"
      BY <1>1, <1>7 DEF MarkOccurrenceAccepted, Goto, Return, NoTask, LoopInv, ClaimInv, TypeOK
    <3> QED
      BY <1>2, <2>1, <3>1, <3>2, WorkStays
  <2> QED
    BY <2>1, <2>3, <2>4, <2>5 DEF LoopInv, LoopClock
<1>8. ASSUME NEW row \in OccurrenceRow, row.status \notin {"absent", "skipped"},
             occ[o].status # "absent",
             occ' = [occ EXCEPT ![o] = row], UNCHANGED <<now, loop>>,
             \A s \in Schedules : s # o[1] => sched'[s] = sched[s],
             sched'[o[1]].exists = sched[o[1]].exists, sched'[o[1]].next = sched[o[1]].next,
             \/ sched'[o[1]].failures <= sched[o[1]].failures + (IF row.status = "failed" THEN 1 ELSE 0)
             \/ sched'[o[1]].failures = IF row.status = "failed" THEN 1 ELSE 0,
             task'[Loop].pc = "none"
      PROVE  LoopInv'
  <2>1. IsOpen(o) /\ sched[o[1]].exists = "yes"
    BY <1>2, <1>3, <1>8 DEF LoopInv, SlotsAreBehind
  <2>2. SlotsAreBehind' /\ AtMostOneOpen'
    BY <1>2, <1>8, <2>1, RowUpdate
  <2>3. FailuresAreDistinct'
    <3>1. sched' \in [Schedules -> ScheduleRow]
      BY DEF TypeOK
    <3> QED
      BY <1>2, <1>8, <2>1, <3>1, FailuresCounted
  <2>4. WorkIsOpen'
    <3>1. \A r \in loop.todo : r.occ \in Occurrences /\ r.occ # o
      BY <1>2 DEF LoopInv, WorkIsOpen, ClaimInv, TypeOK, LoopState, Snapshot
    <3>2. \A x \in Occurrences : x # o => (Unsettled(x)' <=> Unsettled(x))
      BY <1>8 DEF Unsettled, IsOpen, LoopInv, ClaimInv, TypeOK
    <3> QED
      BY <1>8, <3>1, <3>2 DEF LoopInv, WorkIsOpen
  <2> QED
    BY <1>8, <2>2, <2>3, <2>4 DEF LoopInv, LoopClock
<1>9. CASE MarkOccurrenceFailed(Loop) /\ occ[o].status # "absent"
  <2> DEFINE row == [occ[o] EXCEPT !.status = "failed"]
  <2>1. row \in OccurrenceRow /\ row.status = "failed"
    BY <1>b DEF OccurrenceStatus, TerminalStatus
  <2>2. occ' = [occ EXCEPT ![o] = row] /\ UNCHANGED <<now, loop>>
    BY <1>9 DEF MarkOccurrenceFailed, LoopInv, ClaimInv, TypeOK
  <2>3. /\ \A s \in Schedules : s # o[1] => sched'[s] = sched[s]
        /\ sched'[o[1]].exists = sched[o[1]].exists /\ sched'[o[1]].next = sched[o[1]].next
        /\ sched'[o[1]].failures = FailureCount(sched[o[1]])
    BY <1>2, <1>9 DEF MarkOccurrenceFailed, LoopInv, ClaimInv, TypeOK, ScheduleRow
  <2>4. task'[Loop].pc = "none"
    BY <1>1, <1>9 DEF MarkOccurrenceFailed, Return, NoTask, LoopInv, ClaimInv, TypeOK
  <2>5. \/ FailureCount(sched[o[1]]) <= sched[o[1]].failures + 1
        \/ FailureCount(sched[o[1]]) = 1
    BY <1>2 DEF FailureCount, LoopInv, ClaimInv, TypeOK, ScheduleRow
  <2> QED
    BY <1>8, <1>9, <2>1, <2>2, <2>3, <2>4, <2>5
<1>10. CASE SyncOccurrenceWithRun(Loop) /\ occ[o].status # "absent" /\ occ[o].status # task[Loop].seen
  <2> DEFINE row == [occ[o] EXCEPT !.status = task[Loop].seen]
             old == sched[o[1]]
  <2>0. task[Loop].seen \in RunStatus \ {"none"}
    BY <1>2, <1>10 DEF SyncOccurrenceWithRun
  <2>1. row \in OccurrenceRow /\ row.status = task[Loop].seen /\ row.status \notin {"absent", "skipped"}
    BY <1>b, <2>0 DEF OccurrenceStatus, TerminalStatus, RunStatus, OpenStatus
  <2>2. /\ occ' = [occ EXCEPT ![o] = row] /\ UNCHANGED <<now, loop>>
        /\ sched' = [sched EXCEPT ![o[1]] = Summary(sched[o[1]], task[Loop].seen)]
    BY <1>10 DEF SyncOccurrenceWithRun, OccurrenceStatusFromRun, LoopInv, ClaimInv, TypeOK
  <2>3. old \in ScheduleRow
    BY <1>2 DEF LoopInv, ClaimInv, TypeOK
  <2>4. /\ Summary(old, row.status).exists = old.exists /\ Summary(old, row.status).next = old.next
        /\ \/ Summary(old, row.status).failures
                <= old.failures + (IF row.status = "failed" THEN 1 ELSE 0)
           \/ Summary(old, row.status).failures = IF row.status = "failed" THEN 1 ELSE 0
    BY <2>3 DEF Summary, ScheduleRow, FailureCount
  <2>5. /\ \A s \in Schedules : s # o[1] => sched'[s] = sched[s]
        /\ sched'[o[1]] = Summary(old, row.status)
    BY <1>2, <2>1, <2>2 DEF LoopInv, ClaimInv, TypeOK
  <2>6. task'[Loop].pc = "none"
    BY <1>1, <1>10 DEF SyncOccurrenceWithRun, Return, NoTask, LoopInv, ClaimInv, TypeOK
  <2> QED
    BY <1>8, <1>10, <2>1, <2>2, <2>4, <2>5, <2>6
<1> QED
  BY <1>3, <1>5, <1>6, <1>7, <1>9, <1>10
  DEF TaskStep, Dispatch, RecoverRun, MarkOccurrenceAccepted, MarkOccurrenceFailed,
      SyncOccurrenceWithRun, OccurrenceStatusFromRun, db

LEMMA DaemonGoneStep ==
    ASSUME LoopInv, ClaimInv', TypeOK', StopDaemon, UNCHANGED <<sched, occ, now>>
    PROVE  LoopInv'
<1>1. loop' = DownLoop /\ task'[Loop].pc = "none"
  BY ConstantsAssumption DEF StopDaemon, NoTask, Clients, Procs
<1>2. WorkIsOpen'
  BY <1>1 DEF WorkIsOpen, DownLoop
<1>3. now \in Nat
  BY ConstantsAssumption DEF LoopInv, ClaimInv, TypeOK
<1> QED
  BY <1>1, <1>2, <1>3, LoopQuiet DEF DownLoop

(* next_run_at is set to a slot that is not before the loop's instant.     *)
LEMMA NextMoves ==
    ASSUME LoopInv, TypeOK', NEW s \in Schedules,
           sched' = [sched EXCEPT ![s].next = sched'[s].next],
           \A t \in Slots : occ[<<s, t>>].status # "absent" /\ sched'[s].next # Null =>
                               t <= sched'[s].next,
           UNCHANGED <<now, occ>>, loop'.now = loop.now, loop'.phase = loop.phase
    PROVE  SlotsAreBehind' /\ AtMostOneOpen' /\ FailuresAreDistinct'
<1>1. \A x \in Schedules : /\ sched'[x].exists = sched[x].exists
                           /\ sched'[x].failures = sched[x].failures
                           /\ x # s => sched'[x].next = sched[x].next
  BY DEF LoopInv, ClaimInv, TypeOK, ScheduleRow
<1>2. SlotsAreBehind'
  BY <1>1 DEF LoopInv, SlotsAreBehind, Occurrences
<1>3. AtMostOneOpen'
  BY DEF LoopInv, AtMostOneOpen, IsOpen
<1>4. FailuresAreDistinct'
  BY <1>1 DEF LoopInv, FailuresAreDistinct
<1> QED
  BY <1>2, <1>3, <1>4

LEMMA LoopClaimStep ==
    ASSUME LoopInv, ClaimInv', TypeOK', NEW s \in Schedules, ClaimDueOccurrence(s)
    PROVE  LoopInv'
<1>1. /\ loop.now \in Nat /\ now \in Nat /\ sched[s] \in ScheduleRow /\ Loop \in Procs
      /\ loop.now <= now /\ loop.phase = "claim" /\ task[Loop].pc = "none"
  BY ConstantsAssumption DEF LoopInv, ClaimInv, TypeOK, LoopState, LoopClock, Procs,
     ClaimDueOccurrence, NoTask
<1>2. loop'.now = loop.now /\ loop'.phase = loop.phase /\ loop'.todo = loop.todo /\ now' = now
  BY DEF ClaimDueOccurrence, LoopInv, ClaimInv, TypeOK, LoopState
<1>3. CASE UNCHANGED <<sched, occ, task>>
  <2>1. WorkIsOpen'
    BY <1>1, <1>2, <1>3, WorkStays DEF Unsettled, IsOpen
  <2> QED
    BY <1>1, <1>2, <1>3, <2>1, LoopQuiet
<1>4. CASE ~UNCHANGED <<sched, occ, task>>
  <2>0. /\ sched[s].next # Null /\ sched[s].next \in Slots /\ sched[s].next <= loop.now /\ sched[s].exists = "yes"
        /\ sched' = [sched EXCEPT ![s].next = NextSlot(sched[s].spec, loop.now + 1)]
        /\ InsertOccurrence(Loop, s, sched[s].next, loop.now)
    <3>1. ~(sched[s].exists # "yes" \/ ~sched[s].enabled \/ sched[s].next = Null
            \/ sched[s].next > loop.now)
      BY <1>4 DEF ClaimDueOccurrence
    <3>2. sched[s].next \in Slots /\ sched[s].next \in Nat
      BY <1>1, <3>1, SlotsAreNat DEF ScheduleRow
    <3> QED
      BY <1>1, <3>1, <3>2 DEF ClaimDueOccurrence
  <2>p. PICK slot \in Slots : slot = sched[s].next
    BY <2>0
  <2> DEFINE o == <<s, slot>>
             next == NextSlot(sched[s].spec, loop.now + 1)
  <2>1. /\ sched' = [sched EXCEPT ![s].next = next]
        /\ sched[s].exists = "yes" /\ slot <= loop.now
        /\ InsertOccurrence(Loop, s, slot, loop.now)
    BY <2>0, <2>p
  <2>2. slot \in Slots /\ slot \in Nat /\ o \in Occurrences
    BY <2>p, SlotsAreNat DEF Occurrences
  <2>3. next # Null => next \in Nat /\ next > loop.now
    <3>1. sched[s].spec \in Specs /\ loop.now + 1 \in Nat
      BY <1>1 DEF ScheduleRow
    <3>2. next # Null => next \in Slots /\ next >= loop.now + 1
      BY <3>1, NextSlotIsLater, NextSlotType
    <3>3. next # Null => next \in Nat
      BY <3>2, SlotsAreNat
    <3> QED
      BY <1>1, <3>2, <3>3
  <2>4. sched'[s].next = next /\ sched' = [sched EXCEPT ![s].next = sched'[s].next]
    BY <2>1 DEF LoopInv, ClaimInv, TypeOK, ScheduleRow
  <2>5. \A x \in Occurrences : occ[x].status # "absent" => x[2] \in Nat /\ x[2] <= loop.now
    BY <1>1, SlotsAreNat DEF LoopInv, SlotsAreBehind, Occurrences
  <2>6. \A t \in Slots : occ[<<s, t>>].status # "absent" /\ next # Null => t <= next
    BY <1>1, <2>3, <2>5 DEF Occurrences
  <2>7. CASE Return(Loop) /\ UNCHANGED occ
    <3>1. task'[Loop].pc = "none"
      BY <1>1, <2>7 DEF Return, NoTask, LoopInv, ClaimInv, TypeOK
    <3>2. WorkIsOpen'
      BY <1>2, <2>7, <3>1, WorkStays DEF Unsettled, IsOpen
    <3>3. SlotsAreBehind' /\ AtMostOneOpen' /\ FailuresAreDistinct'
      BY <1>2, <2>4, <2>6, <2>7, NextMoves
    <3> QED
      BY <1>1, <1>2, <3>2, <3>3 DEF LoopInv, LoopClock
  <2>8. CASE ~(Return(Loop) /\ UNCHANGED occ)
    <3> DEFINE row == InsertedRow(s, slot, loop.now)
    <3>1. /\ occ[o].status = "absent" /\ occ' = [occ EXCEPT ![o] = row]
          /\ row.status \in {"dispatching", "skipped"}
      BY <2>8, <2>1 DEF InsertOccurrence, InsertedRow
    <3>2. \A x \in Occurrences : occ'[x] = IF x = o THEN row ELSE occ[x]
      BY <3>1 DEF LoopInv, ClaimInv, TypeOK
    <3>3. \A x \in Schedules : /\ sched'[x].exists = sched[x].exists
                               /\ sched'[x].failures = sched[x].failures
                               /\ x # s => sched'[x].next = sched[x].next
      BY <2>1 DEF LoopInv, ClaimInv, TypeOK, ScheduleRow
    <3>4. \A x \in Occurrences : x[1] \in Schedules /\ x[2] \in Slots /\ x = <<x[1], x[2]>>
      BY DEF Occurrences
    <3>5. SlotsAreBehind'
      <4>1. \A x \in Schedules : sched'[x].exists = "no" => sched'[x].failures = 0
        BY <3>3 DEF LoopInv, SlotsAreBehind
      <4>2. ASSUME NEW x \in Occurrences, occ'[x].status # "absent"
            PROVE  /\ sched'[x[1]].exists = "yes" /\ x[2] <= now /\ x[2] <= loop.now
                   /\ sched'[x[1]].next # Null => x[2] <= sched'[x[1]].next
        <5>1. CASE x = o
          BY <1>1, <2>1, <2>2, <2>3, <2>4, <3>3, <5>1
        <5>2. CASE x # o
          <6>1. occ[x].status # "absent"
            BY <3>2, <4>2, <5>2
          <6>2. /\ sched[x[1]].exists = "yes" /\ x[2] <= now /\ x[2] <= loop.now
                /\ sched[x[1]].next # Null => x[2] <= sched[x[1]].next
            BY <1>1, <6>1 DEF LoopInv, SlotsAreBehind
          <6>3. x[1] = s /\ next # Null => x[2] <= next
            BY <2>6, <3>4, <6>1
          <6> QED
            BY <2>4, <3>3, <3>4, <6>2, <6>3
        <5> QED
          BY <5>1, <5>2
      <4> QED
        BY <1>2, <4>1, <4>2 DEF SlotsAreBehind
    <3>6. AtMostOneOpen'
      <4>1. \A x \in Occurrences : x # o => (IsOpen(x)' <=> IsOpen(x))
        BY <3>2 DEF IsOpen
      <4>2. \A x \in Schedules, t \in Slots : <<x, t>> \in Occurrences /\ (<<x, t>> = o => x = s /\ t = slot)
        BY DEF Occurrences
      <4>3. ASSUME IsOpen(o)', NEW t \in Slots, t # slot, IsOpen(<<s, t>>) PROVE FALSE
        <5>1. row.status = "dispatching" /\ ~HasPreviousActive(s, slot)
          BY <2>2, <3>2, <4>3 DEF IsOpen, OpenStatus, InsertedRow
        <5>2. occ[<<s, t>>].status # "absent" /\ <<s, t>> \in Occurrences
          BY <4>3 DEF IsOpen, OpenStatus, Occurrences
        <5>3. t <= slot /\ t \in Nat
          <6>1. /\ sched[<<s, t>>[1]].next # Null => <<s, t>>[2] <= sched[<<s, t>>[1]].next
                /\ t \in Nat
            BY <5>2, SlotsAreNat DEF LoopInv, SlotsAreBehind
          <6> QED
            BY <2>0, <2>p, <6>1
        <5>4. t < slot
          BY <2>2, <4>3, <5>3
        <5> QED
          BY <4>3, <5>1, <5>4 DEF HasPreviousActive
      <4>4. \A x \in Schedules : \A t, u \in Slots :
                IsOpen(<<x, t>>)' /\ IsOpen(<<x, u>>)' => t = u
        BY <2>2, <4>1, <4>2, <4>3 DEF LoopInv, AtMostOneOpen
      <4> QED
        BY <4>4 DEF AtMostOneOpen
    <3>7. FailuresAreDistinct'
      <4>1. \A x \in Schedules, t \in Slots :
               occ'[<<x, t>>].status = "failed" <=> occ[<<x, t>>].status = "failed"
        BY <3>1, <3>2 DEF Occurrences
      <4> QED
        BY <3>3, <4>1 DEF LoopInv, FailuresAreDistinct
    <3>8. WorkIsOpen'
      <4>1. ~Handled(o)
        BY <2>1, <2>2, <3>1 DEF LoopInv, ClaimInv, UnclaimedIsUntouched
      <4>2. \A r \in loop.todo : r.occ \in Occurrences /\ r.occ # o
        BY <4>1 DEF Handled, LoopInv, ClaimInv, TypeOK, LoopState, Snapshot
      <4>3. \/ task'[Loop].pc = "none"
            \/ task'[Loop].pc = "dispatch" /\ task'[Loop].occ = o /\ row.status = "dispatching"
        BY <1>1, <2>1, <3>1 DEF InsertOccurrence, Return, Goto, NoTask, LoopInv, ClaimInv, TypeOK
      <4>4. \A x \in Occurrences : x # o => (Unsettled(x)' <=> Unsettled(x))
        BY <3>2 DEF Unsettled, IsOpen
      <4>5. row.status = "dispatching" => Unsettled(o)'
        BY <2>2, <3>2 DEF Unsettled, IsOpen, OpenStatus
      <4>6. \A r \in loop'.todo :
               /\ Unsettled(r.occ)'
               /\ task'[Loop].pc # "none" => r.occ # task'[Loop].occ
               /\ \A q \in loop'.todo : q.occ = r.occ => q = r
        BY <1>2, <4>2, <4>3, <4>4 DEF LoopInv, WorkIsOpen
      <4> QED
        BY <1>1, <1>2, <4>3, <4>5, <4>6 DEF WorkIsOpen
    <3> QED
      BY <1>1, <1>2, <3>5, <3>6, <3>7, <3>8 DEF LoopInv, LoopClock
  <2> QED
    BY <2>7, <2>8
<1> QED
  BY <1>3, <1>4

LEMMA LoopServiceStep ==
    ASSUME LoopInv, ClaimInv', TypeOK', LoopStep
    PROVE  LoopInv'
<1>1. /\ loop.now \in Nat /\ now \in Nat /\ loop.now <= now /\ Loop \in Procs
      /\ loop \in LoopState
  BY ConstantsAssumption DEF LoopInv, ClaimInv, TypeOK, LoopState, LoopClock, Procs
<1>2. ASSUME NEW booting \in BOOLEAN, StartReconcile(booting), UNCHANGED <<now, sched, occ, task>>,
             loop.phase \in {"down", "sleep"}
      PROVE  LoopInv'
  <2>1. task'[Loop].pc = "none"
    BY <1>2 DEF LoopInv, WorkIsOpen
  <2>2. WorkIsOpen'
    BY <1>2, <2>1, StartReconcileWork
  <2>3. loop'.now = now
    BY <1>1, <1>2 DEF StartReconcile, LoopState
  <2> QED
    BY <1>1, <1>2, <2>2, <2>3, LoopQuiet
<1>3. CASE WakeUp
  BY <1>2, <1>3 DEF WakeUp
<1>4. ASSUME UNCHANGED <<now, sched, occ, task>>, task[Loop].pc = "none",
             loop'.todo \subseteq loop.todo, loop'.now <= loop.now,
             loop'.phase \in {"reconcile", "repair", "claim"} =>
                loop'.now = loop.now /\ loop.phase \in {"reconcile", "repair", "claim"}
      PROVE  LoopInv'
  <2>1. WorkIsOpen'
    BY <1>4, WorkStays DEF Unsettled, IsOpen
  <2>2. loop'.now \in Nat
    BY DEF TypeOK, LoopState
  <2> QED
    BY <1>1, <1>4, <2>1, <2>2, LoopQuiet
<1>5. CASE ListMissingNextRun
  <2>1. /\ task[Loop].pc = "none" /\ loop'.todo = loop.todo /\ loop'.now = loop.now
        /\ loop.phase = "reconcile"
    BY <1>1, <1>5 DEF ListMissingNextRun, NoTask, LoopState
  <2> QED
    BY <1>1, <1>4, <1>5, <2>1 DEF ListMissingNextRun
<1>6. CASE ListDueSchedules
  <2>1. /\ loop.phase = "repair" /\ task[Loop].pc = "none"
        /\ \/ loop' = SleepingLoop
           \/ loop'.todo = loop.todo /\ loop'.now = loop.now
    BY <1>1, <1>6 DEF ListDueSchedules, LoopState, LoopInv, WorkIsOpen
  <2>2. loop' = SleepingLoop => loop'.todo = {} /\ loop'.now = 0 /\ loop'.phase = "sleep"
    BY DEF SleepingLoop, DownLoop
  <2> QED
    BY <1>1, <1>4, <1>6, <2>1, <2>2 DEF ListDueSchedules
<1>7. CASE FinishRunOnce
  <2>1. task[Loop].pc = "none" /\ loop'.todo = {} /\ loop'.now = 0 /\ loop'.phase = "sleep"
    BY <1>7 DEF FinishRunOnce, SleepingLoop, DownLoop, NoTask
  <2> QED
    BY <1>1, <1>4, <1>7, <2>1 DEF FinishRunOnce
<1>8. ASSUME NEW r \in loop.todo, InspectOccurrence(r) PROVE LoopInv'
  <2>1. CASE ReturnError(Loop)
    BY <1>8, <2>1, DaemonGoneStep DEF InspectOccurrence, ReturnError
  <2>2. CASE ~ReturnError(Loop)
    <3>1. /\ loop'.todo = loop.todo \ {r} /\ loop'.now = loop.now
          /\ loop'.phase = loop.phase /\ loop.phase = "reconcile"
          /\ UNCHANGED <<now, sched, occ>>
      BY <1>1, <1>8, <2>2 DEF InspectOccurrence, LoopState
    <3>2. /\ task[Loop].pc = "none"
          /\ \/ task'[Loop].pc = "none"
             \/ task'[Loop].pc \in {"sync", "acceptSync", "fail"} /\ task'[Loop].occ = r.occ
      BY <1>1, <1>8, <2>2 DEF InspectOccurrence, Goto, NoTask, LoopInv, ClaimInv, TypeOK
    <3>3. \A x : Unsettled(x)' <=> Unsettled(x)
      BY <3>1 DEF Unsettled, IsOpen
    <3>4. \A q \in loop'.todo : q \in loop.todo /\ q.occ # r.occ
      BY <3>1 DEF LoopInv, WorkIsOpen
    <3>5. WorkIsOpen'
      BY <3>1, <3>2, <3>3, <3>4 DEF LoopInv, WorkIsOpen
    <3> QED
      BY <1>1, <3>1, <3>5, LoopQuiet
  <2> QED
    BY <2>1, <2>2
<1>9. ASSUME NEW f \in loop.fix, RepairNextRun(f) PROVE LoopInv'
  <2>p. PICK s \in Schedules, spec \in Specs : s = f[1] /\ spec = f[2]
    BY <1>1 DEF LoopState
  <2>1. /\ loop.phase = "repair" /\ UNCHANGED <<now, occ, task>>
        /\ loop'.phase = loop.phase /\ loop'.now = loop.now /\ loop'.todo = loop.todo
    BY <1>1, <1>9 DEF RepairNextRun, LoopState
  <2>2. WorkIsOpen'
    BY <2>1, WorkStays DEF LoopInv, WorkIsOpen, Unsettled, IsOpen
  <2>3. CASE sched' = sched
    BY <1>1, <2>1, <2>2, <2>3, LoopQuiet
  <2>4. CASE sched' # sched
    <3>1. sched' = [sched EXCEPT ![s].next = NextSlot(spec, loop.now)]
      BY <1>9, <2>p, <2>4 DEF RepairNextRun
    <3>2. /\ sched'[s].next = NextSlot(spec, loop.now)
          /\ sched' = [sched EXCEPT ![s].next = sched'[s].next]
      BY <3>1 DEF LoopInv, ClaimInv, TypeOK, ScheduleRow
    <3>3. sched'[s].next # Null => sched'[s].next \in Nat /\ sched'[s].next >= loop.now
      BY <1>1, <3>2, NextSlotIsLater, NextSlotType, SlotsAreNat
    <3>4. \A t \in Slots : occ[<<s, t>>].status # "absent" => t <= loop.now /\ t \in Nat
      BY <1>1, <2>1, SlotsAreNat DEF LoopInv, SlotsAreBehind, Occurrences
    <3>5. \A t \in Slots : occ[<<s, t>>].status # "absent" /\ sched'[s].next # Null =>
                               t <= sched'[s].next
      BY <1>1, <3>3, <3>4
    <3>6. SlotsAreBehind' /\ AtMostOneOpen' /\ FailuresAreDistinct'
      BY <2>1, <3>2, <3>5, NextMoves
    <3> QED
      BY <1>1, <2>1, <2>2, <3>6 DEF LoopInv, LoopClock
  <2> QED
    BY <2>3, <2>4
<1>10. CASE \E s \in Schedules : ClaimDueOccurrence(s)
  BY <1>10, LoopClaimStep
<1> QED
  BY <1>3, <1>5, <1>6, <1>7, <1>8, <1>9, <1>10 DEF LoopStep

LEMMA LoopEnvironmentStep ==
    ASSUME LoopInv, ClaimInv', TypeOK', EnvironmentStep
    PROVE  LoopInv'
<1>1. /\ loop.now \in Nat /\ now \in Nat /\ loop.now <= now /\ Loop \in Procs
      /\ \A x \in Occurrences : x[1] \in Schedules
  BY ConstantsAssumption DEF LoopInv, ClaimInv, TypeOK, LoopState, LoopClock, Procs, Occurrences
<1>2. ASSUME UNCHANGED <<sched, occ, loop, task>>, now' \in {now, now + 1} PROVE LoopInv'
  <2>1. WorkIsOpen'
    BY <1>2 DEF LoopInv, WorkIsOpen, Unsettled, IsOpen
  <2> QED
    BY <1>1, <1>2, <2>1, LoopQuiet
<1>3. CASE DaemonStops
  BY <1>3, DaemonGoneStep DEF DaemonStops
<1>4. ASSUME NEW s \in Schedules, DeleteSchedule(s) PROVE LoopInv'
  <2>1. /\ sched'[s].exists = "deleted"
        /\ \A x \in Schedules \ {s} : sched'[x] = sched[x]
        /\ UNCHANGED <<now, loop, task>>
    BY <1>4 DEF DeleteSchedule, LoopInv, ClaimInv, TypeOK, ScheduleRow
  <2>2. \A o \in Occurrences : occ'[o] = IF o[1] = s THEN NoOccurrence ELSE occ[o]
    BY <1>4 DEF DeleteSchedule
  <2>3. \A o \in Occurrences : /\ occ'[o].status # "absent" => o[1] # s /\ occ'[o] = occ[o]
                               /\ IsOpen(o)' => IsOpen(o)
                               /\ Unsettled(o) => Unsettled(o)'
    BY <2>2 DEF NoOccurrence, IsOpen, OpenStatus, Unsettled
  <2>4. SlotsAreBehind'
    BY <1>1, <2>1, <2>3 DEF LoopInv, SlotsAreBehind
  <2>5. AtMostOneOpen'
    BY <2>3 DEF LoopInv, AtMostOneOpen, Occurrences
  <2>6. FailuresAreDistinct'
    <3>1. ASSUME NEW x \in Schedules, sched'[x].exists = "yes"
          PROVE  sched'[x].failures <= Cardinality({t \in Slots : occ'[<<x, t>>].status = "failed"})
      <4>1. x # s /\ sched'[x] = sched[x]
        BY <2>1, <3>1
      <4>2. \A t \in Slots : occ'[<<x, t>>] = occ[<<x, t>>]
        BY <2>2, <4>1 DEF Occurrences
      <4>3. {t \in Slots : occ'[<<x, t>>].status = "failed"} = {t \in Slots : occ[<<x, t>>].status = "failed"}
        BY <4>2
      <4> QED
        BY <3>1, <4>1, <4>3 DEF LoopInv, FailuresAreDistinct
    <3> QED
      BY <3>1 DEF FailuresAreDistinct
  <2>7. WorkIsOpen'
    BY <2>1, <2>3, WorkStays DEF LoopInv, WorkIsOpen
  <2> QED
    BY <2>1, <2>4, <2>5, <2>6, <2>7 DEF LoopInv, LoopClock
<1>5. ASSUME NEW s \in Schedules, NEW spec \in Specs, NEW b \in BOOLEAN, CreateSchedule(s, spec, b)
      PROVE  LoopInv'
  <2>1. /\ sched[s].exists = "no" /\ sched'[s].exists = "yes" /\ sched'[s].failures = sched[s].failures
        /\ \A x \in Schedules \ {s} : sched'[x] = sched[x]
        /\ UNCHANGED <<now, loop, task, occ>>
    BY <1>5 DEF CreateSchedule, LoopInv, ClaimInv, TypeOK, ScheduleRow
  <2>2. \A o \in Occurrences : occ[o].status # "absent" => o[1] # s
    BY <2>1 DEF LoopInv, SlotsAreBehind
  <2>3. SlotsAreBehind'
    BY <1>1, <2>1, <2>2 DEF LoopInv, SlotsAreBehind
  <2>4. AtMostOneOpen' /\ WorkIsOpen'
    BY <2>1 DEF LoopInv, AtMostOneOpen, WorkIsOpen, Unsettled, IsOpen
  <2>5. FailuresAreDistinct'
    <3>1. sched'[s].failures = 0 /\ Cardinality(FailedSlots(s)) \in Nat
      BY <2>1, FailedSlotsFinite DEF LoopInv, ClaimInv, SlotsAreBehind
    <3>2. sched'[s].failures <= Cardinality(FailedSlots(s))
      BY <3>1
    <3>3. \A x \in Schedules : x # s /\ sched[x].exists = "yes" =>
                                 sched[x].failures <= Cardinality(FailedSlots(x))
      BY DEF LoopInv, FailuresAreDistinct, FailedSlots
    <3>4. \A x \in Schedules : FailedSlots(x)' = FailedSlots(x)
      BY <2>1 DEF FailedSlots
    <3>5. \A x \in Schedules : sched'[x].exists = "yes" =>
                                 sched'[x].failures <= Cardinality(FailedSlots(x)')
      BY <2>1, <3>2, <3>3, <3>4
    <3> QED
      BY <3>5 DEF FailuresAreDistinct, FailedSlots
  <2> QED
    BY <2>1, <2>3, <2>4, <2>5 DEF LoopInv, LoopClock
<1> QED
  BY <1>2, <1>3, <1>4, <1>5
  DEF EnvironmentStep, Tick, ResolveApproval, RunLoopReturns

LEMMA InitLoopInv == Init => LoopInv
<1> SUFFICES ASSUME Init PROVE LoopInv
  OBVIOUS
<1>1. /\ \A o \in Occurrences : occ[o].status = "absent" /\ o[1] \in Schedules
      /\ \A s \in Schedules : sched[s].exists = "no" /\ sched[s].failures = 0
      /\ loop = DownLoop /\ now = 1 /\ task[Loop] = NoTask
  BY DEF Init, NoOccurrence, Occurrences, Procs
<1>2. LoopClock
  BY <1>1 DEF LoopClock, DownLoop
<1>3. SlotsAreBehind
  BY <1>1 DEF SlotsAreBehind
<1>4. WorkIsOpen
  BY <1>1 DEF WorkIsOpen, DownLoop, NoTask
<1>5. AtMostOneOpen
  BY <1>1 DEF AtMostOneOpen, IsOpen, OpenStatus, Occurrences
<1>6. FailuresAreDistinct
  BY <1>1 DEF FailuresAreDistinct
<1> QED
  BY <1>2, <1>3, <1>4, <1>5, <1>6, InitClaimInv DEF LoopInv

LEMMA NextLoopInv ==
    ASSUME Clients = {}, LoopInv, [Next]_vars
    PROVE  LoopInv'
<1>1. ClaimInv' /\ TypeOK'
  BY NextClaimInv DEF LoopInv, ClaimInv
<1>2. CASE StartDaemon
  <2>1. task'[Loop].pc = "none" /\ UNCHANGED <<now, sched, occ>> /\ StartReconcile(TRUE)
    BY <1>2 DEF StartDaemon, LoopInv, WorkIsOpen
  <2>2. WorkIsOpen'
    BY <2>1, StartReconcileWork
  <2>3. loop'.now = now /\ now \in Nat
    BY <2>1, ConstantsAssumption DEF StartReconcile, LoopInv, ClaimInv, TypeOK, LoopState
  <2> QED
    BY <1>1, <2>1, <2>2, <2>3, LoopQuiet
<1>3. CASE UNCHANGED vars
  <2>1. LoopClock' /\ SlotsAreBehind' /\ AtMostOneOpen' /\ FailuresAreDistinct'
    BY <1>3 DEF vars, LoopInv, LoopClock, SlotsAreBehind, AtMostOneOpen, FailuresAreDistinct, IsOpen
  <2>2. WorkIsOpen'
    BY <1>3 DEF vars, LoopInv, WorkIsOpen, Unsettled, IsOpen
  <2> QED
    BY <1>1, <2>1, <2>2 DEF LoopInv
<1>4. Procs = {Loop}
  BY DEF Procs
<1> QED
  BY <1>1, <1>2, <1>3, <1>4, LoopServiceStep, LoopEnvironmentStep, LoopTaskStep DEF Next

LEMMA LoopInvariant == ASSUME Clients = {} PROVE Spec => []LoopInv
<1>1. LoopInv /\ [Next]_vars => LoopInv'
  BY NextLoopInv
<1> QED
  BY <1>1, InitLoopInv, PTL DEF Spec

(* At most one occurrence of a schedule is open, where the loop is the     *)
(* only one to claim: the overlap policy holds across crashes, deletions,  *)
(* failed dispatches and schedules that come back.                         *)
THEOREM SchedulesDoNotOverlap == ASSUME Clients = {} PROVE Spec => []AtMostOneOpen
<1>1. LoopInv => AtMostOneOpen
  BY DEF LoopInv
<1> QED
  BY <1>1, LoopInvariant, PTL

(* consecutive_failures counts no occurrence twice.                        *)
THEOREM FailuresCountOnce == ASSUME Clients = {} PROVE Spec => []FailuresAreDistinct
<1>1. LoopInv => FailuresAreDistinct
  BY DEF LoopInv
<1> QED
  BY <1>1, LoopInvariant, PTL

-----------------------------------------------------------------------------
(* The loop alone keeps the promise of ScheduledTask                       *)

LEMMA PhaseIs ==
    ASSUME NEW o
    PROVE  /\ occ[o].status = "absent" =>
                PhaseOf(o) = IF sched[o[1]].exists = "deleted" THEN "gone" ELSE "none"
           /\ occ[o].status = "skipped" => PhaseOf(o) = "skipped"
           /\ IsOpen(o) => PhaseOf(o) = "open"
           /\ occ[o].status \notin {"absent", "skipped"} \cup OpenStatus => PhaseOf(o) = "closed"
BY DEF PhaseOf, IsOpen, OpenStatus

(* The same of the next state.                                             *)
LEMMA PhaseWillBe ==
    ASSUME NEW o
    PROVE  /\ occ'[o].status = "absent" =>
                PhaseOf(o)' = IF sched'[o[1]].exists = "deleted" THEN "gone" ELSE "none"
           /\ occ'[o].status = "skipped" => PhaseOf(o)' = "skipped"
           /\ IsOpen(o)' => PhaseOf(o)' = "open"
           /\ occ'[o].status \notin {"absent", "skipped"} \cup OpenStatus => PhaseOf(o)' = "closed"
BY DEF PhaseOf, IsOpen, OpenStatus

LEMMA PhaseStays ==
    ASSUME \A o \in Occurrences : /\ PhaseOf(o)' = PhaseOf(o)
                                  /\ run'[o] = "none" <=> run[o] = "none"
    PROVE  UNCHANGED Promise!vars
<1>1. [o \in Occurrences |-> PhaseOf(o)]' = [o \in Occurrences |-> PhaseOf(o)]
  OBVIOUS
<1>2. {o \in Occurrences : run[o] # "none"}' = {o \in Occurrences : run[o] # "none"}
  OBVIOUS
<1> QED
  BY <1>1, <1>2 DEF Promise!vars

LEMMA PhaseMoves ==
    ASSUME NEW o \in Occurrences, NEW from, NEW to,
           PhaseOf(o) = from, PhaseOf(o)' = to,
           \A x \in Occurrences : /\ x # o => PhaseOf(x)' = PhaseOf(x)
                                  /\ run'[x] = "none" <=> run[x] = "none"
    PROVE  /\ Promise!Move(o, from, to)
           /\ {x \in Occurrences : run[x] # "none"}' = {x \in Occurrences : run[x] # "none"}
<1>1. [x \in Occurrences |-> PhaseOf(x)]' = [[x \in Occurrences |-> PhaseOf(x)] EXCEPT ![o] = to]
  OBVIOUS
<1> QED
  BY <1>1 DEF Promise!Move

(* What a row says is unchanged where row and schedule are.                *)
LEMMA PhaseDepends ==
    ASSUME NEW o \in Occurrences, occ'[o].status = occ[o].status,
           sched'[o[1]].exists = sched[o[1]].exists
    PROVE  PhaseOf(o)' = PhaseOf(o)
BY DEF PhaseOf, IsOpen

LEMMA PromiseInit == Init => Promise!Init
<1> SUFFICES ASSUME Init PROVE Promise!Init
  OBVIOUS
<1>1. \A o \in Occurrences : PhaseOf(o) = "none" /\ run[o] = "none"
  BY PhaseIs DEF Init, NoOccurrence, Occurrences
<1>2. [o \in Occurrences |-> PhaseOf(o)] = [o \in Occurrences |-> "none"]
  BY <1>1
<1>3. {o \in Occurrences : run[o] # "none"} = {}
  BY <1>1
<1> QED
  BY <1>2, <1>3 DEF Promise!Init

LEMMA PromiseClaim ==
    ASSUME LoopInv, NEW s \in Schedules, ClaimDueOccurrence(s)
    PROVE  Promise!Next \/ UNCHANGED Promise!vars
<1>1. \A x \in Occurrences : x[1] \in Schedules /\ sched'[x[1]].exists = sched[x[1]].exists
  BY DEF ClaimDueOccurrence, LoopInv, ClaimInv, TypeOK, ScheduleRow, Occurrences
<1>2. run' = run
  BY DEF ClaimDueOccurrence
<1>3. CASE occ' = occ
  BY <1>1, <1>2, <1>3, PhaseDepends, PhaseStays
<1>4. CASE occ' # occ
  <2>p. PICK slot \in Slots : /\ slot = sched[s].next /\ sched[s].exists = "yes"
                              /\ InsertOccurrence(Loop, s, slot, loop.now)
    BY <1>4 DEF ClaimDueOccurrence, LoopInv, ClaimInv, TypeOK, ScheduleRow
  <2> DEFINE o == <<s, slot>>
  <2>1. o \in Occurrences
    BY DEF Occurrences
  <2>2. /\ occ[o].status = "absent"
        /\ occ'[o].status \in {"skipped", "dispatching"}
        /\ \A x \in Occurrences : x # o => occ'[x] = occ[x]
    BY <1>4, <2>p, <2>1 DEF InsertOccurrence, InsertedRow, LoopInv, ClaimInv, TypeOK
  <2>3. PhaseOf(o) = "none"
    BY <2>p, <2>2, PhaseIs
  <2>4. \A x \in Occurrences : x # o => PhaseOf(x)' = PhaseOf(x)
    BY <1>1, <2>2, PhaseDepends
  <2>5. CASE occ'[o].status = "skipped"
    <3>1. PhaseOf(o)' = "skipped"
      BY <2>5, PhaseWillBe
    <3>2. Promise!Skip(o)
      BY <1>2, <2>1, <2>3, <2>4, <3>1, PhaseMoves DEF Promise!Skip
    <3> QED
      BY <2>1, <3>2 DEF Promise!Next
  <2>6. CASE occ'[o].status = "dispatching"
    <3>1. PhaseOf(o)' = "open"
      BY <2>6, PhaseWillBe DEF IsOpen, OpenStatus
    <3>2. Promise!Claim(o)
      BY <1>2, <2>1, <2>3, <2>4, <3>1, PhaseMoves DEF Promise!Claim
    <3> QED
      BY <2>1, <3>2 DEF Promise!Next
  <2> QED
    BY <2>2, <2>5, <2>6
<1> QED
  BY <1>3, <1>4

LEMMA PromiseTask ==
    ASSUME LoopInv, TaskStep(Loop)
    PROVE  Promise!Next \/ UNCHANGED Promise!vars
<1> DEFINE o == task[Loop].occ
<1>1. Loop \in Procs
  BY DEF Procs
<1>2. /\ o \in Occurrences /\ task[Loop].pc # "none"
      /\ task[Loop].pc \in {"acceptSync", "sync"} => task[Loop].seen \in RunStatus \ {"none"}
  BY <1>1, TaskInHand DEF TaskStep, Dispatch, RecoverRun, MarkOccurrenceAccepted,
     MarkOccurrenceFailed, SyncOccurrenceWithRun, LoopInv, ClaimInv
<1>3. IsOpen(o) \/ occ[o].status = "absent"
  BY <1>2 DEF LoopInv, WorkIsOpen, Unsettled
<1>4. \A x \in Occurrences : x[1] \in Schedules
  BY DEF Occurrences
<1>p. PICK t \in Occurrences : t = o
  BY <1>2
<1>5. \A x \in Schedules : sched'[x].exists = sched[x].exists
  <2>1. CASE MarkOccurrenceFailed(Loop)
    BY <1>2, <1>4, <2>1 DEF MarkOccurrenceFailed, db, LoopInv, ClaimInv, TypeOK, ScheduleRow
  <2>2. CASE SyncOccurrenceWithRun(Loop)
    <3>1. \A row \in ScheduleRow, target \in RunStatus : Summary(row, target).exists = row.exists
      BY DEF Summary, ScheduleRow
    <3>2. task[Loop].seen \in RunStatus
      BY <1>2, <2>2 DEF SyncOccurrenceWithRun
    <3> QED
      BY <1>2, <1>4, <2>2, <3>1, <3>2
      DEF SyncOccurrenceWithRun, OccurrenceStatusFromRun, db, LoopInv, ClaimInv, TypeOK
  <2> QED
    BY <2>1, <2>2 DEF TaskStep, Dispatch, RecoverRun, MarkOccurrenceAccepted
<1>6. CASE Dispatch(Loop)
  <2>1. occ' = occ
    BY <1>6 DEF Dispatch
  <2>2. \A x \in Occurrences : PhaseOf(x)' = PhaseOf(x)
    BY <1>4, <1>5, <2>1, PhaseDepends
  <2>3. \A x \in Occurrences : x # t => run'[x] = run[x]
    BY <1>p, <1>6 DEF Dispatch, LoopInv, ClaimInv, TypeOK
  <2>4. CASE run'[t] = "none" <=> run[t] = "none"
    BY <2>2, <2>3, <2>4, PhaseStays
  <2>5. CASE ~(run'[t] = "none" <=> run[t] = "none")
    <3>1. run[t] = "none" /\ run'[t] # "none"
      BY <1>p, <1>6, <2>5 DEF Dispatch, LoopInv, ClaimInv, TypeOK
    <3>2. occ[t].status = "absent" => sched[t[1]].exists = "deleted"
      <4>1. Handled(t)
        BY <1>1, <1>p, <1>6 DEF Handled, Dispatch
      <4> QED
        BY <4>1 DEF LoopInv, ClaimInv, UnclaimedIsUntouched
    <3>3. PhaseOf(t) \in {"open", "gone"}
      BY <1>3, <1>p, <3>2, PhaseIs
    <3>4. [x \in Occurrences |-> PhaseOf(x)]' = [x \in Occurrences |-> PhaseOf(x)]
      BY <2>2
    <3>5. {x \in Occurrences : run[x] # "none"}' = {x \in Occurrences : run[x] # "none"} \cup {t}
      BY <2>3, <3>1
    <3>6. Promise!Start(t)
      BY <3>1, <3>3, <3>4, <3>5 DEF Promise!Start
    <3> QED
      BY <3>6 DEF Promise!Next
  <2> QED
    BY <2>4, <2>5
<1>7. CASE ~Dispatch(Loop)
  <2>1. run' = run
    BY <1>7 DEF TaskStep, RecoverRun, MarkOccurrenceAccepted, MarkOccurrenceFailed, SyncOccurrenceWithRun
  <2>2. /\ \A x \in Occurrences : x # t => occ'[x] = occ[x]
        /\ occ'[t].status # occ[t].status => IsOpen(t) /\ occ'[t].status \in RunStatus \ {"none"}
    <3>1. CASE RecoverRun(Loop)
      BY <3>1 DEF RecoverRun
    <3>2. CASE MarkOccurrenceAccepted(Loop)
      BY <1>3, <1>p, <3>2 DEF MarkOccurrenceAccepted, LoopInv, ClaimInv, TypeOK, OccurrenceRow, RunStatus
    <3>3. CASE MarkOccurrenceFailed(Loop)
      BY <1>3, <1>p, <3>3 DEF MarkOccurrenceFailed, db, LoopInv, ClaimInv, TypeOK, OccurrenceRow,
         RunStatus, TerminalStatus
    <3>4. CASE SyncOccurrenceWithRun(Loop)
      BY <1>2, <1>3, <1>p, <3>4 DEF SyncOccurrenceWithRun, OccurrenceStatusFromRun, db, LoopInv,
         ClaimInv, TypeOK, OccurrenceRow
    <3> QED
      BY <1>7, <3>1, <3>2, <3>3, <3>4 DEF TaskStep
  <2>3. \A x \in Occurrences : x # t => PhaseOf(x)' = PhaseOf(x)
    BY <1>4, <1>5, <2>2, PhaseDepends
  <2>4. CASE PhaseOf(t)' = PhaseOf(t)
    BY <2>1, <2>3, <2>4, PhaseStays
  <2>5. CASE PhaseOf(t)' # PhaseOf(t)
    <3>1. occ'[t].status # occ[t].status
      BY <1>4, <1>5, <2>5, PhaseDepends
    <3>2. PhaseOf(t) = "open"
      BY <2>2, <3>1, PhaseIs
    <3>3. PhaseOf(t)' \in {"open", "closed"}
      BY <2>2, <3>1, PhaseWillBe DEF IsOpen, OpenStatus, RunStatus, TerminalStatus
    <3>4. Promise!Close(t)
      BY <2>1, <2>3, <2>5, <3>2, <3>3, PhaseMoves DEF Promise!Close
    <3> QED
      BY <3>4 DEF Promise!Next
  <2> QED
    BY <2>4, <2>5
<1> QED
  BY <1>6, <1>7

LEMMA PromiseEnvironment ==
    ASSUME LoopInv, EnvironmentStep
    PROVE  Promise!Next \/ UNCHANGED Promise!vars
<1>1. \A x \in Occurrences : x[1] \in Schedules
  BY DEF Occurrences
<1>2. ASSUME occ' = occ, \A x \in Schedules : sched'[x].exists = sched[x].exists,
             \A x \in Occurrences : run'[x] = "none" <=> run[x] = "none"
      PROVE  UNCHANGED Promise!vars
  BY <1>1, <1>2, PhaseDepends, PhaseStays
<1>3. ASSUME NEW s \in Schedules, NEW spec \in Specs, NEW b \in BOOLEAN, CreateSchedule(s, spec, b)
      PROVE  UNCHANGED Promise!vars
  <2>1. \A x \in Occurrences : PhaseOf(x)' = PhaseOf(x)
    <3>1. \A x \in Occurrences : (sched'[x[1]].exists = "deleted") <=> (sched[x[1]].exists = "deleted")
      BY <1>1, <1>3 DEF CreateSchedule, LoopInv, ClaimInv, TypeOK, ScheduleRow
    <3> QED
      BY <1>3, <3>1 DEF CreateSchedule, PhaseOf, IsOpen
  <2> QED
    BY <1>3, <2>1, PhaseStays DEF CreateSchedule
<1>4. ASSUME NEW s \in Schedules, DeleteSchedule(s) PROVE Promise!Next
  <2> DEFINE T == {o \in Occurrences : o[1] = s}
  <2>1. \A o \in Occurrences : PhaseOf(o)' = IF o \in T THEN "gone" ELSE PhaseOf(o)
    <3>1. ASSUME NEW o \in T PROVE PhaseOf(o)' = "gone"
      <4>1. occ'[o].status = "absent" /\ sched'[o[1]].exists = "deleted"
        BY <1>1, <1>4 DEF DeleteSchedule, NoOccurrence, LoopInv, ClaimInv, TypeOK, ScheduleRow
      <4> QED
        BY <4>1, PhaseWillBe
    <3>2. ASSUME NEW o \in Occurrences, o \notin T PROVE PhaseOf(o)' = PhaseOf(o)
      <4>1. occ'[o] = occ[o] /\ sched'[o[1]] = sched[o[1]]
        BY <1>1, <1>4, <3>2 DEF DeleteSchedule, LoopInv, ClaimInv, TypeOK
      <4> QED
        BY <4>1, PhaseDepends
    <3> QED
      BY <3>1, <3>2
  <2>2. [o \in Occurrences |-> PhaseOf(o)]'
          = [o \in Occurrences |-> IF o \in T THEN "gone" ELSE [x \in Occurrences |-> PhaseOf(x)][o]]
    BY <2>1
  <2>3. {o \in Occurrences : run[o] # "none"}' = {o \in Occurrences : run[o] # "none"}
    BY <1>4 DEF DeleteSchedule
  <2>4. Promise!Forget(T)
    BY <2>2, <2>3 DEF Promise!Forget
  <2>5. T \in SUBSET Occurrences
    OBVIOUS
  <2> QED
    BY <2>4, <2>5 DEF Promise!Next
<1>5. ASSUME NEW o \in Occurrences, NEW b \in BOOLEAN, ResolveApproval(o, b)
      PROVE  UNCHANGED Promise!vars
  <2>1. \A x \in Occurrences : run'[x] = "none" <=> run[x] = "none"
    BY <1>5 DEF ResolveApproval, LoopInv, ClaimInv, TypeOK
  <2> QED
    BY <1>2, <1>5, <2>1 DEF ResolveApproval
<1>6. ASSUME NEW o \in Occurrences, NEW st \in Outcomes \cup {x \in {run[o]} : Faults},
             RunLoopReturns(o, st)
      PROVE  UNCHANGED Promise!vars
  <2>1. run[o] # "none"
    BY <1>6 DEF RunLoopReturns, LoopInv, ClaimInv, RunsAreThere
  <2>2. st # "none"
    BY <2>1, ConstantsAssumption DEF TerminalStatus
  <2>3. \A x \in Occurrences : run'[x] = "none" <=> run[x] = "none"
    BY <1>6, <2>1, <2>2 DEF RunLoopReturns, LoopInv, ClaimInv, TypeOK
  <2> QED
    BY <1>2, <1>6, <2>3 DEF RunLoopReturns
<1> QED
  BY <1>2, <1>3, <1>4, <1>5, <1>6 DEF EnvironmentStep, Tick, DaemonStops

LEMMA PromiseStep ==
    ASSUME Clients = {}, LoopInv, [Next]_vars
    PROVE  [Promise!Next]_(Promise!vars)
<1>1. \A x \in Occurrences : x[1] \in Schedules
  BY DEF Occurrences
<1>2. ASSUME UNCHANGED <<occ, run>>, \A x \in Schedules : sched'[x].exists = sched[x].exists
      PROVE  UNCHANGED Promise!vars
  BY <1>1, <1>2, PhaseDepends, PhaseStays
<1>3. CASE StartDaemon
  <2>1. \A x \in Occurrences : run'[x] = "none" <=> run[x] = "none"
    BY <1>3 DEF StartDaemon
  <2> QED
    BY <1>1, <1>3, <2>1, PhaseDepends, PhaseStays DEF StartDaemon
<1>4. CASE LoopStep
  <2>1. ASSUME NEW f \in loop.fix, RepairNextRun(f) PROVE UNCHANGED Promise!vars
    <3>1. \A x \in Schedules : sched'[x].exists = sched[x].exists
      BY <2>1 DEF RepairNextRun, LoopInv, ClaimInv, TypeOK, ScheduleRow
    <3> QED
      BY <1>2, <2>1, <3>1 DEF RepairNextRun
  <2> QED
    BY <1>2, <1>4, <2>1, PromiseClaim
    DEF LoopStep, WakeUp, ListMissingNextRun, ListDueSchedules, FinishRunOnce, InspectOccurrence
<1>5. CASE UNCHANGED vars
  BY <1>2, <1>5 DEF vars
<1>6. Procs = {Loop}
  BY DEF Procs
<1> QED
  BY <1>3, <1>4, <1>5, <1>6, PromiseTask, PromiseEnvironment DEF Next

(* Where the loop is the only client, every slot of a schedule is skipped  *)
(* or claimed, started at most once and only while it is open, and what is *)
(* closed stays closed: the tables, the receipts, the restarts and the     *)
(* reconciler implement ScheduledTask.                                     *)
THEOREM SchedulerImplementsTask == ASSUME Clients = {} PROVE Spec => ImplementsScheduledTask
<1>1. LoopInv /\ [Next]_vars => [Promise!Next]_(Promise!vars)
  BY PromiseStep
<1> QED
  BY <1>1, PromiseInit, LoopInvariant, PTL DEF Spec, ImplementsScheduledTask, Promise!Spec

-----------------------------------------------------------------------------
(* The history of a schedule, with handlers that dispatch in time          *)

(* What the invariant says of two statuses.                                *)
LEMMA HistoryFacts ==
    ASSUME HistoryInv, NEW o \in Occurrences
    PROVE  /\ occ[o].status \in {"completed", "interrupted"} => run[o] = occ[o].status
           /\ run[o] \in {"active", "needs_approval"} => Unsettled(o)
BY DEF HistoryInv, HistoryIsTrue, OutcomeIsTheRuns, InFlightIsOpen, Unsettled

LEMMA HistoryFrom ==
    ASSUME \A o \in Occurrences :
              /\ occ'[o].status \in {"completed", "interrupted"} => run'[o] = occ'[o].status
              /\ run'[o] \in {"active", "needs_approval"} => Unsettled(o)'
    PROVE  HistoryIsTrue'
BY DEF HistoryIsTrue, OutcomeIsTheRuns, InFlightIsOpen, Unsettled

(* A step that takes nobody any further with an occurrence: processes go   *)
(* on as they are, stop, or ask for a claim of this instant; rows stay or  *)
(* are deleted; the loop's list is the old one or what the table says.     *)
LEMMA HistoryQuiet ==
    ASSUME HistoryInv, ClaimInv', TypeOK', LoopClock', RunsAreDriven', UNCHANGED <<now, run>>,
           \A o \in Occurrences : occ'[o] = occ[o] \/ occ'[o].status = "absent",
           \A r \in loop'.todo :
              \/ r \in loop.todo
              \/ IsOpen(r.occ) /\ r.created = occ[r.occ].created,
           \A p \in Procs :
              \/ task'[p] = task[p]
              \/ task'[p].pc = "none"
              \/ task'[p].pc = "claim" /\ task'[p].occ[2] = now
    PROVE  HistoryInv'
<1>1. \A p \in Procs : task[p].pc # "none" => task[p].occ \in Occurrences
  BY TaskInHand DEF HistoryInv, ClaimInv
<1>2. \A o \in Occurrences : Unsettled(o) => Unsettled(o)'
  BY DEF Unsettled, IsOpen
<1>3. MemoryIsSound'
  BY <1>1, <1>2 DEF HistoryInv, MemoryIsSound
<1>4. now \in Nat /\ Grace \in Nat
  BY ConstantsAssumption DEF HistoryInv, ClaimInv, TypeOK
<1>5. ClaimsAreFresh'
  <2>1. \A c \in Clients : c \in Procs
    BY DEF Procs
  <2>2. ASSUME NEW c \in Clients, task'[c].pc \in {"claim", "dispatch"}
        PROVE  now' <= task'[c].occ[2] + Grace
    BY <1>4, <2>1, <2>2 DEF HistoryInv, ClaimsAreFresh
  <2>3. ASSUME NEW c \in Clients, task'[c].pc = "dispatch"
        PROVE  /\ occ'[task'[c].occ].status \in OpenStatus => occ'[task'[c].occ].created = task'[c].occ[2]
               /\ \A r \in loop'.todo : r.occ = task'[c].occ => r.created = r.occ[2]
    <3>1. task'[c] = task[c] /\ task[c].occ \in Occurrences
      BY <1>1, <2>1, <2>3
    <3>2. IsOpen(task[c].occ) => occ[task[c].occ].created = task[c].occ[2]
      BY <2>3, <3>1 DEF HistoryInv, ClaimsAreFresh
    <3>3. occ'[task[c].occ].status \in OpenStatus =>
             occ'[task[c].occ] = occ[task[c].occ] /\ IsOpen(task[c].occ)
      BY <3>1 DEF IsOpen, OpenStatus
    <3>4. \A r \in loop'.todo : r.occ = task[c].occ => r.created = r.occ[2]
      BY <2>3, <3>1, <3>2 DEF HistoryInv, ClaimsAreFresh
    <3> QED
      BY <3>1, <3>2, <3>3, <3>4
  <2> QED
    BY <2>2, <2>3 DEF ClaimsAreFresh, IsOpen
<1>6. \A o \in Occurrences :
         /\ occ'[o].status \in {"completed", "interrupted"} => run'[o] = occ'[o].status
         /\ run'[o] \in {"active", "needs_approval"} => Unsettled(o)'
  BY <1>2, HistoryFacts
<1> QED
  BY <1>3, <1>5, <1>6, HistoryFrom DEF HistoryInv

(* A process works on an occurrence that nobody is about to dispatch.      *)
LEMMA HistoryWork ==
    ASSUME HistoryInv, ClaimInv', TypeOK', NEW p \in Procs, NEW o \in Occurrences,
           UNCHANGED <<now, run, driver>>, DaemonUp, loop'.phase = loop.phase,
           loop'.now = loop.now, loop'.todo \subseteq loop.todo,
           \A q \in Procs \ {p} : /\ task'[q] = task[q]
                                  /\ task[q].pc = "dispatch" => task[q].occ # o,
           \/ task'[p].pc = "none"
           \/ /\ task'[p].occ = o /\ task'[p].pc \notin {"claim", "dispatch"}
              /\ task'[p].pc = "fail" => run[o] = "none"
              /\ task'[p].pc \in {"acceptSync", "sync"} /\ task'[p].seen \in TerminalStatus =>
                    run[o] = task'[p].seen,
           \A x \in Occurrences \ {o} : occ'[x] = occ[x],
           occ'[o].status \in {"completed", "interrupted"} => run[o] = occ'[o].status,
           run[o] \in {"active", "needs_approval"} => Unsettled(o)'
    PROVE  HistoryInv'
<1>1. \A q \in Procs : task[q].pc # "none" => task[q].occ \in Occurrences
  BY TaskInHand DEF HistoryInv, ClaimInv
<1>2. \A x \in Occurrences : x # o => (Unsettled(x)' <=> Unsettled(x)) /\ (IsOpen(x)' <=> IsOpen(x))
  BY DEF Unsettled, IsOpen
<1>3. LoopClock' /\ RunsAreDriven'
  BY DEF HistoryInv, LoopClock, RunsAreDriven, DaemonUp
<1>4. MemoryIsSound'
  BY <1>1, <1>2 DEF HistoryInv, MemoryIsSound
<1>5. ClaimsAreFresh'
  <2>1. \A c \in Clients : c \in Procs
    BY DEF Procs
  <2>2. ASSUME NEW c \in Clients, task'[c].pc \in {"claim", "dispatch"}
        PROVE  /\ c # p /\ task'[c] = task[c]
               /\ task[c].pc = "dispatch" => task[c].occ \in Occurrences \ {o}
    BY <1>1, <2>1, <2>2
  <2> QED
    BY <1>2, <2>2 DEF HistoryInv, ClaimsAreFresh
<1>6. \A x \in Occurrences :
         /\ occ'[x].status \in {"completed", "interrupted"} => run'[x] = occ'[x].status
         /\ run'[x] \in {"active", "needs_approval"} => Unsettled(x)'
  BY <1>2, HistoryFacts
<1> QED
  BY <1>3, <1>4, <1>5, <1>6, HistoryFrom DEF HistoryInv

(* A run in flight changes its status.                                     *)
LEMMA HistoryRuns ==
    ASSUME HistoryInv, ClaimInv', TypeOK', LoopClock', RunsAreDriven', UNCHANGED <<now, occ, task>>,
           \A o \in Occurrences : run'[o] = run[o] \/ run[o] \in {"active", "needs_approval"},
           \A r \in loop'.todo :
              \/ r \in loop.todo
              \/ IsOpen(r.occ) /\ r.created = occ[r.occ].created
    PROVE  HistoryInv'
<1>1. \A q \in Procs : task[q].pc # "none" => task[q].occ \in Occurrences
  BY TaskInHand DEF HistoryInv, ClaimInv
<1>2. \A x : (Unsettled(x)' <=> Unsettled(x)) /\ (IsOpen(x)' <=> IsOpen(x))
  BY DEF Unsettled, IsOpen
<1>3. MemoryIsSound'
  BY <1>1, <1>2 DEF HistoryInv, MemoryIsSound, TerminalStatus
<1>4. ClaimsAreFresh'
  BY <1>2 DEF HistoryInv, ClaimsAreFresh
<1>5. \A x \in Occurrences :
         /\ occ'[x].status \in {"completed", "interrupted"} => run'[x] = occ'[x].status
         /\ run'[x] \in {"active", "needs_approval"} => Unsettled(x)'
  <2>1. ASSUME NEW x \in Occurrences, run'[x] \in {"active", "needs_approval"} PROVE Unsettled(x)
    BY <2>1, HistoryFacts
  <2>2. ASSUME NEW x \in Occurrences, occ[x].status \in {"completed", "interrupted"}
        PROVE  run'[x] = occ[x].status
    BY <2>2, HistoryFacts
  <2> QED
    BY <1>2, <2>1, <2>2
<1> QED
  BY <1>3, <1>4, <1>5, HistoryFrom DEF HistoryInv

(* A claim hands out a slot that nobody has touched.                       *)
LEMMA HistoryInsert ==
    ASSUME HistoryInv, ClaimInv', TypeOK', NEW p \in Procs, NEW s \in Schedules, NEW slot \in Slots,
           NEW created, InsertOccurrence(p, s, slot, created), sched[s].exists = "yes",
           p \in Clients => created = slot /\ now <= slot + Grace,
           UNCHANGED <<now, run, driver>>, DaemonUp, loop'.phase = loop.phase,
           loop'.now = loop.now, loop'.todo = loop.todo
    PROVE  HistoryInv'
<1> DEFINE o == <<s, slot>>
<1>1. o \in Occurrences
  BY DEF Occurrences
<1>2. LoopClock' /\ RunsAreDriven'
  BY DEF HistoryInv, LoopClock, RunsAreDriven, DaemonUp
<1>3. \A q \in Procs \ {p} : task'[q] = task[q]
  BY DEF InsertOccurrence, Return, Goto, HistoryInv, ClaimInv, TypeOK
<1>4. CASE Return(p) /\ UNCHANGED occ
  <2>1. task'[p].pc = "none"
    BY <1>4 DEF Return, NoTask, HistoryInv, ClaimInv, TypeOK
  <2> QED
    BY <1>2, <1>3, <1>4, <2>1, HistoryQuiet
<1>5. CASE ~(Return(p) /\ UNCHANGED occ)
  <2> DEFINE row == InsertedRow(s, slot, created)
  <2>1. /\ occ[o].status = "absent" /\ occ' = [occ EXCEPT ![o] = row]
        /\ row.status \in {"skipped", "dispatching"} /\ row.created = created
    BY <1>5 DEF InsertOccurrence, InsertedRow
  <2>2. \A x \in Occurrences : occ'[x] = IF x = o THEN row ELSE occ[x]
    BY <2>1 DEF HistoryInv, ClaimInv, TypeOK
  <2>3. run[o] = "none" /\ ~Handled(o)
    BY <1>1, <2>1 DEF HistoryInv, ClaimInv, UnclaimedIsUntouched
  <2>4. \/ task'[p].pc = "none"
        \/ row.status = "dispatching" /\ task'[p].pc = "dispatch" /\ task'[p].occ = o
    BY <1>1, <1>5, <2>1 DEF InsertOccurrence, Return, Goto, NoTask, HistoryInv, ClaimInv, TypeOK
  <2>5. \A q \in Procs : task[q].pc \notin {"none", "claim"} => task[q].occ \in Occurrences \ {o}
    BY <2>3, TaskInHand DEF Handled, HistoryInv, ClaimInv
  <2>6. /\ \A x \in Occurrences : x # o => (Unsettled(x)' <=> Unsettled(x)) /\ (IsOpen(x)' <=> IsOpen(x))
        /\ row.status = "dispatching" => Unsettled(o)'
    BY <1>1, <2>2 DEF Unsettled, IsOpen, OpenStatus
  <2>7. MemoryIsSound'
    BY <1>3, <2>4, <2>5, <2>6 DEF HistoryInv, MemoryIsSound
  <2>8. ClaimsAreFresh'
    <3>1. \A c \in Clients : c \in Procs
      BY DEF Procs
    <3>2. ASSUME NEW c \in Clients, task'[c].pc \in {"claim", "dispatch"}
          PROVE  now <= task'[c].occ[2] + Grace
      BY <1>3, <2>4, <3>1, <3>2 DEF HistoryInv, ClaimsAreFresh
    <3>3. ASSUME NEW c \in Clients, task'[c].pc = "dispatch"
          PROVE  /\ occ'[task'[c].occ].status \in OpenStatus => occ'[task'[c].occ].created = task'[c].occ[2]
                 /\ \A r \in loop.todo : r.occ = task'[c].occ => r.created = r.occ[2]
      <4>1. CASE c = p
        <5>1. \A r \in loop.todo : r.occ # o
          BY <2>3 DEF Handled
        <5> QED
          BY <1>1, <2>1, <2>2, <2>4, <3>3, <4>1, <5>1
      <4>2. CASE c # p
        <5>1. task'[c] = task[c] /\ task[c].occ \in Occurrences \ {o}
          BY <1>3, <2>5, <3>1, <3>3, <4>2
        <5> QED
          BY <2>2, <2>6, <3>3, <5>1 DEF HistoryInv, ClaimsAreFresh, IsOpen
      <4> QED
        BY <4>1, <4>2
    <3> QED
      BY <3>2, <3>3 DEF ClaimsAreFresh, IsOpen
  <2>9. \A x \in Occurrences :
           /\ occ'[x].status \in {"completed", "interrupted"} => run'[x] = occ'[x].status
           /\ run'[x] \in {"active", "needs_approval"} => Unsettled(x)'
    BY <2>1, <2>2, <2>3, <2>6, HistoryFacts
  <2> QED
    BY <1>2, <2>7, <2>8, <2>9, HistoryFrom DEF HistoryInv
<1> QED
  BY <1>4, <1>5

(* Nobody has an occurrence in hand while another is about to dispatch it. *)
LEMMA DispatchedElsewhere ==
    ASSUME HistoryInv, NEW p \in Procs, task[p].pc \notin {"none", "claim"}
    PROVE  \A q \in Procs \ {p} : task[q].pc = "dispatch" => task[q].occ # task[p].occ
BY DEF HistoryInv, MemoryIsSound

LEMMA HistoryTaskStep ==
    ASSUME HistoryInv, ClaimInv', TypeOK', CliClients = {}, NEW p \in Procs, TaskStep(p)
    PROVE  HistoryInv'
<1>p. PICK o \in Occurrences : o = task[p].occ
  BY TaskInHand DEF TaskStep, Dispatch, RecoverRun, MarkOccurrenceAccepted, MarkOccurrenceFailed,
     SyncOccurrenceWithRun, HistoryInv, ClaimInv
<1>1. task[p].pc \notin {"none", "claim"} /\ DaemonUp
  BY DEF TaskStep, Dispatch, RecoverRun, MarkOccurrenceAccepted, MarkOccurrenceFailed,
     SyncOccurrenceWithRun, HistoryInv, RunsAreDriven
<1>2. \A q \in Procs \ {p} : task[q].pc = "dispatch" => task[q].occ # o
  BY <1>p, <1>1, DispatchedElsewhere
<1>3. CASE Dispatch(p)
  <2>1. /\ UNCHANGED <<now, occ, loop>> /\ task[p].pc = "dispatch"
        /\ task'[p].pc \in {"accept", "recover"} /\ task'[p].occ = o
        /\ \A q \in Procs \ {p} : task'[q] = task[q]
    BY <1>p, <1>3 DEF Dispatch, Goto, HistoryInv, ClaimInv, TypeOK
  <2>2. /\ run[o] = "none" /\ Unsettled(o)
        /\ \A q \in Procs \ {p} : task[q].pc \in {"none", "claim"} \/ task[q].occ # o
    BY <1>p, <2>1 DEF HistoryInv, MemoryIsSound, ClaimInv, DispatchesOnce
  <2>3. \A x \in Occurrences : /\ x # o => run'[x] = run[x]
                               /\ driver'[x] # driver[x] => x = o /\ run'[o] = "active" /\ driver'[x] = Loop
                               /\ run'[o] \in {"none", "active"}
    BY <1>p, <1>3, <2>2 DEF Dispatch, Executor, HistoryInv, ClaimInv, TypeOK
  <2>4. \A q \in Procs : task[q].pc # "none" => task[q].occ \in Occurrences
    BY TaskInHand DEF HistoryInv, ClaimInv
  <2>5. LoopClock' /\ RunsAreDriven'
    <3>1. driver[o] = NoProc
      BY <2>2 DEF HistoryInv, ClaimInv, RunsAreThere
    <3> QED
      BY <1>1, <2>1, <2>3, <3>1 DEF HistoryInv, LoopClock, RunsAreDriven, DaemonUp
  <2>6. \A x : (Unsettled(x)' <=> Unsettled(x)) /\ (IsOpen(x)' <=> IsOpen(x))
    BY <2>1 DEF Unsettled, IsOpen
  <2>7. MemoryIsSound'
    BY <1>2, <2>1, <2>2, <2>3, <2>4, <2>6 DEF HistoryInv, MemoryIsSound
  <2>8. ClaimsAreFresh'
    <3>1. \A c \in Clients : c \in Procs
      BY DEF Procs
    <3> QED
      BY <2>1, <2>6, <3>1 DEF HistoryInv, ClaimsAreFresh
  <2>9. \A x \in Occurrences :
           /\ occ'[x].status \in {"completed", "interrupted"} => run'[x] = occ'[x].status
           /\ run'[x] \in {"active", "needs_approval"} => Unsettled(x)'
    <3>1. occ[o].status \notin {"completed", "interrupted"}
      BY <2>2, HistoryFacts
    <3> QED
      BY <2>1, <2>2, <2>3, <2>6, <3>1, HistoryFacts
  <2> QED
    BY <2>5, <2>7, <2>8, <2>9, HistoryFrom DEF HistoryInv
<1>4. CASE RecoverRun(p)
  <2>1. /\ UNCHANGED <<now, run, driver, occ, loop>>
        /\ \A q \in Procs \ {p} : task'[q] = task[q]
        /\ task'[p].occ = o
        /\ \/ task'[p].pc = "fail" /\ run[o] = "none"
           \/ task'[p].pc = "acceptSync" /\ task'[p].seen = run[o]
    BY <1>p, <1>4 DEF RecoverRun, Goto, HistoryInv, ClaimInv, TypeOK
  <2>2. Unsettled(o)' <=> Unsettled(o)
    BY <2>1 DEF Unsettled, IsOpen
  <2> QED
    BY <1>p, <1>1, <1>2, <2>1, <2>2, HistoryWork, HistoryFacts
<1>5. CASE MarkOccurrenceAccepted(p)
  <2>1. /\ UNCHANGED <<now, run, driver, loop>>
        /\ \A q \in Procs \ {p} : task'[q] = task[q]
        /\ \/ task'[p].pc = "none"
           \/ /\ task'[p].occ = o /\ task'[p].pc = "sync" /\ task'[p].seen = task[p].seen
              /\ task[p].pc = "acceptSync"
    BY <1>p, <1>5 DEF MarkOccurrenceAccepted, Goto, Return, NoTask, HistoryInv, ClaimInv, TypeOK
  <2>2. /\ \A x \in Occurrences \ {o} : occ'[x] = occ[x]
        /\ occ'[o].status \in {"absent", "active"}
    BY <1>p, <1>5 DEF MarkOccurrenceAccepted, HistoryInv, ClaimInv, TypeOK, OccurrenceRow
  <2>3. Unsettled(o)'
    BY <2>2 DEF Unsettled, IsOpen, OpenStatus
  <2>4. task[p].pc = "acceptSync" /\ task[p].seen \in TerminalStatus => run[o] = task[p].seen
    BY <1>p DEF HistoryInv, MemoryIsSound
  <2> QED
    BY <1>1, <1>2, <2>1, <2>2, <2>3, <2>4, HistoryWork
<1>6. ASSUME ReturnError(p), UNCHANGED <<now, run, occ>> PROVE HistoryInv'
  <2>1. /\ \A q \in Procs : task'[q] = task[q] \/ task'[q].pc = "none"
        /\ loop'.todo \subseteq loop.todo /\ (loop'.now = 0 \/ loop'.now = loop.now)
    BY <1>6 DEF ReturnError, StopDaemon, DownLoop, NoTask, HistoryInv, ClaimInv, TypeOK
  <2>2. now \in Nat
    BY ConstantsAssumption DEF HistoryInv, ClaimInv, TypeOK
  <2>3. LoopClock'
    BY <1>6, <2>1, <2>2 DEF HistoryInv, LoopClock
  <2>4. RunsAreDriven'
    <3>1. CASE p = Loop
      <4>1. \A q \in Procs : task'[q].pc = "none"
        BY <1>6, <3>1 DEF ReturnError, StopDaemon, NoTask
      <4>2. \A x \in Occurrences : driver'[x] = NoProc
        BY <1>6, <3>1 DEF ReturnError, StopDaemon, HistoryInv, RunsAreDriven
      <4> QED
        BY <4>1, <4>2 DEF RunsAreDriven
    <3>2. CASE p # Loop
      BY <1>1, <1>6, <3>2 DEF ReturnError, HistoryInv, RunsAreDriven, DaemonUp
    <3> QED
      BY <3>1, <3>2
  <2> QED
    BY <1>6, <2>1, <2>3, <2>4, HistoryQuiet
<1>7. CASE MarkOccurrenceFailed(p) /\ occ[o].status # "absent"
  <2>1. /\ UNCHANGED <<now, run, driver, loop>>
        /\ \A q \in Procs \ {p} : task'[q] = task[q]
        /\ task'[p].pc = "none"
        /\ \A x \in Occurrences \ {o} : occ'[x] = occ[x]
        /\ occ'[o].status = "failed"
    BY <1>p, <1>7 DEF MarkOccurrenceFailed, Return, NoTask, HistoryInv, ClaimInv, TypeOK, OccurrenceRow
  <2>2. run[o] = "none"
    BY <1>p, <1>7 DEF MarkOccurrenceFailed, HistoryInv, MemoryIsSound
  <2> QED
    BY <1>1, <1>2, <2>1, <2>2, HistoryWork
<1>8. CASE SyncOccurrenceWithRun(p) /\ occ[o].status # "absent"
  <2>1. /\ UNCHANGED <<now, run, driver, loop>>
        /\ \A q \in Procs \ {p} : task'[q] = task[q]
        /\ task'[p].pc = "none"
        /\ \A x \in Occurrences \ {o} : occ'[x] = occ[x]
        /\ occ'[o].status = task[p].seen
    BY <1>p, <1>8 DEF SyncOccurrenceWithRun, OccurrenceStatusFromRun, db, Return, NoTask, HistoryInv,
       ClaimInv, TypeOK, OccurrenceRow
  <2>2. task[p].seen \in RunStatus \ {"none"} /\ (task[p].seen \in TerminalStatus => run[o] = task[p].seen)
    BY <1>p, <1>8, TaskInHand DEF SyncOccurrenceWithRun, HistoryInv, MemoryIsSound, ClaimInv
  <2>3. run[o] \in {"active", "needs_approval"} => Unsettled(o)'
    BY <2>1, <2>2 DEF Unsettled, IsOpen, OpenStatus, RunStatus, TerminalStatus
  <2> QED
    BY <1>1, <1>2, <2>1, <2>2, <2>3, HistoryWork DEF TerminalStatus
<1> QED
  BY <1>p, <1>3, <1>4, <1>5, <1>6, <1>7, <1>8
  DEF TaskStep, MarkOccurrenceFailed, SyncOccurrenceWithRun, db

(* The list a pass begins with says of each row what the table says.       *)
LEMMA ListedRows ==
    ASSUME TypeOK, NEW booting, StartReconcile(booting)
    PROVE  /\ \A r \in loop'.todo : IsOpen(r.occ) /\ r.created = occ[r.occ].created
           /\ loop'.now = now /\ loop'.phase = "reconcile"
<1>1. /\ loop'.todo = OpenOccurrences
      /\ loop'.now = now /\ loop'.phase = "reconcile"
  BY DEF StartReconcile, TypeOK, LoopState
<1>2. \A r \in OpenOccurrences : IsOpen(r.occ) /\ r.created = occ[r.occ].created
  BY DEF OpenOccurrences, Listed
<1> QED
  BY <1>1, <1>2

LEMMA HistoryStops ==
    ASSUME HistoryInv, ClaimInv', TypeOK', CliClients = {}, StopDaemon, UNCHANGED <<now, run, occ>>
    PROVE  HistoryInv'
<1>1. \A q \in Procs : task'[q].pc = "none"
  BY DEF StopDaemon, NoTask
<1>2. \A x \in Occurrences : driver'[x] = NoProc
  BY DEF StopDaemon, HistoryInv, RunsAreDriven
<1>3. RunsAreDriven'
  BY <1>1, <1>2 DEF RunsAreDriven
<1>4. loop'.now = 0 /\ loop'.todo = {} /\ now \in Nat
  BY ConstantsAssumption DEF StopDaemon, DownLoop, HistoryInv, ClaimInv, TypeOK
<1>5. LoopClock'
  BY <1>4 DEF LoopClock
<1> QED
  BY <1>1, <1>3, <1>4, <1>5, HistoryQuiet

LEMMA HistoryLoopStep ==
    ASSUME HistoryInv, ClaimInv', TypeOK', CliClients = {}, LoopStep
    PROVE  HistoryInv'
<1>1. /\ loop.now \in Nat /\ now \in Nat /\ loop.now <= now /\ Loop \in Procs
      /\ loop \in LoopState /\ Loop \notin Clients
  BY ConstantsAssumption DEF HistoryInv, ClaimInv, TypeOK, LoopState, LoopClock, Procs
<1>2. ASSUME UNCHANGED <<now, run, driver, occ, task>>, DaemonUp, loop'.phase # "down", loop'.now <= now,
             \A r \in loop'.todo :
                \/ r \in loop.todo
                \/ IsOpen(r.occ) /\ r.created = occ[r.occ].created
      PROVE  HistoryInv'
  <2>1. LoopClock' /\ RunsAreDriven'
    BY <1>2 DEF HistoryInv, LoopClock, RunsAreDriven, DaemonUp
  <2> QED
    BY <1>2, <2>1, HistoryQuiet
<1>3. CASE WakeUp
  <2>1. /\ \A r \in loop'.todo : IsOpen(r.occ) /\ r.created = occ[r.occ].created
        /\ loop'.now = now /\ loop'.phase = "reconcile"
    BY <1>3, ListedRows DEF WakeUp, HistoryInv, ClaimInv
  <2> QED
    BY <1>1, <1>2, <1>3, <2>1 DEF WakeUp, DaemonUp
<1>4. CASE ListMissingNextRun
  <2>1. loop'.todo = loop.todo /\ loop'.now = loop.now /\ loop'.phase = "repair" /\ DaemonUp
    BY <1>1, <1>4 DEF ListMissingNextRun, LoopState, DaemonUp
  <2> QED
    BY <1>1, <1>2, <1>4, <2>1 DEF ListMissingNextRun
<1>5. CASE ListDueSchedules
  <2>1. \/ loop' = SleepingLoop
        \/ loop'.todo = loop.todo /\ loop'.now = loop.now /\ loop'.phase = "claim"
    BY <1>1, <1>5 DEF ListDueSchedules, LoopState
  <2>2. loop' = SleepingLoop => loop'.todo = {} /\ loop'.now = 0 /\ loop'.phase = "sleep"
    BY DEF SleepingLoop, DownLoop
  <2>3. DaemonUp
    BY <1>5 DEF ListDueSchedules, DaemonUp
  <2> QED
    BY <1>1, <1>2, <1>5, <2>1, <2>2, <2>3 DEF ListDueSchedules
<1>6. CASE FinishRunOnce
  <2>1. loop'.todo = {} /\ loop'.now = 0 /\ loop'.phase = "sleep" /\ DaemonUp
    BY <1>6 DEF FinishRunOnce, SleepingLoop, DownLoop, DaemonUp
  <2> QED
    BY <1>1, <1>2, <1>6, <2>1 DEF FinishRunOnce
<1>7. ASSUME NEW r \in loop.todo, InspectOccurrence(r) PROVE HistoryInv'
  <2>1. CASE ReturnError(Loop)
    BY <1>7, <2>1, HistoryStops DEF InspectOccurrence, ReturnError
  <2>2. CASE ~ReturnError(Loop)
    <3>1. /\ loop'.todo \subseteq loop.todo /\ loop'.now = loop.now /\ loop'.phase = loop.phase
          /\ UNCHANGED <<now, run, driver, occ>> /\ DaemonUp
      BY <1>1, <1>7, <2>2 DEF InspectOccurrence, LoopState, DaemonUp
    <3>2. r \in Snapshot /\ r.occ \in Occurrences /\ r.created \in Nat
      BY <1>1 DEF LoopState, Snapshot
    <3>3. \A q \in Procs \ {Loop} : task'[q] = task[q]
      BY <1>1, <1>7, <2>2 DEF InspectOccurrence, Goto, HistoryInv, ClaimInv, TypeOK
    <3>4. \/ task'[Loop] = task[Loop] /\ task[Loop].pc = "none"
          \/ /\ task'[Loop].occ = r.occ
             /\ \/ /\ task'[Loop].pc \in {"sync", "acceptSync"} /\ task'[Loop].seen = run[r.occ]
                   /\ run[r.occ] # "none"
                \/ task'[Loop].pc = "fail" /\ run[r.occ] = "none" /\ PastGrace(r)
      BY <1>1, <1>7, <2>2 DEF InspectOccurrence, Goto, NoTask, HistoryInv, ClaimInv, TypeOK
    <3>5. CASE task'[Loop] = task[Loop]
      <4>1. \A q \in Procs : task'[q] = task[q]
        BY <3>3, <3>5
      <4>2. LoopClock' /\ RunsAreDriven'
        BY <1>1, <3>1, <4>1 DEF HistoryInv, LoopClock, RunsAreDriven, DaemonUp
      <4> QED
        BY <3>1, <4>1, <4>2, HistoryQuiet
    <3>6. CASE task'[Loop] # task[Loop]
      <4>1. \A q \in Procs \ {Loop} : task[q].pc = "dispatch" => task[q].occ # r.occ
        <5> SUFFICES ASSUME NEW q \in Procs \ {Loop}, task[q].pc = "dispatch", task[q].occ = r.occ
                     PROVE  FALSE
          OBVIOUS
        <5>1. run[r.occ] = "none" /\ PastGrace(r)
          BY <3>4, <3>6 DEF HistoryInv, ClaimInv, DispatchesOnce
        <5>2. q \in Clients /\ r.occ[2] \in Nat
          BY <3>2, SlotsAreNat DEF Procs, Occurrences
        <5>3. r.created = r.occ[2] /\ now <= r.occ[2] + Grace
          BY <5>2 DEF HistoryInv, ClaimsAreFresh
        <5>4. r.created + Grace < loop.now /\ Grace \in Nat
          BY <5>1, ConstantsAssumption DEF PastGrace
        <5> QED
          BY <1>1, <5>2, <5>3, <5>4
      <4>2. Unsettled(r.occ)' <=> Unsettled(r.occ)
        BY <3>1 DEF Unsettled, IsOpen
      <4> QED
        BY <1>1, <3>1, <3>2, <3>3, <3>4, <3>6, <4>1, <4>2, HistoryWork, HistoryFacts
    <3> QED
      BY <3>5, <3>6
  <2> QED
    BY <2>1, <2>2
<1>8. ASSUME NEW f \in loop.fix, RepairNextRun(f) PROVE HistoryInv'
  <2>1. loop'.todo = loop.todo /\ loop'.now = loop.now /\ loop'.phase = "repair" /\ DaemonUp
    BY <1>1, <1>8 DEF RepairNextRun, LoopState, DaemonUp
  <2> QED
    BY <1>1, <1>2, <1>8, <2>1 DEF RepairNextRun
<1>9. ASSUME NEW s \in Schedules, ClaimDueOccurrence(s) PROVE HistoryInv'
  <2>1. /\ loop'.todo = loop.todo /\ loop'.now = loop.now /\ loop'.phase = loop.phase
        /\ loop.phase = "claim" /\ DaemonUp
    BY <1>1, <1>9 DEF ClaimDueOccurrence, LoopState, DaemonUp
  <2>2. CASE UNCHANGED <<sched, occ, task>>
    BY <1>1, <1>2, <1>9, <2>1, <2>2 DEF ClaimDueOccurrence
  <2>3. CASE ~UNCHANGED <<sched, occ, task>>
    <3>1. /\ sched[s].exists = "yes" /\ sched[s].next # Null
          /\ InsertOccurrence(Loop, s, sched[s].next, loop.now)
      BY <1>9, <2>3 DEF ClaimDueOccurrence
    <3>2. sched[s].next \in Slots
      BY <3>1 DEF HistoryInv, ClaimInv, TypeOK, ScheduleRow
    <3>3. UNCHANGED <<now, run, driver>>
      BY <1>9 DEF ClaimDueOccurrence
    <3> QED
      BY <1>1, <2>1, <3>1, <3>2, <3>3, HistoryInsert
  <2> QED
    BY <2>2, <2>3
<1> QED
  BY <1>3, <1>4, <1>5, <1>6, <1>7, <1>8, <1>9 DEF LoopStep

LEMMA HistoryClientStep ==
    ASSUME HistoryInv, ClaimInv', TypeOK', CliClients = {}, NEW c \in Clients, ClientStep(c)
    PROVE  HistoryInv'
<1>1. c \in Procs /\ c \in WebClients
  BY DEF Procs, Clients
<1>2. ASSUME UNCHANGED <<now, run, driver, occ, loop>>, \A q \in Procs : q # c => task'[q] = task[q],
             \/ task'[c] = task[c]
             \/ task'[c].pc = "none"
             \/ task'[c].pc = "claim" /\ task'[c].occ[2] = now /\ DaemonUp
      PROVE  HistoryInv'
  <2>1. LoopClock' /\ RunsAreDriven'
    BY <1>2 DEF HistoryInv, LoopClock, RunsAreDriven, DaemonUp
  <2> QED
    BY <1>2, <2>1, HistoryQuiet
<1>3. CASE ClaimManualOccurrence(c)
  <2>p. PICK s \in Schedules, slot \in Slots : task[c].occ = <<s, slot>>
    BY <1>1, <1>3, TaskInHand DEF ClaimManualOccurrence, HistoryInv, ClaimInv, Occurrences
  <2>1. DaemonUp
    BY <1>1, <1>3 DEF ClaimManualOccurrence, HistoryInv, RunsAreDriven
  <2>2. CASE sched[s].exists = "yes"
    <3>1. InsertOccurrence(c, s, slot, slot) /\ UNCHANGED <<now, run, driver, loop>>
      BY <1>3, <2>p, <2>2 DEF ClaimManualOccurrence
    <3>2. now <= slot + Grace
      BY <1>3, <2>p DEF ClaimManualOccurrence, HistoryInv, ClaimsAreFresh
    <3> QED
      BY <1>1, <2>1, <2>2, <3>1, <3>2, HistoryInsert
  <2>3. CASE sched[s].exists # "yes"
    <3>1. Return(c) /\ UNCHANGED <<now, run, driver, occ, loop>>
      BY <1>3, <2>p, <2>3 DEF ClaimManualOccurrence
    <3> QED
      BY <1>1, <1>2, <3>1 DEF Return, NoTask, HistoryInv, ClaimInv, TypeOK
  <2> QED
    BY <2>2, <2>3
<1>4. CASE WriteEdit(c)
  BY <1>2, <1>4 DEF WriteEdit
<1>5. CASE ClientAborts(c)
  BY <1>1, <1>2, <1>5 DEF ClientAborts, NoTask, HistoryInv, ClaimInv, TypeOK
<1>6. ASSUME NEW s \in Schedules, RunNow(c, s) PROVE HistoryInv'
  <2>1. DaemonUp
    BY <1>1, <1>6 DEF RunNow, Reachable, Serving
  <2>2. task'[c].pc = "claim" /\ task'[c].occ[2] = now /\ \A q \in Procs : q # c => task'[q] = task[q]
    BY <1>1, <1>6 DEF RunNow, Goto, HistoryInv, ClaimInv, TypeOK
  <2> QED
    BY <1>2, <1>6, <2>1, <2>2 DEF RunNow
<1>7. ASSUME NEW e, BeginEdit(c, e) PROVE HistoryInv'
  BY <1>2, <1>7 DEF BeginEdit
<1> QED
  BY <1>3, <1>4, <1>5, <1>6, <1>7 DEF ClientStep, LoadForSetEnabled, LoadForUpdate

LEMMA HistoryEnvironmentStep ==
    ASSUME HistoryInv, ClaimInv', TypeOK', CliClients = {}, PromptDispatch, EnvironmentStep
    PROVE  HistoryInv'
<1>1. loop.now \in Nat /\ now \in Nat /\ loop.now <= now /\ Grace \in Nat
  BY ConstantsAssumption DEF HistoryInv, ClaimInv, TypeOK, LoopState, LoopClock
<1>2. CASE Tick
  <2>1. \A c \in Clients : task[c].pc \in {"claim", "dispatch"} => now + 1 <= task[c].occ[2] + Grace
    <3>1. ASSUME NEW c \in Clients, task[c].pc \in {"claim", "dispatch"}
          PROVE  now + 1 <= task[c].occ[2] + Grace
      <4>1. now < task[c].occ[2] + Grace
        BY <1>2, <3>1 DEF Tick, DispatchInTime
      <4>2. task[c].occ[2] \in Nat
        BY <3>1, TaskInHand, SlotsAreNat DEF Procs, Occurrences, HistoryInv, ClaimInv
      <4> QED
        BY <1>1, <4>1, <4>2
    <3> QED
      BY <3>1
  <2>2. LoopClock' /\ RunsAreDriven'
    BY <1>1, <1>2 DEF Tick, HistoryInv, LoopClock, RunsAreDriven, DaemonUp
  <2>3. \A x : (Unsettled(x)' <=> Unsettled(x)) /\ (IsOpen(x)' <=> IsOpen(x))
    BY <1>2 DEF Tick, Unsettled, IsOpen
  <2>4. MemoryIsSound' /\ HistoryIsTrue'
    BY <1>2, <2>3 DEF Tick, HistoryInv, MemoryIsSound, HistoryIsTrue, OutcomeIsTheRuns, InFlightIsOpen
  <2>5. ClaimsAreFresh'
    BY <1>2, <2>1, <2>3 DEF Tick, HistoryInv, ClaimsAreFresh
  <2> QED
    BY <2>2, <2>4, <2>5 DEF HistoryInv
<1>3. CASE DaemonStops
  BY <1>3, HistoryStops DEF DaemonStops
<1>4. ASSUME NEW s \in Schedules, DeleteSchedule(s) PROVE HistoryInv'
  <2>1. \A o \in Occurrences : occ'[o] = occ[o] \/ occ'[o].status = "absent"
    BY <1>4 DEF DeleteSchedule, NoOccurrence
  <2>2. LoopClock' /\ RunsAreDriven'
    BY <1>4 DEF DeleteSchedule, HistoryInv, LoopClock, RunsAreDriven, DaemonUp
  <2> QED
    BY <1>4, <2>1, <2>2, HistoryQuiet DEF DeleteSchedule
<1>5. ASSUME NEW s \in Schedules, NEW spec \in Specs, NEW b \in BOOLEAN, CreateSchedule(s, spec, b)
      PROVE  HistoryInv'
  <2>1. LoopClock' /\ RunsAreDriven'
    BY <1>5 DEF CreateSchedule, HistoryInv, LoopClock, RunsAreDriven, DaemonUp
  <2> QED
    BY <1>5, <2>1, HistoryQuiet DEF CreateSchedule
<1>6. ASSUME NEW o \in Occurrences, NEW b \in BOOLEAN, ResolveApproval(o, b) PROVE HistoryInv'
  <2>1. \A x \in Occurrences : run'[x] = run[x] \/ run[x] \in {"active", "needs_approval"}
    BY <1>6 DEF ResolveApproval, HistoryInv, ClaimInv, TypeOK
  <2>2. driver[o] = NoProc
    BY <1>6 DEF ResolveApproval, HistoryInv, RunsAreDriven
  <2>3. \A x \in Occurrences : driver'[x] # NoProc =>
           \/ driver'[x] = driver[x] /\ run'[x] = run[x]
           \/ driver'[x] = Loop /\ run'[x] = "active"
    BY <1>6, <2>2 DEF ResolveApproval, HistoryInv, ClaimInv, TypeOK
  <2>4. LoopClock' /\ RunsAreDriven'
    BY <1>6, <2>3 DEF ResolveApproval, Serving, HistoryInv, LoopClock, RunsAreDriven, DaemonUp
  <2> QED
    BY <1>6, <2>1, <2>4, HistoryRuns DEF ResolveApproval
<1>7. ASSUME NEW o \in Occurrences, NEW st \in Outcomes \cup {x \in {run[o]} : Faults},
             RunLoopReturns(o, st)
      PROVE  HistoryInv'
  <2>1. \A x \in Occurrences : run'[x] = run[x] \/ run[x] \in {"active", "needs_approval"}
    BY <1>7 DEF RunLoopReturns, HistoryInv, RunsAreDriven, ClaimInv, TypeOK
  <2>2. \A x \in Occurrences : driver'[x] # NoProc => driver'[x] = driver[x] /\ run'[x] = run[x]
    BY <1>7 DEF RunLoopReturns, HistoryInv, ClaimInv, TypeOK
  <2>3. LoopClock' /\ RunsAreDriven'
    BY <1>7, <2>2 DEF RunLoopReturns, HistoryInv, LoopClock, RunsAreDriven, DaemonUp
  <2> QED
    BY <1>7, <2>1, <2>3, HistoryRuns DEF RunLoopReturns
<1> QED
  BY <1>2, <1>3, <1>4, <1>5, <1>6, <1>7 DEF EnvironmentStep

LEMMA InitHistoryInv == Init => HistoryInv
<1> SUFFICES ASSUME Init PROVE HistoryInv
  OBVIOUS
<1>1. /\ \A o \in Occurrences : occ[o].status = "absent" /\ run[o] = "none" /\ driver[o] = NoProc
      /\ \A p \in Procs : task[p].pc = "none"
      /\ loop.now = 0 /\ now = 1
  BY DEF Init, NoOccurrence, NoTask, DownLoop
<1>2. LoopClock /\ RunsAreDriven /\ MemoryIsSound
  BY <1>1 DEF LoopClock, RunsAreDriven, MemoryIsSound
<1>3. ClaimsAreFresh
  BY <1>1 DEF ClaimsAreFresh, Procs
<1>4. HistoryIsTrue
  BY <1>1 DEF HistoryIsTrue, OutcomeIsTheRuns, InFlightIsOpen
<1> QED
  BY <1>2, <1>3, <1>4, InitClaimInv DEF HistoryInv

LEMMA NextHistoryInv ==
    ASSUME CliClients = {}, PromptDispatch, HistoryInv, [Next]_vars
    PROVE  HistoryInv'
<1>1. ClaimInv' /\ TypeOK'
  BY NextClaimInv DEF HistoryInv, ClaimInv
<1>2. CASE StartDaemon
  <2>1. /\ \A r \in loop'.todo : IsOpen(r.occ) /\ r.created = occ[r.occ].created
        /\ loop'.now = now /\ loop'.phase = "reconcile"
    BY <1>2, ListedRows DEF StartDaemon, HistoryInv, ClaimInv
  <2>2. \A x \in Occurrences : run'[x] = run[x] \/ run[x] \in {"active", "needs_approval"}
    BY <1>2 DEF StartDaemon
  <2>3. \A x \in Occurrences : driver'[x] = NoProc
    BY <1>2 DEF StartDaemon, HistoryInv, RunsAreDriven, DaemonUp
  <2>4. now \in Nat
    BY ConstantsAssumption DEF HistoryInv, ClaimInv, TypeOK
  <2>5. LoopClock' /\ RunsAreDriven'
    BY <1>2, <2>1, <2>3, <2>4 DEF StartDaemon, LoopClock, RunsAreDriven, DaemonUp
  <2> QED
    BY <1>1, <1>2, <2>1, <2>2, <2>5, HistoryRuns DEF StartDaemon
<1>3. CASE UNCHANGED vars
  <2>1. LoopClock' /\ RunsAreDriven'
    BY <1>3 DEF vars, HistoryInv, LoopClock, RunsAreDriven, DaemonUp
  <2> QED
    BY <1>1, <1>3, <2>1, HistoryQuiet DEF vars
<1> QED
  BY <1>1, <1>2, <1>3, HistoryTaskStep, HistoryLoopStep, HistoryClientStep, HistoryEnvironmentStep
  DEF Next

(* Without CLI processes, and with handlers that dispatch within the grace *)
(* period, a schedule's history is true: an outcome it shows is the run's, *)
(* and while a run is in flight its occurrence is open, for any number of  *)
(* handlers, crashes, failed dispatches and deletions.                     *)
THEOREM HistoriesAreTrue ==
    ASSUME CliClients = {}, PromptDispatch
    PROVE  Spec => []HistoryIsTrue
<1>1. HistoryInv /\ [Next]_vars => HistoryInv'
  BY NextHistoryInv
<1>2. HistoryInv => HistoryIsTrue
  BY DEF HistoryInv
<1> QED
  BY <1>1, <1>2, InitHistoryInv, PTL DEF Spec
=============================================================================

------------------------------ MODULE Scheduler ------------------------------
(***************************************************************************)
(* The scheduled-task service (internal/scheduler): one service loop in    *)
(* the daemon, web handlers of the daemon and CLI processes share the      *)
(* SQLite tables schedules, schedule_occurrences, inbound_receipts and     *)
(* runs.  One action is one transaction or one statement: the store opens  *)
(* a single connection, so everything between two statements interleaves.  *)
(*                                                                         *)
(* Data abstracted: an occurrence is named by its schedule and its slot    *)
(* (the unique index on these columns makes that a name); a schedule's     *)
(* recurrence is the set of its slots (module ScheduleTime shows that this *)
(* is what ComputeNextRun computes); the receipt and the run it points at  *)
(* are written by one transaction, so run[o] # "none" is the receipt.      *)
(***************************************************************************)
EXTENDS Naturals, FiniteSets

CONSTANTS
    Schedules,       \* schedule ids, naturals so that they are ordered
    WebClients,      \* handlers of the daemon's web server
    CliClients,      \* `gistclaw schedule ...` processes
    Loop,            \* the goroutine in Service.Start
    NoProc,          \* nobody executes the run
    Specs,           \* the recurrences in use, each a set of slots
    Ops,             \* which client operations the environment may issue
    Faults,          \* TRUE: dispatches and run loops may return errors
    PromptDispatch,  \* TRUE: a dispatch commits within the grace period
    Grace,           \* dispatchGracePeriod, in ticks
    DueLimit,        \* dueLimit, the schedules claimed by one RunOnce
    Outcomes,        \* bound: the statuses in which runs pause or end
    MaxNow,          \* bound: the clock stops here
    MaxStops         \* bound: how often the daemon stops

Clients == WebClients \cup CliClients
Procs == {Loop} \cup Clients
ClientOps == {"runNow", "setEnabled", "update", "delete"}

Null == 0            \* next_run_at IS NULL
Slots == (UNION Specs) \cup (1 .. MaxNow)
Occurrences == Schedules \X Slots

OpenStatus == {"dispatching", "active", "needs_approval"}
TerminalStatus == {"completed", "failed", "interrupted"}
OccurrenceStatus == OpenStatus \cup TerminalStatus \cup {"absent", "skipped"}
RunStatus == {"none", "active", "needs_approval"} \cup TerminalStatus

ASSUME ConstantsAssumption ==
    /\ Schedules \subseteq Nat
    /\ Specs # {} /\ Specs \subseteq SUBSET (Nat \ {0})
    /\ Loop \notin Clients /\ NoProc \notin Procs
    /\ WebClients \cap CliClients = {}
    /\ Ops \subseteq ClientOps /\ Outcomes \subseteq {"needs_approval"} \cup TerminalStatus
    /\ {Faults, PromptDispatch} \subseteq BOOLEAN
    /\ {Grace, DueLimit, MaxStops} \subseteq Nat /\ MaxNow \in Nat \ {0}

NoOccurrence == [status |-> "absent", linked |-> FALSE, created |-> 0]
NoTask == [pc |-> "none"]
Task == {NoTask} \cup
        [pc: {"claim", "dispatch", "recover", "accept", "fail"}, occ: Occurrences, seen: {"none"}]
        \cup [pc: {"acceptSync", "sync"}, occ: Occurrences, seen: RunStatus \ {"none"}]
NoEdit == [op |-> "none"]
Edit == {NoEdit} \cup
        [op: {"setEnabled"}, s: Schedules, enabled: BOOLEAN, next: Slots \cup {Null}]
        \cup [op: {"update"}, s: Schedules, spec: Specs, next: Slots \cup {Null}]
ScheduleRow == [exists: {"no", "yes", "deleted"}, enabled: BOOLEAN, spec: Specs,
                next: Slots \cup {Null}, lastStatus: OccurrenceStatus, failures: Nat]
OccurrenceRow == [status: OccurrenceStatus, linked: BOOLEAN, created: Nat]
Snapshot == [occ: Occurrences, status: OpenStatus, linked: BOOLEAN, created: Nat]
LoopState == [phase: {"down", "sleep", "reconcile", "repair", "claim"},
              booting: BOOLEAN, now: Nat, todo: SUBSET Snapshot,
              fix: SUBSET (Schedules \X Specs), due: SUBSET Schedules]

VARIABLES
    now,      \* the clock
    stops,    \* how often the daemon stopped
    sched,    \* table schedules
    occ,      \* table schedule_occurrences
    run,      \* status of the run an occurrence's receipt points at
    driver,   \* the process whose goroutine executes that run
    loop,     \* locals of Service.Start and RunOnce
    task,     \* the occurrence a process is dispatching or syncing
    edit      \* a schedule edit between its SELECT and its UPDATE

db == <<sched, occ>>
vars == <<now, stops, sched, occ, run, driver, loop, task, edit>>

DownLoop == [phase |-> "down", booting |-> FALSE, now |-> 0,
             todo |-> {}, fix |-> {}, due |-> {}]
SleepingLoop == [DownLoop EXCEPT !.phase = "sleep"]

Init ==
    /\ now = 1 /\ stops = 0
    /\ \E spec \in Specs :
          sched = [s \in Schedules |->
                     [exists |-> "no", enabled |-> FALSE, spec |-> spec, next |-> Null,
                      lastStatus |-> "absent", failures |-> 0]]
    /\ occ = [o \in Occurrences |-> NoOccurrence]
    /\ run = [o \in Occurrences |-> "none"]
    /\ driver = [o \in Occurrences |-> NoProc]
    /\ loop = DownLoop
    /\ task = [p \in Procs |-> NoTask]
    /\ edit = [c \in Clients |-> NoEdit]

-----------------------------------------------------------------------------
(* ComputeNextRun: the first slot at or after t, zero when there is none.  *)
NextSlot(spec, t) ==
    LET later == {n \in spec : n >= t}
    IN  IF later = {} THEN Null ELSE CHOOSE n \in later : \A m \in later : n <= m

IsOpen(o) == occ[o].status \in OpenStatus
(* Mutant: an occurrence waiting to be accepted does not count.            *)
HasPreviousAccepted(s, slot) ==
    \E t \in Slots : t < slot /\ occ[<<s, t>>].status \in {"active", "needs_approval"}
HasPreviousActive(s, slot) == \E t \in Slots : t < slot /\ IsOpen(<<s, t>>)
DaemonUp == loop.phase # "down"
Serving == DaemonUp /\ ~loop.booting
Reachable(c) == c \in WebClients => Serving
Idle(c) == task[c] = NoTask /\ edit[c] = NoEdit

(* Everything the daemon holds in memory is gone; the tables stay.         *)
StopDaemon ==
    /\ stops' = stops + 1
    /\ loop' = DownLoop
    /\ task' = [p \in Procs |-> IF p \in CliClients THEN task[p] ELSE NoTask]
    /\ edit' = [c \in Clients |-> IF c \in CliClients THEN edit[c] ELSE NoEdit]
    /\ driver' = [o \in Occurrences |-> IF driver[o] = Loop THEN NoProc ELSE driver[o]]

(* An error return: the loop's ends Service.Start and with it the daemon   *)
(* (lifecycle.go cancels every service); a client's ends its request.      *)
ReturnError(p) ==
    IF p = Loop THEN StopDaemon
    ELSE /\ task' = [task EXCEPT ![p] = NoTask]
         /\ UNCHANGED <<stops, loop, edit, driver>>

Goto(p, pc, o, seen) == task' = [task EXCEPT ![p] = [pc |-> pc, occ |-> o, seen |-> seen]]
Return(p) == task' = [task EXCEPT ![p] = NoTask]

-----------------------------------------------------------------------------
(* The claim transactions                                                  *)

InsertedRow(s, slot, created) ==
    [status |-> IF HasPreviousActive(s, slot) THEN "skipped" ELSE "dispatching",
     linked |-> FALSE, created |-> created]

(* Mutants: the unique index is missing; a skipped row is dispatched.      *)
InsertOccurrenceAgain(p, s, slot, created) ==
    LET row == InsertedRow(s, slot, created)
    IN  /\ occ' = [occ EXCEPT ![<<s, slot>>] = row]
        /\ IF row.status = "dispatching" THEN Goto(p, "dispatch", <<s, slot>>, "none") ELSE Return(p)

InsertOccurrenceSkippedToo(p, s, slot, created) ==
    IF occ[<<s, slot>>].status # "absent" THEN Return(p) /\ UNCHANGED occ
    ELSE /\ occ' = [occ EXCEPT ![<<s, slot>>] = InsertedRow(s, slot, created)]
         /\ Goto(p, "dispatch", <<s, slot>>, "none")

(* INSERT of the occurrence row and, for a dispatching one, the claim that *)
(* the caller goes on to dispatch.  An existing row (unique index) leaves  *)
(* both alone.                                                             *)
InsertOccurrence(p, s, slot, created) ==
    LET o == <<s, slot>>
        row == InsertedRow(s, slot, created)
    IN  IF occ[o].status # "absent" THEN Return(p) /\ UNCHANGED occ
        ELSE /\ occ' = [occ EXCEPT ![o] = row]
             /\ IF row.status = "dispatching" THEN Goto(p, "dispatch", o, "none")
                ELSE Return(p)

ClaimDueOccurrence(s) ==
    LET row == sched[s]
    IN  /\ loop.phase = "claim" /\ task[Loop] = NoTask /\ s \in loop.due
        /\ loop' = [loop EXCEPT !.due = @ \ {s}]
        /\ IF row.exists # "yes" \/ ~row.enabled \/ row.next = Null \/ row.next > loop.now
           THEN UNCHANGED <<sched, occ, task>>
           ELSE /\ sched' = [sched EXCEPT ![s].next = NextSlot(row.spec, loop.now + 1)]
                /\ InsertOccurrence(Loop, s, row.next, loop.now)
        /\ UNCHANGED <<now, stops, run, driver, edit>>

(* RunNow reads the clock, and claims that instant as a slot.              *)
RunNow(c, s) ==
    /\ "runNow" \in Ops /\ Reachable(c) /\ Idle(c) /\ sched[s].exists = "yes"
    /\ Goto(c, "claim", <<s, now>>, "none")
    /\ UNCHANGED <<now, stops, sched, occ, run, driver, loop, edit>>

ClaimManualOccurrence(c) ==
    LET o == task[c].occ
    IN  /\ task[c].pc = "claim"
        /\ IF sched[o[1]].exists = "yes" THEN InsertOccurrence(c, o[1], o[2], o[2])
           ELSE Return(c) /\ UNCHANGED occ
        /\ UNCHANGED <<now, stops, sched, run, driver, loop, edit>>

-----------------------------------------------------------------------------
(* dispatchClaimedOccurrence and the reconciler's updates                  *)

(* The process whose goroutine will execute the run: handlers and the loop *)
(* share the daemon's asyncCtx.                                            *)
Executor(p) == IF p \in CliClients THEN p ELSE Loop

(* DispatchScheduled commits the run and its receipt, or finds them.  It   *)
(* fails before that commit, or after it (finishRunStart): then nothing    *)
(* executes the run.                                                       *)
Dispatch(p) ==
    LET o == task[p].occ
        fresh == run[o] = "none"
    IN  /\ task[p].pc = "dispatch"
        /\ \/ /\ run' = [run EXCEPT ![o] = IF fresh THEN "active" ELSE @]
              /\ driver' = [driver EXCEPT ![o] = IF fresh THEN Executor(p) ELSE @]
              /\ Goto(p, "accept", o, "none")
           \/ /\ Faults
              /\ Goto(p, "recover", o, "none")
              /\ UNCHANGED <<run, driver>>
           \/ /\ Faults /\ fresh
              /\ run' = [run EXCEPT ![o] = "active"]
              /\ Goto(p, "recover", o, "none")
              /\ UNCHANGED driver
        /\ UNCHANGED <<now, stops, sched, occ, loop, edit>>

(* Mutant: a missing receipt is not noticed.                               *)
RecoverRunBlindly(p) ==
    /\ task[p].pc = "recover"
    /\ Goto(p, "acceptSync", task[p].occ, "active")
    /\ UNCHANGED <<now, stops, sched, occ, run, driver, loop, edit>>

(* RecoverRunFromReceipt after a failed dispatch                           *)
RecoverRun(p) ==
    LET o == task[p].occ
    IN  /\ task[p].pc = "recover"
        /\ IF run[o] = "none" THEN Goto(p, "fail", o, "none")
           ELSE Goto(p, "acceptSync", o, run[o])
        /\ UNCHANGED <<now, stops, sched, occ, run, driver, loop, edit>>

(* An UPDATE by id with no condition on the row's status.                  *)
MarkOccurrenceAccepted(p) ==
    LET o == task[p].occ
    IN  /\ task[p].pc \in {"accept", "acceptSync"}
        /\ occ' = IF occ[o].status = "absent" THEN occ
                  ELSE [occ EXCEPT ![o].linked = TRUE, ![o].status = "active"]
        /\ IF task[p].pc = "accept" THEN Return(p) ELSE Goto(p, "sync", o, task[p].seen)
        /\ UNCHANGED <<now, stops, sched, run, driver, loop, edit>>

FailureCount(row) == IF row.lastStatus = "failed" THEN row.failures + 1 ELSE 1

MarkOccurrenceFailed(p) ==
    LET o == task[p].occ
        s == o[1]
    IN  /\ task[p].pc = "fail"
        /\ IF occ[o].status = "absent" THEN ReturnError(p) /\ UNCHANGED db
           ELSE /\ occ' = [occ EXCEPT ![o].status = "failed"]
                /\ sched' = [sched EXCEPT ![s].lastStatus = "failed",
                                          ![s].failures = FailureCount(sched[s])]
                /\ Return(p)
                /\ UNCHANGED <<stops, loop, edit, driver>>
        /\ UNCHANGED <<now, run>>

(* Mutant: an interrupted occurrence counts as a failure.                  *)
SummaryCountsInterrupted(row, target) ==
    CASE target \in {"active", "needs_approval"} -> [row EXCEPT !.lastStatus = target]
      [] target = "completed" -> [row EXCEPT !.lastStatus = target, !.failures = 0]
      [] OTHER -> [row EXCEPT !.lastStatus = target, !.failures = FailureCount(row)]

(* The schedule's summary after an occurrence reaches the target status.   *)
Summary(row, target) ==
    CASE target = "active" -> row
      [] target = "needs_approval" -> [row EXCEPT !.lastStatus = target]
      [] target = "failed" -> [row EXCEPT !.lastStatus = target, !.failures = FailureCount(row)]
      [] OTHER -> [row EXCEPT !.lastStatus = target, !.failures = 0]

(* Mutant: whatever is over is recorded as completed.                      *)
OccurrenceStatusOrDone(status) == IF status \in TerminalStatus THEN "completed" ELSE status

(* occurrenceStatusFromRun: the names are the same.                        *)
OccurrenceStatusFromRun(status) == status

SyncOccurrenceWithRun(p) ==
    LET o == task[p].occ
        s == o[1]
        target == OccurrenceStatusFromRun(task[p].seen)
    IN  /\ task[p].pc = "sync"
        /\ IF occ[o].status = "absent" THEN ReturnError(p) /\ UNCHANGED db
           ELSE /\ IF occ[o].status = target THEN UNCHANGED db
                   ELSE /\ occ' = [occ EXCEPT ![o].status = target]
                        /\ sched' = [sched EXCEPT ![s] = Summary(@, target)]
                /\ Return(p)
                /\ UNCHANGED <<stops, loop, edit, driver>>
        /\ UNCHANGED <<now, run>>

-----------------------------------------------------------------------------
(* The service loop: Repair at startup, then RunOnce on every wake         *)

Listed(S) == {[occ |-> o, status |-> occ[o].status, linked |-> occ[o].linked,
               created |-> occ[o].created] : o \in S}

(* Mutants: skipped rows are listed, dispatching rows or others are not.   *)
OpenOrSkipped == Listed({o \in Occurrences : IsOpen(o) \/ occ[o].status = "skipped"})
OpenAndAccepted == Listed({o \in Occurrences : IsOpen(o) /\ occ[o].status # "dispatching"})
OpenAndDispatching == Listed({o \in Occurrences : occ[o].status = "dispatching"})

OpenOccurrences == Listed({o \in Occurrences : IsOpen(o)})

StartReconcile(booting) ==
    loop' = [loop EXCEPT !.phase = "reconcile", !.booting = booting, !.now = now,
                         !.todo = OpenOccurrences]

(* Prepare: ReconcileInterrupted marks every live run interrupted, then    *)
(* Repair begins.  Runs driven by a CLI process are marked as well.        *)
StartDaemon ==
    /\ loop.phase = "down"
    /\ run' = [o \in Occurrences |-> IF run[o] = "active" THEN "interrupted" ELSE run[o]]
    /\ StartReconcile(TRUE)
    /\ UNCHANGED <<now, stops, sched, occ, driver, task, edit>>

WakeUp ==
    /\ loop.phase = "sleep"
    /\ StartReconcile(FALSE)
    /\ UNCHANGED <<now, stops, sched, occ, run, driver, task, edit>>

PastGrace(r) == r.status = "dispatching" /\ r.created + Grace < loop.now

(* One iteration of reconcileOpenOccurrences up to its first write: the    *)
(* row is the one listed when the pass began, the run is read now.         *)
InspectOccurrence(r) ==
    LET o == r.occ
    IN  /\ loop.phase = "reconcile" /\ task[Loop] = NoTask /\ r \in loop.todo
        /\ \/ /\ r.linked /\ run[o] = "none"
              /\ ReturnError(Loop)
           \/ /\ ~(r.linked /\ run[o] = "none")
              /\ loop' = [loop EXCEPT !.todo = @ \ {r}]
              /\ CASE run[o] # "none" ->
                        Goto(Loop, IF r.linked THEN "sync" ELSE "acceptSync", o, run[o])
                   [] run[o] = "none" /\ PastGrace(r) -> Goto(Loop, "fail", o, "none")
                   [] OTHER -> UNCHANGED task
              /\ UNCHANGED <<stops, edit, driver>>
        /\ UNCHANGED <<now, sched, occ, run>>

(* The SELECT of RepairMissingNextRunAt                                    *)
ListMissingNextRun ==
    /\ loop.phase = "reconcile" /\ task[Loop] = NoTask /\ loop.todo = {}
    /\ loop' = [loop EXCEPT !.phase = "repair",
                  !.fix = {<<s, sched[s].spec>> : s \in {x \in Schedules :
                             sched[x].exists = "yes" /\ sched[x].enabled /\ sched[x].next = Null}}]
    /\ UNCHANGED <<now, stops, sched, occ, run, driver, task, edit>>

(* One UPDATE of RepairMissingNextRunAt, from the row as it was listed     *)
RepairNextRun(f) ==
    LET s == f[1]
    IN  /\ loop.phase = "repair" /\ f \in loop.fix
        /\ loop' = [loop EXCEPT !.fix = @ \ {f}]
        /\ sched' = IF sched[s].exists # "yes" THEN sched
                    ELSE [sched EXCEPT ![s].next = NextSlot(f[2], loop.now)]
        /\ UNCHANGED <<now, stops, occ, run, driver, task, edit>>

IsDue(s) == /\ sched[s].exists = "yes" /\ sched[s].enabled
            /\ sched[s].next # Null /\ sched[s].next <= loop.now
DueBefore(s, t) == \/ sched[s].next < sched[t].next
                   \/ sched[s].next = sched[t].next /\ s < t

(* Mutant: the limit is applied before the schedules that are due are      *)
(* selected.                                                               *)
ListFirstSchedules ==
    /\ loop.phase = "repair" /\ loop.fix = {}
    /\ loop' = IF loop.booting THEN SleepingLoop
               ELSE [loop EXCEPT !.phase = "claim",
                       !.due = {s \in Schedules : IsDue(s)
                                  /\ Cardinality({t \in Schedules : t < s}) < DueLimit}]
    /\ UNCHANGED <<now, stops, sched, occ, run, driver, task, edit>>

(* ListDueSchedules: the first DueLimit by next_run_at, then id.  At       *)
(* startup there is no claim phase: Repair returns and Start runs RunOnce. *)
ListDueSchedules ==
    /\ loop.phase = "repair" /\ loop.fix = {}
    /\ loop' = IF loop.booting THEN SleepingLoop
               ELSE [loop EXCEPT !.phase = "claim",
                       !.due = {s \in Schedules : /\ IsDue(s)
                                  /\ Cardinality({t \in Schedules : IsDue(t) /\ DueBefore(t, s)})
                                     < DueLimit}]
    /\ UNCHANGED <<now, stops, sched, occ, run, driver, task, edit>>

FinishRunOnce ==
    /\ loop.phase = "claim" /\ task[Loop] = NoTask /\ loop.due = {}
    /\ loop' = SleepingLoop
    /\ UNCHANGED <<now, stops, sched, occ, run, driver, task, edit>>

-----------------------------------------------------------------------------
(* Schedule edits, from the web handlers and the CLI                       *)

CreateSchedule(s, spec, enabled) ==
    /\ sched[s].exists = "no"
    /\ sched' = [sched EXCEPT ![s].exists = "yes", ![s].enabled = enabled, ![s].spec = spec,
                              ![s].next = IF enabled THEN NextSlot(spec, now) ELSE Null]
    /\ UNCHANGED <<now, stops, occ, run, driver, loop, task, edit>>

BeginEdit(c, e) ==
    /\ Reachable(c) /\ Idle(c) /\ sched[e.s].exists = "yes" /\ e.op \in Ops
    /\ edit' = [edit EXCEPT ![c] = e]
    /\ UNCHANGED <<now, stops, sched, occ, run, driver, loop, task>>

LoadForSetEnabled(c, s, enabled) ==
    BeginEdit(c, [op |-> "setEnabled", s |-> s, enabled |-> enabled,
                  next |-> IF enabled THEN NextSlot(sched[s].spec, now) ELSE Null])

(* A patch with a new recurrence recomputes next_run_at; any other patch   *)
(* (a name, an objective) writes back the value it loaded.                 *)
LoadForUpdate(c, s, spec) ==
    LET row == sched[s]
    IN  BeginEdit(c, [op |-> "update", s |-> s, spec |-> spec,
                      next |-> CASE spec = row.spec -> row.next
                                 [] spec # row.spec /\ row.enabled -> NextSlot(spec, now)
                                 [] OTHER -> Null])

WriteEdit(c) ==
    LET e == edit[c]
        row == sched[e.s]
    IN  /\ e # NoEdit
        /\ sched' = IF row.exists # "yes" THEN sched
                    ELSE IF e.op = "setEnabled"
                    THEN [sched EXCEPT ![e.s].enabled = e.enabled, ![e.s].next = e.next]
                    ELSE [sched EXCEPT ![e.s].spec = e.spec, ![e.s].next = e.next]
        /\ edit' = [edit EXCEPT ![c] = NoEdit]
        /\ UNCHANGED <<now, stops, occ, run, driver, loop, task>>

(* ON DELETE CASCADE takes the occurrences; receipts and runs stay.        *)
DeleteSchedule(s) ==
    /\ "delete" \in Ops /\ sched[s].exists = "yes"
    /\ sched' = [sched EXCEPT ![s].exists = "deleted", ![s].enabled = FALSE, ![s].next = Null]
    /\ occ' = [o \in Occurrences |-> IF o[1] = s THEN NoOccurrence ELSE occ[o]]
    /\ UNCHANGED <<now, stops, run, driver, loop, task, edit>>

(* A request whose context is cancelled, or a CLI process that is killed.  *)
ClientAborts(c) ==
    /\ ~Idle(c)
    /\ task' = [task EXCEPT ![c] = NoTask]
    /\ edit' = [edit EXCEPT ![c] = NoEdit]
    /\ UNCHANGED <<now, stops, sched, occ, run, driver, loop>>

(* runSchedule returns: the process ends, with the goroutines it started.  *)
CliExits(c) ==
    /\ Idle(c) /\ \E o \in Occurrences : driver[o] = c
    /\ driver' = [o \in Occurrences |-> IF driver[o] = c THEN NoProc ELSE driver[o]]
    /\ UNCHANGED <<now, stops, sched, occ, run, loop, task, edit>>

-----------------------------------------------------------------------------
(* The environment: the runs, the operator's decisions, time, crashes      *)

(* The goroutine executing a run ends: it pauses for an approval, reaches  *)
(* a terminal status (the projection overwrites whatever status the row    *)
(* has), or returns an error that leaves the status alone.                 *)
RunLoopReturns(o, status) ==
    /\ driver[o] # NoProc
    /\ run' = [run EXCEPT ![o] = status]
    /\ driver' = [driver EXCEPT ![o] = NoProc]
    /\ UNCHANGED <<now, stops, sched, occ, loop, task, edit>>

ResolveApproval(o, approved) ==
    /\ run[o] = "needs_approval" /\ Serving
    /\ run' = [run EXCEPT ![o] = IF approved THEN "active" ELSE "interrupted"]
    /\ driver' = [driver EXCEPT ![o] = IF approved THEN Loop ELSE @]
    /\ UNCHANGED <<now, stops, sched, occ, loop, task, edit>>

(* The loop needs no such bound: it does not reconcile while it dispatches. *)
DispatchInTime(c) ==
    task[c].pc \in {"claim", "dispatch"} => now < task[c].occ[2] + Grace

Tick ==
    /\ now < MaxNow
    /\ PromptDispatch => \A c \in Clients : DispatchInTime(c)
    /\ now' = now + 1
    /\ UNCHANGED <<stops, sched, occ, run, driver, loop, task, edit>>

DaemonStops ==
    /\ DaemonUp /\ stops < MaxStops
    /\ StopDaemon
    /\ UNCHANGED <<now, sched, occ, run>>

TaskStep(p) ==
    \/ Dispatch(p) \/ RecoverRun(p) \/ MarkOccurrenceAccepted(p)
    \/ MarkOccurrenceFailed(p) \/ SyncOccurrenceWithRun(p)

LoopStep ==
    \/ WakeUp \/ ListMissingNextRun \/ ListDueSchedules \/ FinishRunOnce
    \/ \E r \in loop.todo : InspectOccurrence(r)
    \/ \E f \in loop.fix : RepairNextRun(f)
    \/ \E s \in Schedules : ClaimDueOccurrence(s)

ClientStep(c) ==
    \/ ClaimManualOccurrence(c) \/ WriteEdit(c) \/ ClientAborts(c)
    \/ c \in CliClients /\ CliExits(c)
    \/ \E s \in Schedules :
          \/ RunNow(c, s)
          \/ \E b \in BOOLEAN : LoadForSetEnabled(c, s, b)
          \/ \E spec \in Specs : LoadForUpdate(c, s, spec)

EnvironmentStep ==
    \/ Tick \/ DaemonStops
    \/ \E s \in Schedules :
          DeleteSchedule(s) \/ \E spec \in Specs, b \in BOOLEAN : CreateSchedule(s, spec, b)
    \/ \E o \in Occurrences :
          \/ \E b \in BOOLEAN : ResolveApproval(o, b)
          \/ \E st \in Outcomes \cup {x \in {run[o]} : Faults} : RunLoopReturns(o, st)

Next ==
    \/ StartDaemon \/ LoopStep \/ EnvironmentStep
    \/ \E p \in Procs : TaskStep(p)
    \/ \E c \in Clients : ClientStep(c)

Spec == Init /\ [][Next]_vars

(* The daemon is restarted when it stops, its loop wakes up (the delay is  *)
(* at most wakeInterval), a request handler runs to its end and time goes  *)
(* on.  Nothing is assumed of runs, operators and clients' wishes.         *)
Fairness ==
    /\ WF_vars(StartDaemon) /\ WF_vars(LoopStep) /\ WF_vars(Tick)
    /\ \A p \in Procs : WF_vars(TaskStep(p))
    /\ \A c \in Clients : WF_vars(ClaimManualOccurrence(c))

FairSpec == Spec /\ Fairness

(* For questions about what an accepted run goes on to do: every goroutine *)
(* that executes a run returns, and a CLI process ends when it is done.    *)
RunsReturnSpec ==
    /\ FairSpec
    /\ \A o \in Occurrences :
          WF_vars(\E st \in Outcomes : RunLoopReturns(o, st))
    /\ \A c \in CliClients : WF_vars(CliExits(c))

-----------------------------------------------------------------------------
(* Properties                                                              *)

TypeOK ==
    /\ now \in 1 .. MaxNow /\ stops \in Nat
    /\ sched \in [Schedules -> ScheduleRow]
    /\ occ \in [Occurrences -> OccurrenceRow]
    /\ run \in [Occurrences -> RunStatus]
    /\ driver \in [Occurrences -> Procs \cup {NoProc}]
    /\ loop \in LoopState
    /\ task \in [Procs -> Task]
    /\ edit \in [Clients -> Edit]

(* A run is started once for an occurrence: when a process is about to     *)
(* dispatch, no run exists yet and no other process has the same           *)
(* occurrence in hand for dispatch, whatever was claimed again, reset,     *)
(* recovered or restarted in between.                                      *)
DispatchesOnce ==
    \A p \in Procs : task[p].pc = "dispatch" =>
        /\ run[task[p].occ] = "none"
        /\ \A q \in Procs \ {p} : task[q].pc = "dispatch" => task[q].occ # task[p].occ

(* The overlap policy's record is truthful: no run was ever started for an *)
(* occurrence that is recorded as skipped, and a row that links a run      *)
(* links one that exists.                                                  *)
RowsMatchReceipts ==
    \A o \in Occurrences :
        /\ occ[o].status = "skipped" => run[o] = "none"
        /\ occ[o].linked => run[o] # "none"

(* A schedule's history never invents an outcome: an occurrence recorded   *)
(* as completed or interrupted has a run with exactly that status, though  *)
(* the status was read before the transaction that writes it.              *)
OutcomeIsTheRuns ==
    \A o \in Occurrences :
        occ[o].status \in {"completed", "interrupted"} => run[o] = occ[o].status

(* While a run is in flight its occurrence is open (unless the schedule    *)
(* was deleted): the overlap check reads occurrences, not runs, so a       *)
(* closed occurrence would hide a running task from it, and the            *)
(* reconciler would never look at it again.                                *)
InFlightIsOpen ==
    \A o \in Occurrences :
        run[o] \in {"active", "needs_approval"} => IsOpen(o) \/ occ[o].status = "absent"

(* A schedule's history is true: an outcome it shows is the run's, and     *)
(* while a run is in flight its occurrence is open.                        *)
HistoryIsTrue == OutcomeIsTheRuns /\ InFlightIsOpen

(* The overlap policy: at most one occurrence of a schedule is open.       *)
AtMostOneOpen ==
    \A s \in Schedules : \A t, u \in Slots :
        IsOpen(<<s, t>>) /\ IsOpen(<<s, u>>) => t = u

(* consecutive_failures counts an occurrence once, however often it is     *)
(* reconciled: it never exceeds the failed occurrences there are.          *)
FailuresAreDistinct ==
    \A s \in Schedules : sched[s].exists = "yes" =>
        sched[s].failures <= Cardinality({t \in Slots : occ[<<s, t>>].status = "failed"})

(* The scheduler never stops the daemon by itself: every stop is one that  *)
(* the environment caused.                                                 *)
LoopSurvives == stops <= MaxStops

(* A slot is claimed once: a row that has left "dispatching" never comes   *)
(* back to it, through re-enabling, updating or repairing the schedule,    *)
(* and a skipped slot stays skipped.                                       *)
SlotsAreClaimedOnce ==
    [][\A o \in Occurrences :
          /\ occ'[o].status = "dispatching" => occ[o].status \in {"absent", "dispatching"}
          /\ occ[o].status = "skipped" => occ'[o].status \in {"skipped", "absent"}]_occ

(* Reconciliation catches up: when a run has ended, the occurrence comes   *)
(* to say how, across crashes, lost updates and half-done dispatches.      *)
OutcomeIsRecorded ==
    \A o \in Occurrences :
        (run[o] \in TerminalStatus /\ occ[o].status # "absent")
            ~> (occ[o].status \in {run[o], "absent"})

(* A claim is never left hanging: an occurrence leaves "dispatching", with *)
(* a run or as a failure, if the clock goes on past the grace period.      *)
ClaimsAreSettled ==
    \A o \in Occurrences :
        (occ[o].status = "dispatching" /\ occ[o].created + Grace < MaxNow)
            ~> (occ[o].status # "dispatching")

(* What an occurrence is open for comes to an end, and is recorded.         *)
OccurrencesSettle == ClaimsAreSettled /\ OutcomeIsRecorded

(* A due slot of an enabled schedule is recorded or the schedule moves on  *)
(* past it, also when more schedules are due than one pass may claim.      *)
DueSlotsAreTaken ==
    \A s \in Schedules : \A t \in 1 .. MaxNow :
        (sched[s].enabled /\ sched[s].next = t /\ t <= now)
            ~> (sched[s].next # t)

(* `gistclaw schedule run` runs the task: a run that was started for an    *)
(* occurrence does not stay active for ever.                               *)
StartedRunsEnd ==
    \A o \in Occurrences : run[o] = "active" ~> run[o] # "active"

(* Each slot keeps the promise of ScheduledTask: it is skipped or claimed, *)
(* started at most once and only while open, and what is closed stays so.  *)
PhaseOf(o) ==
    CASE occ[o].status = "absent" -> IF sched[o[1]].exists = "deleted" THEN "gone" ELSE "none"
      [] occ[o].status = "skipped" -> "skipped"
      [] IsOpen(o) -> "open"
      [] OTHER -> "closed"

Promise == INSTANCE ScheduledTask WITH
    Tasks <- Occurrences, phase <- [o \in Occurrences |-> PhaseOf(o)],
    started <- {o \in Occurrences : run[o] # "none"}

ImplementsScheduledTask == Promise!Spec

-----------------------------------------------------------------------------
(* The inductive invariants that SchedulerProofs establishes               *)

Handled(o) ==
    \/ \E p \in Procs : task[p].pc \notin {"none", "claim"} /\ task[p].occ = o
    \/ \E r \in loop.todo : r.occ = o

(* A slot that nobody has claimed, or that was skipped, has no run and     *)
(* nobody works on it.                                                     *)
UnclaimedIsUntouched ==
    \A o \in Occurrences :
        (\/ occ[o].status = "skipped"
         \/ occ[o].status = "absent" /\ sched[o[1]].exists # "deleted")
        => run[o] = "none" /\ ~Handled(o)

(* Whoever believes that an occurrence has a run is right: the row, a row  *)
(* the loop has listed, a process about to accept it, a goroutine.         *)
RunsAreThere ==
    /\ \A o \in Occurrences : occ[o].linked \/ driver[o] # NoProc => run[o] # "none"
    /\ \A r \in loop.todo : r.linked => run[r.occ] # "none"
    /\ \A p \in Procs : task[p].pc \in {"accept", "acceptSync", "sync"} =>
                           run[task[p].occ] # "none"

ClaimInv == TypeOK /\ UnclaimedIsUntouched /\ RunsAreThere /\ DispatchesOnce

(* The loop's instant is not ahead of the clock.                           *)
LoopClock == loop.now <= now

(* Where the loop is the only client: a slot is claimed no earlier than it *)
(* is due, and next_run_at never moves back behind a claimed slot.         *)
SlotsAreBehind ==
    /\ \A s \in Schedules : sched[s].exists = "no" => sched[s].failures = 0
    /\ \A o \in Occurrences : occ[o].status # "absent" =>
          /\ sched[o[1]].exists = "yes" /\ o[2] <= now
          /\ loop.phase \in {"reconcile", "repair", "claim"} => o[2] <= loop.now
          /\ sched[o[1]].next # Null => o[2] <= sched[o[1]].next

(* The loop works, one after the other, on rows that are open (or gone).   *)
Unsettled(o) == IsOpen(o) \/ occ[o].status = "absent"
WorkIsOpen ==
    /\ task[Loop].pc # "none" => /\ Unsettled(task[Loop].occ) /\ task[Loop].pc # "claim"
                                 /\ loop.phase \in {"reconcile", "claim"}
    /\ \A r \in loop.todo :
          /\ Unsettled(r.occ)
          /\ task[Loop].pc # "none" => r.occ # task[Loop].occ
          /\ \A q \in loop.todo : q.occ = r.occ => q = r

LoopInv == /\ ClaimInv /\ LoopClock /\ SlotsAreBehind /\ WorkIsOpen
           /\ AtMostOneOpen /\ FailuresAreDistinct

(* Where no CLI process is about: the goroutines that execute runs are the *)
(* daemon's, and a run that is not active has none.                        *)
RunsAreDriven ==
    /\ \A o \in Occurrences : driver[o] # NoProc => driver[o] = Loop /\ run[o] = "active" /\ DaemonUp
    /\ ~DaemonUp => \A p \in Procs : task[p].pc = "none"

(* What a process remembers of a run is still so, if it was final; a run   *)
(* that was found missing stays missing; whoever dispatches an occurrence  *)
(* is alone with it.                                                       *)
MemoryIsSound ==
    \A p \in Procs :
        /\ task[p].pc \in {"acceptSync", "sync"} /\ task[p].seen \in TerminalStatus =>
              run[task[p].occ] = task[p].seen
        /\ task[p].pc = "fail" => run[task[p].occ] = "none"
        /\ task[p].pc = "dispatch" =>
              /\ Unsettled(task[p].occ)
              /\ \A q \in Procs \ {p} : task[q].pc \in {"none", "claim"} \/ task[q].occ # task[p].occ

(* A handler's claim is younger than the grace period, in the row and in   *)
(* the loop's list of rows, until it is dispatched.                        *)
ClaimsAreFresh ==
    \A c \in Clients :
        /\ task[c].pc \in {"claim", "dispatch"} => now <= task[c].occ[2] + Grace
        /\ task[c].pc = "dispatch" =>
              /\ IsOpen(task[c].occ) => occ[task[c].occ].created = task[c].occ[2]
              /\ \A r \in loop.todo : r.occ = task[c].occ => r.created = r.occ[2]

HistoryInv ==
    ClaimInv /\ LoopClock /\ RunsAreDriven /\ MemoryIsSound /\ ClaimsAreFresh /\ HistoryIsTrue
=============================================================================

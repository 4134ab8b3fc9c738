# A verification development for gistclaw

gistclaw is a local-first runtime for a team of agents: one Go daemon, one
SQLite database, a web UI, a CLI and a few chat connectors.  This directory
holds TLA+ models of the parts of it whose correctness depends on order:
what happens when a handler, a loop, a crash or a second process gets between
two statements.  Models are checked on small instances with TLC; the facts
that matter most are proved for every instance with TLAPS.

All modules take their definitions from the Go and SQL sources; `PROJECT.json`
names, for each definition, the lines it stands for.

## The system

| component | where | state | operations | what makes it hard | what makes it correct |
|---|---|---|---|---|---|
| scheduler service | `internal/scheduler`, `internal/app/schedules.go`, `cmd/gistclaw/schedule.go` | tables `schedules`, `schedule_occurrences`; receipts and runs of the run engine; locals of the loop | create, enable, update, delete, run now; Repair, RunOnce (reconcile, repair `next_run_at`, claim due, dispatch) | handlers, CLI processes and the loop interleave between statements; crashes between claim, dispatch and acceptance; errors after a commit; a grace period | no second dispatch, truthful history, overlap policy, failure count, due slots taken, outcomes recorded |
| recurrences | `internal/scheduler/schedule.go`, `store.go` | `next_run_at` | ValidateSpec, ComputeNextRun, what stores it | 64-bit durations that saturate, boundaries, a clock reading that is a pass old | the earliest slot that is left |
| process lifecycle | `internal/app/lifecycle.go`, `bootstrap.go`, `cmd/gistclaw/main.go` | services, async context | Prepare, Start, Stop | an error in one service stops all; Prepare also runs in CLI commands | recovery leaves nothing running that nobody executes |
| run engine | `internal/runtime/runs.go` | journal `events`, projection `runs` | Start, executeRunLoop, Spawn, approvals, interruption, resumption of parents | two goroutines can execute one run; projection overwrites status; crash between steps | terminal runs stay terminal, one active root run per conversation, parents resume once |
| inbound messages, front sessions | `internal/runtime/collaboration.go`, `internal/conversations` | `conversations`, `inbound_receipts`, `session_messages` | ReceiveInboundMessage(Async), ResetConversation, SendSession | duplicated and concurrent deliveries; check, then act; a cancelled transport | one run per message, one root run and one front session per conversation, every update handled |
| approvals and gates | `internal/tools/approvals.go`, `internal/runtime/gates.go` | `approvals`, `conversation_gates` | CreateTicket, ResolveTicket, ExpireStaleApprovals, gate replies | decision races with expiry and with a second decision; crash between ticket and run | a decision is taken once and reaches the run |
| sessions and routes | `internal/sessions`, `internal/runtime/sessions.go`, `collaboration.go` | `sessions`, `session_bindings`, `session_messages` | bind, deactivate, send over a route, notes and announcements between agents, lists by page | a route is looked at, then used; a new binding ends the old one; rows move between two pages | one active route per thread, replies stay with their session, nothing skipped |
| outbound delivery | `internal/connectors/*/outbound.go`, `connectors/delivery` | `outbound_intents`, Telegram's drafts | queue, Notify, Drain, retry, redrive, FlushDrafts | drain and notify at once, crash after sending, an answer that is lost | every message delivered, given up or forgotten, repeated only when nobody could know |
| presence | `internal/runtime/presence` | map of typing controllers | start, keepalive, stop | timers against stops, loops that share a controller | nobody types without the manager's knowledge, indicators end |
| connector supervisor | `internal/app/connector_supervisor.go` | restart history, health snapshots | tick, restart, give up, persist | a Start that has not returned yet, a limit per hour | one Start at a time, bounded restarts, restarts happen |
| inbound connectors | `internal/connectors/telegram`, `whatsapp`, `zalopersonal` | offsets, health | poll, webhook, listen | confirmations, redeliveries, cancellation | each update handled |
| zalo protocol | `connectors/zalopersonal/protocol` | sockets, channels, retry counters | dial, read, reconnect, stop | reconnects race with Stop; buffers that drop | messages in order, honest health, no reader left over |
| zalo account | `connectors/zalopersonal`, `cmd/gistclaw` | stored credentials, inbox, upload callbacks | QR login, list and mark, send text, file and image | events before their callback, credentials that change midway | pieces in order and whole, one account, confirmed logins |
| email connector | `internal/connectors/email` | intents | Notify, Drain | as WhatsApp's | as WhatsApp's |
| journal store | `internal/store`, `internal/conversations` | SQLite | transactions, projections | indexes, cascades | atomic, unique |
| memory | `internal/memory`, `internal/runtime/runs.go` | `memory_items` | PromoteCandidate, UpdateFact, Edit, Forget, lists | a check and a write in two statements | an operator's edit stays |
| authentication | `internal/auth` | devices, sessions | login, authenticate, block, revoke, clean up | cleanups and blocks between a login's statements | a blocked device has no usable session |
| projects and teams | `internal/runtime/projects.go`, `team.go`, `team_profiles.go`, `internal/teams` | settings, team files | activate, select, create, copy, delete, save, load | several files, written one after the other, read beside it | a run gets a whole, saved team, and its children the same |
| model providers and turns | `internal/providers`, `internal/runtime/context.go` | records of turns and calls | assemble, generate, stream, resume | pauses in the middle of a turn, three wire formats | the model is told the journal, each call with its answer |
| program tools | `internal/tools/repo_exec.go`, `coder_exec.go` | process, pipes, capture file | start, copy, kill, report | two copiers, one buffer, a deadline | result, log and output agree |
| file tools | `internal/tools/repo_fs.go`, `path_guard.go`, `approval_binding.go` | run directory | read, search, write, move, delete | stat, then write; several runs share a directory | reads are exact, nothing lost without an approval |
| other tools | the rest of `internal/tools` | registry, policy | call | - | - |
| web pages of runs | `internal/web/routes_runs.go`, `internal/replay` | subscribers, cursors | event stream, work list, graph, node | subscribe against backfill, two queries | nothing missed or repeated, views show the tree |
| other web pages | `internal/web` | - | one operation of a service each | - | - |
| log stream | `internal/logstream` | window, subscribers | write, snapshot, follow | full channels, pauses | no line twice, none missing but those without room |
| capabilities, recommendations, maintenance | `internal/runtime/capabilities`, `runtime/recommendation`, `maintenance`, `security` | - | pure functions, reports, copies | - | - |

Components call each other as Go functions; what they share is the database.
The store opens one connection (`internal/store/db.go`), so statements and
transactions are serialized inside a process, and SQLite serializes writers of
different processes.  An action of a model is therefore one transaction or one
statement, and everything between two of them interleaves.  The scheduler hands
a claimed occurrence to the run engine through `DispatchScheduled`, which
commits the run and an inbound receipt in one transaction; the receipt is how
the scheduler finds the run again after an error or a crash.

`PROJECT.json` lists every component with its status and, under "hazards",
what is hard to test in this code, at its line.

## Modules

| module | what it is | composed by |
|---|---|---|
| `Scheduler` | the scheduler service: tables, loop, handlers, CLI processes, crashes | `MCScheduler` |
| `ScheduledTask` | what the scheduler promises for one slot | `MCScheduler` (refinement) |
| `Runs` | the run engine of one conversation: loops, tool calls, delegation, tickets and gates, resumption, the start-up sweep | `MCRuns` |
| `RunLife` | what the engine promises of the runs of a conversation, whoever executes them | `Runs` (refinement) |
| `Delivery` | outbound intents: drains, handlers, retries, redrives, resets | `MCConnectors` |
| `Outbox` | what delivery promises for a message | `Delivery` (refinement) |
| `Drafts` | Telegram's drafts of a streaming turn | `MCConnectors` |
| `Supervisor` | the connector supervisor and the health of connectors | `MCConnectors` |
| `ZaloSession` | the Zalo connector's loop, the listener's reader and its reconnects, the pump, the service | `MCConnectors` |
| `Presence` | the typing indicators of one route | `MCConnectors` |
| `Inbound` | the messages of one chat: poller or webhooks, web senders, conversation, front session, route, receipts, root runs | `MCConnectors` (polling, with fairness), `MCServices` (both transports) |
| `RunStream`, `LogTail` | a page that follows a run, a page that follows the log | `MCServices` |
| `Devices` | browsers, devices, sessions, logins, cleanups, operators | `MCServices` |
| `Memory` | the facts under one key beside runs and an operator | `MCServices` |
| `Sorted` | the ORDER BY of a query: a finite set as a sequence by rank; a sequence at some of its places (a filter) | `MCServices` |
| `Paging` | the five lists that are read page by page | `MCServices` |
| `RunViews` | cluster, graph and node of a run | `MCServices` |
| `Routes` | sessions, routes, mail and replies | `MCServices` |
| `Commands` | tools that start a program | `MCServices` |
| `RepoFiles` | tools on files and what approvals are bound to | `MCServices` |
| `Turns` | contexts, prompts, streams and records of a run's turns | `MCServices` |
| `ZaloAccount` | QR login, inbox, texts, uploads | `MCServices` |
| `Teams` | projects, profiles, team files and the team of a run | `MCServices` |
| `ScheduleTime` | ComputeNextRun beside the slots of a spec | `MCServices` |
| `SchedulerProofs`, `RunsProofs`, `TurnsProofs`, `TeamsProofs` | theorems about the module of that name | |
| `ConnectorProofs` | theorems about `Presence`, `Supervisor`, `ZaloSession`, `Delivery`, `Drafts` and `Inbound` | |
| `ServiceProofs` | theorems about `Devices`, `Memory`, `RepoFiles`, `ZaloAccount`, `ScheduleTime`, `RunStream`, `LogTail` and `Routes` | |
| `ToolsProofs` | theorems about `Commands`, `RepoFiles` and `ZaloAccount` | |
| `PagesProofs` | theorems about `Paging` and `RunViews` | |

`MCConnectors` and `MCServices` hold parts that share no variable: the first
state of a behaviour chooses a part, and only that part takes steps, with its
own fairness.  Checking them together costs the sum of their state spaces, not
the product, and one instance holds all bounds.  A property of one part is
then stated under `part = ...`, or is true of the resting state of the others.

Definitions that carry the comment "Mutant" are variants of an action with a
plausible slip in it (a guard dropped, an off-by-one).  No specification uses
them; `PROJECT.json` pairs each property with one that breaks it.

### Scheduler

State.  `sched` and `occ` are the two tables, `run[o]` the status of the run
that occurrence `o`'s receipt points at ("none": no receipt), `driver[o]` the
process whose goroutine executes that run.  `loop` holds the locals of
`Service.Start`/`RunOnce`: the clock reading of the pass and the three lists
it works through (`todo` for `reconcileOpenOccurrences`, `fix` for
`RepairMissingNextRunAt`, `due` for `ListDueSchedules`).  `task[p]` is the
occurrence process `p` is dispatching or syncing, with the run status it read;
`edit[c]` is an enable, disable or update between its SELECT and its UPDATE.

Actions.  Claims (`ClaimDueOccurrence`, `ClaimManualOccurrence`) are
transactions; `Dispatch` is `DispatchScheduled`, which may fail before or after
its commit; `RecoverRun`, `MarkOccurrenceAccepted`, `MarkOccurrenceFailed` and
`SyncOccurrenceWithRun` are the statements that follow.  `StartDaemon` is
`Prepare` (live runs become interrupted, then `Repair`); `WakeUp`,
`InspectOccurrence`, `ListMissingNextRun`, `RepairNextRun`, `ListDueSchedules`
and `FinishRunOnce` are one pass of the loop, list by list and row by row,
always from the rows as they were listed.  `DeleteSchedule` cascades.
`ReturnError` is an error return: of a handler, the end of its request; of the
loop, the end of the daemon, because `App.Start` cancels every service.

Abstractions.  An occurrence is named by schedule and slot, which the unique
index makes unique; ids are random.  A recurrence is the set of its slots.
The transaction that creates a run and its receipt is atomic
(`prepareInboundRun`), so one variable stands for both.  The run engine is the
environment: a goroutine may pause, end, or return an error and leave the run
as it is (`RunLoopReturns`).  One recurrence change, enable or disable is one
edit; patches of names and objectives are edits that write back the
`next_run_at` they read.

### Runs

State.  `run[r]` is a row of `runs`: status, parent, session.  `ticket[t]` is a
row of `approvals` with its row of `conversation_gates`, and counts how often
its tool ran.  `stack[g]` holds the calls of `executeRunLoop` that goroutine
`g` is in, innermost first: `Spawn` runs the child's loop inside the parent's
tool call, so a delegation pushes a frame.  A frame's `pc` names the next
transaction, `turn` and `calls` are the loop's counter and the tool calls left
of the turn, `seen` is the status a caller was handed.  `job[g]` is the ticket
`g` resolves, from `ResolveTicket` to the end of `finishApprovalResolution`.
`sweep` is Prepare's `ReconcileInterrupted`, one update at a time.

Actions.  `Journal(r, s, stored, lost)` is `AppendEvent` of an event that sets
a status: the projection overwrites whatever is there, and only the partial
unique index on live root runs can refuse it.  `StartCheck` and `StartInsert`
are the two halves of starting a root run.  A turn is one of `ToolTurn`,
`LastTurn`, `MoreTurns`, `EmptyTurn`, `BudgetStop`, `ProviderFails`,
`TurnLost`; a tool call one of `PlainCall`, `CreateTicket` (then
`RequestApproval`, `OpenGate`, `Paused`: three transactions and the return),
`Delegate` (then the child's whole loop and `RecordChild`).  `CheckParent`,
`ResumeParent` and `InterruptParent` are `resumeParentAfterChildTerminal`.
`Decide` reads the ticket as pending; `ResolveTicket`, `ResumeRun`,
`ResolveGate`, `InvokeApproved` and `JobInterrupt` are what follows, each a
transaction.  `Crash` ends every goroutine and starts Prepare:
`ReconcileInterrupted` row by row, then `ExpireStaleApprovals`.
`CliPrepares` is the same Prepare in a CLI process while the daemon works.

Abstractions.  Tokens, contexts, messages and memory decide only which outcome
a turn has, so an outcome is chosen.  "Last changed" among a session's runs is
any of them.  Denial and approval are the two decisions; who answered, and how
a chat reply was understood, is left out.

### Delivery, Outbox and Drafts

State.  `intent[i]` is a row of `outbound_intents`: status, attempts, owner;
`deliverer[p]` the list that `Drain` made, the intent in hand and the attempt;
`out`, `known` and `failed` are history: what went out, what its deliverer
knows of it, which rows have a `delivery_failed` event.  `kind` is the
connector, because the three dispatchers differ: Telegram's `Drain` scans
`run_id` into a string and fails on a reply without a run, Zalo's returns at
the first error and runs once per session, the others go on.

Actions.  `QueueOutboundIntent` and `Send` insert; `Drain`, `TakeNext`,
`Attempt`, `MarkDelivered`, `MarkRetrying`, `MarkTerminal` and
`AppendDeliveryFailed` are `Drain` and `deliverWithRetry` statement by
statement; the call to the service is `Attempt`, which may lose its answer.
`RetryDelivery` is the redrive, `ResetIntents` a conversation's reset,
`StopDelivery` a stop or a cancelled context.  `Drafts` has `recordDraft`
(under the lock, in the run's goroutine) beside `FlushDrafts`, which copies,
sends and marks.

### Inbound

State.  `conv` and `convs` are the conversation's row and its generations (a
reset deletes the row, the next message makes another), `front`, `routes`,
`receipts` and `run` the rows below it; `handler[h]` is where a goroutine is in
`ReceiveInboundMessage` and what it has read; `poll` and `service` are the two
sides of the transport.

Actions.  `Begin`, `CheckIdle`, `DeleteConversation` and `AnswerCommand` are
the control commands; `FindConversation`, `ResolvePendingGate`,
`AppendInboundGateMessage` and `DecideGate` the reply to a gate;
`ResolveConversation`, `LoadInboundReceiptRun`, `FindRoute`,
`FindFrontSession`, `PrepareRunStart`, `AppendInboundRun` (one transaction of
five events, whose unique indexes are `Appends`), `FinishRunStart` and `RunEnds`
a run's start and its loop.  `BeginSend`, `CreateRun` and
`AppendSessionMessage` are a message from the web, `DeactivateRoute` the
operator.  `GetUpdates` and `HandleUpdate` are Telegram's poll,
`HandleWebhook` a delivery by WhatsApp, again and beside itself until it is
acknowledged.  `ContextCancelled` cuts the handler's transport, `Restart` is a
stop with `Prepare`'s two sweeps.  A run is only started, waiting or over here.

### Supervisor, ZaloSession and Presence

`Supervisor`: `state[c]` is `supervisedConnector`, `live[c]` counts the calls of
`Start` that have not returned, `health[c]` is what a connector's health state
remembers, `starts` the stamps of the last hour.  Time is kept as ages up to
the largest duration anything is compared with.  `SupervisorTick` is one tick
of the loop, in its order: collect what returned, ask for restarts, start what
has cooled down, store the snapshots.  `StartReturns` is each kind's way to
return.

`ZaloSession`: three goroutines (`Connector.Start`'s loop, the listener's
`run`, the pump) and the service.  `listener`, `sockets`, `buffered`, `hand`,
`adapted` and `notices` are the two channels between them and who holds which
connection; `Dial` and `ConnectAssigns` are apart because `connect` writes the
client without the lock that `Stop` takes.  `HandleDisconnect` has the retry
counters and the rotation of endpoints.  `Cancel` ends the connector's context
while it serves or dispatches, and `SeeCancelled` is when the loop's `select` gets
to it; before a session the calls fail for it (`Start` returns), and so does the
sleep between two sessions.

`Presence`: the manager's entry for a route, each controller's flags and its
goroutine.  The manager's lock covers `StartPresence`, `StopPresence` and
`MarkOutput`; stopping the controller (`StopHeld`) and the call of the
connector are steps of their own.

### Devices and Memory

`Devices`: a login is `VerifyPassword`, `Login` (device and session in one
transaction), `CleanupSessions`, `CleanupDevices`; a request is `ReadSession`,
`TouchDevice` (and the session's touch); the operator's `BlockDevice`,
`UnblockDevice`, `RevokeDeviceSessions`, `SetPassword` and a `Logout` come in
between.  A device that was forgotten keeps its cookie in the browser.

`Memory`: a run that starts is `LookUp`, then `WriteFact` or `CheckSource` and
`UpdateFact`, then the journal; the operator's `Edit` and `Forget` name a row
of a page that may be old.

### RunStream, LogTail, Paging and RunViews

`RunStream`: a goroutine stamps an event, commits it, copies the subscribers
and sends; the page's request loads the run, subscribes, reads the journal
beyond its cursor and lives on its channel.  `LogTail` has the same shape for
the log, with the sink's window and a page that pauses.

`Paging` has the five lists with their filters, orders and cursors as they are
in the queries (`SessionBefore`, `RouteBefore`, `DeliveryBefore`, and the text
order of the work list and the facts), one row more than the page for the
link, and pages against the order turned round; rows are added, moved and
flagged as the code moves them (an activity, a retry, a dismissal).

`RunViews` is a tree of runs that are spawned, wait and end, and the pages that
are made of it: `ShowCluster` (`QueueStatus`, `BlockerOf`), the graph (`Nodes`,
`Branches`, `ActivePath`), and a node's record, which takes several queries.

### Routes

`bindings` are the rows of `session_bindings`, `work` the runs, `mail` the
messages and `intents` the replies on their way.  `BindRoute`, the two halves
of deactivating a route, `SendRoute` (looks at the route, then sends to its
session), `SendSession`, `StartFrontSession` in its statements, `Spawn`,
announcements and messages between sessions (`directSessionMessage`, also to
sessions whose runs have ended) and notes to a live run (`LookAtRun`) are the
calls; `Speak` and `PickRoute` are a run's message and, two statements later, the
route it goes out over.

### Commands, RepoFiles, Turns and ZaloAccount

`Commands`: one process, a copier per stream, one buffer and one sink; the
deadline kills the process alone, a child of it may keep the pipes.  Texts are
sequences of something visible and newlines, which is what lines, blanks and
flushes tell apart.

`RepoFiles`: a directory of two levels shared by two runs.  A call decides
(policy and, for a move or a deletion, the operator, whose ticket names the
resolved paths), looks, and changes, in as many steps as the code takes;
`ReadRange` is the arithmetic of `read_file`, a slice by capacity included, over
the lines that `readTextLines` finds: its scanner ends at a line over 64 KB, and
nobody asks it why.

`Turns`: the loop's own copy of the run's events (`context`), the request made
of them in the three wire formats (`PromptMessages`), the stream of the answer,
the records of its calls, pauses for approvals and children, and what a child
adds to its parent's record later (`SpawnMatch`).  What an answer says of its end
and the calls in it are independent: a length that is reached may come with
calls, and calls without a word of why.  A stream that is cut leaves the calls
gathered so far (`Gathered`), which are executed; the last may be cut in its
arguments, and then cannot be recorded after it was executed ("malformed"): the
loop returns with an error.

`ZaloAccount`: the QR login, an inbox put together of five requests, texts in
pieces with a session each, and uploads whose address is an event on the
listener's socket (`FileDone`, before or after `RegisterUploadCallback`), or which
nobody waits for (`UploadUnawaited`: the response had no number, or there is no
listener) and which then go out without one.

### Teams and ScheduleTime

`Teams`: rows of `projects`, the two settings, and per directory the files
`team.yaml` and `*.soul.yaml`, each written by truncation and then its
content.  A run that starts resolves the directory (two reads of the active
project), loads the spec, then each soul (`LoadSpec`, `LoadSoul`); a save
writes the spec, the souls, removes what is left over and reads it all back.
`torn` and `raced` are history: directories whose saves were cut off or
overlapped, and deletions beside other calls.  A team that cannot be loaded falls
back on the daemon's default team, which is what the last save read back: so
`torn` also holds `Machine` while that is of a save that was disturbed.
`IsTorn` is what a run's record says of its load: the directory it read is torn
or being written, or it fell back on such a default.

`ScheduleTime`: `ComputeNextRun` (with `NextSlotOf` for intervals, a `Sub` that
saturates, and a cron table as the set of seconds it fires at, in which the
library searches up to the end of the fifth year, `SearchEnd`) beside `SlotsOf`,
the slots a spec describes; claims, updates, enabling and repair store its
result, for a reading of the clock that may be one pass old.

## The runs

### Scheduler

`Grace`, `DueLimit`, `MaxNow` (the clock) and `MaxStops` (crashes) are the
bounds; a slot is a clock value.  Three or four ticks are enough for a slot to
be claimed, pass the grace period and be overtaken by a later slot; one crash
(two in `scheduler_loop`) for a recovery to be interrupted or to follow a
recovery.  One schedule is enough for all properties but the one about the
limit, because occurrences of different schedules share nothing but the loop.

| run | processes | question |
|---|---|---|
| `scheduler_loop` | loop, approvals, 2 crashes, faults, deletions; 4 ticks | overlap policy, failure count, the abstract promise |
| `scheduler_clients` | loop, one CLI process that runs, enables, disables and updates and may die anywhere, faults; 3 ticks | rows and receipts agree, lost updates neither revive a slot nor stop the loop |
| `scheduler_live` | two schedules, limit 1, 1 crash, faults | no due slot is starved |
| `scheduler_settle` | loop, one handler, faults, deletions, 1 crash | one dispatch; the history invents no outcome and hides no live run; claims are settled, outcomes recorded |
| `scheduler_overlap` | loop, one handler | violated: an overdue slot overlaps a manual run |

Assumptions, and why.  `PromptDispatch` (in `scheduler_settle`) says that a
handler's dispatch commits within the grace period, 30 seconds in the code
(`service.go:49`): without it the reconciler fails an occurrence whose run then starts, which is
what the grace period is there to exclude.  The loop needs no such assumption:
it does not reconcile while it dispatches.  AtMostOneOpen and
FailuresAreDistinct are checked for the loop alone; with a handler they fail,
which `scheduler_overlap` and `MCSchedulerOvercount.cfg` show.

Fairness (`FairSpec`).  The daemon is restarted (the systemd unit says
`Restart=on-failure`), the loop wakes up (`nextWakeDelay` is at most
`wakeInterval`), a handler runs to its end, time goes on.  Nothing is assumed
of operators, clients' wishes or the run engine.  `RunsReturnSpec` adds, for
`MCSchedulerCli.cfg`'s question about what becomes of a run, that a goroutine
executing a run returns and that a CLI process ends.

### Run engine

The bounds are the sets `Runs`, `Tickets` and `Procs`, `MaxTurns` (ten in the
code) and `MaxCrashes`.  Three runs make a root, a child and a sibling or
grandchild, or a second root; two goroutines are enough for any two to meet,
since a property here is broken by a pair; two turns for a loop to go on after
a tool call.  Tickets, runs and goroutines are interchangeable, so the safety
runs use symmetry; `runs_settle`, which checks liveness, does not.

| run | instance | question |
|---|---|---|
| `runs_life` | 3 runs, 2 tickets, 2 goroutines, 2 turns, mixed tool calls, workers that delegate, 1 restart | one goroutine per run, one root run at a time, what waits can be answered, the life of a run |
| `runs_once` | 3 runs, 1 ticket, 2 goroutines, 1 turn, early answers, failing writes, messages to workers, second process, empty turns, 1 restart | an approved tool runs once |
| `runs_settle` | 3 runs, 2 tickets, 2 goroutines, 1 turn, 1 restart | every run ends or comes to wait for an answer |
| `runs_empty` | as `runs_life`, with empty turns | violated: an interrupted parent is completed |

What the runs assume, and what happens otherwise:

* `Answers = "rest"`: operators answer once the goroutine that asked has come
  to rest, its parent's included.  The ticket is committed before
  `approval_requested` and the gate, and the recovery page lists pending
  tickets, so an earlier answer is possible.  It resumes the run first;
  `approval_requested` then marks a running run as waiting, and two loops can
  execute one run.  With `"ticket"` or `"gate"` TLC violates OneLoopPerRun and
  OneRootAtATime.  ApprovedToolsRunOnce needs no such assumption.
* `Nudges = FALSE`: no messages to worker sessions.  Such a message starts a
  sibling child whose end resumes a parent that is running, or that waits for
  another child; TLC then violates OneLoopPerRun and ImplementsRunLife.
* `Faults = FALSE`: journal writes succeed.  A failed write after a committed
  one leaves a decided ticket whose run nobody resumes, or a live child
  nobody runs.
* No provider failure in `runs_settle`: when it fails in a child that an
  approval resumed, `finishApprovalResolution` returns before it gets to the
  parent, which stays active for ever.
* AnswersAreWelcome (WaitingCanBeAnswered and GatesCanBeAnswered) is claimed
  until the first restart.  A stop between the ticket's update and `run_resumed`, or
  `ExpireStaleApprovals` of a ticket whose run still waits, leaves a run or a
  gate that no answer reaches.

Deadlock is not checked (`CHECK_DEADLOCK FALSE`): the bounds on runs, tickets,
clock and crashes end every instance, and an engine without requests rests.

Fairness (`FairSpec` of `Runs`).  Every goroutine that can take a step of its
own takes one (the Go scheduler), and a start-up runs to its end.  Nothing is
assumed of users and operators: no run has to be started, no prompt answered.

### Connectors

Run `connectors` (`MCConnectors`, about 172 thousand states) asks of each part:

| part | bounds | property | what it says |
|---|---|---|---|
| delivery | one message of a run, one reply, a drain loop, a handler, three kinds of connector, 2 attempts, 1 stop, 1 redrive | WordsGoOutOnce (NoNeedlessRepeat) | a message goes out again only after a time nobody could know that it had |
| | | ImplementsOutbox | every step is one of the abstract outbox, or none |
| | | MessagesSettle | every message is delivered, given up or forgotten, across stops |
| drafts | 2 runs, 2 events each | WordsGoOutOnce (NoTextIsForgotten) | the text recorded last is shown, or will be |
| supervisor | one connector of each kind, 2 restarts in an hour of 4 | OneStartAtATime | a restart waits for the old Start |
| | | StopsComplete (RestartsHappen) | a restart that was asked for happens |
| zalo | 2 messages, buffers of 1, 1 retry, 2 endpoints, 2 failures | SessionsAreHonest | order across sessions, dead listeners noticed, pings, honest health, no reader left between sessions |
| | | StopsComplete (SessionsEnd) | a session that has to end does |
| presence | 2 loops, 2 controllers, 2 failures | OnlyTheCurrentTypes | no indicator the manager does not know of |
| | | StopsComplete (TypingEnds) | a stopped indicator ends |
| inbound | 2 updates, poller, web sender, 2 incidents | UpdatesAreHandled | every update is handled in the end |

A buffer of one is full with the first message and drops with the second;
two failures make a reconnect that fails and one that works; two attempts
make a first, a last and a redrive; with two loops every pair of a start, an
output and an end meets.  Larger instances of each part, alone, were run when
it was written and found nothing else.

Fairness.  The tickers tick, goroutines go on, a socket that is read sees a
frame or its end, runs end.  Zalo's `Drain` gets none: it runs once per
session, and a session may stay up.  `SF` stands only before a cancelled context
in a `select` that another ready case may win again and again.  MessagesSettle
excepts `Undrained`: see the findings.

### Services

Run `services` (`MCServices`) asks of each part:

| part | bounds | property | what it says |
|---|---|---|---|
| stream | 2 goroutines, 3 events, a channel of 1, 2 connections | FollowersAreFaithful (NothingTwice, WritersInOrder, NothingMissed) | per connection: each event beyond the cursor once, in order, but what the channel had no room for |
| logs | 5 lines, window 3, limit 2, channel 2 | FollowersAreFaithful (TailInOrder, TailHasNoHoles) | the same of the log |
| devices | 2 browsers, 2 logins, 4 ticks | BlockedMeansRevoked | no usable session of a blocked device |
| memory | 2 runs, 2 rows, 2 edits | SettledEditsArePermanent | an edit that no UpdateFact had been let past stays |
| inbound | 2 messages, 2 handlers, web sender, polling and webhooks, 2 deliveries, 1 incident | MessagesAreTakenOnce, OneActiveRoot | one run per message, one front session, one route, one active root; confirmed means handled; active means executed |
| lists | 5 lists, 3 rows, pages of 1 and 2, 2 changes | PagesAreTrue (PagesAreExact, NothingSkipped, NoRowTwice) | a walk sees what stays, a session or route once |
| views | 3 runs, 1 ticket | PagesAreTrue (GraphIsTheTree, NothingPressingIsHidden) | the tree as it is, and what waits for a person shown |
| routes | 2 conversations, a thread, a worker, 2 callers, 2 routes, 2 runs, 2 messages | RoutesAreKept, EndedRoutesStay | routes succeed each other, mail stays inside its session's routes |
| commands | one command, 4 texts, a limit of 3 | ToolsKeepTheirWord | log, result and output agree; success is complete; no capture file left |
| files | 2 runs, 4 paths, 2 calls | ToolsKeepTheirWord, NothingWithoutConsent | undisturbed reads are exact; a file is lost only as approved |
| turns | 3 wire formats, 4 lists of calls, 2 turns | TurnsAreTrue | the context is the journal, each call is there once with its last answer and none of a turn that is over was left out but behind one that made the run wait, what was shown is recorded |
| account | 2 accounts, 2 threads, 2 calls, 1 mark, 2 pieces | ToolsKeepTheirWord, NothingWithoutConsent | one account per listing, unread first, pieces whole, each file that was waited for with its address; logins are confirmed |
| teams | 2 handlers, 2 paths, 2 profiles, 2 agents, 3 edits, 2 calls | TurnsAreTrue | the team of a run is closed, as saved, that of its tree |
| times | anchors, cron tables and durations around every boundary, 12 instants, a year of one, so that the search of a table ends before its last time | NextRunIsEarliest | a schedule is due at the earliest slot left |

The hazards of these parts need two actors and one change between two
statements of one of them; the bounds are the smallest at which that happens in
each of the orders.  `memory_edit` is the Memory part with three rows and edits.

These runs check safety only; EndedRoutesStay, SettledEditsArePermanent and
NothingWithoutConsent are action properties.

What the properties except, because the code does not promise it:

* A message that nobody drains (`Undrained`); a run whose transport was
  cancelled, or whose handler met an error after run_started (`cut`).
* An event or line that a full channel dropped (`overflowed`, `spilled`).
* Rows with text cursors: see the findings.
* Teams whose files a stop or a second save cut, or that fell back on a default
  read beside one (`torn`), and profiles deleted
  or selected beside another call (`raced`).
* A listing or a read of the file system into which a change fell.
* An anchor more than 292 years ago, and times of a cron table beyond the five
  years in which the library searches (which it finds later, once they are).
* A range of lines that ends at or behind a line over 64 KB, or beyond the
  capacity of the slice (there the code panics).
* A Zalo session whose context was cancelled, as to what it notices and reports:
  it has to end.

### Grouped properties

A property that names several is their conjunction; each conjunct is a
definition of its own with its own comment in its module.  `PROJECT.json` pairs
a group with one mutant.  Other conjuncts have mutants in their modules too
(the definitions marked "Mutant"), which were tried in the same way; for
`Teams`: `ValidMembers` against TeamsAreClosed, `SpawnAfresh` against
TreesHaveOneTeam, `RemoveOldSouls` against NoSoulIsLeft, `DeleteAnyTeamProfile`
against ProfilesAreThere.

## Findings

Shown by a run of the project:

* The overlap check sees earlier slots only (`store.go:937`).  Run
  `scheduler_overlap`.
* A delegated child whose first turns come back empty interrupts its parent,
  whose own loop is waiting for the tool's result, goes on and completes the
  interrupted run (`runs.go:806`).  Run `runs_empty`.
* `UpdateFact` checks a fact's source and writes it in two statements
  (`memory/store.go:96`): an operator's edit in between is overwritten.  Run
  `memory_edit`.

Shown by a configuration that is kept beside the runs, or by a property that
is stated and not claimed:

* `MCSchedulerCli.cfg`, StartedRunsEnd: `gistclaw schedule run` starts the run
  in a goroutine and exits (`cmd/gistclaw/schedule.go:117`).
* `MCSchedulerOvercount.cfg`: the acceptance of an occurrence does not look at
  its status (`store.go:631`); it reopens a closed one, and the failure is
  counted again.
* `MCRunsCli.cfg`: `gistclaw run` calls Prepare, which interrupts the runs of a
  daemon that is executing them (`cmd/gistclaw/main.go:313`); the conversation
  then takes a second root run.
* `MCWorkPages.cfg`, NextPageGoesOn: the cursors of the work list and of the
  facts scan a DATETIME into a string (`routes_runs.go:1824`,
  `memory/store.go:465`), where a T stands for the column's space; within one
  day the next page begins with the same rows.
* DrainDeliversAll (`Delivery`): Telegram's `Drain` scans a NULL `run_id` into a
  string (`telegram/outbound.go:173`); one control reply left pending stops
  every later `Drain`.
* NextRunIsAlwaysEarliest (`ScheduleTime`): `Sub` stops at 292 years
  (`schedule.go:94`); an older anchor leaves the schedule due at every pass with
  a slot that has its row already.

Met while modelling, part of the models, and not stated as violations because
nothing in the repository says otherwise:

* Two drains side by side may give up and deliver one message (hence
  `OneDrainer` in the proofs).
* Concurrent callers of StartFrontSession that both find no session leave an
  active run that nobody executes; a message's late bind may replace a newer
  route of an operator.
* A transport that is cancelled, or an error after `run_started`
  (`runs.go:712`, `:334`), leaves an active run until the next restart.
* Zalo takes a request's timeout for the end of its context, so a `Start`
  returns nil and costs a restart.  An upload's event that comes before the
  callback is registered is dropped, and the upload times out; one whose response
  has no number is sent without an address.
* A page that follows a run reconnects with its first cursor, and gets the
  events after it again; failures and interruptions are never emitted.
* A stream that ends cleanly without a finish reason counts as the whole answer,
  and the calls it had are executed; one whose arguments were cut is executed and
  then cannot be recorded, and the loop returns without an event that says so.
  Calls behind one that pauses are never made; a child's answer goes to the
  parent's last delegation.
* `read_file` with a range whose end is beyond the capacity of the slice of the
  file's lines (32 for a short file) ends the goroutine with a panic; up to there a
  range beyond the file reads nothing.  `write_new_file` overwrites what came after
  its look.
* Two members of a team may be given one soul file (`config.go:319`), and the soul
  that a save writes second replaces the first.
* A path may get two project rows; an empty `team.yaml` gives a run the default
  team silently; a directory left by a copy that was cut off can be neither used
  nor made again.
* A root that waits for approval with a failed child is listed as failed.

## Proofs

Every theorem holds for every value of the constants that the module's own
assumption allows, and for the specification as it stands; what it assumes
beyond that is written in its `ASSUME`.  Each invariant below was checked by TLC
on the instances of the runs before it was proved: most of them took several
attempts, and TLC's counterexamples say what the next part had to be.

**SchedulerProofs**, about `Scheduler`:

* `TypeCorrect`: `TypeOK` is inductive by itself.  The only arithmetic fact is
  that a nonempty set of slots has an earliest one (`EarliestExists`, from the
  well-foundedness of the naturals), so that `NextSlot` returns a slot or
  nothing.
* `NoSecondDispatch` and `RowsAreTruthful`: neither property is inductive.  A
  process that inserts a row must know that nobody else has the slot in hand,
  and the reconciler must know that a row it listed is still a claimed one.
  `ClaimInv` adds the two facts this rests on: a slot that is unclaimed or
  skipped has no run and nobody handles it (`UnclaimedIsUntouched`), and
  whoever believes that a run exists is right (`RunsAreThere`).
* `ClaimsAreFinal` (SlotsAreClaimedOnce) follows from `ClaimInv` step by step;
  `DaemonSurvives`: if schedules are never deleted, no error return of the loop
  is reachable.
* `SchedulesDoNotOverlap`, `FailuresCountOnce` and `SchedulerImplementsTask`
  (AtMostOneOpen, FailuresAreDistinct, the refinement of `ScheduledTask`) need
  `Clients = {}`: the loop is the only one that claims.  With a handler beside it
  all three are false, as the findings show.  `LoopInv` says what makes the loop
  safe alone: the rows it has listed are still open when it comes to them, no
  two of them are of one slot, and it works on one at a time (`WorkIsOpen`); a
  claimed slot is behind `next_run_at` and not ahead of the clock
  (`SlotsAreBehind`), so no slot is claimed a second time.
* `HistoriesAreTrue` (HistoryIsTrue) needs `PromptDispatch` (see the run
  `scheduler_settle`) and `CliClients = {}`: a CLI process that dies takes
  the goroutine of its run along without telling the daemon.  `HistoryInv` says
  that what a process remembers of a final run is still so (`MemoryIsSound`),
  that whoever dispatches an occurrence is alone with it, and that a
  handler's claim is younger than the grace period both in the row and in the
  list the loop made earlier (`ClaimsAreFresh`).

**RunsProofs**, about `Runs` and the refinement of `RunLife`:

* `RunsTyped`: `TypeOK` is not inductive.  A return reads the second frame of a
  stack and a tool call the head of `calls`, so the proof needs that only a
  delegating call lies below another and that a call in a turn has calls left
  (`Stacks`, `Busy`), and that whoever resolves a ticket has one (`JobsBound`).
* `ApprovalsAreSpentOnce` (ApprovedToolsRunOnce), for every value of `Answers`,
  `Nudges`, `Cli` and `Faults`.  `OnceInv`: from the guarded UPDATE of
  `ResolveTicket` until the tool runs, exactly one goroutine holds the ticket, the
  ticket's state is that goroutine's decision and the tool has not run.  A second
  answer finds the ticket decided; a crash drops the job and leaves the ticket
  spent.
* `RunsHaveOneLoop`, `RootsTakeTurns`, `AnswersStayWelcome` and
  `EngineImplementsLife` (OneLoopPerRun, OneRootAtATime, AnswersAreWelcome and
  the refinement of `RunLife`) follow from one invariant, `LifeInv`, where the
  environment is `Calm`.  The argument: whoever enters a run's loop must know
  that nobody is in it.  A loop is entered by a start, by an answer, or by the
  end of a child.  So the stacks of two goroutines share no run (`Disjoint`), the
  calls of a stack are a chain of children (`Chain`) whose lower ones are active
  and whose uppermost is as its point in the code says (`Call`); a parent that is
  not over has at most one child that is live or still to be reported
  (`OneOpenChild`), and none while it runs or waits (`Childfree`,
  `WaitingIsChildless`); an answer in hand is the only claim on its run
  (`Answer`, `OneAnswer`); a pending ticket is the only one of a run that waits
  for it (`OneTicket`); a start-up has the tables for itself (`BootInv`).

  `Calm` is what TLC shows to be needed: with early answers
  (`Answers # "rest"`), messages to workers (`Nudges`), a second process whose
  sweep interrupts live runs (`Cli`), writes that fail half-way (`Faults`: the
  answer of an orphaned child resumes its parent beside another) or empty turns,
  one of the four is violated on the instances of the runs, as **The runs** and
  the findings say.

**ConnectorProofs**, the part about `Inbound`: `OneRootRun` (OneActiveRoot) and
`MessagesTaken` (MessagesAreTakenOnce), for any messages, handlers, transports
and incidents.  `InboundInv` has OneRunPerMessage, OneFrontSession and
OneActiveRoot and the shapes of what the steps read: runs are only added
under the unique index (`Fits`), no run that is not live becomes live, a receipt
or a session is only added where its key is free.  `PollInv`: every update up to
the poller's position has an outcome, but the one in hand; so what the service
is told to forget was handled.  An active run is in the hand of the handler that
made it, in a loop, or was cut off (ActiveRunsAreExecuted).

**ConnectorProofs**, the parts about `Presence`, `Supervisor`, `ZaloSession`, `Delivery` and
`Drafts`:

* `PresenceTypes` and `NobodyElseTypes` (OnlyTheCurrentTypes).  `PresenceInv`
  adds that only a loop that is about to stop a controller holds one
  (`HoldsWhatItStops`), and that a goroutine that goes on has failures left
  (`BreakerHolds`): a stop takes the controller out of the map and into the
  hand of the loop that will stop it.
* `StartsDoNotOverlap` (OneStartAtATime).  `SupervisorInv` adds types, and that a
  result that was not collected yet is of a call nobody makes any more
  (`ResultsAreOfEndedCalls`).  A tick is functions on one connector's record, and
  the proof has one lemma for each of them.
* `SessionsStayHonest` (SessionsAreHonest).  `ControlInv` is the properties of who
  reads and who serves, with what they rest on: the key and the pings belong to
  the listener's client (`KeysHavePings`), and while the connector serves, its
  listener, until it is cancelled, has a client or brings one
  (`ListenersAreWhole`).  `SocketsAreFew`
  counts: every connection but a session's first is paid for by a failure, so
  there is always a socket that was never used.  `LineInv`: from the
  conversation back to the socket, through the pump, the adapter and the
  buffers, what is still there of the messages sent is in the order in which
  they were sent.
* `DeliveryImplementsOutbox` (ImplementsOutbox) under `ASSUME OneDrainer`: one
  goroutine drains, which is what a daemon without a second process beside it
  has.  `DeliveryInv` says that what a drain has still to deliver is open or was
  reset (`DrainsOpenIntents`), that handlers hold replies only, and that a call
  that succeeded has sent the message (`SentIsOut`).  Without the assumption one
  drain may give up a message that the other delivers.
* `WordsGoOut` (WordsGoOutOnce), under the same assumption for delivery.
  `KnownOK`: a message that is known to have arrived is marked, or its deliverer
  is about to mark it, and what is still in a deliverer's list or hand is not
  known to have arrived.  `DraftsInv`: a draft has the text recorded last, a flush
  has one copy of each, and a copied draft stays dirty until its copy was shown;
  so the comparison under the lock clears only what is on the screen.

**ServiceProofs**, about `Devices`, `Memory`, `RepoFiles`, `ZaloAccount`,
`ScheduleTime`, `RunStream` and `LogTail`:

* `BlocksHold` (BlockedMeansRevoked).  `DevicesInv` adds the foreign key
  (`SessionsHaveDevices`) and that a device that has no row yet is not blocked
  (`NewDevicesAreFree`): so a login that takes the next row takes a free one,
  and a cleanup that deletes a device leaves no session to it.
* `MemoryTypes` and `EditsSettle` (SettledEditsArePermanent): while no run stands
  between its check and its write of a row that the operator wrote, no run can
  come to stand there.
* `LossesAndLogins` (NothingWithoutConsent).  `FilesInv`: a call that changes
  files carries the ticket it was approved with, and what it found in place
  either is still there as it was or left `kept` with the change; a path that was
  free when `write_new_file` looked is not among them; a rename touches only
  what is below its two paths.  `QrInv`: a login is at its last step only after
  the owner confirmed it.
* `SlotsAreKept` (NextRunIsEarliest), for any length of a year.  `TimesInv` says that and the types; the
  work is in one lemma per kind of spec (`AtIsEarliest`, `EveryIsEarliest`,
  `CronIsEarliest`): the quotient of the time since the anchor, plus one, is
  the number of the first multiple beyond it, and no slot lies between.
* `FollowersSeeAll` (FollowersAreFaithful).  For a run's page, `StreamInv`: an
  event has a time of its own, and what a goroutine has in hand is later than
  all it has journaled (`WritersInv`); backlog, channel and what was written hold
  journaled events only (`PageSeqs`); the backlog is in order and later than what
  was written, and what is in the channel and was not sent is later than all that
  was sent of the same goroutine (`PageOrder`): so an event that is both in the
  history and in the channel is met again only where it is known.
  For the log, `LogInv`: window, page and channel increase, and what is in the
  channel is later than all that is on the page.  Both rest on
  `SortedByIsSorted`: of a finite set with a linear order `SortedBy` is a
  sequence with each member once, in order.

**ServiceProofs**, the part about `Routes`: `RoutesTyped`, `RoutesHold` (RoutesAreKept) and
`RoutesEndOnce` (EndedRoutesStay), for any conversations, threads and callers,
whatever they call.  The tables only grow, but for the end of a route, and each
row's part of `RoutesInv` survives that (`RoutesGrow`).  What a call remembers
stays true for the same reason: all routes of the thread that it saw before its
own INSERT have ended (`SeenAreOther`), so it never inserts beside a live one; the
route that a reply was given is there or was when the message was written
(`Reaches`); and an ended route's successor is the next one of its thread
(`PlaceOK`).

**TurnsProofs**, about `Turns`: `ModelsAreToldTheJournal`, for every number of
turns, messages and pieces, any mailbox limit, all lists of calls and every wire
format.  `TurnsInv` says what the loop's copy of the journal is at each point:
between turns it is what a reading of the journal would give, and while calls
are made it is what the record said up to the turn's answer, behind which there
are only records of that turn's calls, one of each (`Since`, `CopyIsTrue`).
`LatestOfTurn` is the step between the two: what `NextTurn` appends are just
those records.  `KidsAreTold`: of the records of a call whose child has ended the
last one, which is the one that is read, has the child's result.  `PromptIsTrue`
keeps what the last request said while calls are added.  The messages of a
prompt are a recursive function of the events; that the function exists for
every list of events (`FlatIs`), and that each step keeps what is said of
its value (`FlatGrows`), needs induction on the naturals in the form of the
least counterexample, as the library's induction theorems take an operator.

**TeamsProofs**, about `Teams`: `TeamsAreRight`, for any handlers, projects,
profiles, agents and edits; with the theorem of `TurnsProofs` it gives
`PromptsAndTeams` (TurnsAreTrue).  Each of the handlers reads one file or setting at a
time, so the invariant, `TeamsInv`, says what a handler may still rely on.  A
call has the ghosts `quiet` (nothing was written since it began) and `alone`
(nobody else was there): what a quiet call has read is what it would read now
(`QuietIsQuiet`), and what one that is alone has checked still holds
(`AloneIsRight`).  A directory that is not torn has at most one save at work on
it; without one its files are one save's (`Whole`), and with one they are as
far as that save says (`HalfWritten`): the members written so far have its
number, and what else is there is of the old team, which is what `RemoveOrphans`
takes away.  That `torn` covers the default team too is needed for TeamsAreAsSaved:
a team read beside a second save becomes the default, and a run whose own
directory is in order but cannot be loaded gets it, in more calls than the run has.

**ToolsProofs**, about `Commands`, `RepoFiles` and `ZaloAccount`: `ToolsAreTrue`
(ToolsKeepTheirWord), for every text a program may print, every tree of files,
and any accounts, threads, limits and numbers of calls.

* `Commands`.  `CallInv` counts along a stream: what was sent, what was read and
  what was printed are ever longer beginnings of one text (`StreamOK`), and the
  records of the log follow each other in it without a gap or an overlap, up to
  what was sent (`LoggedOK`).  `flushLines` is the step: the pieces that it cuts out
  of what is left are in order, none is empty, and every character of a line that
  counts lies in one of them.  A call that ended reported what its copiers had
  read then (`ReportOK`), and cannot have been a success before they had read
  everything.
* `RepoFiles`.  `ReadsInv`: the tree is one (what lies in it lies in a directory:
  `Shaped`), and a search that nobody disturbed has, of each file below its
  place, either found it or still to open a directory above it (`Exhausts`), and no
  file is both found and still ahead (`SearchOK`).  Opening a directory splits the
  files below it among its entries.
* `ZaloAccount`.  `AccountInv`: the first n pieces of a text were heard, in order,
  by the account that the call took at its start (`TextOK`); an upload's address is
  its own file's, through the callback that is registered under the file's number,
  or there is none where nobody waited (`UploadOK`); a listing that nothing changed under has what it would read now
  (`InboxOK`), so what it answers is right (`ListExact`), and what it cuts off is
  older than what it shows of the same kind, or read (`ListUnread`).

**PagesProofs**, about `Paging` and `RunViews`: `ListsAreRight` and
`RunPagesAreRight`, together `PagesAreTrueAlways` (PagesAreTrue), for any rows, page
sizes and changes, and any number of runs and tickets.

* `Paging`.  `PagingHolds`: what a page's links hold are the keys of its first and
  last rows as they were, every row that stayed as it was and comes before the
  last key is in the walk, and sessions and routes only move to where the walk
  does not come again.  The keys are a linear order, ties are broken by the id
  (`SortedBy` is then the list, once each), and the rows after a key are what is
  left of it.
* `RunViews`.  `ViewsHold` joins the tree (a run's parent is an older run that
  exists), the tickets and the page being read: the path read so far is a walk
  from the run upwards.  From it: the recursive functions over the tree exist
  (a least counterexample would be older than itself), the branches split the
  runs below the root, and the status shown for a branch is the most pressing
  of its members'.

Model-checked only:

* everything temporal beyond a step (DueSlotsAreTaken, OccurrencesSettle,
  RunsSettle, MessagesSettle, StopsComplete, UpdatesAreHandled): liveness is out
  of the prover's reach;
* the types of the parts that no theorem needs (ConnectorsTypeOK,
  ServicesTypeOK).

## Assumed

* The services give each call of an answer an id of its own (`runs.go:1129` takes
  it from the service).
* Each member of a team has a soul file of its own (see the findings).
* A directory of a team's profile is copied and removed in one step, where the
  code goes file by file (`profile.go:127`).
* There are no symbolic links in a run's directory.

## Not modelled

* The email connector: it is not registered by the application, and its steps
  are WhatsApp's.
* Wire formats, encryption, signatures, hashing, prices and token counts,
  rendering and translation: inputs and outputs of the modelled steps.
* Of the file tools: the cut to `max_bytes` (which is reported), the `.git` that a
  search leaves out, and its glob.
* The newlines that the Responses format puts between the parts of a message: they
  are recorded and not streamed.
* Settings and budgets: a budget decides only that a turn ends the run.
  (`UpdateSettings` stores before it applies, and `r.budget` is written without
  a lock; `BudgetGuard.RecordUsage` has no caller.)
* The registry and policy of tools, HTTP, search and MCP calls: a call is a
  step with a result.
* Other web handlers: each calls one operation that is modelled, and formats.
* Capabilities, recommendations and maintenance: pure functions, reports and
  copies of the database.
* SQLite itself: transactions are atomic, unique indexes and cascades are part
  of the actions.

## Plan

1. `Inbound` over `RunLife`, so that one instance has the handlers and the
   delegation.
2. Settings and budgets, once something records usage.

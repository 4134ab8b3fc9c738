-------------------------------- MODULE Runs --------------------------------
(***************************************************************************)
(* The run engine of one conversation (internal/runtime): root runs,       *)
(* delegated child runs, the turns of a run, approval tickets and their    *)
(* gates, the resumption of a parent when its child ends, and the sweep    *)
(* that every Prepare makes at start-up.                                   *)
(*                                                                         *)
(* A run is a row of `runs`; a ticket a row of `approvals` together with   *)
(* its row of `conversation_gates`. Work is done by goroutines: stack[g]   *)
(* holds the calls of executeRunLoop that g is in (a delegated child runs  *)
(* on top of the call that delegates), job[g] the ticket g resolves. Every *)
(* journal event is a transaction of its own, so other goroutines act      *)
(* between any two of them. No status update looks at the status it        *)
(* replaces; only the unique index on live root runs can refuse one.       *)
(*                                                                         *)
(* Bounds: the sets Runs, Tickets and Procs, MaxTurns for the ten turns of *)
(* a loop, MaxCrashes for the restarts. Tokens, contexts, messages and     *)
(* memory are left out: they decide only which outcome a turn has.         *)
(***************************************************************************)
EXTENDS Naturals, Sequences, FiniteSets

CONSTANTS
  Runs, Tickets, Procs,
  NoRun, NoTicket,  \* null values
  Outcomes,         \* what a provider turn may come to, besides tool calls
  ToolTurns,        \* the sequences of tool calls a turn may ask for
  WorkersDelegate,  \* the team lets a worker delegate in turn
  Answers,          \* when an operator can answer: see Reachable
  Nudges,           \* operators also send messages to worker sessions
  Cli,              \* `gistclaw run` is used beside the daemon
  Faults,           \* journal writes may fail
  MaxTurns, MaxCrashes

ASSUME ConstantsAssumption ==
  /\ NoRun \notin Runs
  /\ NoTicket \notin Tickets
  /\ Outcomes \subseteq {"end", "more", "empty", "budget", "fail"}
  /\ ToolTurns \subseteq Seq({"plain", "ask", "delegate"}) \ {<<>>}
  /\ Answers \in {"ticket", "gate", "rest"}
  /\ {WorkersDelegate, Nudges, Cli, Faults} \subseteq BOOLEAN
  /\ MaxTurns \in Nat \ {0}
  /\ MaxCrashes \in Nat

VARIABLES
  run,      \* the rows of `runs`
  ticket,   \* the rows of `approvals`, each with its gate
  job,      \* per goroutine, the approval it is resolving
  stack,    \* per goroutine, its calls of executeRunLoop, innermost first
  daemon,   \* "up", or "starting" until Prepare is done
  sweep,    \* Prepare's reconciliation: the runs it still has to interrupt
  crashes

vars == <<run, ticket, job, stack, daemon, sweep, crashes>>
rows == <<run, ticket>>
work == <<job, stack>>
boot == <<daemon, sweep, crashes>>

Live == {"active", "needs_approval"}
Terminal == {"completed", "interrupted", "failed"}
Statuses == {"none"} \cup Live \cup Terminal
Front == NoRun  \* the front session's name; a worker's is its first run

NoJob == [pc |-> "idle", ticket |-> NoTicket, decision |-> "none"]
Frame(pc, r) == [pc |-> pc, run |-> r, turn |-> 0, calls |-> <<>>,
                 ticket |-> NoTicket, seen |-> "none"]

Init ==
  /\ run = [r \in Runs |-> [status |-> "none", parent |-> NoRun, session |-> Front]]
  /\ ticket = [t \in Tickets |-> [state |-> "none", run |-> NoRun, gate |-> "none",
                                  invoked |-> 0]]
  /\ job = [g \in Procs |-> NoJob]
  /\ stack = [g \in Procs |-> <<>>]
  /\ daemon = "up"
  /\ sweep = [on |-> FALSE, left |-> {}]
  /\ crashes = 0

-----------------------------------------------------------------------------
(* Rows.                                                                   *)

Status(r) == run[r].status
Unused == {r \in Runs : Status(r) = "none"}
LiveRoot(r) == run[r].parent = NoRun /\ Status(r) \in Live
Spare == {t \in Tickets : ticket[t].state = "none"}

\* Mutant: the index is missing.
FitsAlways(r, s) == TRUE

\* The unique index: one root run of a conversation is live.
Fits(r, s) ==
  (s \in Live /\ run[r].parent = NoRun) => \A q \in Runs \ {r} : ~LiveRoot(q)

\* One event that sets a run's status, and what its writer does next when the
\* event is stored and when the transaction fails.
Journal(r, s, stored, lost) ==
  \/ Fits(r, s) /\ run' = [run EXCEPT ![r].status = s] /\ stored
  \/ (Faults \/ ~Fits(r, s)) /\ UNCHANGED run /\ lost

\* run_started. A child is not subject to the index.
Insert(r, p, s) == run' = [run EXCEPT ![r] = [status |-> "active", parent |-> p, session |-> s]]

\* loadPreferredRunForSession: an active run of the session, or else the one
\* changed last (here: any).
Preferred(s) ==
  LET all == {r \in Runs : run[r].session = s /\ Status(r) # "none"}
      active == {r \in all : Status(r) = "active"}
  IN  IF active # {} THEN active ELSE all

-----------------------------------------------------------------------------
(* Goroutines.                                                             *)

Idle(g) == stack[g] = <<>> /\ job[g] = NoJob
Top(g) == Head(stack[g])
At(g, pc) == stack[g] # <<>> /\ Top(g).pc = pc

Goto(g, f) == stack' = [stack EXCEPT ![g] = <<f>> \o Tail(@)] /\ UNCHANGED job
GotoPc(g, pc) == Goto(g, [Top(g) EXCEPT !.pc = pc])
Push(g, f) == stack' = [stack EXCEPT ![g] = <<f>> \o @] /\ UNCHANGED job
Finish(g) == stack' = [stack EXCEPT ![g] = <<>>] /\ job' = [job EXCEPT ![g] = NoJob]

\* The innermost call returns res, a run's status or "error". A delegating call
\* takes it as its tool's result; finishApprovalResolution goes on to the
\* parent unless it is an error; everyone else drops it.
Return(g, res) ==
  LET rest == Tail(stack[g])
      resumes == job[g].pc = "looping" /\ res # "error"
  IN  IF rest # <<>>
      THEN /\ stack' = [stack EXCEPT ![g] =
                          <<[Head(rest) EXCEPT !.pc = "record", !.seen = res]>> \o Tail(rest)]
           /\ UNCHANGED job
      ELSE /\ job' = [job EXCEPT ![g] = NoJob]
           /\ stack' = [stack EXCEPT ![g] =
                          IF resumes
                          THEN <<[Frame("parent", Top(g).run) EXCEPT !.seen = res]>>
                          ELSE <<>>]

-----------------------------------------------------------------------------
(* Starting a root run: the check and the insertion are two transactions.  *)

StartCheck(g) ==
  /\ Idle(g) /\ Unused # {}
  /\ \A q \in Runs : ~LiveRoot(q)
  /\ Push(g, Frame("start", NoRun))
  /\ UNCHANGED rows

StartInsert(g) ==
  /\ At(g, "start")
  /\ UNCHANGED ticket
  /\ \/ \E r \in Unused :
          /\ Fits(r, "active") /\ Insert(r, NoRun, Front)
          /\ Goto(g, Frame("turn", r)) \/ (Faults /\ Finish(g))
     \/ /\ Faults \/ Unused = {} \/ \E q \in Runs : LiveRoot(q)
        /\ UNCHANGED run /\ Finish(g)

\* SendSessionAsync to a worker's session: a sibling of the session's run.
SendSession(g) ==
  /\ Nudges /\ Idle(g)
  /\ \E q \in Runs, c \in Unused :
       /\ run[q].session # Front /\ q \in Preferred(run[q].session)
       /\ Insert(c, run[q].parent, run[q].session)
       /\ Push(g, Frame("turn", c)) \/ (Faults /\ UNCHANGED work)
  /\ UNCHANGED ticket

-----------------------------------------------------------------------------
(* The turns of a loop.                                                    *)

\* Mutant: `turn <= 10`.
TurningOnceMore(g, outcome) ==
  At(g, "turn") /\ Top(g).turn <= MaxTurns /\ outcome \in Outcomes /\ UNCHANGED ticket

Turning(g, outcome) ==
  /\ At(g, "turn") /\ Top(g).turn < MaxTurns
  /\ outcome \in Outcomes
  /\ UNCHANGED ticket

\* The budget guard: the stop's own write errors are ignored.
BudgetStop(g) ==
  /\ Turning(g, "budget")
  /\ Journal(Top(g).run, "interrupted", Return(g, "interrupted"),
                                        Return(g, Status(Top(g).run)))

ProviderFails(g) ==
  /\ Turning(g, "fail")
  /\ Journal(Top(g).run, "failed", Return(g, "error"), Return(g, "error"))

\* Text without an end of turn: the loop goes on.
MoreTurns(g) ==
  /\ Turning(g, "more")
  /\ Goto(g, [Top(g) EXCEPT !.turn = @ + 1])
  /\ UNCHANGED run

\* No text, no tool call and no end of turn.
EmptyTurn(g) == Turning(g, "empty") /\ GotoPc(g, "empty") /\ UNCHANGED run

\* The last turn, or the tenth.
LastTurn(g) ==
  /\ At(g, "turn")
  /\ "end" \in Outcomes \/ Top(g).turn = MaxTurns
  /\ GotoPc(g, "complete")
  /\ UNCHANGED rows

\* The bound on tickets: a turn asks only when there is one left for it. A
\* goroutine creates at most one before it pauses.
WillAsk(g) == \E i \in DOMAIN stack[g] :
  stack[g][i].pc \in {"tools", "spawned", "record"}
    /\ \E k \in DOMAIN stack[g][i].calls : stack[g][i].calls[k] = "ask"

ToolTurn(g) ==
  /\ At(g, "turn") /\ Top(g).turn < MaxTurns
  /\ \E calls \in ToolTurns :
       /\ \A i \in DOMAIN calls :
            /\ calls[i] = "delegate" => WorkersDelegate \/ run[Top(g).run].parent = NoRun
            /\ calls[i] = "delegate" => Unused # {}
            /\ calls[i] = "ask" => Cardinality({h \in Procs : WillAsk(h)}) < Cardinality(Spare)
       /\ Goto(g, [Top(g) EXCEPT !.pc = "tools", !.calls = calls])
  /\ UNCHANGED rows

\* Loading the context or journaling turn_completed fails.
TurnLost(g) ==
  /\ Faults /\ At(g, "turn")
  /\ Return(g, "error")
  /\ UNCHANGED rows

InterruptEmpty(g) ==
  /\ At(g, "empty")
  /\ LET r == Top(g).run IN
     Journal(r, "interrupted",
             Goto(g, [Frame("parent", r) EXCEPT !.seen = "interrupted"]),
             Return(g, "error"))
  /\ UNCHANGED ticket

Complete(g) ==
  /\ At(g, "complete")
  /\ Journal(Top(g).run, "completed", Return(g, "completed"), Return(g, "error"))
  /\ UNCHANGED ticket

-----------------------------------------------------------------------------
(* The tool calls of a turn.                                               *)

Calling(g, kind) == At(g, "tools") /\ Head(Top(g).calls) = kind

\* On to the next tool call, or after the last one to the next turn.
NextCall(f) ==
  IF Len(f.calls) = 1
  THEN [f EXCEPT !.pc = "turn", !.calls = <<>>, !.turn = @ + 1]
  ELSE [f EXCEPT !.pc = "tools", !.calls = Tail(@)]

\* A call that policy allows or denies outright.
PlainCall(g) ==
  /\ Calling(g, "plain")
  /\ Goto(g, NextCall(Top(g))) \/ (Faults /\ Return(g, "error"))
  /\ UNCHANGED rows

CreateTicket(g) ==
  /\ Calling(g, "ask")
  /\ \/ \E t \in Spare :
          /\ ticket' = [ticket EXCEPT ![t].state = "pending", ![t].run = Top(g).run]
          /\ Goto(g, [Top(g) EXCEPT !.pc = "asked", !.ticket = t])
     \/ Faults /\ UNCHANGED ticket /\ Return(g, "error")
  /\ UNCHANGED run

RequestApproval(g) ==
  /\ At(g, "asked")
  /\ Journal(Top(g).run, "needs_approval", GotoPc(g, "gate"), Return(g, "error"))
  /\ UNCHANGED ticket

\* The gate, then the prompt's message and its outbound intent.
OpenGate(g) ==
  /\ At(g, "gate")
  /\ \/ /\ ticket' = [ticket EXCEPT ![Top(g).ticket].gate = "pending"]
        /\ GotoPc(g, "paused") \/ (Faults /\ Return(g, "error"))
     \/ Faults /\ UNCHANGED ticket /\ Return(g, "error")
  /\ UNCHANGED run

\* A paused loop returns the run as it finds it.
Paused(g) == At(g, "paused") /\ Return(g, Status(Top(g).run)) /\ UNCHANGED rows

\* Spawn runs the child's loop inside the tool call. When it fails after the
\* child's run_started, the child is left active and nobody runs it.
Delegate(g) ==
  /\ Calling(g, "delegate")
  /\ LET f == Top(g) IN
     \/ \E c \in Unused, p \in Preferred(run[f.run].session) :
          /\ Insert(c, p, c)
          /\ \/ /\ stack' = [stack EXCEPT ![g] =
                    <<Frame("turn", c), [f EXCEPT !.pc = "spawned"]>> \o Tail(@)]
                /\ UNCHANGED job
             \/ Faults /\ Goto(g, [f EXCEPT !.pc = "record", !.seen = "error"])
     \/ /\ Faults \/ Unused = {}
        /\ UNCHANGED run /\ Goto(g, [f EXCEPT !.pc = "record", !.seen = "error"])
  /\ UNCHANGED ticket

\* Mutant: a child that waits does not pause its parent.
RecordAnyChild(g) == At(g, "record") /\ Goto(g, NextCall(Top(g))) /\ UNCHANGED rows

\* The delegating call records what it got: a child that is not done pauses the
\* parent, which stays active; anything else goes on to the next call.
RecordChild(g) ==
  /\ At(g, "record")
  /\ \/ Top(g).seen \in Live /\ GotoPc(g, "paused")
     \/ (Top(g).seen \notin Live \/ Faults) /\ Goto(g, NextCall(Top(g)))
     \/ Faults /\ Return(g, "error")
  /\ UNCHANGED rows

-----------------------------------------------------------------------------
(* resumeParentAfterChildTerminal: Top(g).run is the child, then the parent *)
(* it has loaded; Top(g).seen is the child's status as the caller knows it. *)

\* Mutants: a parent that has ended is resumed; one whose child was
\* interrupted is not.
CheckParentBlindly(g) ==
  /\ At(g, "parent")
  /\ LET p == run[Top(g).run].parent IN
     IF p # NoRun /\ Top(g).seen \in Terminal
     THEN Goto(g, [Top(g) EXCEPT !.pc = "announce", !.run = p]) ELSE Return(g, "error")
  /\ UNCHANGED rows

CheckParentOfCompleted(g) ==
  /\ At(g, "parent")
  /\ LET p == run[Top(g).run].parent IN
     IF p # NoRun /\ Top(g).seen = "completed" /\ Status(p) \notin Terminal
     THEN Goto(g, [Top(g) EXCEPT !.pc = "announce", !.run = p]) ELSE Return(g, "error")
  /\ UNCHANGED rows

CheckParent(g) ==
  /\ At(g, "parent")
  /\ LET p == run[Top(g).run].parent IN
     IF p # NoRun /\ Top(g).seen \in Terminal /\ Status(p) \notin Terminal
     THEN \/ Goto(g, [Top(g) EXCEPT !.pc = "announce", !.run = p])
          \/ Faults /\ Return(g, "error")
     ELSE Return(g, "error")
  /\ UNCHANGED rows

ResumeParent(g) ==
  /\ At(g, "announce") /\ Top(g).seen = "completed"
  /\ Goto(g, Frame("turn", Top(g).run))
  /\ UNCHANGED rows

InterruptParent(g) ==
  /\ At(g, "announce") /\ Top(g).seen # "completed"
  /\ Journal(Top(g).run, "interrupted", Return(g, "error"), Return(g, "error"))
  /\ UNCHANGED ticket

-----------------------------------------------------------------------------
(* Resolving a ticket.                                                     *)

Working(r) == \E g \in Procs : \E i \in DOMAIN stack[g] : stack[g][i].run = r

\* What an operator can answer: any pending ticket (the recovery page lists the
\* table), one whose gate is open (a chat reply goes through the gate), or
\* one whose prompt can have been read: the goroutine that asked is at rest.
Reachable(t) ==
  /\ ticket[t].state = "pending"
  /\ Answers # "ticket" => ticket[t].gate = "pending"
  /\ Answers = "rest" =>
       \A r \in Runs : r \in {ticket[t].run, run[ticket[t].run].parent} => ~Working(r)

JobAt(g, pc) == job[g].pc = pc
JobGoto(g, pc) == job' = [job EXCEPT ![g].pc = pc] /\ UNCHANGED stack
JobRun(g) == ticket[job[g].ticket].run

\* ResolveTicket's SELECT: the ticket is pending.
Decide(g, t, d) ==
  /\ Idle(g) /\ Reachable(t)
  /\ job' = [job EXCEPT ![g] = [pc |-> "resolve", ticket |-> t, decision |-> d]]
  /\ UNCHANGED <<rows, stack>>

\* Mutant: the update is not guarded.
ResolveTicketAgain(g) ==
  /\ JobAt(g, "resolve")
  /\ ticket' = [ticket EXCEPT ![job[g].ticket].state = job[g].decision]
  /\ JobGoto(g, IF job[g].decision = "approved" THEN "resume" ELSE "gate")
  /\ UNCHANGED run

\* ResolveTicket's guarded UPDATE.
ResolveTicket(g) ==
  /\ JobAt(g, "resolve")
  /\ IF ticket[job[g].ticket].state = "pending"
     THEN /\ ticket' = [ticket EXCEPT ![job[g].ticket].state = job[g].decision]
          /\ JobGoto(g, IF job[g].decision = "approved" THEN "resume" ELSE "gate")
     ELSE UNCHANGED ticket /\ Finish(g)
  /\ UNCHANGED run

\* run_resumed.
ResumeRun(g) ==
  /\ JobAt(g, "resume")
  /\ Journal(JobRun(g), "active", JobGoto(g, "gate"), Finish(g))
  /\ UNCHANGED ticket

\* Mutant: the gate stays open.
ResolveNoGate(g) ==
  /\ JobAt(g, "gate")
  /\ JobGoto(g, IF job[g].decision = "approved" THEN "invoke" ELSE "interrupt")
  /\ UNCHANGED rows

\* conversation_gate_resolved updates nothing when the gate is not there yet.
ResolveGate(g) ==
  /\ JobAt(g, "gate")
  /\ \/ /\ ticket' = [ticket EXCEPT ![job[g].ticket].gate =
                        IF @ = "pending" THEN "resolved" ELSE @]
        /\ \/ JobGoto(g, IF job[g].decision = "approved" THEN "invoke" ELSE "interrupt")
           \/ Faults /\ Finish(g)
     \/ Faults /\ UNCHANGED ticket /\ Finish(g)
  /\ UNCHANGED run

\* The approved tool runs; then the loop goes on, or the tool's error ends it.
InvokeApproved(g) ==
  /\ JobAt(g, "invoke")
  /\ ticket' = [ticket EXCEPT ![job[g].ticket].invoked = @ + 1]
  /\ \/ /\ job' = [job EXCEPT ![g].pc = "looping"]
        /\ stack' = [stack EXCEPT ![g] = <<Frame("turn", JobRun(g))>>]
     \/ JobGoto(g, "interrupt")
     \/ Faults /\ Finish(g)
  /\ UNCHANGED run

JobInterrupt(g) ==
  /\ JobAt(g, "interrupt")
  /\ Journal(JobRun(g), "interrupted",
             /\ job' = [job EXCEPT ![g] = NoJob]
             /\ stack' = [stack EXCEPT ![g] =
                            <<[Frame("parent", JobRun(g)) EXCEPT !.seen = "interrupted"]>>],
             Finish(g))
  /\ UNCHANGED ticket

-----------------------------------------------------------------------------
(* Prepare: the daemon's start, and `gistclaw run` beside a daemon.        *)

SweepBegins == sweep' = [on |-> TRUE, left |-> {r \in Runs : Status(r) = "active"}]

Crash ==
  /\ crashes < MaxCrashes
  /\ crashes' = crashes + 1
  /\ daemon' = "starting"
  /\ job' = [g \in Procs |-> NoJob]
  /\ stack' = [g \in Procs |-> <<>>]
  /\ SweepBegins
  /\ UNCHANGED rows

CliPrepares ==
  /\ Cli /\ daemon = "up" /\ ~sweep.on
  /\ SweepBegins
  /\ UNCHANGED <<rows, work, daemon, crashes>>

ReconcileInterrupted ==
  /\ sweep.on
  /\ \E r \in sweep.left :
       /\ run' = [run EXCEPT ![r].status = "interrupted"]
       /\ sweep' = [sweep EXCEPT !.left = @ \ {r}]
  /\ UNCHANGED <<ticket, work, daemon, crashes>>

\* Any pending ticket may be older than a day. A failure is only logged.
ExpireStaleApprovals ==
  /\ sweep.on /\ sweep.left = {}
  /\ \/ \E old \in SUBSET Tickets :
          ticket' = [t \in Tickets |->
            IF /\ ticket[t].state = "pending"
               /\ t \in old \/ Status(ticket[t].run) # "needs_approval"
            THEN [ticket[t] EXCEPT !.state = "expired"]
            ELSE ticket[t]]
     \/ Faults /\ UNCHANGED ticket
  /\ sweep' = [sweep EXCEPT !.on = FALSE]
  /\ daemon' = "up"
  /\ UNCHANGED <<run, work, crashes>>

-----------------------------------------------------------------------------

LoopStep(g) ==
  \/ StartInsert(g)
  \/ BudgetStop(g) \/ ProviderFails(g) \/ MoreTurns(g) \/ EmptyTurn(g)
  \/ LastTurn(g) \/ ToolTurn(g) \/ TurnLost(g)
  \/ InterruptEmpty(g) \/ Complete(g)
  \/ PlainCall(g) \/ CreateTicket(g) \/ RequestApproval(g) \/ OpenGate(g) \/ Paused(g)
  \/ Delegate(g) \/ RecordChild(g)
  \/ CheckParent(g) \/ ResumeParent(g) \/ InterruptParent(g)

JobStep(g) ==
  \/ ResolveTicket(g) \/ ResumeRun(g) \/ ResolveGate(g)
  \/ InvokeApproved(g) \/ JobInterrupt(g)

\* What a goroutine does by itself, and what users and operators ask for.
Step(g) == daemon = "up" /\ (LoopStep(g) \/ JobStep(g)) /\ UNCHANGED boot
Ask(g) ==
  /\ daemon = "up"
  /\ \/ StartCheck(g) \/ SendSession(g)
     \/ \E t \in Tickets, d \in {"approved", "denied"} : Decide(g, t, d)
  /\ UNCHANGED boot

Next ==
  \/ \E g \in Procs : Step(g) \/ Ask(g)
  \/ Crash \/ CliPrepares \/ ReconcileInterrupted \/ ExpireStaleApprovals

Spec == Init /\ [][Next]_vars

\* Goroutines are scheduled and a start-up runs to its end; nobody has to
\* start a run or to answer a prompt.
Fairness ==
  /\ \A g \in Procs : WF_vars(Step(g))
  /\ WF_vars(ReconcileInterrupted \/ ExpireStaleApprovals)

FairSpec == Spec /\ Fairness
-----------------------------------------------------------------------------
(* Properties.                                                             *)

Frames == [pc : {"start", "turn", "empty", "complete", "tools", "asked", "gate", "paused",
                 "spawned", "record", "parent", "announce"},
           run : Runs \cup {NoRun}, turn : 0 .. MaxTurns,
           calls : Seq({"plain", "ask", "delegate"}), ticket : Tickets \cup {NoTicket},
           seen : Statuses \cup {"error"}]

\* Every variable has its type.
TypeOK ==
  /\ run \in [Runs -> [status : Statuses, parent : Runs \cup {NoRun}, session : Runs \cup {Front}]]
  /\ ticket \in [Tickets -> [state : {"none", "pending", "approved", "denied", "expired"},
                             run : Runs \cup {NoRun}, gate : {"none", "pending", "resolved"},
                             invoked : Nat]]
  /\ job \in [Procs -> [pc : {"idle", "resolve", "resume", "gate", "invoke", "looping", "interrupt"},
                        ticket : Tickets \cup {NoTicket},
                        decision : {"none", "approved", "denied"}]]
  /\ stack \in [Procs -> Seq(Frames)]
  /\ daemon \in {"up", "starting"}
  /\ sweep \in [on : BOOLEAN, left : SUBSET Runs]
  /\ crashes \in 0 .. MaxCrashes

\* A tool that needs approval runs only under an approved ticket, and once for
\* each: two answers, a crash or a lost write must not run it again
\* (ResolveTicket, finishApprovalResolution).
ApprovedToolsRunOnce ==
  \A t \in Tickets : ticket[t].invoked > 0 => ticket[t].invoked = 1 /\ ticket[t].state = "approved"

\* The calls of executeRunLoop that are on some stack.
LoopPcs == {"turn", "empty", "complete", "tools", "asked", "gate", "paused", "spawned", "record"}
Loops(r) == {at \in Procs \X (1 .. 2 * Cardinality(Runs)) :
               LET s == stack[at[1]] IN
               at[2] \in DOMAIN s /\ s[at[2]].run = r /\ s[at[2]].pc \in LoopPcs}

\* No two goroutines are in the loop of one run.
OneLoopPerRun == \A r \in Runs : Cardinality(Loops(r)) <= 1

\* A conversation works on one root run at a time.
OneRootAtATime ==
  \A q, r \in Runs :
    run[q].parent = NoRun /\ run[r].parent = NoRun /\ Loops(q) # {} /\ Loops(r) # {} => q = r

\* The engine implements the life of a run that RunLife promises: in
\* particular a run that has ended stays as it ended.
Life == INSTANCE RunLife WITH status <- [r \in Runs |-> Status(r)],
                              parent <- [r \in Runs |-> run[r].parent]
ImplementsRunLife == Life!Spec

\* Nothing completes a run that was interrupted, its parent's own loop included.
InterruptedStaysIncomplete ==
  [][\A r \in Runs : Status(r) = "interrupted" => run'[r].status # "completed"]_vars

\* Until a restart, a run that waits for approval with nobody working on it can
\* be answered: every half of asking and of answering is followed by the other
\* (CreateTicket, approval_requested; ResolveTicket, run_resumed, interruptRun).
\* A restart between the two, or one that expires the ticket, leaves it waiting.
WaitingCanBeAnswered ==
  \A r \in Runs : Status(r) = "needs_approval" /\ ~Working(r) =>
    \/ crashes > 0
    \/ \E t \in Tickets : ticket[t].run = r /\
          (ticket[t].state = "pending" \/ \E g \in Procs : job[g].ticket = t)

\* Until a restart, a gate that asks for an answer stands for a ticket that takes
\* one, or whose answer is being worked on (appendApprovalGate,
\* conversation_gate_resolved). A restart that expires the ticket leaves its
\* gate open.
GatesCanBeAnswered ==
  \A t \in Tickets : ticket[t].gate = "pending" =>
    \/ crashes > 0
    \/ ticket[t].state = "pending" \/ \E g \in Procs : job[g].ticket = t

\* Until a restart, nobody is asked for an answer that cannot be given: a run
\* that waits has a ticket, and a gate that is open has one, that takes an
\* answer or whose answer is being worked on.
AnswersAreWelcome == WaitingCanBeAnswered /\ GatesCanBeAnswered

\* Whoever starts a run and whatever it delegates, it ends or comes to wait for
\* an answer, its own or its child's.
Waits(r) ==
  Status(r) = "needs_approval" \/ \E c \in Runs : run[c].parent = r /\ Status(c) = "needs_approval"
RunsSettle == \A r \in Runs : Status(r) = "active" ~> Status(r) \in Terminal \/ Waits(r)
=============================================================================

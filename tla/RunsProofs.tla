----------------------------- MODULE RunsProofs ------------------------------
(***************************************************************************)
(* Theorems about Runs. For any number of runs, tickets and goroutines,     *)
(* every kind of turn, early answers, failing writes, restarts, messages to *)
(* workers and a second process: type correctness, and that an approved     *)
(* tool runs once. Where operators answer what is at rest and the           *)
(* environment is calm: one loop per run, one root at a time, no prompt     *)
(* without an answer, and that Runs implements RunLife.                     *)
(***************************************************************************)
EXTENDS Runs, SequenceTheorems, FiniteSetTheorems, TLAPS

-----------------------------------------------------------------------------
(* Frames and stacks: only a call that delegates waits below another.      *)

Kinds == {"plain", "ask", "delegate"}

FrameSet(pcs, runs, turns, calls) ==
  [pc : pcs, run : runs, turn : turns, calls : calls,
   ticket : Tickets \cup {NoTicket}, seen : Statuses \cup {"error"}]

BusyPcs == {"tools", "asked", "spawned", "record"}
FreePcs == {"turn", "empty", "complete", "gate", "paused", "parent", "announce"}

Spawned == FrameSet({"spawned"}, Runs, 0 .. (MaxTurns - 1), Seq(Kinds) \ {<<>>})
Busy == FrameSet(BusyPcs, Runs, 0 .. (MaxTurns - 1), Seq(Kinds) \ {<<>>})
Free == FrameSet(FreePcs, Runs, 0 .. MaxTurns, Seq(Kinds))
Starting == FrameSet({"start"}, {NoRun}, {0}, {<<>>})

Good == Busy \cup Free \cup Starting
Stacks == {s \in Seq(Good) : s # <<>> => Tail(s) \in Seq(Spawned)}

LEMMA SpawnedIsGood == Spawned \subseteq Good /\ Spawned \subseteq Frames
<1>1. Spawned \subseteq Busy
  BY DEF Spawned, Busy, FrameSet, BusyPcs
<1>2. 0 .. (MaxTurns - 1) \subseteq 0 .. MaxTurns
  BY ConstantsAssumption
<1>3. Spawned \subseteq Frames
  BY <1>2 DEF Spawned, Frames, FrameSet, Kinds
<1> QED
  BY <1>1, <1>3 DEF Good

LEMMA GoodIsFrame == Good \subseteq Frames
<1>1. 0 .. (MaxTurns - 1) \subseteq 0 .. MaxTurns /\ 0 \in 0 .. MaxTurns
  BY ConstantsAssumption
<1>2. Busy \subseteq Frames
  BY <1>1 DEF Busy, Frames, FrameSet, BusyPcs, Kinds
<1>3. Free \subseteq Frames
  BY DEF Free, Frames, FrameSet, FreePcs, Kinds
<1>4. <<>> \in Seq({"plain", "ask", "delegate"})
  OBVIOUS
<1>5. Starting \subseteq Frames
  BY <1>1, <1>4 DEF Starting, Frames, FrameSet
<1> QED
  BY <1>2, <1>3, <1>5 DEF Good

(* The innermost call and the calls that wait for it.                      *)
LEMMA StackParts ==
  ASSUME NEW s \in Stacks, s # <<>>
  PROVE  Head(s) \in Good /\ Tail(s) \in Seq(Spawned)
BY DEF Stacks

LEMMA RestParts ==
  ASSUME NEW rest \in Seq(Spawned), rest # <<>>
  PROVE  Head(rest) \in Spawned /\ Tail(rest) \in Seq(Spawned)
OBVIOUS

LEMMA PushTyped ==
  ASSUME NEW f \in Good, NEW rest \in Seq(Spawned)
  PROVE  <<f>> \o rest \in Stacks
<1>1. rest \in Seq(Good)
  BY SpawnedIsGood
<1>2. <<f>> \in Seq(Good)
  OBVIOUS
<1>3. <<f>> \o rest \in Seq(Good)
  BY <1>1, <1>2
<1>4. <<f>> \o rest # <<>> /\ Tail(<<f>> \o rest) = rest
  BY <1>1, <1>2
<1> QED
  BY <1>3, <1>4 DEF Stacks

LEMMA PushTwoTyped ==
  ASSUME NEW f \in Good, NEW lower \in Spawned, NEW rest \in Seq(Spawned)
  PROVE  <<f, lower>> \o rest \in Stacks
<1>1. lower \in Good /\ rest \in Seq(Good)
  BY SpawnedIsGood
<1>2. <<f, lower>> \o rest \in Seq(Good) /\ Tail(<<f, lower>> \o rest) = <<lower>> \o rest
  BY <1>1
<1>3. <<lower>> \o rest \in Seq(Spawned)
  OBVIOUS
<1> QED
  BY <1>2, <1>3 DEF Stacks

LEMMA SingleTyped ==
  ASSUME NEW f \in Good
  PROVE  <<f>> \in Stacks
<1>1. <<f>> \in Seq(Good) /\ Tail(<<f>>) = <<>> /\ <<>> \in Seq(Spawned)
  OBVIOUS
<1> QED
  BY <1>1 DEF Stacks

LEMMA EmptyStack == <<>> \in Stacks
BY DEF Stacks

-----------------------------------------------------------------------------
(* What the actions do to one frame.                                       *)

LEMMA FrameAt ==
  ASSUME NEW f \in Good
  PROVE  /\ f.pc \in FreePcs => f \in Free
         /\ f.pc \in BusyPcs => f \in Busy
         /\ f.pc # "start" => f.run \in Runs
<1>1. CASE f \in Free
  BY <1>1 DEF Free, FrameSet, FreePcs, BusyPcs
<1>2. CASE f \in Busy
  BY <1>2 DEF Busy, FrameSet, FreePcs, BusyPcs
<1>3. CASE f \in Starting
  BY <1>3 DEF Starting, FrameSet, FreePcs, BusyPcs
<1> QED
  BY <1>1, <1>2, <1>3 DEF Good

LEMMA BusyToFree ==
  ASSUME NEW f \in Busy, NEW pc \in FreePcs
  PROVE  [f EXCEPT !.pc = pc] \in Free
<1>1. 0 .. (MaxTurns - 1) \subseteq 0 .. MaxTurns
  BY ConstantsAssumption
<1> QED
  BY <1>1 DEF Busy, Free, FrameSet

LEMMA FreeToFree ==
  ASSUME NEW f \in Free, NEW pc \in FreePcs
  PROVE  [f EXCEPT !.pc = pc] \in Free
BY DEF Free, FrameSet

LEMMA BusyToBusy ==
  ASSUME NEW f \in Busy, NEW pc \in BusyPcs
  PROVE  [f EXCEPT !.pc = pc] \in Busy
BY DEF Busy, FrameSet

LEMMA NewFrame ==
  ASSUME NEW r \in Runs, NEW pc \in FreePcs, NEW seen \in Statuses \cup {"error"}
  PROVE  Frame(pc, r) \in Free /\ [Frame(pc, r) EXCEPT !.seen = seen] \in Free
<1>1. 0 \in 0 .. MaxTurns
  BY ConstantsAssumption
<1>2. <<>> \in Seq(Kinds)
  OBVIOUS
<1> QED
  BY <1>1, <1>2 DEF Frame, Free, FrameSet, Statuses, Live, Terminal

LEMMA NewStart == Frame("start", NoRun) \in Starting
BY DEF Frame, Starting, FrameSet, Statuses, Live, Terminal

(* After a tool call comes another one, or the next turn within the limit. *)
LEMMA NextCallTyped ==
  ASSUME NEW f \in Busy
  PROVE  NextCall(f) \in Good
<1>1. f.calls \in Seq(Kinds) /\ f.calls # <<>> /\ f.turn \in 0 .. (MaxTurns - 1)
  BY DEF Busy, FrameSet
<1>2. CASE Len(f.calls) = 1
  <2>1. f.turn + 1 \in 0 .. MaxTurns
    BY <1>1, ConstantsAssumption
  <2>2. <<>> \in Seq(Kinds)
    OBVIOUS
  <2>3. [f EXCEPT !.pc = "turn", !.calls = <<>>, !.turn = @ + 1] \in Free
    BY <2>1, <2>2 DEF Busy, Free, FrameSet, FreePcs
  <2> QED
    BY <1>2, <2>3 DEF NextCall, Good
<1>3. CASE Len(f.calls) # 1
  <2>1. Tail(f.calls) \in Seq(Kinds) /\ Len(Tail(f.calls)) # 0
    BY <1>1, <1>3
  <2>2. Tail(f.calls) \in Seq(Kinds) \ {<<>>}
    BY <2>1, EmptySeq
  <2>3. [f EXCEPT !.pc = "tools", !.calls = Tail(@)] \in Busy
    BY <2>2 DEF Busy, FrameSet, BusyPcs
  <2> QED
    BY <1>3, <2>3 DEF NextCall, Good
<1> QED
  BY <1>2, <1>3

-----------------------------------------------------------------------------
(* What the actions do to a goroutine.                                     *)

JobPcs == {"idle", "resolve", "resume", "gate", "invoke", "looping", "interrupt"}
Jobs == [pc : JobPcs, ticket : Tickets \cup {NoTicket}, decision : {"none", "approved", "denied"}]

WorkType == job \in [Procs -> Jobs] /\ stack \in [Procs -> Stacks]

(* A goroutine's loop leaves every approval in hand as it is, or drops it. *)
JobsDrop == \A h \in Procs : job'[h] = job[h] \/ job'[h] = NoJob

LEMMA NoJobTyped == NoJob \in Jobs
BY DEF NoJob, Jobs, JobPcs

LEMMA GotoTyped ==
  ASSUME WorkType, NEW g \in Procs, stack[g] # <<>>, NEW f \in Good, Goto(g, f)
  PROVE  WorkType' /\ JobsDrop
<1>1. stack[g] \in Stacks
  BY DEF WorkType
<1>2. <<f>> \o Tail(stack[g]) \in Stacks
  BY <1>1, StackParts, PushTyped
<1> QED
  BY <1>2 DEF WorkType, Goto, JobsDrop

LEMMA StartsTyped ==
  ASSUME WorkType, NEW g \in Procs, stack[g] = <<>>, NEW f \in Good, Push(g, f)
  PROVE  WorkType' /\ JobsDrop
<1>1. <<>> \in Seq(Spawned)
  OBVIOUS
<1>2. <<f>> \o stack[g] \in Stacks
  BY <1>1, PushTyped
<1> QED
  BY <1>2 DEF WorkType, Push, JobsDrop

LEMMA FinishTyped ==
  ASSUME WorkType, NEW g \in Procs, Finish(g)
  PROVE  WorkType' /\ JobsDrop
BY EmptyStack, NoJobTyped DEF WorkType, Finish, JobsDrop

LEMMA ReturnTyped ==
  ASSUME WorkType, NEW g \in Procs, stack[g] # <<>>, Top(g).run \in Runs,
         NEW res \in Statuses \cup {"error"}, Return(g, res)
  PROVE  WorkType' /\ JobsDrop
<1> DEFINE rest == Tail(stack[g])
<1>1. stack[g] \in Stacks
  BY DEF WorkType
<1>2. rest \in Seq(Spawned)
  BY <1>1, StackParts
<1>3. CASE rest # <<>>
  <2> DEFINE f == [Head(rest) EXCEPT !.pc = "record", !.seen = res]
  <2>1. Head(rest) \in Spawned /\ Tail(rest) \in Seq(Spawned)
    BY <1>2, <1>3, RestParts
  <2>2. f \in Good
    BY <2>1 DEF Spawned, Busy, FrameSet, BusyPcs, Good
  <2>3. <<f>> \o Tail(rest) \in Stacks
    BY <2>1, <2>2, PushTyped
  <2>4. stack' = [stack EXCEPT ![g] = <<f>> \o Tail(rest)] /\ UNCHANGED job
    BY <1>3 DEF Return
  <2> QED
    BY <2>3, <2>4 DEF WorkType, JobsDrop
<1>4. CASE rest = <<>>
  <2> DEFINE f == [Frame("parent", Top(g).run) EXCEPT !.seen = res]
  <2>1. f \in Good
    BY NewFrame DEF FreePcs, Good
  <2>3. <<f>> \in Stacks
    BY <2>1, SingleTyped
  <2>4. \/ stack' = [stack EXCEPT ![g] = <<f>>]
        \/ stack' = [stack EXCEPT ![g] = <<>>]
    BY <1>4 DEF Return
  <2>5. job' = [job EXCEPT ![g] = NoJob]
    BY <1>4 DEF Return
  <2> QED
    BY <2>3, <2>4, <2>5, EmptyStack, NoJobTyped DEF WorkType, JobsDrop
<1> QED
  BY <1>3, <1>4

-----------------------------------------------------------------------------
(* What the actions do to the rows.                                        *)

RunRows == [Runs -> [status : Statuses, parent : Runs \cup {NoRun},
                     session : Runs \cup {Front}]]
TicketStates == {"none", "pending", "approved", "denied", "expired"}
TicketRows == [Tickets -> [state : TicketStates, run : Runs \cup {NoRun},
                           gate : {"none", "pending", "resolved"}, invoked : Nat]]

(* A ticket that exists is a run's.                                        *)
RowsType ==
  /\ run \in RunRows /\ ticket \in TicketRows
  /\ \A t \in Tickets : ticket[t].state # "none" => ticket[t].run \in Runs

(* A loop creates tickets and opens gates; it decides and invokes nothing. *)
TicketsGrow ==
  /\ ticket' \in TicketRows
  /\ \A t \in Tickets :
       /\ ticket'[t].state # "none" => ticket'[t].run \in Runs
       /\ ticket'[t].invoked = ticket[t].invoked
       /\ \/ ticket'[t].state = ticket[t].state
          \/ ticket[t].state = "none" /\ ticket'[t].state = "pending"

LEMMA TicketsStay ==
  ASSUME RowsType, UNCHANGED ticket
  PROVE  TicketsGrow
BY DEF RowsType, TicketsGrow

LEMMA StatusTyped ==
  ASSUME RowsType, NEW r, NEW s \in Statuses,
         run' = [run EXCEPT ![r].status = s] \/ UNCHANGED run
  PROVE  run' \in RunRows
<1>1. run \in RunRows
  BY DEF RowsType
<1>2. CASE r \in Runs
  BY <1>1, <1>2 DEF RunRows
<1>3. CASE r \notin Runs
  BY <1>1, <1>3 DEF RunRows
<1> QED
  BY <1>2, <1>3

LEMMA InsertTyped ==
  ASSUME RowsType, NEW r \in Runs, NEW p \in Runs \cup {NoRun},
         NEW s \in Runs \cup {Front}, Insert(r, p, s)
  PROVE  run' \in RunRows
BY DEF RowsType, RunRows, Insert, Statuses, Live

LEMMA TopTyped ==
  ASSUME WorkType, NEW g \in Procs, stack[g] # <<>>
  PROVE  Top(g) \in Good /\ Tail(stack[g]) \in Seq(Spawned)
<1>1. stack[g] \in Stacks
  BY DEF WorkType
<1> QED
  BY <1>1, StackParts DEF Top

LEMMA AtTyped ==
  ASSUME WorkType, NEW g \in Procs, NEW pc \in FreePcs \cup BusyPcs, At(g, pc)
  PROVE  /\ stack[g] # <<>> /\ Top(g) \in Good /\ Top(g).run \in Runs
         /\ pc \in FreePcs => Top(g) \in Free
         /\ pc \in BusyPcs => Top(g) \in Busy
<1>1. stack[g] # <<>> /\ Top(g).pc = pc /\ pc # "start"
  BY DEF At, FreePcs, BusyPcs
<1> QED
  BY <1>1, TopTyped, FrameAt

(* Every step of a loop, its tool calls and the resumption of parents.     *)
LoopKeeps == WorkType' /\ JobsDrop /\ run' \in RunRows /\ TicketsGrow

LEMMA StartInsertTyped ==
  ASSUME RowsType, WorkType, NEW g \in Procs, StartInsert(g)
  PROVE  LoopKeeps
<1>1. stack[g] # <<>> /\ TicketsGrow
  BY TicketsStay DEF StartInsert, At
<1>2. ASSUME NEW r \in Unused, Insert(r, NoRun, Front),
             Goto(g, Frame("turn", r)) \/ Finish(g)
      PROVE  LoopKeeps
  <2>1. r \in Runs
    BY DEF Unused
  <2>2. Frame("turn", r) \in Good
    BY <2>1, NewFrame DEF FreePcs, Good, Statuses
  <2>3. run' \in RunRows
    BY <1>2, <2>1, InsertTyped
  <2> QED
    BY <1>1, <1>2, <2>2, <2>3, GotoTyped, FinishTyped DEF LoopKeeps
<1>3. ASSUME UNCHANGED run, Finish(g)
      PROVE  LoopKeeps
  BY <1>1, <1>3, FinishTyped DEF LoopKeeps, RowsType
<1> QED
  BY <1>2, <1>3 DEF StartInsert

LEMMA TurnTyped ==
  ASSUME RowsType, WorkType, NEW g \in Procs,
         \/ BudgetStop(g) \/ ProviderFails(g) \/ MoreTurns(g) \/ EmptyTurn(g)
         \/ LastTurn(g) \/ ToolTurn(g) \/ TurnLost(g)
  PROVE  LoopKeeps
<1>1. At(g, "turn") /\ UNCHANGED ticket
  BY DEF BudgetStop, ProviderFails, MoreTurns, EmptyTurn, LastTurn, ToolTurn, TurnLost,
         Turning, rows
<1>2. stack[g] # <<>> /\ Top(g) \in Free /\ Top(g).run \in Runs /\ TicketsGrow
  BY <1>1, AtTyped, TicketsStay DEF FreePcs
<1>3. run \in RunRows /\ Status(Top(g).run) \in Statuses
  BY <1>2 DEF RowsType, RunRows, Status
<1>4. ASSUME NEW res \in Statuses \cup {"error"}, Return(g, res)
      PROVE  WorkType' /\ JobsDrop
  BY <1>2, <1>4, ReturnTyped
<1>5. ASSUME NEW f \in Good, Goto(g, f)
      PROVE  WorkType' /\ JobsDrop
  BY <1>2, <1>5, GotoTyped
<1>6. CASE BudgetStop(g)
  <2>1. "interrupted" \in Statuses
    BY DEF Statuses, Terminal
  <2>2. run' \in RunRows
    BY <1>6, <2>1, StatusTyped DEF BudgetStop, Journal
  <2>3. Return(g, "interrupted") \/ Return(g, Status(Top(g).run))
    BY <1>6 DEF BudgetStop, Journal
  <2> QED
    BY <1>2, <1>3, <1>4, <2>1, <2>2, <2>3 DEF LoopKeeps
<1>7. CASE ProviderFails(g)
  <2>1. run' \in RunRows
    BY <1>7, StatusTyped DEF ProviderFails, Journal, Statuses, Terminal
  <2>2. Return(g, "error")
    BY <1>7 DEF ProviderFails, Journal
  <2> QED
    BY <1>2, <1>4, <2>1, <2>2 DEF LoopKeeps
<1>8. CASE MoreTurns(g)
  <2>1. Top(g).turn < MaxTurns
    BY <1>8 DEF MoreTurns, Turning
  <2>2. [Top(g) EXCEPT !.turn = @ + 1] \in Free
    BY <1>2, <2>1, ConstantsAssumption DEF Free, FrameSet
  <2> QED
    BY <1>2, <1>3, <1>5, <1>8, <2>2 DEF MoreTurns, LoopKeeps, Good
<1>9. CASE EmptyTurn(g)
  <2>1. [Top(g) EXCEPT !.pc = "empty"] \in Good
    BY <1>2, FreeToFree DEF FreePcs, Good
  <2> QED
    BY <1>2, <1>3, <1>5, <1>9, <2>1 DEF EmptyTurn, GotoPc, LoopKeeps
<1>10. CASE LastTurn(g)
  <2>1. [Top(g) EXCEPT !.pc = "complete"] \in Good
    BY <1>2, FreeToFree DEF FreePcs, Good
  <2> QED
    BY <1>2, <1>3, <1>5, <1>10, <2>1 DEF LastTurn, GotoPc, LoopKeeps, rows
<1>11. CASE ToolTurn(g)
  <2>1. PICK calls \in ToolTurns : Goto(g, [Top(g) EXCEPT !.pc = "tools", !.calls = calls])
    BY <1>11 DEF ToolTurn
  <2>2. calls \in Seq(Kinds) \ {<<>>}
    BY ConstantsAssumption DEF Kinds
  <2>3. Top(g).turn < MaxTurns /\ Top(g).turn \in 0 .. MaxTurns
    BY <1>2, <1>11 DEF ToolTurn, Free, FrameSet
  <2>4. Top(g).turn \in 0 .. (MaxTurns - 1)
    BY <2>3, ConstantsAssumption
  <2>5. [Top(g) EXCEPT !.pc = "tools", !.calls = calls] \in Busy
    BY <1>2, <2>2, <2>4 DEF Free, Busy, FrameSet, BusyPcs
  <2> QED
    BY <1>2, <1>3, <1>5, <1>11, <2>1, <2>5 DEF ToolTurn, LoopKeeps, rows, Good
<1>12. CASE TurnLost(g)
  BY <1>2, <1>3, <1>4, <1>12 DEF TurnLost, LoopKeeps, rows
<1> QED
  BY <1>6, <1>7, <1>8, <1>9, <1>10, <1>11, <1>12

LEMMA EndTyped ==
  ASSUME RowsType, WorkType, NEW g \in Procs, InterruptEmpty(g) \/ Complete(g)
  PROVE  LoopKeeps
<1>1. stack[g] # <<>> /\ Top(g).run \in Runs /\ TicketsGrow
  BY AtTyped, TicketsStay DEF InterruptEmpty, Complete, FreePcs
<1>2. {"interrupted", "completed"} \subseteq Statuses
  BY DEF Statuses, Terminal
<1>3. run' \in RunRows
  BY <1>2, StatusTyped DEF InterruptEmpty, Complete, Journal
<1>4. [Frame("parent", Top(g).run) EXCEPT !.seen = "interrupted"] \in Good
  BY <1>1, <1>2, NewFrame DEF FreePcs, Good
<1>5. \/ Goto(g, [Frame("parent", Top(g).run) EXCEPT !.seen = "interrupted"])
      \/ Return(g, "error") \/ Return(g, "completed")
  BY DEF InterruptEmpty, Complete, Journal
<1> QED
  BY <1>1, <1>2, <1>3, <1>4, <1>5, GotoTyped, ReturnTyped DEF LoopKeeps

LEMMA CallTyped ==
  ASSUME RowsType, WorkType, NEW g \in Procs,
         PlainCall(g) \/ CreateTicket(g) \/ RequestApproval(g) \/ OpenGate(g) \/ Paused(g)
  PROVE  LoopKeeps
<1>1. run \in RunRows /\ ticket \in TicketRows
  BY DEF RowsType
<1>2. ASSUME NEW res \in Statuses \cup {"error"}, Return(g, res),
             stack[g] # <<>>, Top(g).run \in Runs
      PROVE  WorkType' /\ JobsDrop
  BY <1>2, ReturnTyped
<1>3. ASSUME NEW f \in Good, Goto(g, f), stack[g] # <<>>
      PROVE  WorkType' /\ JobsDrop
  BY <1>3, GotoTyped
<1>4. CASE PlainCall(g)
  <2>1. Top(g) \in Busy /\ stack[g] # <<>> /\ Top(g).run \in Runs
    BY <1>4, AtTyped DEF PlainCall, Calling, BusyPcs
  <2>2. NextCall(Top(g)) \in Good
    BY <2>1, NextCallTyped
  <2>3. TicketsGrow /\ run' = run
    BY <1>4, TicketsStay DEF PlainCall, rows
  <2> QED
    BY <1>1, <1>2, <1>3, <1>4, <2>1, <2>2, <2>3 DEF PlainCall, LoopKeeps
<1>5. CASE CreateTicket(g)
  <2>1. Top(g) \in Busy /\ stack[g] # <<>> /\ Top(g).run \in Runs
    BY <1>5, AtTyped DEF CreateTicket, Calling, BusyPcs
  <2>2. run' = run
    BY <1>5 DEF CreateTicket
  <2>3. ASSUME NEW t \in Spare,
               ticket' = [ticket EXCEPT ![t].state = "pending", ![t].run = Top(g).run],
               Goto(g, [Top(g) EXCEPT !.pc = "asked", !.ticket = t])
        PROVE  LoopKeeps
    <3>1. t \in Tickets /\ ticket[t].state = "none"
      BY DEF Spare
    <3>2. ticket' \in TicketRows
      BY <1>1, <2>1, <2>3, <3>1, ZenonT(60) DEF TicketRows, TicketStates
    <3>3. TicketsGrow
      BY <1>1, <2>1, <2>3, <3>1, <3>2 DEF TicketsGrow, RowsType, TicketRows
    <3>4. [Top(g) EXCEPT !.pc = "asked", !.ticket = t] \in Good
      BY <2>1, <3>1 DEF Busy, FrameSet, BusyPcs, Good
    <3> QED
      BY <1>1, <1>3, <2>1, <2>2, <2>3, <3>3, <3>4 DEF LoopKeeps
  <2>4. ASSUME UNCHANGED ticket, Return(g, "error")
        PROVE  LoopKeeps
    BY <1>1, <1>2, <2>1, <2>2, <2>4, TicketsStay DEF LoopKeeps
  <2> QED
    BY <1>5, <2>3, <2>4 DEF CreateTicket
<1>6. CASE RequestApproval(g)
  <2>1. Top(g) \in Busy /\ stack[g] # <<>> /\ Top(g).run \in Runs
    BY <1>6, AtTyped DEF RequestApproval, BusyPcs
  <2>2. [Top(g) EXCEPT !.pc = "gate"] \in Good
    BY <2>1, BusyToFree DEF FreePcs, Good
  <2>3. run' \in RunRows /\ TicketsGrow
    BY <1>6, StatusTyped, TicketsStay DEF RequestApproval, Journal, Statuses, Live
  <2>4. Goto(g, [Top(g) EXCEPT !.pc = "gate"]) \/ Return(g, "error")
    BY <1>6 DEF RequestApproval, Journal, GotoPc
  <2> QED
    BY <1>2, <1>3, <2>1, <2>2, <2>3, <2>4 DEF LoopKeeps
<1>7. CASE OpenGate(g)
  <2>1. Top(g) \in Free /\ stack[g] # <<>> /\ Top(g).run \in Runs /\ run' = run
    BY <1>7, AtTyped DEF OpenGate, FreePcs
  <2>2. [Top(g) EXCEPT !.pc = "paused"] \in Good
    BY <2>1, FreeToFree DEF FreePcs, Good
  <2>3. \/ ticket' = [ticket EXCEPT ![Top(g).ticket].gate = "pending"]
        \/ UNCHANGED ticket
    BY <1>7 DEF OpenGate
  <2>4. TicketsGrow
    BY <1>1, <2>3, TicketsStay DEF TicketsGrow, TicketRows, RowsType
  <2>5. Goto(g, [Top(g) EXCEPT !.pc = "paused"]) \/ Return(g, "error")
    BY <1>7 DEF OpenGate, GotoPc
  <2> QED
    BY <1>1, <1>2, <1>3, <2>1, <2>2, <2>4, <2>5 DEF LoopKeeps
<1>8. CASE Paused(g)
  <2>1. stack[g] # <<>> /\ Top(g).run \in Runs
    BY <1>8, AtTyped DEF Paused, FreePcs
  <2>2. Status(Top(g).run) \in Statuses
    BY <1>1, <2>1 DEF Status, RunRows
  <2> QED
    BY <1>1, <1>2, <1>8, <2>1, <2>2, TicketsStay DEF Paused, LoopKeeps, rows
<1> QED
  BY <1>4, <1>5, <1>6, <1>7, <1>8

LEMMA DelegateTyped ==
  ASSUME RowsType, WorkType, NEW g \in Procs, Delegate(g)
  PROVE  LoopKeeps
<1> DEFINE f == Top(g)
<1>1. f \in Busy /\ stack[g] # <<>> /\ f.run \in Runs
  BY AtTyped DEF Delegate, Calling, BusyPcs
<1>2. TicketsGrow
  BY TicketsStay DEF Delegate
<1>3. [f EXCEPT !.pc = "record", !.seen = "error"] \in Good
  BY <1>1 DEF Busy, FrameSet, BusyPcs, Good
<1>4. ASSUME Goto(g, [f EXCEPT !.pc = "record", !.seen = "error"]), run' \in RunRows
      PROVE  LoopKeeps
  BY <1>1, <1>2, <1>3, <1>4, GotoTyped DEF LoopKeeps
<1>5. ASSUME NEW c \in Unused, NEW p \in Preferred(run[f.run].session), Insert(c, p, c)
      PROVE  c \in Runs /\ run' \in RunRows
  <2>1. c \in Runs /\ p \in Runs
    BY DEF Unused, Preferred
  <2> QED
    BY <1>5, <2>1, InsertTyped
<1>6. ASSUME NEW c \in Runs, run' \in RunRows, UNCHANGED job,
             stack' = [stack EXCEPT ![g] =
                <<Frame("turn", c), [f EXCEPT !.pc = "spawned"]>> \o Tail(@)]
      PROVE  LoopKeeps
  <2> DEFINE rest == Tail(stack[g])
             lower == [f EXCEPT !.pc = "spawned"]
  <2>1. rest \in Seq(Spawned)
    BY <1>1, TopTyped
  <2>2. lower \in Spawned
    BY <1>1 DEF Busy, Spawned, FrameSet
  <2>3. Frame("turn", c) \in Good
    BY NewFrame DEF FreePcs, Good, Statuses
  <2> HIDE DEF rest, lower
  <2>4. <<Frame("turn", c), lower>> \o rest \in Stacks
    BY <2>1, <2>2, <2>3, PushTwoTyped
  <2>5. stack' = [stack EXCEPT ![g] = <<Frame("turn", c), lower>> \o rest]
    BY <1>6 DEF lower, rest
  <2>6. WorkType' /\ JobsDrop
    BY <1>6, <2>4, <2>5 DEF WorkType, JobsDrop
  <2> QED
    BY <1>2, <1>6, <2>6 DEF LoopKeeps
<1>7. run \in RunRows
  BY DEF RowsType
<1> HIDE DEF f
<1>8. CASE \E c \in Unused, p \in Preferred(run[f.run].session) :
             /\ Insert(c, p, c)
             /\ \/ /\ stack' = [stack EXCEPT ![g] =
                       <<Frame("turn", c), [f EXCEPT !.pc = "spawned"]>> \o Tail(@)]
                   /\ UNCHANGED job
                \/ Goto(g, [f EXCEPT !.pc = "record", !.seen = "error"])
  BY <1>4, <1>5, <1>6, <1>8
<1>9. CASE UNCHANGED run /\ Goto(g, [f EXCEPT !.pc = "record", !.seen = "error"])
  BY <1>4, <1>7, <1>9
<1> QED
  BY <1>8, <1>9 DEF Delegate, f

LEMMA ParentTyped ==
  ASSUME RowsType, WorkType, NEW g \in Procs,
         RecordChild(g) \/ CheckParent(g) \/ ResumeParent(g) \/ InterruptParent(g)
  PROVE  LoopKeeps
<1>1. run \in RunRows /\ TicketsGrow
  BY TicketsStay DEF RowsType, RecordChild, CheckParent, ResumeParent, InterruptParent, rows
<1>2. stack[g] # <<>> /\ Top(g).run \in Runs
  BY AtTyped DEF RecordChild, CheckParent, ResumeParent, InterruptParent, BusyPcs, FreePcs
<1>3. ASSUME Return(g, "error")
      PROVE  WorkType' /\ JobsDrop
  BY <1>2, <1>3, ReturnTyped
<1>4. ASSUME NEW f \in Good, Goto(g, f)
      PROVE  WorkType' /\ JobsDrop
  BY <1>2, <1>4, GotoTyped
<1>5. CASE RecordChild(g)
  <2>1. Top(g) \in Busy
    BY <1>5, AtTyped DEF RecordChild, BusyPcs
  <2>2. NextCall(Top(g)) \in Good /\ [Top(g) EXCEPT !.pc = "paused"] \in Good
    BY <2>1, NextCallTyped, BusyToFree DEF FreePcs, Good
  <2> QED
    BY <1>1, <1>3, <1>4, <1>5, <2>2 DEF RecordChild, GotoPc, LoopKeeps, rows
<1>6. CASE CheckParent(g)
  <2> DEFINE p == run[Top(g).run].parent
  <2>1. Top(g) \in Free
    BY <1>6, AtTyped DEF CheckParent, FreePcs
  <2>2. p # NoRun => [Top(g) EXCEPT !.pc = "announce", !.run = p] \in Good
    BY <1>1, <1>2, <2>1 DEF RunRows, Free, FrameSet, FreePcs, Good
  <2>3. \/ p # NoRun /\ Goto(g, [Top(g) EXCEPT !.pc = "announce", !.run = p])
        \/ Return(g, "error")
    BY <1>6 DEF CheckParent
  <2> QED
    BY <1>1, <1>3, <1>4, <1>6, <2>2, <2>3 DEF CheckParent, LoopKeeps, rows
<1>7. CASE ResumeParent(g)
  <2>1. Frame("turn", Top(g).run) \in Good
    BY <1>2, NewFrame DEF FreePcs, Good, Statuses
  <2> QED
    BY <1>1, <1>4, <1>7, <2>1 DEF ResumeParent, LoopKeeps, rows
<1>8. CASE InterruptParent(g)
  <2>1. run' \in RunRows
    BY <1>8, StatusTyped DEF InterruptParent, Journal, Statuses, Terminal
  <2> QED
    BY <1>1, <1>3, <1>8, <2>1 DEF InterruptParent, Journal, LoopKeeps
<1> QED
  BY <1>5, <1>6, <1>7, <1>8

LEMMA LoopStepTyped ==
  ASSUME RowsType, WorkType, NEW g \in Procs, LoopStep(g)
  PROVE  LoopKeeps
BY StartInsertTyped, TurnTyped, EndTyped, CallTyped, DelegateTyped, ParentTyped DEF LoopStep

-----------------------------------------------------------------------------
(* Type correctness.                                                       *)

(* An approval in hand is of a ticket that exists.                         *)
JobsBound ==
  \A g \in Procs : job[g] # NoJob =>
    /\ job[g].ticket \in Tickets /\ ticket[job[g].ticket].state # "none"
    /\ job[g].decision \in {"approved", "denied"}

BootType ==
  /\ daemon \in {"up", "starting"}
  /\ sweep \in [on : BOOLEAN, left : SUBSET Runs]
  /\ crashes \in 0 .. MaxCrashes

TypeInv == RowsType /\ WorkType /\ JobsBound /\ BootType

LEMMA StacksAreFrames == Stacks \subseteq Seq(Frames)
<1> SUFFICES ASSUME NEW s \in Seq(Good) PROVE s \in Seq(Frames)
  BY DEF Stacks
<1> QED
  BY GoodIsFrame

LEMMA TypeInvImplies == TypeInv => TypeOK
BY StacksAreFrames DEF TypeInv, RowsType, WorkType, BootType, TypeOK, RunRows, TicketRows,
   TicketStates, Jobs, JobPcs

LEMMA TypeInit == Init => TypeInv
<1> SUFFICES ASSUME Init PROVE TypeInv
  OBVIOUS
<1>1. RowsType
  BY DEF Init, RowsType, RunRows, TicketRows, TicketStates, Statuses
<1>2. WorkType /\ JobsBound
  BY EmptyStack, NoJobTyped DEF Init, WorkType, JobsBound
<1>3. BootType
  BY ConstantsAssumption DEF Init, BootType
<1> QED
  BY <1>1, <1>2, <1>3 DEF TypeInv

(* A loop's step keeps the tickets that approvals in hand need.            *)
LEMMA LoopKeepsType ==
  ASSUME TypeInv, LoopKeeps, UNCHANGED boot
  PROVE  TypeInv'
<1>1. RowsType'
  BY DEF LoopKeeps, TicketsGrow, RowsType
<1>2. JobsBound'
  BY DEF TypeInv, LoopKeeps, JobsDrop, TicketsGrow, JobsBound
<1> QED
  BY <1>1, <1>2 DEF TypeInv, LoopKeeps, BootType, boot

LEMMA JobGotoTyped ==
  ASSUME WorkType, JobsBound, NEW g \in Procs, job[g] # NoJob, NEW pc \in JobPcs,
         job' = [job EXCEPT ![g].pc = pc],
         \A t \in Tickets : ticket[t].state # "none" => ticket'[t].state # "none"
  PROVE  job' \in [Procs -> Jobs] /\ JobsBound'
<1>1. job' \in [Procs -> Jobs]
  BY DEF WorkType, Jobs
<1>2. \A h \in Procs : job'[h] # NoJob =>
        job[h] # NoJob /\ job'[h].ticket = job[h].ticket /\ job'[h].decision = job[h].decision
  BY DEF WorkType, Jobs
<1> QED
  BY <1>1, <1>2 DEF JobsBound

LEMMA JobDropTyped ==
  ASSUME WorkType, JobsBound, NEW g \in Procs, job' = [job EXCEPT ![g] = NoJob],
         \A t \in Tickets : ticket[t].state # "none" => ticket'[t].state # "none"
  PROVE  job' \in [Procs -> Jobs] /\ JobsBound'
BY NoJobTyped DEF WorkType, JobsBound

LEMMA JobTyped ==
  ASSUME TypeInv, NEW g \in Procs, JobStep(g)
  PROVE  RowsType' /\ WorkType' /\ JobsBound'
<1> DEFINE t == job[g].ticket
<1>1. RowsType /\ WorkType /\ JobsBound /\ job[g].pc # "idle"
  BY DEF TypeInv, JobStep, JobAt, ResolveTicket, ResumeRun, ResolveGate, InvokeApproved,
         JobInterrupt
<1>2. job[g] # NoJob /\ job[g] \in Jobs
  BY <1>1 DEF NoJob, WorkType
<1>3. t \in Tickets /\ ticket[t].state # "none" /\ JobRun(g) \in Runs
      /\ job[g].decision \in {"approved", "denied"}
  BY <1>1, <1>2 DEF JobsBound, RowsType, JobRun
<1>4. run \in RunRows /\ ticket \in TicketRows
  BY <1>1 DEF RowsType
<1>5. ASSUME NEW s \in TicketStates \ {"none"}, ticket' = [ticket EXCEPT ![t].state = s], UNCHANGED run
      PROVE  RowsType' /\ \A u \in Tickets : ticket[u].state # "none" => ticket'[u].state # "none"
  BY <1>1, <1>3, <1>4, <1>5 DEF RowsType, TicketRows
<1>6. ASSUME UNCHANGED ticket, run' \in RunRows
      PROVE  RowsType' /\ \A u \in Tickets : ticket[u].state # "none" => ticket'[u].state # "none"
  BY <1>1, <1>6 DEF RowsType
<1>7. ASSUME NEW pc \in JobPcs, JobGoto(g, pc),
             \A u \in Tickets : ticket[u].state # "none" => ticket'[u].state # "none"
      PROVE  WorkType' /\ JobsBound'
  BY <1>1, <1>2, <1>7, JobGotoTyped DEF JobGoto, WorkType
<1>8. ASSUME Finish(g),
             \A u \in Tickets : ticket[u].state # "none" => ticket'[u].state # "none"
      PROVE  WorkType' /\ JobsBound'
  BY <1>1, <1>8, JobDropTyped, FinishTyped DEF Finish
<1> HIDE DEF t
<1>9. CASE ResolveTicket(g)
  <2>1. CASE ticket[t].state = "pending"
    <3>1. ticket' = [ticket EXCEPT ![t].state = job[g].decision] /\ UNCHANGED run
      BY <1>9, <2>1 DEF ResolveTicket, t
    <3>2. JobGoto(g, "resume") \/ JobGoto(g, "gate")
      BY <1>9, <2>1 DEF ResolveTicket, t
    <3>3. job[g].decision \in TicketStates \ {"none"}
      BY <1>3 DEF TicketStates
    <3> QED
      BY <1>5, <1>7, <3>1, <3>2, <3>3 DEF JobPcs
  <2>2. CASE ticket[t].state # "pending"
    <3>1. UNCHANGED ticket /\ Finish(g) /\ UNCHANGED run
      BY <1>9, <2>2 DEF ResolveTicket, t
    <3> QED
      BY <1>4, <1>6, <1>8, <3>1
  <2> QED
    BY <2>1, <2>2
<1>10. CASE ResumeRun(g)
  <2>1. run' \in RunRows /\ UNCHANGED ticket
    BY <1>1, <1>10, StatusTyped DEF ResumeRun, Journal, Statuses, Live
  <2>2. JobGoto(g, "gate") \/ Finish(g)
    BY <1>10 DEF ResumeRun, Journal
  <2> QED
    BY <1>6, <1>7, <1>8, <2>1, <2>2 DEF JobPcs
<1>11. CASE ResolveGate(g)
  <2>1. /\ \/ UNCHANGED ticket
           \/ ticket' = [ticket EXCEPT ![t].gate = IF @ = "pending" THEN "resolved" ELSE @]
        /\ UNCHANGED run
    BY <1>11 DEF ResolveGate, t
  <2>2. RowsType' /\ \A u \in Tickets : ticket[u].state # "none" => ticket'[u].state # "none"
    BY <1>1, <1>3, <1>4, <2>1 DEF RowsType, TicketRows
  <2>3. JobGoto(g, "invoke") \/ JobGoto(g, "interrupt") \/ Finish(g)
    BY <1>11 DEF ResolveGate
  <2> QED
    BY <1>7, <1>8, <2>2, <2>3 DEF JobPcs
<1>12. CASE InvokeApproved(g)
  <2>1. ticket' = [ticket EXCEPT ![t].invoked = @ + 1] /\ UNCHANGED run
    BY <1>12 DEF InvokeApproved, t
  <2>2. RowsType' /\ \A u \in Tickets : ticket[u].state # "none" => ticket'[u].state # "none"
    BY <1>1, <1>3, <1>4, <2>1 DEF RowsType, TicketRows
  <2>3. ASSUME job' = [job EXCEPT ![g].pc = "looping"],
               stack' = [stack EXCEPT ![g] = <<Frame("turn", JobRun(g))>>]
        PROVE  WorkType' /\ JobsBound'
    <3>1. Frame("turn", JobRun(g)) \in Good
      BY <1>3, NewFrame DEF FreePcs, Good, Statuses
    <3>2. job' \in [Procs -> Jobs] /\ JobsBound'
      BY <1>1, <1>2, <2>2, <2>3, JobGotoTyped DEF JobPcs
    <3> QED
      BY <1>1, <2>3, <3>1, <3>2, SingleTyped DEF WorkType
  <2> QED
    BY <1>7, <1>8, <1>12, <2>2, <2>3 DEF InvokeApproved, JobPcs
<1>13. CASE JobInterrupt(g)
  <2>1. run' \in RunRows /\ UNCHANGED ticket
    BY <1>1, <1>13, StatusTyped DEF JobInterrupt, Journal, Statuses, Terminal
  <2>2. ASSUME job' = [job EXCEPT ![g] = NoJob],
               stack' = [stack EXCEPT ![g] =
                           <<[Frame("parent", JobRun(g)) EXCEPT !.seen = "interrupted"]>>]
        PROVE  WorkType' /\ JobsBound'
    <3>1. [Frame("parent", JobRun(g)) EXCEPT !.seen = "interrupted"] \in Good
      BY <1>3, NewFrame DEF FreePcs, Good, Statuses, Terminal
    <3>2. job' \in [Procs -> Jobs] /\ JobsBound'
      BY <1>1, <1>6, <2>1, <2>2, JobDropTyped
    <3> QED
      BY <1>1, <2>2, <3>1, <3>2, SingleTyped DEF WorkType
  <2> QED
    BY <1>6, <1>8, <1>13, <2>1, <2>2 DEF JobInterrupt, Journal
<1> QED
  BY <1>9, <1>10, <1>11, <1>12, <1>13 DEF JobStep

LEMMA AskTyped ==
  ASSUME TypeInv, NEW g \in Procs, Ask(g)
  PROVE  TypeInv'
<1>1. RowsType /\ WorkType /\ JobsBound /\ UNCHANGED boot
  BY DEF TypeInv, Ask
<1>2. ASSUME StartCheck(g)
      PROVE  LoopKeeps
  <2>1. Frame("start", NoRun) \in Good /\ stack[g] = <<>>
    BY <1>2, NewStart DEF Good, StartCheck, Idle
  <2>2. WorkType' /\ JobsDrop
    BY <1>1, <1>2, <2>1, StartsTyped DEF StartCheck
  <2> QED
    BY <1>1, <1>2, <2>2, TicketsStay DEF StartCheck, LoopKeeps, rows, RowsType
<1>3. ASSUME SendSession(g)
      PROVE  LoopKeeps
  <2>1. PICK q \in Runs, c \in Unused :
          /\ Insert(c, run[q].parent, run[q].session)
          /\ Push(g, Frame("turn", c)) \/ UNCHANGED work
    BY <1>3 DEF SendSession
  <2>2. c \in Runs /\ run[q].parent \in Runs \cup {NoRun} /\ run[q].session \in Runs \cup {Front}
    BY <1>1 DEF RowsType, RunRows, Unused
  <2>3. run' \in RunRows
    BY <1>1, <2>1, <2>2, InsertTyped
  <2>4. Frame("turn", c) \in Good /\ stack[g] = <<>>
    BY <1>3, <2>2, NewFrame DEF FreePcs, Good, Statuses, SendSession, Idle
  <2>5. WorkType' /\ JobsDrop
    BY <1>1, <2>1, <2>4, StartsTyped DEF work, WorkType, JobsDrop
  <2> QED
    BY <1>1, <1>3, <2>3, <2>5, TicketsStay DEF SendSession, LoopKeeps
<1>4. ASSUME NEW t \in Tickets, NEW d \in {"approved", "denied"}, Decide(g, t, d)
      PROVE  TypeInv'
  <2>1. job' = [job EXCEPT ![g] = [pc |-> "resolve", ticket |-> t, decision |-> d]]
        /\ UNCHANGED <<run, ticket, stack>> /\ ticket[t].state = "pending"
    BY <1>4 DEF Decide, Reachable, rows
  <2>2. WorkType'
    BY <1>1, <2>1 DEF WorkType, Jobs, JobPcs
  <2>3. JobsBound'
    BY <1>1, <2>1 DEF JobsBound, WorkType
  <2> QED
    BY <1>1, <2>1, <2>2, <2>3 DEF TypeInv, RowsType, BootType, boot
<1> QED
  BY <1>1, <1>2, <1>3, <1>4, LoopKeepsType DEF Ask

LEMMA PrepareTyped ==
  ASSUME TypeInv, Crash \/ CliPrepares \/ ReconcileInterrupted \/ ExpireStaleApprovals
  PROVE  TypeInv'
<1>1. RowsType /\ WorkType /\ JobsBound /\ BootType
  BY DEF TypeInv
<1>2. CASE Crash
  <2>1. RowsType' /\ WorkType' /\ JobsBound'
    BY <1>1, <1>2, EmptyStack, NoJobTyped DEF Crash, rows, RowsType, WorkType, JobsBound
  <2>2. crashes' \in 0 .. MaxCrashes
    BY <1>1, <1>2, ConstantsAssumption DEF Crash, BootType
  <2> QED
    BY <1>2, <2>1, <2>2 DEF Crash, SweepBegins, BootType, TypeInv
<1>3. CASE CliPrepares
  BY <1>1, <1>3 DEF CliPrepares, SweepBegins, rows, work, BootType, TypeInv, RowsType, WorkType,
     JobsBound
<1>4. CASE ReconcileInterrupted
  <2>1. run' \in RunRows
    BY <1>1, <1>4, StatusTyped DEF ReconcileInterrupted, Statuses, Terminal
  <2> QED
    BY <1>1, <1>4, <2>1 DEF ReconcileInterrupted, work, BootType, TypeInv, RowsType, WorkType,
       JobsBound
<1>5. CASE ExpireStaleApprovals
  <2>1. ticket' \in TicketRows
        /\ \A t \in Tickets : ticket'[t].run = ticket[t].run
             /\ (ticket[t].state = "none" <=> ticket'[t].state = "none")
    BY <1>1, <1>5 DEF ExpireStaleApprovals, RowsType, TicketRows, TicketStates
  <2>2. UNCHANGED <<run, job, stack, crashes>>
    BY <1>5 DEF ExpireStaleApprovals, work
  <2>3. RowsType' /\ JobsBound'
    BY <1>1, <2>1, <2>2 DEF RowsType, JobsBound
  <2> QED
    BY <1>1, <1>5, <2>2, <2>3 DEF ExpireStaleApprovals, BootType, TypeInv, WorkType
<1> QED
  BY <1>2, <1>3, <1>4, <1>5

LEMMA TypeStep == TypeInv /\ [Next]_vars => TypeInv'
<1> SUFFICES ASSUME TypeInv, [Next]_vars PROVE TypeInv'
  OBVIOUS
<1>1. RowsType /\ WorkType
  BY DEF TypeInv
<1>2. ASSUME NEW g \in Procs, Step(g)
      PROVE  TypeInv'
  <2>1. UNCHANGED boot /\ (LoopStep(g) \/ JobStep(g))
    BY <1>2 DEF Step
  <2>2. CASE LoopStep(g)
    BY <1>1, <2>1, <2>2, LoopStepTyped, LoopKeepsType
  <2>3. CASE JobStep(g)
    BY <2>1, <2>3, JobTyped DEF TypeInv, BootType, boot
  <2> QED
    BY <2>1, <2>2, <2>3
<1>3. CASE UNCHANGED vars
  BY <1>3 DEF vars, TypeInv, RowsType, WorkType, JobsBound, BootType
<1> QED
  BY <1>2, <1>3, AskTyped, PrepareTyped DEF Next

LEMMA AlwaysTyped == Spec => []TypeInv
BY TypeInit, TypeStep, PTL DEF Spec

(* Every variable of the run engine has its type in every reachable state. *)
THEOREM RunsTyped == Spec => []TypeOK
BY AlwaysTyped, TypeInvImplies, PTL

-----------------------------------------------------------------------------
(* An approved tool runs once.                                             *)

(* From ResolveTicket's update to the tool's run, one goroutine holds the  *)
(* ticket.                                                                 *)
Holds(g) == job[g].pc \in {"resume", "gate", "invoke"}

OnceInv ==
  /\ \A g \in Procs : Holds(g) =>
       /\ ticket[job[g].ticket].state = job[g].decision
       /\ ticket[job[g].ticket].invoked = 0
       /\ job[g].pc # "gate" => job[g].decision = "approved"
  /\ \A g, h \in Procs : Holds(g) /\ Holds(h) /\ job[g].ticket = job[h].ticket => g = h
  /\ \A t \in Tickets :
       /\ ticket[t].invoked \in {0, 1}
       /\ ticket[t].state # "approved" => ticket[t].invoked = 0

LEMMA OnceInit == Init => OnceInv
BY DEF Init, OnceInv, Holds, NoJob

LEMMA HoldersTicket ==
  ASSUME TypeInv, NEW g \in Procs, Holds(g)
  PROVE  /\ job[g].ticket \in Tickets /\ ticket[job[g].ticket].state # "none"
         /\ job[g].decision \in {"approved", "denied"}
BY DEF TypeInv, JobsBound, Holds, NoJob

(* What leaves decided tickets alone and gives nobody a ticket keeps it.   *)
LEMMA OnceQuiet ==
  ASSUME TypeInv, OnceInv, JobsDrop,
         \A t \in Tickets :
           /\ ticket'[t].invoked = ticket[t].invoked
           /\ \/ ticket'[t].state = ticket[t].state
              \/ ticket[t].state \in {"none", "pending"} /\ ticket'[t].state # "none"
  PROVE  OnceInv'
<1>1. \A g \in Procs : Holds(g)' => Holds(g) /\ job'[g] = job[g]
  BY DEF JobsDrop, Holds, NoJob
<1>2. \A g \in Procs : Holds(g) =>
        /\ ticket'[job[g].ticket].state = ticket[job[g].ticket].state
        /\ ticket'[job[g].ticket].invoked = ticket[job[g].ticket].invoked
  BY HoldersTicket DEF OnceInv
<1>3. \A t \in Tickets :
        /\ ticket'[t].invoked \in {0, 1}
        /\ ticket'[t].state # "approved" => ticket'[t].invoked = 0
  BY DEF OnceInv
<1> QED
  BY <1>1, <1>2, <1>3 DEF OnceInv

LEMMA OnceJob ==
  ASSUME TypeInv, OnceInv, NEW g \in Procs, JobStep(g)
  PROVE  OnceInv'
<1> DEFINE t == job[g].ticket
<1>1. job \in [Procs -> Jobs] /\ ticket \in TicketRows /\ job[g].pc # "idle"
  BY DEF TypeInv, RowsType, WorkType, JobStep, JobAt, ResolveTicket, ResumeRun, ResolveGate,
         InvokeApproved, JobInterrupt
<1>2. t \in Tickets /\ ticket[t].state # "none" /\ job[g].decision \in {"approved", "denied"}
      /\ job[g] \in Jobs
  BY <1>1 DEF TypeInv, JobsBound, NoJob
<1>3. ASSUME Finish(g) PROVE JobsDrop
  BY <1>3, FinishTyped DEF TypeInv
<1>4. ASSUME JobsDrop, UNCHANGED ticket PROVE OnceInv'
  BY <1>4, OnceQuiet
<1> HIDE DEF t
<1>5. CASE ResolveTicket(g)
  <2>1. CASE ticket[t].state = "pending"
    <3>1. ticket' = [ticket EXCEPT ![t].state = job[g].decision]
      BY <1>5, <2>1 DEF ResolveTicket, t
    <3>2. PICK pc \in {"resume", "gate"} :
            job' = [job EXCEPT ![g].pc = pc] /\ (pc = "resume" => job[g].decision = "approved")
      BY <1>5, <2>1 DEF ResolveTicket, t, JobGoto
    <3>3. \A h \in Procs : Holds(h) => job[h].ticket # t
      BY <2>1, HoldersTicket DEF OnceInv
    <3>4. \A h \in Procs : h # g => job'[h] = job[h]
      BY <1>1, <3>2
    <3>5. job'[g].pc = pc /\ job'[g].ticket = t /\ job'[g].decision = job[g].decision
      BY <1>1, <1>2, <3>2 DEF Jobs, t
    <3>6. ticket'[t].state = job[g].decision /\ ticket'[t].invoked = 0
      BY <1>1, <1>2, <2>1, <3>1 DEF TicketRows, OnceInv
    <3>7. \A u \in Tickets : u # t => ticket'[u] = ticket[u]
      BY <1>1, <3>1
    <3>8. \A h \in Procs : h # g /\ Holds(h)' => Holds(h) /\ job[h].ticket \in Tickets \ {t}
      BY <3>3, <3>4, HoldersTicket DEF Holds
    <3> QED
      BY <1>2, <3>2, <3>4, <3>5, <3>6, <3>7, <3>8 DEF OnceInv
  <2>2. CASE ticket[t].state # "pending"
    BY <1>3, <1>4, <1>5, <2>2 DEF ResolveTicket, t
  <2> QED
    BY <2>1, <2>2
<1>6. CASE ResumeRun(g)
  <2>1. Holds(g) /\ job[g].decision = "approved" /\ UNCHANGED ticket
    BY <1>6 DEF ResumeRun, JobAt, Holds, OnceInv
  <2>2. CASE job' = [job EXCEPT ![g].pc = "gate"]
    <3>1. \A h \in Procs : job'[h].ticket = job[h].ticket /\ job'[h].decision = job[h].decision
            /\ (Holds(h)' => Holds(h)) /\ (h # g => job'[h] = job[h])
      BY <1>1, <2>1, <2>2 DEF Jobs, Holds
    <3>2. job'[g].pc = "gate"
      BY <1>1, <2>2 DEF Jobs
    <3> QED
      BY <2>1, <3>1, <3>2 DEF OnceInv
  <2> QED
    BY <1>3, <1>4, <1>6, <2>1, <2>2 DEF ResumeRun, Journal, JobGoto
<1>7. CASE ResolveGate(g)
  <2>1. Holds(g)
    BY <1>7 DEF ResolveGate, JobAt, Holds
  <2>2. \A u \in Tickets : ticket'[u].state = ticket[u].state /\ ticket'[u].invoked = ticket[u].invoked
    BY <1>1, <1>2, <1>7 DEF ResolveGate, TicketRows, t
  <2>3. CASE \/ job' = [job EXCEPT ![g].pc = "invoke"] /\ job[g].decision = "approved"
             \/ job' = [job EXCEPT ![g].pc = "interrupt"]
    <3>1. \A h \in Procs : job'[h].ticket = job[h].ticket /\ job'[h].decision = job[h].decision
            /\ (Holds(h)' => Holds(h)) /\ (h # g => job'[h] = job[h])
      BY <1>1, <2>1, <2>3 DEF Jobs, Holds
    <3>2. (job'[g].pc = "invoke" /\ job[g].decision = "approved") \/ job'[g].pc = "interrupt"
      <4>1. CASE job' = [job EXCEPT ![g].pc = "invoke"] /\ job[g].decision = "approved"
        BY <1>1, <4>1 DEF Jobs
      <4>2. CASE job' = [job EXCEPT ![g].pc = "interrupt"]
        BY <1>1, <4>2 DEF Jobs
      <4> QED
        BY <2>3, <4>1, <4>2
    <3>3. \A h \in Procs : Holds(h) => job[h].ticket \in Tickets
      BY HoldersTicket
    <3>4. ASSUME NEW h \in Procs, Holds(h)'
          PROVE  /\ ticket'[job'[h].ticket].state = job'[h].decision
                 /\ ticket'[job'[h].ticket].invoked = 0
      BY <2>2, <3>1, <3>3, <3>4 DEF OnceInv
    <3>5. ASSUME NEW h \in Procs, Holds(h)', job'[h].pc # "gate"
          PROVE  job'[h].decision = "approved"
      <4>1. CASE h = g
        BY <3>1, <3>2, <3>5, <4>1 DEF Holds
      <4>2. CASE h # g
        BY <3>1, <3>5, <4>2 DEF OnceInv
      <4> QED
        BY <4>1, <4>2
    <3>6. \A h, k \in Procs : Holds(h)' /\ Holds(k)' /\ job'[h].ticket = job'[k].ticket => h = k
      BY <3>1 DEF OnceInv
    <3>7. \A u \in Tickets :
            /\ ticket'[u].invoked \in {0, 1}
            /\ ticket'[u].state # "approved" => ticket'[u].invoked = 0
      BY <2>2 DEF OnceInv
    <3> QED
      BY <3>4, <3>5, <3>6, <3>7 DEF OnceInv
  <2>4. CASE Finish(g)
    BY <1>3, <2>2, <2>4, OnceQuiet
  <2> QED
    BY <1>2, <1>7, <2>3, <2>4 DEF ResolveGate, JobGoto
<1>8. CASE InvokeApproved(g)
  <2>1. Holds(g) /\ ticket[t].state = "approved" /\ ticket[t].invoked = 0
    BY <1>8 DEF InvokeApproved, JobAt, Holds, OnceInv, t
  <2>2. ticket'[t].state = "approved" /\ ticket'[t].invoked = 1
    BY <1>1, <1>2, <1>8, <2>1 DEF InvokeApproved, TicketRows, t
  <2>3. \A u \in Tickets : u # t => ticket'[u] = ticket[u]
    BY <1>1, <1>8 DEF InvokeApproved, t
  <2>4. \A h \in Procs : h # g => job'[h] = job[h]
    BY <1>1, <1>8 DEF InvokeApproved, JobGoto, Finish
  <2>5. ~Holds(g)'
    BY <1>1, <1>8 DEF InvokeApproved, JobGoto, Finish, Holds, Jobs, NoJob
  <2>6. \A h \in Procs : Holds(h)' => h # g /\ Holds(h) /\ job[h].ticket \in Tickets \ {t}
    BY <2>1, <2>4, <2>5, HoldersTicket DEF Holds, OnceInv, t
  <2> QED
    BY <2>2, <2>3, <2>4, <2>6 DEF OnceInv
<1>9. CASE JobInterrupt(g)
  <2>1. UNCHANGED ticket
    BY <1>9 DEF JobInterrupt
  <2>2. JobsDrop
    BY <1>1, <1>3, <1>9 DEF JobInterrupt, Journal, JobsDrop
  <2> QED
    BY <1>4, <2>1, <2>2
<1> QED
  BY <1>5, <1>6, <1>7, <1>8, <1>9 DEF JobStep

LEMMA OnceAsk ==
  ASSUME TypeInv, OnceInv, NEW g \in Procs, Ask(g)
  PROVE  OnceInv'
<1>1. UNCHANGED ticket /\ job \in [Procs -> Jobs]
  BY DEF Ask, StartCheck, SendSession, Decide, rows, TypeInv, WorkType
<1>2. CASE UNCHANGED job
  BY <1>1, <1>2, OnceQuiet DEF JobsDrop
<1>3. ASSUME NEW t \in Tickets, NEW d \in {"approved", "denied"}, Decide(g, t, d)
      PROVE  OnceInv'
  <2>1. job' = [job EXCEPT ![g] = [pc |-> "resolve", ticket |-> t, decision |-> d]]
    BY <1>3 DEF Decide
  <2>2. \A h \in Procs : Holds(h)' => Holds(h) /\ job'[h] = job[h]
    BY <1>1, <2>1 DEF Holds
  <2> QED
    BY <1>1, <2>2 DEF OnceInv
<1> QED
  BY <1>2, <1>3 DEF Ask, StartCheck, SendSession, Push, work

LEMMA OncePrepare ==
  ASSUME TypeInv, OnceInv,
         Crash \/ CliPrepares \/ ReconcileInterrupted \/ ExpireStaleApprovals
  PROVE  OnceInv'
<1>1. JobsDrop
  BY DEF Crash, CliPrepares, ReconcileInterrupted, ExpireStaleApprovals, JobsDrop, work
<1>2. CASE UNCHANGED ticket
  BY <1>1, <1>2, OnceQuiet
<1>3. CASE ExpireStaleApprovals
  <2>1. \A t \in Tickets :
          /\ ticket'[t].invoked = ticket[t].invoked
          /\ \/ ticket'[t].state = ticket[t].state
             \/ ticket[t].state = "pending" /\ ticket'[t].state = "expired"
    BY <1>3 DEF ExpireStaleApprovals, TypeInv, RowsType, TicketRows
  <2> QED
    BY <1>1, <2>1, OnceQuiet
<1> QED
  BY <1>2, <1>3 DEF Crash, CliPrepares, ReconcileInterrupted, rows

LEMMA OnceStep == TypeInv /\ OnceInv /\ [Next]_vars => OnceInv'
<1> SUFFICES ASSUME TypeInv, OnceInv, [Next]_vars PROVE OnceInv'
  OBVIOUS
<1>1. ASSUME NEW g \in Procs, LoopStep(g)
      PROVE  OnceInv'
  <2>1. JobsDrop /\ TicketsGrow
    BY <1>1, LoopStepTyped DEF TypeInv, LoopKeeps
  <2> QED
    BY <2>1, OnceQuiet DEF TicketsGrow
<1>2. CASE UNCHANGED vars
  BY <1>2, OnceQuiet DEF vars, JobsDrop
<1> QED
  BY <1>1, <1>2, OnceJob, OnceAsk, OncePrepare DEF Next, Step

(* A tool that needs approval runs only under an approved ticket, and at   *)
(* most once for each, whatever answers, crashes, lost writes, messages    *)
(* and other processes come between.                                       *)
THEOREM ApprovalsAreSpentOnce == Spec => []ApprovedToolsRunOnce
<1>1. TypeInv /\ OnceInv => ApprovedToolsRunOnce
  BY DEF OnceInv, ApprovedToolsRunOnce
<1> QED
  BY <1>1, AlwaysTyped, OnceInit, OnceStep, PTL DEF Spec

-----------------------------------------------------------------------------
(* The invariant.                                                          *)

\* An operator answers what is at rest; there is one process, no message to a
\* worker, no write that fails and no empty turn. Without any one of these the
\* properties below do not hold.
Calm ==
  /\ Answers = "rest" /\ ~Nudges /\ ~Cli /\ ~Faults
  /\ "empty" \notin Outcomes

\* The runs whose calls wait below the innermost one, and all runs of a stack.
Below(g) == {stack[g][i].run : i \in 2 .. Len(stack[g])}
OnStack(g) == IF stack[g] = <<>> THEN {} ELSE {Top(g).run} \cup Below(g)
Bottom(g) == stack[g][Len(stack[g])].run

\* A child that is live, or whose end its parent is still to be told of.
Reporting(c) == \E g \in Procs : At(g, "parent") /\ Top(g).run = c
Open(c) == Status(c) \in Live \/ Reporting(c)
Childless(p) == \A c \in Runs : run[c].parent = p => ~Open(c)

\* Answers that were taken, and that can still be.
Deciding(g) == job[g].pc \in {"resume", "gate", "invoke", "interrupt"}
Resolving(g) == job[g].pc = "resolve" /\ ticket[job[g].ticket].state = "pending"
Pending(t, r) == ticket[t].state = "pending" /\ ticket[t].run = r

\* g may come to tell the parent of c that c has ended.
Claims(g, c) ==
  \/ (Deciding(g) \/ Resolving(g)) /\ c = JobRun(g)
  \/ job[g].pc = "looping" /\ c = Bottom(g)
  \/ At(g, "parent") /\ c = Top(g).run

\* A delegating call waits for the call of a child of its run.
Chain(g) ==
  /\ \A i \in 2 .. Len(stack[g]) : stack[g][i].run = run[stack[g][i - 1].run].parent
  /\ \A i, j \in 1 .. Len(stack[g]) : stack[g][i].run = stack[g][j].run => i = j

\* The innermost call has asked for approval.
HasAsked(g) ==
  \/ Top(g).pc \in {"asked", "gate"}
  \/ Top(g).pc = "paused" /\ Status(Top(g).run) = "needs_approval"

\* A call works on a run that is live, and knows how it stands.
Call(g) ==
  /\ job[g].pc = "looping" => stack[g] # <<>>
  /\ stack[g] # <<>> =>
       /\ \A r \in Below(g) : Status(r) = "active"
       /\ Top(g).pc \in {"turn", "complete", "tools", "asked", "record", "announce"} =>
            Status(Top(g).run) = "active"
       /\ Top(g).pc = "gate" => Status(Top(g).run) = "needs_approval"
       /\ Top(g).pc = "paused" => Status(Top(g).run) \in Live
       /\ Top(g).pc = "parent" => Top(g).seen = Status(Top(g).run) /\ Top(g).seen # "none"
       /\ Top(g).pc \in {"start", "parent", "announce"} => Below(g) = {} /\ job[g] = NoJob
       /\ Top(g).pc \notin {"empty", "spawned"}
       /\ HasAsked(g) => Top(g).ticket \in Tickets /\ Pending(Top(g).ticket, Top(g).run)

\* A run that goes on or was just answered has no open child.
Childfree(g) ==
  /\ Deciding(g) => Childless(JobRun(g))
  /\ stack[g] # <<>> =>
       /\ Top(g).pc \in {"turn", "complete", "tools", "asked", "announce"} => Childless(Top(g).run)
       /\ Top(g).pc = "record" /\ Top(g).seen \notin Live => Childless(Top(g).run)

\* An answer that was taken is worked on by one goroutine, and nobody is in the
\* run's loop, or in its parent's.
Answer(g) ==
  /\ job[g].pc \notin {"idle", "looping"} => stack[g] = <<>>
  /\ job[g].pc \in {"resume", "invoke"} => job[g].decision = "approved"
  /\ Deciding(g) =>
       /\ ~Working(JobRun(g))
       /\ \A t \in Tickets : ~Pending(t, JobRun(g))
       /\ Status(JobRun(g)) =
            IF job[g].decision = "denied" \/ job[g].pc = "resume" THEN "needs_approval" ELSE "active"
  /\ Resolving(g) => Status(JobRun(g)) = "needs_approval" /\ ~Working(JobRun(g))
  /\ \A c \in Runs : Claims(g, c) /\ run[c].parent # NoRun => ~Working(run[c].parent)

\* A start-up has the tables for itself.
BootInv ==
  /\ sweep.on <=> daemon = "starting"
  /\ daemon = "starting" =>
       /\ \A g \in Procs : Idle(g)
       /\ \A r \in sweep.left : Status(r) = "active"
       /\ crashes # 0

\* Workers have a session each, and a parent that was there before them.
Families ==
  \A r \in Runs :
    /\ run[r].parent = NoRun => run[r].session = Front
    /\ run[r].parent # NoRun =>
         Status(r) # "none" /\ run[r].session = r /\ Status(run[r].parent) # "none"

OneLiveRoot == \A q, r \in Runs : LiveRoot(q) /\ LiveRoot(r) => q = r

Disjoint == \A g, h \in Procs : \A r \in Runs : r \in OnStack(g) /\ r \in OnStack(h) => g = h

OneAnswer == \A g, h \in Procs : Deciding(g) /\ Deciding(h) /\ JobRun(g) = JobRun(h) => g = h

OneOpenChild ==
  \A c, d \in Runs :
    /\ run[c].parent = run[d].parent /\ run[c].parent # NoRun
    /\ Status(run[c].parent) \notin Terminal /\ Open(c) /\ Open(d)
    => c = d

WaitingIsChildless == \A r \in Runs : Status(r) = "needs_approval" => Childless(r)

\* A pending ticket is its run's only one, and the run waits for it.
OneTicket ==
  /\ \A t, u \in Tickets : \A r \in Runs : Pending(t, r) /\ Pending(u, r) => t = u
  /\ daemon = "up" => \A t \in Tickets : ticket[t].state = "pending" =>
       \/ Status(ticket[t].run) = "needs_approval"
       \/ \E g \in Procs : At(g, "asked") /\ Top(g).run = ticket[t].run

\* Until a restart, every wait has its answer coming.
AnswersCome ==
  crashes = 0 =>
    /\ \A r \in Runs : Status(r) = "needs_approval" =>
         \E t \in Tickets : ticket[t].run = r /\
           (ticket[t].state = "pending" \/ \E g \in Procs : Deciding(g) /\ job[g].ticket = t)
    /\ \A t \in Tickets : ticket[t].gate = "pending" =>
         \/ ticket[t].state = "pending"
         \/ \E g \in Procs : job[g].ticket = t /\ job[g].pc \in {"resume", "gate"}

OfGoroutine(g) == Chain(g) /\ Call(g) /\ Childfree(g) /\ Answer(g)
OfTables ==
  /\ BootInv /\ Families /\ OneLiveRoot /\ Disjoint /\ OneAnswer /\ OneOpenChild
  /\ WaitingIsChildless /\ OneTicket /\ AnswersCome
LifeInv == OfTables /\ \A g \in Procs : OfGoroutine(g)
-----------------------------------------------------------------------------
(* What the steps do to a stack.                                           *)

LEMMA EmptyLength == ASSUME NEW s, s = <<>> PROVE Len(s) = 0
OBVIOUS

LEMMA Before ==
  ASSUME NEW n \in Nat, NEW i \in 2 .. n
  PROVE  i - 1 \in 1 .. n /\ n # 1 /\ i \in 1 .. n
OBVIOUS

LEMMA LastOfMany == ASSUME NEW n \in Nat \ {0}, n # 1 PROVE n \in 2 .. n
OBVIOUS

LEMMA StackView ==
  ASSUME WorkType, NEW g \in Procs, stack[g] # <<>>
  PROVE  /\ Len(stack[g]) \in Nat \ {0} /\ stack[g] \in Seq(Good)
         /\ Top(g) = stack[g][1] /\ Top(g) \in Good
         /\ \A i \in 2 .. Len(stack[g]) : stack[g][i].run \in Runs
         /\ Tail(stack[g]) \in Seq(Spawned) /\ Len(Tail(stack[g])) = Len(stack[g]) - 1
         /\ \A i \in 1 .. Len(Tail(stack[g])) : Tail(stack[g])[i] = stack[g][i + 1]
<1>1. stack[g] \in Stacks
  BY DEF WorkType
<1>2. stack[g] \in Seq(Good) /\ Tail(stack[g]) \in Seq(Spawned)
  BY <1>1 DEF Stacks
<1>3. Len(stack[g]) \in Nat \ {0} /\ Top(g) = stack[g][1] /\ Top(g) \in Good
  BY <1>2 DEF Top
<1>4. /\ Len(Tail(stack[g])) = Len(stack[g]) - 1
      /\ \A i \in 1 .. Len(Tail(stack[g])) : Tail(stack[g])[i] = stack[g][i + 1]
  BY <1>2
<1>5. ASSUME NEW i \in 2 .. Len(stack[g])
      PROVE  stack[g][i].run \in Runs
  <2>1. i - 1 \in 1 .. Len(Tail(stack[g])) /\ Tail(stack[g])[i - 1] = stack[g][i]
    BY <1>3, <1>4
  <2>2. Tail(stack[g])[i - 1] \in Spawned
    BY <1>2, <2>1
  <2> QED
    BY <2>1, <2>2 DEF Spawned, FrameSet
<1> QED
  BY <1>2, <1>3, <1>4, <1>5

LEMMA BelowView ==
  ASSUME WorkType, NEW g \in Procs, stack[g] # <<>>
  PROVE  /\ Below(g) \subseteq Runs
         /\ Below(g) = {} <=> Len(stack[g]) = 1
         /\ Below(g) = {} => Bottom(g) = Top(g).run
         /\ Bottom(g) \in OnStack(g) /\ Top(g).run \in OnStack(g)
         /\ Tail(stack[g]) = <<>> <=> Below(g) = {}
<1>1. /\ Len(stack[g]) \in Nat \ {0} /\ Top(g) = stack[g][1]
      /\ \A i \in 2 .. Len(stack[g]) : stack[g][i].run \in Runs
      /\ Tail(stack[g]) \in Seq(Spawned) /\ Len(Tail(stack[g])) = Len(stack[g]) - 1
  BY StackView
<1>2. Below(g) \subseteq Runs
  BY <1>1 DEF Below
<1> DEFINE n == Len(stack[g])
<1>5. n \in Nat \ {0} /\ Len(Tail(stack[g])) = n - 1
  BY <1>1
<1> HIDE DEF n
<1>3. CASE Len(stack[g]) = 1
  <2>1. 2 .. Len(stack[g]) = {}
    BY <1>3
  <2>2. Below(g) = {}
    BY <2>1 DEF Below
  <2>4. Len(Tail(stack[g])) = 0
    BY <1>3, <1>5 DEF n
  <2>3. Tail(stack[g]) = <<>>
    BY <1>1, <2>4
  <2> QED
    BY <1>1, <1>2, <1>3, <2>2, <2>3 DEF Bottom, OnStack
<1>4. CASE Len(stack[g]) # 1
  <2>4. n # 1
    BY <1>4 DEF n
  <2>5. n \in 2 .. n /\ n - 1 # 0
    BY <1>5, <2>4
  <2>1. Len(stack[g]) \in 2 .. Len(stack[g])
    BY <2>5 DEF n
  <2>2. Bottom(g) \in Below(g)
    BY <2>1 DEF Below, Bottom
  <2>6. Len(Tail(stack[g])) # 0
    BY <1>5, <2>5
  <2>3. Tail(stack[g]) # <<>>
    BY <2>6, EmptyLength
  <2> QED
    BY <1>2, <1>4, <2>2, <2>3 DEF OnStack
<1> QED
  BY <1>3, <1>4

(* Every run on a stack that has a call below another one is a run.        *)
LEMMA CallsHaveRuns ==
  ASSUME WorkType, NEW g \in Procs, Call(g), stack[g] # <<>>, Top(g).pc # "start" \/ Below(g) # {}
  PROVE  /\ Top(g).run \in Runs /\ OnStack(g) \subseteq Runs
         /\ \A i \in 1 .. Len(stack[g]) : stack[g][i].run \in Runs
<1>1. Top(g).pc # "start"
  BY DEF Call
<1>2. /\ Top(g).run \in Runs /\ Top(g) = stack[g][1]
      /\ \A i \in 2 .. Len(stack[g]) : stack[g][i].run \in Runs
      /\ Len(stack[g]) \in Nat
  BY <1>1, StackView, FrameAt
<1>3. OnStack(g) \subseteq Runs
  BY <1>2, BelowView DEF OnStack
<1>4. ASSUME NEW i \in 1 .. Len(stack[g])
      PROVE  stack[g][i].run \in Runs
  <2>1. i = 1 \/ i \in 2 .. Len(stack[g])
    BY <1>2
  <2> QED
    BY <1>2, <2>1
<1> QED
  BY <1>2, <1>3, <1>4

(* The runs on g's stack keep their parents.                               *)
KeepsParents(g) == \A r \in Runs : r \in OnStack(g) => run'[r].parent = run[r].parent

LEMMA OnStackAt ==
  ASSUME WorkType, NEW g \in Procs, stack[g] # <<>>, NEW i \in 1 .. Len(stack[g])
  PROVE  stack[g][i].run \in OnStack(g)
<1>1. Len(stack[g]) \in Nat /\ Top(g) = stack[g][1]
  BY StackView
<1>2. i = 1 \/ i \in 2 .. Len(stack[g])
  BY <1>1
<1> QED
  BY <1>1, <1>2 DEF OnStack, Below

LEMMA SameView ==
  ASSUME NEW h \in Procs, stack'[h] = stack[h]
  PROVE  /\ Top(h)' = Top(h) /\ Below(h)' = Below(h) /\ Bottom(h)' = Bottom(h)
         /\ OnStack(h)' = OnStack(h)
<1>1. Top(h)' = Top(h) /\ Below(h)' = Below(h) /\ Bottom(h)' = Bottom(h)
  BY DEF Top, Below, Bottom
<1>2. OnStack(h)' = OnStack(h)
  BY <1>1 DEF OnStack
<1> QED
  BY <1>1, <1>2

LEMMA SameChain ==
  ASSUME WorkType, NEW h \in Procs, stack'[h] = stack[h], Chain(h), Call(h), KeepsParents(h)
  PROVE  Chain(h)'
<1>1. \A i, j \in 1 .. Len(stack[h]) : stack'[h][i].run = stack'[h][j].run => i = j
  BY DEF Chain
<1>2. ASSUME NEW i \in 2 .. Len(stack[h])
      PROVE  stack[h][i].run = run'[stack[h][i - 1].run].parent
  <2>1. stack[h] # <<>> /\ Len(stack[h]) \in Nat
    <3>1. stack[h] \in Stacks
      BY DEF WorkType
    <3> QED
      BY <3>1 DEF Stacks
  <2>2. i - 1 \in 1 .. Len(stack[h]) /\ Len(stack[h]) # 1
    BY <2>1, Before
  <2>3. Below(h) # {}
    BY <2>1, <2>2, BelowView
  <2>4. stack[h][i - 1].run \in Runs /\ stack[h][i - 1].run \in OnStack(h)
    BY <2>1, <2>2, <2>3, CallsHaveRuns, OnStackAt
  <2>5. stack[h][i].run = run[stack[h][i - 1].run].parent
    BY DEF Chain
  <2> QED
    BY <2>4, <2>5 DEF KeepsParents
<1> QED
  BY <1>1, <1>2 DEF Chain

LEMMA SingleView ==
  ASSUME NEW g \in Procs, NEW f, stack'[g] = <<f>>
  PROVE  /\ stack'[g] # <<>> /\ Top(g)' = f /\ Below(g)' = {} /\ OnStack(g)' = {f.run}
         /\ Bottom(g)' = f.run /\ Chain(g)'
<1>1. Len(stack'[g]) = 1 /\ stack'[g][1] = f /\ stack'[g] # <<>> /\ 2 .. 1 = {}
  OBVIOUS
<1>2. Top(g)' = f /\ Below(g)' = {} /\ Bottom(g)' = f.run
  BY <1>1 DEF Top, Below, Bottom
<1>3. OnStack(g)' = {f.run}
  BY <1>1, <1>2 DEF OnStack
<1>4. Chain(g)'
  BY <1>1 DEF Chain
<1> QED
  BY <1>1, <1>2, <1>3, <1>4

LEMMA EmptyView ==
  ASSUME NEW g \in Procs, stack'[g] = <<>>
  PROVE  OnStack(g)' = {} /\ Chain(g)'
BY DEF OnStack, Chain

(* Only g's stack changes.                                                 *)
OthersStacks(g) == \A h \in Procs : h # g => stack'[h] = stack[h]

LEMMA GotoView ==
  ASSUME WorkType, NEW g \in Procs, stack[g] # <<>>, NEW f \in Good, Goto(g, f)
  PROVE  /\ stack'[g] # <<>> /\ Top(g)' = f /\ Below(g)' = Below(g)
         /\ OnStack(g)' = {f.run} \cup Below(g)
         /\ Below(g) # {} \/ f.run = Top(g).run => Bottom(g)' = Bottom(g)
         /\ UNCHANGED job /\ OthersStacks(g)
         /\ Len(stack'[g]) = Len(stack[g]) /\ stack'[g][1] = f
         /\ \A i \in 2 .. Len(stack[g]) : stack'[g][i] = stack[g][i]
<1> DEFINE rest == Tail(stack[g])
<1>1. /\ Len(stack[g]) \in Nat \ {0} /\ stack[g] \in Seq(Good) /\ Top(g) = stack[g][1]
      /\ rest \in Seq(Spawned) /\ Len(rest) = Len(stack[g]) - 1
      /\ \A i \in 1 .. Len(rest) : rest[i] = stack[g][i + 1]
  BY StackView
<1>2. stack' = [stack EXCEPT ![g] = <<f>> \o rest] /\ stack \in [Procs -> Stacks]
  BY DEF Goto, WorkType
<1>3. stack'[g] = <<f>> \o rest /\ OthersStacks(g) /\ UNCHANGED job
  BY <1>2 DEF OthersStacks, Goto
<1> HIDE DEF rest
<1>4. Len(<<f>> \o rest) = Len(rest) + 1 /\ (<<f>> \o rest)[1] = f /\ <<f>> \o rest # <<>>
      /\ Head(<<f>> \o rest) = f
  BY <1>1
<1>5. ASSUME NEW i \in 2 .. Len(stack[g])
      PROVE  (<<f>> \o rest)[i] = stack[g][i]
  <2>1. i - 1 \in 1 .. Len(rest) /\ i \in 2 .. (Len(rest) + 1)
    BY <1>1
  <2>2. (<<f>> \o rest)[i] = rest[i - 1]
    BY <1>1, <2>1
  <2>3. rest[i - 1] = stack[g][(i - 1) + 1] /\ (i - 1) + 1 = i
    BY <1>1, <2>1
  <2> QED
    BY <2>2, <2>3
<1>6. Len(stack'[g]) = Len(stack[g]) /\ stack'[g][1] = f /\ stack'[g] # <<>> /\ Top(g)' = f
  BY <1>1, <1>3, <1>4 DEF Top
<1>7. \A i \in 2 .. Len(stack[g]) : stack'[g][i] = stack[g][i]
  BY <1>3, <1>5
<1>8. Below(g)' = Below(g)
  <2>1. Below(g)' = {stack'[g][i].run : i \in 2 .. Len(stack[g])}
    BY <1>6 DEF Below
  <2> QED
    BY <1>7, <2>1 DEF Below
<1>9. OnStack(g)' = {f.run} \cup Below(g)
  BY <1>6, <1>8 DEF OnStack
<1>10. ASSUME Below(g) # {} \/ f.run = Top(g).run
       PROVE  Bottom(g)' = Bottom(g)
  <2>1. CASE Len(stack[g]) = 1
    <3>1. Bottom(g)' = f.run /\ Bottom(g) = Top(g).run
      BY <1>1, <1>6, <2>1 DEF Bottom
    <3>2. Below(g) = {}
      BY <2>1, BelowView
    <3> QED
      BY <1>10, <3>1, <3>2
  <2>2. CASE Len(stack[g]) # 1
    <3>1. Len(stack[g]) \in 2 .. Len(stack[g])
      BY <1>1, <2>2, LastOfMany
    <3> QED
      BY <1>6, <1>7, <3>1 DEF Bottom
  <2> QED
    BY <2>1, <2>2
<1> QED
  BY <1>3, <1>6, <1>7, <1>8, <1>9, <1>10

(* Going on with the same run, or with another one when nothing waits      *)
(* below, keeps the chain.                                                 *)
LEMMA GotoChain ==
  ASSUME WorkType, NEW g \in Procs, stack[g] # <<>>, NEW f \in Good, Goto(g, f),
         Chain(g), Call(g), KeepsParents(g), f.run = Top(g).run \/ Below(g) = {}
  PROVE  Chain(g)'
<1>1. /\ Len(stack'[g]) = Len(stack[g]) /\ stack'[g][1] = f
      /\ \A i \in 2 .. Len(stack[g]) : stack'[g][i] = stack[g][i]
      /\ Top(g) = stack[g][1] /\ Len(stack[g]) \in Nat \ {0}
  BY GotoView, StackView
<1>2. CASE Below(g) = {}
  <2>1. Len(stack[g]) = 1
    BY <1>2, BelowView
  <2> QED
    BY <1>1, <2>1 DEF Chain
<1>3. CASE Below(g) # {}
  <2>1. f.run = stack[g][1].run
    BY <1>1, <1>3
  <2>2. \A i \in 1 .. Len(stack[g]) :
          stack'[g][i].run = stack[g][i].run /\ stack[g][i].run \in Runs \cap OnStack(g)
    <3> SUFFICES ASSUME NEW i \in 1 .. Len(stack[g])
                 PROVE  stack'[g][i].run = stack[g][i].run /\ stack[g][i].run \in Runs \cap OnStack(g)
      OBVIOUS
    <3>1. stack[g][i].run \in Runs /\ stack[g][i].run \in OnStack(g)
      BY <1>3, CallsHaveRuns, OnStackAt
    <3>2. i = 1 \/ i \in 2 .. Len(stack[g])
      BY <1>1
    <3> QED
      BY <1>1, <2>1, <3>1, <3>2
  <2>3. ASSUME NEW i \in 2 .. Len(stack[g])
        PROVE  stack'[g][i].run = run'[stack'[g][i - 1].run].parent
    <3>1. i - 1 \in 1 .. Len(stack[g]) /\ i \in 1 .. Len(stack[g])
      BY <1>1, Before
    <3>2. stack[g][i].run = run[stack[g][i - 1].run].parent
      BY DEF Chain
    <3> QED
      BY <2>2, <3>1, <3>2 DEF KeepsParents
  <2>4. \A i, j \in 1 .. Len(stack[g]) : stack'[g][i].run = stack'[g][j].run => i = j
    BY <2>2 DEF Chain
  <2> QED
    BY <1>1, <2>3, <2>4 DEF Chain
<1> QED
  BY <1>2, <1>3

LEMMA ConsView ==
  ASSUME NEW f \in Good, NEW rest \in Seq(Good)
  PROVE  LET t == <<f>> \o rest IN
         /\ t # <<>> /\ Head(t) = f /\ Len(t) = Len(rest) + 1 /\ t[1] = f
         /\ \A i \in 2 .. (Len(rest) + 1) : t[i] = rest[i - 1]
OBVIOUS

LEMMA TailView ==
  ASSUME NEW S, NEW rest \in Seq(S), rest # <<>>
  PROVE  /\ Head(rest) \in S /\ Head(rest) = rest[1] /\ Tail(rest) \in Seq(S)
         /\ Len(rest) \in Nat \ {0} /\ Len(Tail(rest)) = Len(rest) - 1
         /\ \A i \in 1 .. (Len(rest) - 1) : Tail(rest)[i] = rest[i + 1]
OBVIOUS

(* The innermost call of several returns to the call of the parent.        *)
Parent(g) == run[Top(g).run].parent

LEMMA PopView ==
  ASSUME WorkType, NEW g \in Procs, stack[g] # <<>>, Below(g) # {}, Chain(g), Call(g),
         NEW res \in Statuses \cup {"error"}, Return(g, res)
  PROVE  /\ Parent(g) \in Below(g) /\ stack'[g] # <<>> /\ Top(g)' \in Good
         /\ Top(g)'.pc = "record" /\ Top(g)'.seen = res /\ Top(g)'.run = Parent(g)
         /\ Below(g)' = Below(g) \ {Parent(g)} /\ OnStack(g)' = Below(g)
         /\ Top(g).run \notin Below(g) /\ Bottom(g)' = Bottom(g)
         /\ UNCHANGED job /\ OthersStacks(g)
         /\ KeepsParents(g) => Chain(g)'
<1> DEFINE s == stack[g]
           n == Len(s)
           rest == Tail(s)
           f == [Head(rest) EXCEPT !.pc = "record", !.seen = res]
           t == <<f>> \o Tail(rest)
<1>1. /\ n \in Nat \ {0} /\ Top(g) = s[1]
      /\ rest \in Seq(Spawned) /\ Len(rest) = n - 1
      /\ \A i \in 1 .. Len(rest) : rest[i] = s[i + 1]
  BY StackView
<1>2. rest # <<>> /\ n # 1 /\ n \in 2 .. n
  BY <1>1, BelowView, LastOfMany
<1>3. stack' = [stack EXCEPT ![g] = t] /\ UNCHANGED job /\ stack \in [Procs -> Stacks]
  BY <1>2 DEF Return, WorkType
<1>4. /\ Head(rest) \in Spawned /\ Head(rest) = s[2] /\ Tail(rest) \in Seq(Spawned)
      /\ Len(Tail(rest)) = n - 2
      /\ \A i \in 1 .. (n - 2) : Tail(rest)[i] = rest[i + 1]
  <2>1. /\ Head(rest) \in Spawned /\ Head(rest) = rest[1] /\ Tail(rest) \in Seq(Spawned)
        /\ Len(Tail(rest)) = Len(rest) - 1
        /\ \A i \in 1 .. (Len(rest) - 1) : Tail(rest)[i] = rest[i + 1]
    BY <1>1, <1>2, TailView
  <2>2. 1 \in 1 .. Len(rest) /\ Len(rest) - 1 = n - 2 /\ 1 + 1 = 2
    <3> HIDE DEF s, rest, n
    <3> QED
      BY <1>1, <1>2
  <2>3. rest[1] = s[2]
    BY <1>1, <2>2
  <2> QED
    BY <2>1, <2>2, <2>3
<1>5. f.run = s[2].run /\ f.pc = "record" /\ f.seen = res /\ f \in Good
  BY <1>4 DEF Spawned, Busy, FrameSet, BusyPcs, Good
<1>6. stack'[g] = t /\ OthersStacks(g)
  BY <1>3 DEF OthersStacks
<1> HIDE DEF f
<1>22. Tail(rest) \in Seq(Good) /\ Len(Tail(rest)) + 1 = n - 1
  <2>1. Tail(rest) \in Seq(Good)
    BY <1>4, SpawnedIsGood
  <2>2. (n - 2) + 1 = n - 1
    BY <1>1
  <2> QED
    BY <1>4, <2>1, <2>2
<1>7. /\ t # <<>> /\ Head(t) = f /\ Len(t) = n - 1 /\ t[1] = f
      /\ \A i \in 2 .. (n - 1) : t[i] = Tail(rest)[i - 1]
  BY <1>5, <1>22, ConsView, SMTT(30)
<1>8. \A i \in 2 .. (n - 1) : t[i] = s[i + 1]
  <2> SUFFICES ASSUME NEW i \in 2 .. (n - 1) PROVE t[i] = s[i + 1]
    OBVIOUS
  <2>1. i - 1 \in 1 .. (n - 2) /\ i \in 1 .. Len(rest)
    BY <1>1
  <2>2. t[i] = Tail(rest)[i - 1]
    BY <1>7
  <2>3. Tail(rest)[i - 1] = rest[(i - 1) + 1] /\ (i - 1) + 1 = i
    BY <1>4, <2>1
  <2> QED
    BY <1>1, <2>1, <2>2, <2>3
<1>9. \A i \in 1 .. (n - 1) : t[i].run = s[i + 1].run
  <2> HIDE DEF t, s, n, rest
  <2> SUFFICES ASSUME NEW i \in 1 .. (n - 1) PROVE t[i].run = s[i + 1].run
    OBVIOUS
  <2>1. i = 1 \/ i \in 2 .. (n - 1)
    BY <1>1
  <2>2. CASE i = 1
    <3>1. 1 + 1 = 2
      OBVIOUS
    <3> QED
      BY <1>5, <1>7, <2>2, <3>1
  <2> QED
    BY <1>8, <2>1, <2>2
<1> HIDE DEF t, s, n, rest
<1>10. /\ \A i, j \in 1 .. n : s[i].run = s[j].run => i = j
       /\ \A i \in 2 .. n : s[i].run = run[s[i - 1].run].parent
  BY DEF Chain, s, n
<1>11. 2 \in 2 .. n /\ 2 - 1 = 1 /\ 1 \in 1 .. n /\ 2 \in 1 .. n
  BY <1>1, <1>2
<1>12. Below(g) = {s[i].run : i \in 2 .. n}
  BY DEF Below, s, n
<1>13. Parent(g) = s[2].run
  BY <1>1, <1>10, <1>11 DEF Parent
<1>14. Parent(g) \in Below(g)
  BY <1>11, <1>12, <1>13
<1>15. Top(g).run \notin Below(g)
  <2> SUFFICES ASSUME NEW i \in 2 .. n, s[i].run = s[1].run PROVE FALSE
    BY <1>1, <1>12
  <2>1. i \in 1 .. n /\ i # 1
    BY <1>1
  <2> QED
    BY <1>10, <1>11, <2>1
<1>16. stack'[g] # <<>> /\ Top(g)' = f /\ Len(stack'[g]) = n - 1
  BY <1>6, <1>7 DEF Top
<1>17. Below(g)' = {t[i].run : i \in 2 .. (n - 1)}
  BY <1>6, <1>16 DEF Below
<1>18. Below(g)' = Below(g) \ {Parent(g)}
  <2>1. ASSUME NEW i \in 2 .. (n - 1)
        PROVE  t[i].run \in Below(g) \ {Parent(g)}
    <3>1. i + 1 \in 2 .. n /\ i \in 1 .. (n - 1) /\ i + 1 \in 1 .. n /\ i + 1 # 2
      BY <1>1
    <3>2. t[i].run = s[i + 1].run
      BY <1>9, <3>1
    <3>3. s[i + 1].run # s[2].run
      BY <1>10, <1>11, <3>1
    <3> QED
      BY <1>12, <1>13, <3>1, <3>2, <3>3
  <2>2. ASSUME NEW i \in 2 .. n, s[i].run # s[2].run
        PROVE  \E j \in 2 .. (n - 1) : t[j].run = s[i].run
    <3>1. i # 2
      BY <2>2
    <3>2. i - 1 \in 2 .. (n - 1) /\ i - 1 \in 1 .. (n - 1) /\ (i - 1) + 1 = i
      BY <1>1, <3>1
    <3>3. t[i - 1].run = s[(i - 1) + 1].run
      BY <1>9, <3>2
    <3> QED
      BY <3>2, <3>3
  <2> QED
    BY <1>12, <1>13, <1>17, <2>1, <2>2
<1>19. OnStack(g)' = Below(g)
  BY <1>5, <1>13, <1>14, <1>16, <1>18 DEF OnStack
<1>20. Bottom(g)' = Bottom(g)
  <2>1. n - 1 \in 1 .. (n - 1) /\ (n - 1) + 1 = n
    BY <1>1, <1>2
  <2>2. t[n - 1].run = s[n].run
    BY <1>9, <2>1
  <2> QED
    BY <1>6, <1>16, <2>2 DEF Bottom, s, n
<1>21. ASSUME KeepsParents(g)
       PROVE  Chain(g)'
  <2>1. ASSUME NEW i \in 2 .. (n - 1)
        PROVE  t[i].run = run'[t[i - 1].run].parent
    <3>1. i + 1 \in 2 .. n /\ i \in 1 .. (n - 1) /\ i - 1 \in 1 .. (n - 1)
          /\ (i + 1) - 1 = i /\ (i - 1) + 1 = i /\ i \in 1 .. n
      BY <1>1
    <3>2. s[i + 1].run = run[s[i].run].parent
      BY <1>10, <3>1
    <3>3. s[i].run \in Runs /\ s[i].run \in OnStack(g)
      BY <3>1, CallsHaveRuns, OnStackAt DEF s, n
    <3>4. t[i].run = s[i + 1].run /\ t[i - 1].run = s[i].run
      BY <1>9, <3>1
    <3> QED
      BY <1>21, <3>2, <3>3, <3>4 DEF KeepsParents
  <2>2. ASSUME NEW i \in 1 .. (n - 1), NEW j \in 1 .. (n - 1), t[i].run = t[j].run
        PROVE  i = j
    <3>1. i + 1 \in 1 .. n /\ j + 1 \in 1 .. n
      BY <1>1
    <3>2. s[i + 1].run = s[j + 1].run
      BY <1>9, <2>2
    <3>3. i + 1 = j + 1
      BY <1>10, <3>1, <3>2
    <3> QED
      BY <1>1, <3>3
  <2> QED
    BY <1>6, <1>16, <2>1, <2>2 DEF Chain
<1> QED
  BY <1>3, <1>5, <1>6, <1>13, <1>14, <1>15, <1>16, <1>18, <1>19, <1>20, <1>21

(* The only call returns: an approval's goroutine goes on to the parent.   *)
LEMMA LastView ==
  ASSUME WorkType, NEW g \in Procs, stack[g] # <<>>, Below(g) = {}, NEW res, Return(g, res)
  PROVE  /\ job' = [job EXCEPT ![g] = NoJob] /\ job'[g] = NoJob /\ OthersStacks(g)
         /\ IF job[g].pc = "looping" /\ res # "error"
            THEN stack'[g] = <<[Frame("parent", Top(g).run) EXCEPT !.seen = res]>>
            ELSE stack'[g] = <<>>
<1>1. Tail(stack[g]) = <<>>
  BY BelowView
<1>2. job \in [Procs -> Jobs] /\ stack \in [Procs -> Stacks]
  BY DEF WorkType
<1> QED
  BY <1>1, <1>2 DEF Return, OthersStacks

(* A delegation puts the child's call on top of the parent's.              *)
Delegates(g, e, f) == stack' = [stack EXCEPT ![g] = <<e, f>> \o Tail(@)]

LEMMA DelegateView ==
  ASSUME WorkType, NEW g \in Procs, stack[g] # <<>>, NEW e \in Good, NEW f \in Good,
         f.run = Top(g).run, Call(g), Top(g).pc # "start",
         Delegates(g, e, f)
  PROVE  /\ stack'[g] # <<>> /\ Top(g)' = e /\ Below(g)' = OnStack(g)
         /\ OnStack(g)' = {e.run} \cup OnStack(g)
         /\ Bottom(g)' = Bottom(g) /\ OthersStacks(g)
         /\ /\ KeepsParents(g) /\ Chain(g) /\ e.run \notin OnStack(g)
            /\ run'[e.run].parent = Top(g).run
            => Chain(g)'
<1> DEFINE s == stack[g]
           n == Len(s)
           rest == Tail(s)
           t == <<e, f>> \o rest
<1>1. /\ n \in Nat \ {0} /\ Top(g) = s[1]
      /\ rest \in Seq(Spawned) /\ Len(rest) = n - 1
      /\ \A i \in 1 .. Len(rest) : rest[i] = s[i + 1]
  BY StackView
<1>2. stack'[g] = t /\ OthersStacks(g)
  BY DEF OthersStacks, WorkType, Delegates
<1> HIDE DEF rest, s
<1>3. Len(t) = n + 1 /\ t[1] = e /\ t[2] = f /\ t # <<>> /\ Head(t) = e
  BY <1>1
<1>4. \A i \in 2 .. n : t[i + 1] = s[i]
  <2> SUFFICES ASSUME NEW i \in 2 .. n PROVE t[i + 1] = s[i]
    OBVIOUS
  <2>1. i - 1 \in 1 .. Len(rest) /\ i + 1 \in 3 .. (n + 1) /\ (i - 1) + 1 = i /\ (i + 1) - 2 = i - 1
    BY <1>1
  <2>2. t[i + 1] = rest[(i + 1) - 2]
    BY <1>1, <2>1
  <2>3. rest[i - 1] = s[(i - 1) + 1]
    BY <1>1, <2>1
  <2> QED
    BY <2>1, <2>2, <2>3
<1>5. \A i \in 1 .. n : t[i + 1].run = s[i].run
  <2> SUFFICES ASSUME NEW i \in 1 .. n PROVE t[i + 1].run = s[i].run
    OBVIOUS
  <2>1. i = 1 \/ i \in 2 .. n
    BY <1>1
  <2> QED
    BY <1>1, <1>3, <1>4, <2>1
<1> HIDE DEF t, n
<1>6. stack'[g] # <<>> /\ Top(g)' = e /\ Len(stack'[g]) = n + 1
  BY <1>2, <1>3 DEF Top
<1>7. OnStack(g) = {s[i].run : i \in 1 .. n}
  <2>1. \A i \in 1 .. n : s[i].run \in OnStack(g)
    BY OnStackAt DEF s, n
  <2>2. Below(g) \subseteq {s[i].run : i \in 1 .. n}
    BY <1>1 DEF Below, s, n
  <2>3. Top(g).run \in {s[i].run : i \in 1 .. n}
    BY <1>1
  <2> QED
    BY <2>1, <2>2, <2>3 DEF OnStack
<1>8. Below(g)' = {t[i].run : i \in 2 .. (n + 1)}
  BY <1>2, <1>6 DEF Below
<1>9. Below(g)' = OnStack(g)
  <2>1. ASSUME NEW i \in 2 .. (n + 1)
        PROVE  t[i].run \in OnStack(g)
    <3>1. i - 1 \in 1 .. n /\ (i - 1) + 1 = i
      BY <1>1
    <3> QED
      BY <1>5, <1>7, <3>1
  <2>2. ASSUME NEW i \in 1 .. n
        PROVE  s[i].run \in {t[j].run : j \in 2 .. (n + 1)}
    <3>1. i + 1 \in 2 .. (n + 1)
      BY <1>1
    <3> QED
      BY <1>5, <3>1
  <2> QED
    BY <1>7, <1>8, <2>1, <2>2
<1>10. OnStack(g)' = {e.run} \cup OnStack(g)
  BY <1>6, <1>9 DEF OnStack
<1>11. Bottom(g)' = Bottom(g)
  <2>1. n \in 1 .. n
    BY <1>1
  <2> QED
    BY <1>2, <1>5, <1>6, <2>1 DEF Bottom, s, n
<1>12. ASSUME KeepsParents(g), Chain(g), e.run \notin OnStack(g), run'[e.run].parent = Top(g).run
       PROVE  Chain(g)'
  <2>1. \A i \in 1 .. n : s[i].run \in OnStack(g)
    BY OnStackAt DEF s, n
  <2>2. \A i \in 1 .. n : s[i].run \in Runs
    BY CallsHaveRuns DEF s, n
  <2>3. /\ \A i, j \in 1 .. n : s[i].run = s[j].run => i = j
        /\ \A i \in 2 .. n : s[i].run = run[s[i - 1].run].parent
    BY <1>12 DEF Chain, s, n
  <2>4. ASSUME NEW i \in 2 .. (n + 1)
        PROVE  t[i].run = run'[t[i - 1].run].parent
    <3>1. CASE i = 2
      <4>1. 2 - 1 = 1
        OBVIOUS
      <4> QED
        BY <1>3, <1>12, <3>1, <4>1
    <3>2. CASE i # 2
      <4>1. i - 1 \in 2 .. n /\ i - 1 \in 1 .. n /\ (i - 1) + 1 = i /\ (i - 1) - 1 \in 1 .. n
            /\ ((i - 1) - 1) + 1 = i - 1
        BY <1>1, <3>2
      <4>2. t[i].run = s[i - 1].run /\ t[i - 1].run = s[(i - 1) - 1].run
        BY <1>5, <4>1
      <4>3. s[i - 1].run = run[s[(i - 1) - 1].run].parent
        BY <2>3, <4>1
      <4> QED
        BY <1>12, <2>1, <2>2, <4>1, <4>2, <4>3 DEF KeepsParents
    <3> QED
      BY <3>1, <3>2
  <2>5. ASSUME NEW i \in 1 .. (n + 1), NEW j \in 1 .. (n + 1), t[i].run = t[j].run
        PROVE  i = j
    <3>1. \A k \in 1 .. (n + 1) : k # 1 =>
            k - 1 \in 1 .. n /\ t[k].run = s[k - 1].run /\ t[k].run \in OnStack(g)
      <4> SUFFICES ASSUME NEW k \in 1 .. (n + 1), k # 1
                   PROVE  k - 1 \in 1 .. n /\ t[k].run = s[k - 1].run /\ t[k].run \in OnStack(g)
        OBVIOUS
      <4>1. k - 1 \in 1 .. n /\ (k - 1) + 1 = k
        BY <1>1
      <4> QED
        BY <1>5, <2>1, <4>1
    <3>2. CASE i = 1 \/ j = 1
      BY <1>3, <1>12, <2>5, <3>1, <3>2
    <3>3. CASE i # 1 /\ j # 1
      <4>1. i - 1 = j - 1
        BY <2>3, <2>5, <3>1, <3>3
      <4> QED
        BY <1>1, <4>1
    <3> QED
      BY <3>2, <3>3
  <2> QED
    <3>1. /\ \A i \in 2 .. (n + 1) : t[i].run = run'[t[i - 1].run].parent
          /\ \A i, j \in 1 .. (n + 1) : t[i].run = t[j].run => i = j
      BY <2>4, <2>5
    <3>2. stack'[g] = t /\ Len(stack'[g]) = n + 1
      BY <1>2, <1>6
    <3> QED
      BY <3>1, <3>2 DEF Chain
<1> QED
  BY <1>2, <1>6, <1>9, <1>10, <1>11, <1>12

-----------------------------------------------------------------------------
(* What the other goroutines rely on.                                      *)

LEMMA StatusOfRun == ASSUME RowsType, NEW r \in Runs PROVE Status(r) \in Statuses
BY DEF RowsType, RunRows, Status

(* A run somebody works on exists, and is live unless it has just ended.   *)
LEMMA OnStackUsed ==
  ASSUME WorkType, NEW g \in Procs, Call(g), NEW r \in Runs, r \in OnStack(g)
  PROVE  /\ Status(r) # "none" /\ stack[g] # <<>>
         /\ Status(r) \in Live \/ (At(g, "parent") /\ Top(g).run = r)
         /\ Open(r)
<1>1. stack[g] # <<>>
  BY DEF OnStack
<1>2. ASSUME r \in Below(g)
      PROVE  Status(r) # "none" /\ Status(r) \in Live
  <2>1. Status(r) = "active"
    BY <1>1, <1>2 DEF Call
  <2> QED
    BY <2>1 DEF Live
<1>3. ASSUME r \notin Below(g)
      PROVE  Status(r) # "none" /\ (Status(r) \in Live \/ (At(g, "parent") /\ Top(g).run = r))
  <2>1. Top(g).run = r /\ Top(g) \in Good
    BY <1>1, <1>3, StackView DEF OnStack
  <2>2. Top(g).pc # "start"
    <3> SUFFICES ASSUME Top(g).pc = "start" PROVE FALSE
      OBVIOUS
    <3>1. Top(g) \in Starting
      BY <2>1 DEF Good, Busy, Free, FrameSet, BusyPcs, FreePcs
    <3> QED
      BY <2>1, <3>1, ConstantsAssumption DEF Starting, FrameSet
  <2>3. Top(g).pc \in BusyPcs \cup FreePcs
    BY <2>1, <2>2 DEF Good, Busy, Free, Starting, FrameSet
  <2>4. Status(r) \in Live \/ Top(g).pc = "parent"
    BY <1>1, <2>1, <2>3 DEF Call, BusyPcs, FreePcs, Live
  <2>5. Status(r) # "none"
    BY <1>1, <2>1, <2>4 DEF Call, Live
  <2> QED
    BY <1>1, <2>1, <2>2, <2>4, <2>5 DEF At
<1>4. Status(r) \in Live \/ (At(g, "parent") /\ Top(g).run = r)
  BY <1>2, <1>3
<1>5. Open(r)
  BY <1>4 DEF Open, Reporting
<1> QED
  BY <1>1, <1>2, <1>3, <1>4, <1>5

LEMMA WorkingView ==
  ASSUME WorkType, NEW r \in Runs
  PROVE  Working(r) <=> \E g \in Procs : r \in OnStack(g)
<1>1. ASSUME NEW g \in Procs
      PROVE  (\E i \in DOMAIN stack[g] : stack[g][i].run = r) <=> r \in OnStack(g)
  <2>1. CASE stack[g] = <<>>
    BY <2>1 DEF OnStack
  <2>2. CASE stack[g] # <<>>
    <3>1. DOMAIN stack[g] = 1 .. Len(stack[g]) /\ Len(stack[g]) \in Nat \ {0} /\ Top(g) = stack[g][1]
      BY <2>2, StackView
    <3>2. ASSUME NEW i \in DOMAIN stack[g], stack[g][i].run = r
          PROVE  r \in OnStack(g)
      BY <2>2, <3>1, <3>2, OnStackAt
    <3>3. ASSUME r \in OnStack(g)
          PROVE  \E i \in DOMAIN stack[g] : stack[g][i].run = r
      <4>1. CASE r = Top(g).run
        <5>1. 1 \in DOMAIN stack[g]
          BY <3>1
        <5> QED
          BY <3>1, <4>1, <5>1
      <4>2. CASE r \in Below(g)
        <5>1. PICK i \in 2 .. Len(stack[g]) : stack[g][i].run = r
          BY <4>2 DEF Below
        <5>2. i \in DOMAIN stack[g]
          BY <3>1
        <5> QED
          BY <5>1, <5>2
      <4> QED
        BY <2>2, <3>3, <4>1, <4>2 DEF OnStack
    <3> QED
      BY <3>2, <3>3
  <2> QED
    BY <2>1, <2>2
<1> QED
  BY <1>1 DEF Working

LEMMA WorkingViewNext ==
  ASSUME WorkType', NEW r \in Runs
  PROVE  Working(r)' <=> \E g \in Procs : r \in OnStack(g)'
<1>1. ASSUME NEW g \in Procs
      PROVE  (\E i \in DOMAIN stack'[g] : stack'[g][i].run = r) <=> r \in OnStack(g)'
  <2>1. CASE stack'[g] = <<>>
    BY <2>1 DEF OnStack
  <2>2. CASE stack'[g] # <<>>
    <3>1. stack'[g] \in Seq(Good)
      BY DEF WorkType, Stacks
    <3>2. DOMAIN stack'[g] = 1 .. Len(stack'[g]) /\ Len(stack'[g]) \in Nat \ {0} /\ Top(g)' = stack'[g][1]
      BY <2>2, <3>1 DEF Top
    <3>3. ASSUME NEW i \in DOMAIN stack'[g], stack'[g][i].run = r
          PROVE  r \in OnStack(g)'
      <4>1. i = 1 \/ i \in 2 .. Len(stack'[g])
        BY <3>2
      <4> QED
        BY <2>2, <3>2, <3>3, <4>1 DEF OnStack, Below
    <3>4. ASSUME r \in OnStack(g)'
          PROVE  \E i \in DOMAIN stack'[g] : stack'[g][i].run = r
      <4>1. CASE r = Top(g)'.run
        <5>1. 1 \in DOMAIN stack'[g]
          BY <3>2
        <5> QED
          BY <3>2, <4>1, <5>1
      <4>2. CASE r \in Below(g)'
        <5>1. PICK i \in 2 .. Len(stack'[g]) : stack'[g][i].run = r
          BY <4>2 DEF Below
        <5>2. i \in DOMAIN stack'[g]
          BY <3>2
        <5> QED
          BY <5>1, <5>2
      <4> QED
        BY <2>2, <3>4, <4>1, <4>2 DEF OnStack
    <3> QED
      BY <3>3, <3>4
  <2> QED
    BY <2>1, <2>2
<1> QED
  BY <1>1 DEF Working

LEMMA GoroutineInv ==
  ASSUME LifeInv, NEW g \in Procs
  PROVE  Chain(g) /\ Call(g) /\ Childfree(g) /\ Answer(g)
BY DEF LifeInv, OfGoroutine

LEMMA JobRunView ==
  ASSUME TypeInv, NEW g \in Procs, job[g].pc # "idle"
  PROVE  /\ job[g] # NoJob /\ job[g].ticket \in Tickets /\ ticket[job[g].ticket].state # "none"
         /\ JobRun(g) \in Runs /\ job[g].decision \in {"approved", "denied"}
<1>1. job[g] # NoJob
  BY DEF NoJob
<1> QED
  BY <1>1 DEF TypeInv, JobsBound, RowsType, JobRun

(* Whoever may come to tell a parent works for a child that is open.       *)
LEMMA ClaimsAreOpen ==
  ASSUME TypeInv, LifeInv, NEW g \in Procs, NEW c, Claims(g, c)
  PROVE  /\ c \in Runs /\ Open(c) /\ Status(c) # "none"
         /\ run[c].parent # NoRun => ~Working(run[c].parent)
<1>1. Chain(g) /\ Call(g) /\ Answer(g) /\ WorkType
  BY GoroutineInv DEF TypeInv
<1>2. c \in Runs /\ Open(c) /\ Status(c) # "none"
  <2>1. CASE (Deciding(g) \/ Resolving(g)) /\ c = JobRun(g)
    <3>1. c \in Runs
      BY <2>1, JobRunView DEF Deciding, Resolving
    <3>2. Status(c) \in {"active", "needs_approval"}
      BY <1>1, <2>1 DEF Answer
    <3> QED
      BY <3>1, <3>2 DEF Open, Live
  <2>2. CASE job[g].pc = "looping" /\ c = Bottom(g)
    <3>1. stack[g] # <<>> /\ job[g] # NoJob
      BY <1>1, <2>2 DEF Call, NoJob
    <3>2. Top(g).pc # "start"
      BY <1>1, <3>1 DEF Call
    <3>3. c \in Runs /\ c \in OnStack(g)
      BY <1>1, <2>2, <3>1, <3>2, CallsHaveRuns, BelowView
    <3> QED
      BY <1>1, <3>3, OnStackUsed
  <2>3. CASE At(g, "parent") /\ c = Top(g).run
    <3>1. c \in Runs /\ c \in OnStack(g)
      BY <1>1, <2>3, AtTyped, BelowView DEF FreePcs, At
    <3> QED
      BY <1>1, <3>1, OnStackUsed
  <2> QED
    BY <2>1, <2>2, <2>3 DEF Claims
<1> QED
  BY <1>1, <1>2 DEF Answer

(* Nobody but g works for r, answers for it or may come to resume it.      *)
Unclaimed(g, r) ==
  \A h \in Procs : h # g =>
    /\ r \notin OnStack(h)
    /\ Deciding(h) \/ Resolving(h) => JobRun(h) # r
    /\ \A c \in Runs : Claims(h, c) => run[c].parent # r

(* What a step of g does to the rest.                                      *)
Steady(g) ==
  /\ \A r \in Runs : Status(r)' # Status(r) =>
       r \in OnStack(g) \/ (Deciding(g) /\ r = JobRun(g)) \/ Status(r) = "none"
  /\ \A r \in Runs : Status(r) # "none" => run'[r].parent = run[r].parent
  /\ \A p \in Runs : Childless(p) => Childless(p)' \/ p \in OnStack(g)
  /\ \A r \in Runs : r \in OnStack(g)' => r \in OnStack(g) \/ Unclaimed(g, r)
  /\ \A t \in Tickets : ticket[t].state # "none" =>
       ticket'[t].run = ticket[t].run /\ (ticket'[t].state = "pending" => ticket[t].state = "pending")
  /\ \A t \in Tickets : ticket[t].state = "none" /\ ticket'[t].state = "pending" => ticket'[t].run \in OnStack(g)
  /\ \A t \in Tickets : ticket[t].state = "pending" /\ ticket'[t].state # "pending" => ~Working(ticket[t].run)
  /\ \A h \in Procs : h # g => stack'[h] = stack[h] /\ job'[h] = job[h]

LEMMA OtherDisjoint ==
  ASSUME TypeInv, LifeInv, NEW g \in Procs, Steady(g)
  PROVE  Disjoint'
<1> SUFFICES ASSUME NEW h \in Procs, NEW k \in Procs, NEW r \in Runs,
                    r \in OnStack(h)', r \in OnStack(k)', h # k
             PROVE  FALSE
  BY DEF Disjoint
<1>1. \A i \in Procs : i # g => OnStack(i)' = OnStack(i)
  BY SameView DEF Steady
<1>2. Disjoint
  BY DEF LifeInv, OfTables
<1>3. r \in OnStack(g)' => r \in OnStack(g) \/ Unclaimed(g, r)
  BY DEF Steady
<1>4. CASE h # g /\ k # g
  BY <1>1, <1>2, <1>4 DEF Disjoint
<1>5. CASE h = g
  BY <1>1, <1>2, <1>3, <1>5 DEF Disjoint, Unclaimed
<1>6. CASE k = g
  BY <1>1, <1>2, <1>3, <1>6 DEF Disjoint, Unclaimed
<1> QED
  BY <1>4, <1>5, <1>6

(* Somebody works for a run only if somebody did, or g begins to.          *)
LEMMA WorkBegins ==
  ASSUME TypeInv, WorkType', LifeInv, NEW g \in Procs, Steady(g), NEW r \in Runs, Working(r)'
  PROVE  Working(r) \/ (r \in OnStack(g)' /\ Unclaimed(g, r))
<1>1. PICK h \in Procs : r \in OnStack(h)'
  BY WorkingViewNext
<1>2. CASE h # g
  <2>1. r \in OnStack(h)
    BY <1>1, <1>2, SameView DEF Steady
  <2> QED
    BY <2>1, WorkingView DEF TypeInv
<1>3. CASE h = g
  <2>1. r \in OnStack(g) \/ Unclaimed(g, r)
    BY <1>1, <1>3 DEF Steady
  <2> QED
    BY <1>1, <1>3, <2>1, WorkingView DEF TypeInv
<1> QED
  BY <1>2, <1>3

LEMMA OtherCall ==
  ASSUME TypeInv, LifeInv, NEW g \in Procs, Steady(g), NEW h \in Procs, h # g
  PROVE  Chain(h)' /\ Call(h)'
<1>1. Chain(h) /\ Call(h) /\ Answer(g) /\ WorkType /\ Disjoint
  BY GoroutineInv DEF TypeInv, LifeInv, OfTables
<1>2. stack'[h] = stack[h] /\ job'[h] = job[h]
  BY DEF Steady
<1>3. ASSUME NEW r \in Runs, r \in OnStack(h)
      PROVE  Status(r)' = Status(r) /\ run'[r].parent = run[r].parent /\ r \notin OnStack(g) /\ Working(r)
  <2>1. Status(r) # "none" /\ Working(r)
    BY <1>1, <1>3, OnStackUsed, WorkingView
  <2>2. r \notin OnStack(g)
    BY <1>1, <1>3 DEF Disjoint
  <2>3. ~(Deciding(g) /\ r = JobRun(g))
    BY <1>1, <2>1 DEF Answer
  <2> QED
    BY <2>1, <2>2, <2>3 DEF Steady
<1>4. Chain(h)'
  <2>1. KeepsParents(h)
    BY <1>3 DEF KeepsParents
  <2> QED
    BY <1>1, <1>2, <2>1, SameChain
<1>5. Top(h)' = Top(h) /\ Below(h)' = Below(h)
  BY <1>2, SameView
<1>6. CASE stack[h] = <<>>
  BY <1>1, <1>2, <1>4, <1>6 DEF Call
<1>7. CASE stack[h] # <<>> /\ Top(h).pc = "start"
  BY <1>1, <1>2, <1>4, <1>5, <1>7 DEF Call, HasAsked
<1>8. CASE stack[h] # <<>> /\ Top(h).pc # "start"
  <2>1. Top(h).run \in Runs /\ OnStack(h) = {Top(h).run} \cup Below(h) /\ OnStack(h) \subseteq Runs
    BY <1>1, <1>8, CallsHaveRuns DEF OnStack
  <2>2. Status(Top(h).run)' = Status(Top(h).run)
    <3>1. \A r \in Runs : r = Top(h).run => Status(r)' = Status(r)
      BY <1>3, <2>1
    <3> QED
      BY <1>5, <2>1, <3>1 DEF Status
  <2>3. \A r \in Below(h) : Status(r)' = Status(r)
    BY <1>3, <2>1
  <2>4. HasAsked(h)' = HasAsked(h)
    BY <1>5, <2>2 DEF HasAsked
  <2>5. ASSUME HasAsked(h)
        PROVE  Pending(Top(h).ticket, Top(h).run)'
    <3>1. Top(h).ticket \in Tickets /\ Pending(Top(h).ticket, Top(h).run)
      BY <1>1, <1>8, <2>5 DEF Call
    <3>2. Working(Top(h).run)
      BY <1>3, <2>1
    <3>3. \A t \in Tickets : t = Top(h).ticket => ticket'[t].state = "pending" /\ ticket'[t].run = Top(h).run
      BY <3>1, <3>2 DEF Pending, Steady
    <3> QED
      BY <1>5, <3>1, <3>3 DEF Pending
  <2> QED
    BY <1>1, <1>2, <1>4, <1>5, <1>8, <2>2, <2>3, <2>4, <2>5 DEF Call
<1> QED
  BY <1>4, <1>6, <1>7, <1>8

(* An answer in hand stays in hand, for the same run.                      *)
LEMMA OtherJob ==
  ASSUME TypeInv, LifeInv, NEW g \in Procs, Steady(g), NEW h \in Procs, h # g
  PROVE  /\ Deciding(h)' = Deciding(h)
         /\ Resolving(h)' => Resolving(h)
         /\ job[h].pc # "idle" => JobRun(h)' = JobRun(h)
         /\ \A c : Claims(h, c)' => Claims(h, c)
<1>1. stack'[h] = stack[h] /\ job'[h] = job[h]
  BY DEF Steady
<1>2. job[h].pc # "idle" => JobRun(h)' = JobRun(h)
  <2>1. ASSUME job[h].pc # "idle"
        PROVE  JobRun(h)' = JobRun(h)
    <3>1. job[h].ticket \in Tickets /\ ticket[job[h].ticket].state # "none"
      BY <2>1, JobRunView
    <3> QED
      BY <1>1, <3>1 DEF Steady, JobRun
  <2> QED
    BY <2>1
<1>3. Deciding(h)' = Deciding(h)
  BY <1>1 DEF Deciding
<1>4. ASSUME Resolving(h)'
      PROVE  Resolving(h)
  <2>1. job[h].pc = "resolve" /\ ticket'[job[h].ticket].state = "pending"
    BY <1>1, <1>4 DEF Resolving
  <2>2. job[h].ticket \in Tickets /\ ticket[job[h].ticket].state # "none"
    BY <2>1, JobRunView
  <2> QED
    BY <2>1, <2>2 DEF Steady, Resolving
<1>5. ASSUME NEW c, Claims(h, c)'
      PROVE  Claims(h, c)
  <2>1. CASE (Deciding(h)' \/ Resolving(h)') /\ c = JobRun(h)'
    <3>1. job[h].pc # "idle"
      BY <1>3, <1>4, <2>1 DEF Deciding, Resolving
    <3> QED
      BY <1>2, <1>3, <1>4, <2>1, <3>1 DEF Claims
  <2>2. CASE job'[h].pc = "looping" /\ c = Bottom(h)'
    BY <1>1, <2>2, SameView DEF Claims
  <2>3. CASE At(h, "parent")' /\ c = Top(h)'.run
    <3>1. At(h, "parent") /\ c = Top(h).run
      BY <1>1, <2>3, SameView DEF At
    <3> QED
      BY <3>1 DEF Claims
  <2> QED
    BY <1>5, <2>1, <2>2, <2>3 DEF Claims
<1> QED
  BY <1>2, <1>3, <1>4, <1>5

LEMMA OtherChildfree ==
  ASSUME TypeInv, LifeInv, NEW g \in Procs, Steady(g), NEW h \in Procs, h # g
  PROVE  Childfree(h)'
<1>1. Chain(h) /\ Call(h) /\ Answer(h) /\ Childfree(h) /\ WorkType /\ Disjoint
  BY GoroutineInv DEF TypeInv, LifeInv, OfTables
<1>2. stack'[h] = stack[h] /\ job'[h] = job[h] /\ Top(h)' = Top(h)
  BY SameView DEF Steady
<1>3. ASSUME Deciding(h)'
      PROVE  Childless(JobRun(h))'
  <2>1. Deciding(h) /\ JobRun(h)' = JobRun(h) /\ JobRun(h) \in Runs
    <3>1. Deciding(h) /\ job[h].pc # "idle"
      BY <1>3, OtherJob DEF Deciding
    <3> QED
      BY <3>1, OtherJob, JobRunView
  <2>2. Childless(JobRun(h)) /\ ~Working(JobRun(h))
    BY <1>1, <2>1 DEF Childfree, Answer
  <2>3. JobRun(h) \notin OnStack(g)
    BY <1>1, <2>1, <2>2, WorkingView
  <2>4. \A p \in Runs : p = JobRun(h) => Childless(p)'
    BY <2>1, <2>2, <2>3 DEF Steady
  <2> QED
    BY <2>1, <2>4 DEF Childless
<1>4. ASSUME stack[h] # <<>>, Top(h).pc # "start", Childless(Top(h).run)
      PROVE  Childless(Top(h).run)'
  <2>1. Top(h).run \in Runs /\ Top(h).run \in OnStack(h)
    BY <1>1, <1>4, CallsHaveRuns, BelowView
  <2>2. Top(h).run \notin OnStack(g)
    BY <1>1, <2>1 DEF Disjoint
  <2>3. \A p \in Runs : p = Top(h).run => Childless(p)'
    BY <1>4, <2>1, <2>2 DEF Steady
  <2> QED
    BY <1>2, <2>1, <2>3 DEF Childless
<1>5. stack'[h] # <<>> =>
        /\ Top(h)'.pc \in {"turn", "complete", "tools", "asked", "announce"} => Childless(Top(h).run)'
        /\ Top(h)'.pc = "record" /\ Top(h)'.seen \notin Live => Childless(Top(h).run)'
  BY <1>1, <1>2, <1>4 DEF Childfree
<1> QED
  BY <1>3, <1>5 DEF Childfree

LEMMA OtherAnswer ==
  ASSUME TypeInv, WorkType', LifeInv, NEW g \in Procs, Steady(g), NEW h \in Procs, h # g
  PROVE  Answer(h)'
<1>1. Chain(h) /\ Call(h) /\ Answer(h) /\ Answer(g) /\ WorkType /\ OneAnswer /\ OneTicket
  BY GoroutineInv DEF TypeInv, LifeInv, OfTables
<1>2. stack'[h] = stack[h] /\ job'[h] = job[h]
  BY DEF Steady
<1>3. ASSUME Deciding(h) \/ Resolving(h)
      PROVE  /\ JobRun(h)' = JobRun(h) /\ JobRun(h) \in Runs /\ ~Working(JobRun(h))
             /\ ~Working(JobRun(h))' /\ Status(JobRun(h))' = Status(JobRun(h))
             /\ JobRun(h) \notin OnStack(g)
  <2>1. JobRun(h)' = JobRun(h) /\ JobRun(h) \in Runs
    <3>1. job[h].pc # "idle"
      BY <1>3 DEF Deciding, Resolving
    <3> QED
      BY <3>1, OtherJob, JobRunView
  <2>2. ~Working(JobRun(h)) /\ JobRun(h) \notin OnStack(g)
    BY <1>1, <1>3, <2>1, WorkingView DEF Answer
  <2>3. \A r \in Runs : r = JobRun(h) => ~Working(r)'
    BY <1>3, <2>2, WorkBegins DEF Unclaimed
  <2>4. Status(JobRun(h)) # "none"
    BY <1>1, <1>3 DEF Answer
  <2>5. ~(Deciding(g) /\ JobRun(h) = JobRun(g))
    <3> SUFFICES ASSUME Deciding(g), JobRun(h) = JobRun(g) PROVE FALSE
      OBVIOUS
    <3>1. CASE Deciding(h)
      BY <1>1, <3>1 DEF OneAnswer
    <3>2. CASE Resolving(h)
      <4>1. job[h].ticket \in Tickets
        BY <3>2, JobRunView DEF Resolving
      <4>2. Pending(job[h].ticket, JobRun(g))
        BY <3>2 DEF Resolving, Pending, JobRun
      <4> QED
        BY <1>1, <4>1, <4>2 DEF Answer
    <3> QED
      BY <1>3, <3>1, <3>2
  <2>6. \A r \in Runs : r = JobRun(h) => Status(r)' = Status(r)
    BY <2>2, <2>4, <2>5 DEF Steady
  <2>7. ~Working(JobRun(h))'
    BY <2>1, <2>3 DEF Working
  <2>8. Status(JobRun(h))' = Status(JobRun(h))
    BY <2>1, <2>6 DEF Status
  <2> QED
    BY <2>1, <2>2, <2>7, <2>8
<1>4. ASSUME Deciding(h)', NEW t \in Tickets, Pending(t, JobRun(h))'
      PROVE  FALSE
  <2>1. Deciding(h)
    BY <1>4, OtherJob
  <2>2. ticket'[t].state = "pending" /\ ticket'[t].run = JobRun(h)
    BY <1>3, <1>4, <2>1 DEF Pending
  <2>3. CASE ticket[t].state = "none"
    BY <1>3, <2>1, <2>2, <2>3 DEF Steady
  <2>4. CASE ticket[t].state # "none"
    <3>1. Pending(t, JobRun(h))
      BY <2>2, <2>4 DEF Steady, Pending
    <3> QED
      BY <1>1, <2>1, <3>1 DEF Answer
  <2> QED
    BY <2>3, <2>4
<1>5. ASSUME NEW c \in Runs, Claims(h, c)', run'[c].parent # NoRun
      PROVE  ~Working(run[c].parent)'
  <2>1. Claims(h, c) /\ Status(c) # "none" /\ (run[c].parent # NoRun => ~Working(run[c].parent))
    BY <1>5, OtherJob, ClaimsAreOpen
  <2>2. run'[c].parent = run[c].parent
    BY <2>1 DEF Steady
  <2>3. run[c].parent \in Runs
    BY <1>5, <2>2 DEF TypeInv, RowsType, RunRows
  <2>4. \A r \in Runs : r = run[c].parent => ~Working(r)'
    BY <1>5, <2>1, <2>2, WorkBegins DEF Unclaimed
  <2> QED
    BY <2>2, <2>3, <2>4 DEF Working
<1>6. Resolving(h)' => Resolving(h)
  BY OtherJob
<1>7. Deciding(h)' = Deciding(h)
  BY OtherJob
<1> QED
  BY <1>1, <1>2, <1>3, <1>4, <1>5, <1>6, <1>7 DEF Answer

LEMMA OthersKeep ==
  ASSUME TypeInv, WorkType', LifeInv, NEW g \in Procs, Steady(g), OfGoroutine(g)'
  PROVE  \A h \in Procs : OfGoroutine(h)'
BY OtherCall, OtherChildfree, OtherAnswer DEF OfGoroutine

-----------------------------------------------------------------------------
(* Steps that open no run and start no work.                               *)

Shrinks ==
  /\ \A r \in Runs : run'[r].parent = run[r].parent /\ run'[r].session = run[r].session
  /\ \A r \in Runs : Status(r)' = "none" <=> Status(r) = "none"
  /\ \A r \in Runs : Open(r)' => Open(r)
  /\ \A r \in Runs : Status(r)' \in Live => Status(r) \in Live
  /\ \A r \in Runs : Status(r) \in Terminal => Status(r)' \in Terminal

LEMMA ShrinkChildless ==
  ASSUME Shrinks
  PROVE  \A p : Childless(p) => Childless(p)'
BY DEF Shrinks, Childless

LEMMA ShrinkTables ==
  ASSUME TypeInv, LifeInv, Shrinks,
         \A r \in Runs : Status(r)' = "needs_approval" => Status(r) = "needs_approval" \/ Childless(r)
  PROVE  Families' /\ OneLiveRoot' /\ OneOpenChild' /\ WaitingIsChildless'
<1>1. Families /\ OneLiveRoot /\ OneOpenChild /\ WaitingIsChildless /\ RowsType
  BY DEF LifeInv, OfTables, TypeInv
<1>2. \A r \in Runs : run[r].parent # NoRun => run[r].parent \in Runs
  BY <1>1 DEF RowsType, RunRows
<1>3. Families'
  <2> SUFFICES ASSUME NEW r \in Runs
               PROVE  /\ run'[r].parent = NoRun => run'[r].session = Front
                      /\ run'[r].parent # NoRun =>
                           Status(r)' # "none" /\ run'[r].session = r /\ Status(run[r].parent)' # "none"
    BY DEF Families
  <2>1. run'[r].parent = run[r].parent /\ run'[r].session = run[r].session
        /\ (Status(r)' = "none" <=> Status(r) = "none")
    BY DEF Shrinks
  <2>2. run[r].parent # NoRun => run'[run[r].parent].status # "none"
    <3>1. \A p \in Runs : p = run[r].parent /\ Status(p) # "none" => run'[p].status # "none"
      BY DEF Shrinks, Status
    <3> QED
      BY <1>1, <1>2, <3>1 DEF Families
  <2> QED
    BY <1>1, <2>1, <2>2 DEF Families, Status
<1>4. OneLiveRoot'
  <2>1. \A r \in Runs : LiveRoot(r)' => LiveRoot(r)
    BY DEF Shrinks, LiveRoot
  <2> QED
    BY <1>1, <2>1 DEF OneLiveRoot
<1>5. OneOpenChild'
  <2> SUFFICES ASSUME NEW c \in Runs, NEW d \in Runs,
                      run'[c].parent = run'[d].parent, run'[c].parent # NoRun,
                      run'[run'[c].parent].status \notin Terminal, Open(c)', Open(d)'
               PROVE  c = d
    BY DEF OneOpenChild, Status
  <2>1. run[c].parent = run[d].parent /\ run[c].parent # NoRun /\ Open(c) /\ Open(d)
        /\ run'[c].parent = run[c].parent
    BY DEF Shrinks
  <2>2. Status(run[c].parent) \notin Terminal
    <3>1. \A p \in Runs : Status(p) \in Terminal => run'[p].status \in Terminal
      BY DEF Shrinks, Status
    <3> QED
      BY <1>2, <2>1, <3>1
  <2> QED
    BY <1>1, <2>1, <2>2 DEF OneOpenChild
<1>6. WaitingIsChildless'
  BY <1>1, ShrinkChildless DEF WaitingIsChildless
<1> QED
  BY <1>3, <1>4, <1>5, <1>6

(* A step of a loop that changes no ticket and pauses nothing.             *)
LEMMA LoopRest ==
  ASSUME TypeInv, LifeInv, NEW g \in Procs, Steady(g), daemon = "up", UNCHANGED boot,
         UNCHANGED ticket, ~Deciding(g), ~Deciding(g)', ~At(g, "asked"),
         \A r \in Runs : Status(r)' = "needs_approval" <=> Status(r) = "needs_approval"
  PROVE  BootInv' /\ Disjoint' /\ OneAnswer' /\ OneTicket' /\ AnswersCome'
<1>1. BootInv /\ OneAnswer /\ OneTicket /\ AnswersCome /\ RowsType
  BY DEF LifeInv, OfTables, TypeInv
<1>3. Disjoint'
  BY OtherDisjoint
<1>4. BootInv'
  BY <1>1 DEF BootInv, boot
<1>5. \A h \in Procs : h # g => job'[h] = job[h] /\ stack'[h] = stack[h] /\ Deciding(h)' = Deciding(h)
  BY DEF Steady, Deciding
<1>6. OneAnswer'
  <2>1. \A h \in Procs : Deciding(h)' => Deciding(h) /\ JobRun(h)' = JobRun(h)
    BY <1>5 DEF JobRun
  <2> QED
    BY <1>1, <2>1 DEF OneAnswer
<1>7. OneTicket'
  <2>1. ASSUME NEW t \in Tickets, ticket[t].state = "pending"
        PROVE  \/ Status(ticket[t].run)' = "needs_approval"
               \/ \E h \in Procs : At(h, "asked")' /\ Top(h)'.run = ticket[t].run
    <3>1. CASE Status(ticket[t].run) = "needs_approval"
      <4>1. ticket[t].run \in Runs
        BY <1>1, <2>1 DEF RowsType
      <4>2. \A r \in Runs : r = ticket[t].run => run'[r].status = "needs_approval"
        BY <3>1, <4>1 DEF Status
      <4> QED
        BY <4>1, <4>2 DEF Status
    <3>2. CASE \E h \in Procs : At(h, "asked") /\ Top(h).run = ticket[t].run
      <4>1. PICK h \in Procs : At(h, "asked") /\ Top(h).run = ticket[t].run
        BY <3>2
      <4>2. h # g
        BY <4>1
      <4>3. At(h, "asked")' /\ Top(h)'.run = ticket[t].run
        BY <1>5, <4>1, <4>2, SameView DEF At
      <4> QED
        BY <4>3
    <3> QED
      BY <1>1, <2>1, <3>1, <3>2 DEF OneTicket
  <2>2. \A t \in Tickets : ticket'[t] = ticket[t]
    OBVIOUS
  <2>3. \A t, u \in Tickets : \A r \in Runs : Pending(t, r)' /\ Pending(u, r)' => t = u
    BY <1>1 DEF OneTicket, Pending
  <2>4. \A t \in Tickets : ticket'[t].state = "pending" =>
          \/ Status(ticket[t].run)' = "needs_approval"
          \/ \E h \in Procs : At(h, "asked")' /\ Top(h)'.run = ticket'[t].run
    BY <2>1, <2>2
  <2> QED
    BY <2>2, <2>3, <2>4 DEF OneTicket
<1>8. AnswersCome'
  <2> SUFFICES ASSUME crashes = 0
               PROVE  AnswersCome'
    BY DEF AnswersCome, boot
  <2>1. ASSUME NEW r \in Runs, Status(r)' = "needs_approval"
        PROVE  \E t \in Tickets : ticket'[t].run = r /\
                 (ticket'[t].state = "pending" \/ \E h \in Procs : Deciding(h)' /\ job'[h].ticket = t)
    <3>1. PICK t \in Tickets : ticket[t].run = r /\
             (ticket[t].state = "pending" \/ \E h \in Procs : Deciding(h) /\ job[h].ticket = t)
      BY <1>1, <2>1 DEF AnswersCome
    <3>2. \A h \in Procs : Deciding(h) => Deciding(h)' /\ job'[h] = job[h]
      BY <1>5
    <3> QED
      BY <3>1, <3>2
  <2>2. ASSUME NEW t \in Tickets, ticket'[t].gate = "pending"
        PROVE  \/ ticket'[t].state = "pending"
               \/ \E h \in Procs : job'[h].ticket = t /\ job'[h].pc \in {"resume", "gate"}
    <3>1. \/ ticket[t].state = "pending"
          \/ \E h \in Procs : job[h].ticket = t /\ job[h].pc \in {"resume", "gate"}
      BY <1>1, <2>2 DEF AnswersCome
    <3>2. \A h \in Procs : job[h].pc \in {"resume", "gate"} => job'[h] = job[h]
      BY <1>5 DEF Deciding
    <3> QED
      BY <3>1, <3>2
  <2> QED
    BY <2>1, <2>2 DEF AnswersCome
<1> QED
  BY <1>3, <1>4, <1>6, <1>7, <1>8

LEMMA LoopTables ==
  ASSUME TypeInv, LifeInv, NEW g \in Procs, Steady(g), Shrinks, daemon = "up", UNCHANGED boot,
         UNCHANGED ticket, ~Deciding(g), ~Deciding(g)', ~At(g, "asked"),
         \A r \in Runs : Status(r)' = "needs_approval" <=> Status(r) = "needs_approval"
  PROVE  OfTables'
BY LoopRest, ShrinkTables DEF OfTables

(* In a loop there is no answer in hand but the one the loop came from.    *)
LEMMA InLoop ==
  ASSUME LifeInv, NEW g \in Procs, stack[g] # <<>>
  PROVE  job[g].pc \in {"idle", "looping"} /\ ~Deciding(g) /\ ~Resolving(g)
BY GoroutineInv DEF Answer, Deciding, Resolving

LEMMA LoopAnswer ==
  ASSUME NEW g \in Procs, job'[g].pc \in {"idle", "looping"},
         \A c \in Runs : Claims(g, c)' /\ run'[c].parent # NoRun => ~Working(run[c].parent)'
  PROVE  Answer(g)'
<1>1. ~Deciding(g)' /\ ~Resolving(g)' /\ job'[g].pc \notin {"resume", "invoke"}
  BY DEF Deciding, Resolving
<1> QED
  BY <1>1 DEF Answer

LEMMA WorkShrinks ==
  ASSUME TypeInv, WorkType', LifeInv, NEW g \in Procs, Steady(g),
         \A r \in Runs : r \in OnStack(g)' => r \in OnStack(g),
         NEW r \in Runs, Working(r)'
  PROVE  Working(r)
BY WorkBegins, WorkingView DEF TypeInv

LEMMA LifeFrom ==
  ASSUME TypeInv, WorkType', LifeInv, NEW g \in Procs, Steady(g), OfGoroutine(g)', OfTables'
  PROVE  LifeInv'
BY OthersKeep DEF LifeInv

(* A call that goes on with its run while the rows stay.                   *)
LEMMA Advance ==
  ASSUME TypeInv, WorkType', LifeInv, NEW g \in Procs, daemon = "up", UNCHANGED boot, UNCHANGED rows,
         stack[g] # <<>>, Top(g).pc \notin {"start", "asked", "parent"},
         Status(Top(g).run) = "active",
         NEW f \in Good, Goto(g, f), f.run = Top(g).run,
         f.pc \in {"turn", "complete", "tools", "record", "paused"},
         f.pc \in {"turn", "complete", "tools"} => Childless(Top(g).run),
         f.pc = "record" /\ f.seen \notin Live => Childless(Top(g).run)
  PROVE  LifeInv'
<1>1. Chain(g) /\ Call(g) /\ Childfree(g) /\ Answer(g) /\ WorkType
  BY GoroutineInv DEF TypeInv
<1>2. Top(g).run \in Runs /\ OnStack(g) \subseteq Runs /\ OnStack(g) = {Top(g).run} \cup Below(g)
  BY <1>1, CallsHaveRuns DEF OnStack
<1>3. /\ stack'[g] # <<>> /\ Top(g)' = f /\ Below(g)' = Below(g) /\ OnStack(g)' = OnStack(g)
      /\ Bottom(g)' = Bottom(g) /\ UNCHANGED job
      /\ \A h \in Procs : h # g => stack'[h] = stack[h]
  BY <1>1, <1>2, GotoView DEF OthersStacks
<1>4. UNCHANGED <<run, ticket>>
  BY DEF rows
<1>5. /\ \A r \in Runs : Status(r)' = Status(r) /\ run'[r] = run[r]
      /\ KeepsParents(g)
  BY <1>4 DEF Status, KeepsParents
<1>6. \A r \in Runs : Reporting(r)' => Reporting(r)
  <2> SUFFICES ASSUME NEW r \in Runs, NEW h \in Procs, At(h, "parent")', Top(h)'.run = r
               PROVE  Reporting(r)
    BY DEF Reporting
  <2>1. h # g
    BY <1>3 DEF At
  <2>2. At(h, "parent") /\ Top(h).run = r
    BY <1>3, <2>1, SameView DEF At
  <2> QED
    BY <2>2 DEF Reporting
<1>7. Shrinks
  BY <1>5, <1>6 DEF Shrinks, Open
<1>8. Steady(g)
  BY <1>3, <1>4, <1>5, <1>7, ShrinkChildless DEF Steady
<1>9. ~Deciding(g) /\ ~Deciding(g)' /\ job'[g].pc \in {"idle", "looping"}
  BY <1>3, InLoop DEF Deciding
<1>10. OfTables'
  BY <1>4, <1>5, <1>7, <1>8, <1>9, LoopTables DEF At
<1>11. Chain(g)'
  BY <1>1, <1>5, GotoChain
<1>12. Call(g)'
  <2>1. Status(Top(g).run)' = "active"
    BY <1>2, <1>3, <1>5 DEF Status
  <2>2. \A r \in Below(g) : Status(r)' = "active"
    BY <1>1, <1>2, <1>5 DEF Call
  <2>3. ~HasAsked(g)'
    BY <1>3, <2>1 DEF HasAsked
  <2> QED
    BY <1>3, <2>1, <2>2, <2>3 DEF Call, Live
<1>13. Childfree(g)'
  <2>1. Childless(Top(g).run) => Childless(Top(g).run)'
    <3>1. \A p \in Runs : p = Top(g).run /\ Childless(p) => Childless(p)'
      BY <1>7, ShrinkChildless
    <3> QED
      BY <1>2, <1>3, <3>1 DEF Childless
  <2> QED
    BY <1>3, <1>9, <2>1 DEF Childfree
<1>14. Answer(g)'
  <2>1. ASSUME NEW c \in Runs, Claims(g, c)', run'[c].parent # NoRun
        PROVE  ~Working(run[c].parent)'
    <3>1. Claims(g, c)
      <4>1. job'[g].pc = "looping" /\ c = Bottom(g)'
        BY <1>3, <1>9, <2>1 DEF Claims, Deciding, Resolving, At
      <4> QED
        BY <1>3, <4>1 DEF Claims
    <3>2. ~Working(run[c].parent) /\ run[c].parent \in Runs
      BY <1>4, <2>1, <3>1, ClaimsAreOpen DEF TypeInv, RowsType, RunRows
    <3> QED
      BY <1>3, <1>4, <1>8, <3>2, WorkShrinks DEF Working
  <2> QED
    BY <1>9, <2>1, LoopAnswer
<1>15. OfGoroutine(g)'
  BY <1>11, <1>12, <1>13, <1>14 DEF OfGoroutine
<1> QED
  BY <1>8, <1>10, <1>15, LifeFrom

LEMMA NextCallView ==
  ASSUME NEW f \in Busy
  PROVE  NextCall(f) \in Good /\ NextCall(f).run = f.run /\ NextCall(f).pc \in {"turn", "tools"}
<1>1. f.calls \in Seq(Kinds)
  BY DEF Busy, FrameSet
<1>2. NextCall(f).run = f.run /\ NextCall(f).pc \in {"turn", "tools"}
  BY DEF NextCall, Busy, FrameSet
<1> QED
  BY <1>2, NextCallTyped

LEMMA TurnGoesOn ==
  ASSUME TypeInv, WorkType', LifeInv, NEW g \in Procs, daemon = "up", UNCHANGED boot,
         MoreTurns(g) \/ LastTurn(g) \/ ToolTurn(g)
  PROVE  LifeInv'
<1>1. At(g, "turn") /\ UNCHANGED rows
  BY DEF MoreTurns, LastTurn, ToolTurn, Turning, rows
<1>2. stack[g] # <<>> /\ Top(g) \in Free /\ Top(g).pc = "turn" /\ WorkType
  BY <1>1, AtTyped DEF FreePcs, TypeInv, At
<1>3. Call(g) /\ Childfree(g)
  BY GoroutineInv
<1>4. Status(Top(g).run) = "active" /\ Childless(Top(g).run)
  BY <1>2, <1>3 DEF Call, Childfree
<1>5. CASE MoreTurns(g)
  <2> DEFINE f == [Top(g) EXCEPT !.turn = @ + 1]
  <2>1. Top(g).turn < MaxTurns
    BY <1>5 DEF MoreTurns, Turning
  <2>2. f \in Good /\ f.run = Top(g).run /\ f.pc = "turn"
    BY <1>2, <2>1, ConstantsAssumption DEF Free, FrameSet, Good
  <2>3. Goto(g, f)
    BY <1>5 DEF MoreTurns
  <2> HIDE DEF f
  <2> QED
    BY <1>1, <1>2, <1>4, <2>2, <2>3, Advance
<1>6. CASE LastTurn(g)
  <2> DEFINE f == [Top(g) EXCEPT !.pc = "complete"]
  <2>1. f \in Good /\ f.run = Top(g).run /\ f.pc = "complete"
    <3>1. "complete" \in FreePcs
      BY DEF FreePcs
    <3>2. f \in Free
      BY <1>2, <3>1, FreeToFree
    <3>3. f.run = Top(g).run /\ f.pc = "complete"
      BY <1>2 DEF Free, FrameSet
    <3> QED
      BY <3>2, <3>3 DEF Good
  <2>2. Goto(g, f)
    BY <1>6 DEF LastTurn, GotoPc
  <2> HIDE DEF f
  <2> QED
    BY <1>1, <1>2, <1>4, <2>1, <2>2, Advance
<1>7. CASE ToolTurn(g)
  <2>1. PICK calls \in ToolTurns : Goto(g, [Top(g) EXCEPT !.pc = "tools", !.calls = calls])
    BY <1>7 DEF ToolTurn
  <2> DEFINE f == [Top(g) EXCEPT !.pc = "tools", !.calls = calls]
  <2>2. calls \in Seq(Kinds) \ {<<>>}
    BY ConstantsAssumption DEF Kinds
  <2>3. Top(g).turn < MaxTurns /\ Top(g).turn \in 0 .. MaxTurns
    BY <1>2, <1>7 DEF ToolTurn, Free, FrameSet
  <2>4. Top(g).turn \in 0 .. (MaxTurns - 1)
    BY <2>3, ConstantsAssumption
  <2>5. f \in Busy /\ f.run = Top(g).run /\ f.pc = "tools"
    BY <1>2, <2>2, <2>4 DEF Free, Busy, FrameSet, BusyPcs
  <2>6. f \in Good /\ Goto(g, f)
    BY <2>1, <2>5 DEF Good
  <2> HIDE DEF f
  <2> QED
    BY <1>1, <1>2, <1>4, <2>5, <2>6, Advance
<1> QED
  BY <1>5, <1>6, <1>7

LEMMA CallGoesOn ==
  ASSUME Calm, TypeInv, WorkType', LifeInv, NEW g \in Procs, daemon = "up", UNCHANGED boot,
         PlainCall(g) \/ RecordChild(g) \/ ResumeParent(g)
  PROVE  LifeInv'
<1>1. UNCHANGED rows /\ ~Faults /\ WorkType /\ Call(g) /\ Childfree(g)
  BY GoroutineInv DEF PlainCall, RecordChild, ResumeParent, Calm, TypeInv
<1>2. CASE PlainCall(g)
  <2>1. At(g, "tools") /\ Goto(g, NextCall(Top(g)))
    BY <1>1, <1>2 DEF PlainCall, Calling
  <2>2. stack[g] # <<>> /\ Top(g) \in Busy /\ Top(g).pc = "tools"
    BY <1>1, <2>1, AtTyped DEF BusyPcs, At
  <2>3. Status(Top(g).run) = "active" /\ Childless(Top(g).run)
    BY <1>1, <2>2 DEF Call, Childfree
  <2> QED
    BY <1>1, <2>1, <2>2, <2>3, NextCallView, Advance
<1>3. CASE RecordChild(g)
  <2>1. stack[g] # <<>> /\ Top(g) \in Busy /\ Top(g).pc = "record"
    BY <1>1, <1>3, AtTyped DEF BusyPcs, At, RecordChild
  <2>2. Status(Top(g).run) = "active" /\ (Top(g).seen \notin Live => Childless(Top(g).run))
    BY <1>1, <2>1 DEF Call, Childfree
  <2>3. CASE Goto(g, [Top(g) EXCEPT !.pc = "paused"])
    <3> DEFINE f == [Top(g) EXCEPT !.pc = "paused"]
    <3>1. f \in Good /\ f.run = Top(g).run /\ f.pc = "paused"
      BY <2>1, BusyToFree DEF FreePcs, Good, Busy, FrameSet
    <3>2. Goto(g, f)
      BY <2>3
    <3> HIDE DEF f
    <3> QED
      BY <1>1, <2>1, <2>2, <3>1, <3>2, Advance
  <2>4. CASE Top(g).seen \notin Live /\ Goto(g, NextCall(Top(g)))
    BY <1>1, <2>1, <2>2, <2>4, NextCallView, Advance
  <2> QED
    BY <1>1, <1>3, <2>3, <2>4 DEF RecordChild, GotoPc
<1>4. CASE ResumeParent(g)
  <2> DEFINE f == Frame("turn", Top(g).run)
  <2>1. stack[g] # <<>> /\ Top(g).run \in Runs /\ Top(g).pc = "announce" /\ Goto(g, f)
    BY <1>1, <1>4, AtTyped DEF FreePcs, At, ResumeParent
  <2>2. Status(Top(g).run) = "active" /\ Childless(Top(g).run)
    BY <1>1, <2>1 DEF Call, Childfree
  <2>3. f \in Good
    BY <2>1, NewFrame DEF FreePcs, Good, Statuses
  <2>4. f.run = Top(g).run /\ f.pc = "turn"
    BY DEF Frame
  <2> HIDE DEF f
  <2> QED
    BY <1>1, <2>1, <2>2, <2>3, <2>4, Advance
<1> QED
  BY <1>2, <1>3, <1>4

LEMMA EmptyGoroutine ==
  ASSUME NEW g \in Procs, stack'[g] = <<>>, job'[g] = NoJob
  PROVE  OfGoroutine(g)' /\ OnStack(g)' = {}
<1>1. Chain(g)' /\ OnStack(g)' = {}
  BY EmptyView
<1>2. job'[g].pc = "idle"
  BY DEF NoJob
<1>3. Call(g)' /\ Childfree(g)' /\ ~Deciding(g)'
  BY <1>2 DEF Call, Childfree, Deciding
<1>4. ~\E c : Claims(g, c)'
  BY <1>2, <1>3 DEF Claims, Resolving, At
<1>5. Answer(g)'
  BY <1>2, <1>4, LoopAnswer
<1> QED
  BY <1>1, <1>3, <1>5 DEF OfGoroutine

(* A goroutine that leaves without changing a row.                         *)
LEMMA Leaves ==
  ASSUME TypeInv, WorkType', LifeInv, NEW g \in Procs, daemon = "up", UNCHANGED boot, UNCHANGED rows,
         ~Deciding(g), ~At(g, "asked"), stack'[g] = <<>>, job'[g] = NoJob,
         \A h \in Procs : h # g => stack'[h] = stack[h] /\ job'[h] = job[h]
  PROVE  LifeInv'
<1>1. UNCHANGED <<run, ticket>>
  BY DEF rows
<1>2. OfGoroutine(g)' /\ OnStack(g)' = {}
  BY EmptyGoroutine
<1>3. \A r \in Runs : Status(r)' = Status(r) /\ run'[r] = run[r]
  BY <1>1 DEF Status
<1>4. \A r \in Runs : Reporting(r)' => Reporting(r)
  <2> SUFFICES ASSUME NEW r \in Runs, NEW h \in Procs, At(h, "parent")', Top(h)'.run = r
               PROVE  Reporting(r)
    BY DEF Reporting
  <2>1. h # g
    BY DEF At
  <2>2. At(h, "parent") /\ Top(h).run = r
    BY <2>1, SameView DEF At
  <2> QED
    BY <2>2 DEF Reporting
<1>5. Shrinks
  BY <1>3, <1>4 DEF Shrinks, Open
<1>6. Steady(g)
  BY <1>1, <1>2, <1>3, <1>5, ShrinkChildless DEF Steady
<1>7. ~Deciding(g) /\ ~Deciding(g)'
  BY DEF Deciding, NoJob
<1>8. OfTables'
  BY <1>1, <1>3, <1>5, <1>6, <1>7, LoopTables
<1> QED
  BY <1>2, <1>6, <1>8, LifeFrom

LEMMA Stops ==
  ASSUME TypeInv, WorkType', LifeInv, NEW g \in Procs, daemon = "up", UNCHANGED boot, UNCHANGED rows,
         stack[g] # <<>>, ~At(g, "asked"), stack'[g] = <<>>, job'[g] = NoJob,
         \A h \in Procs : h # g => stack'[h] = stack[h] /\ job'[h] = job[h]
  PROVE  LifeInv'
BY InLoop, Leaves

(* A call returns: its run has just ended, or waits.                       *)
LEMMA Returns ==
  ASSUME TypeInv, WorkType', LifeInv, NEW g \in Procs, daemon = "up", UNCHANGED boot, UNCHANGED ticket,
         stack[g] # <<>>, Top(g).pc \in {"turn", "complete", "announce", "paused"},
         NEW s \in Statuses, NEW res \in {s, "error"}, Return(g, res),
         \/ /\ Status(Top(g).run) = "active" /\ s \in Terminal
            /\ run' = [run EXCEPT ![Top(g).run].status = s]
         \/ s = Status(Top(g).run) /\ s \in Live /\ res = s /\ UNCHANGED run
  PROVE  LifeInv'
<1>1. Chain(g) /\ Call(g) /\ Childfree(g) /\ Answer(g) /\ WorkType /\ RowsType /\ Disjoint /\ OneOpenChild
  BY GoroutineInv DEF TypeInv, LifeInv, OfTables
<1>20. PICK r : r = Top(g).run
  OBVIOUS
<1>21. PICK p : p = run[r].parent
  OBVIOUS
<1>2. r \in Runs /\ r \in OnStack(g) /\ OnStack(g) = {r} \cup Below(g) /\ OnStack(g) \subseteq Runs
  BY <1>1, <1>20, CallsHaveRuns, BelowView DEF OnStack
<1>3. Status(r) \in Live
  BY <1>1, <1>20 DEF Call, Live
<1>4. run \in RunRows
  BY <1>1 DEF RowsType
<1>5. /\ run'[r].status = s /\ Status(r)' = s
      /\ \A q \in Runs : q # r => run'[q] = run[q] /\ Status(q)' = Status(q)
      /\ \A q \in Runs : run'[q].parent = run[q].parent /\ run'[q].session = run[q].session
  <2>1. CASE Status(r) = "active" /\ s \in Terminal /\ run' = [run EXCEPT ![r].status = s]
    <3>1. /\ run'[r].status = s
          /\ \A q \in Runs : q # r => run'[q] = run[q]
          /\ \A q \in Runs : run'[q].parent = run[q].parent /\ run'[q].session = run[q].session
      BY <1>2, <1>4, <2>1 DEF RunRows
    <3> QED
      BY <1>2, <3>1 DEF Status
  <2>2. CASE s = Status(r) /\ UNCHANGED run
    BY <1>2, <2>2 DEF Status
  <2> QED
    BY <1>20, <2>1, <2>2
<1>6. /\ s # "none" /\ Status(r) # "none" /\ (s \in Live => s = Status(r)) /\ Status(r) \notin Terminal
      /\ (s = "needs_approval" <=> Status(r) = "needs_approval")
  BY <1>3, <1>20 DEF Live, Terminal
<1>7. \A h \in Procs : h # g => stack'[h] = stack[h] /\ job'[h] = job[h]
  <2>1. CASE Below(g) = {}
    BY <1>1, <2>1, LastView DEF OthersStacks, WorkType
  <2>2. CASE Below(g) # {}
    BY <1>1, <2>2, PopView DEF OthersStacks
  <2> QED
    BY <2>1, <2>2
<1>8. KeepsParents(g)
  BY <1>5 DEF KeepsParents
<1>9. \/ /\ Below(g) # {}
         /\ p \in Below(g) /\ stack'[g] # <<>> /\ Top(g)'.pc = "record" /\ Top(g)'.seen = res /\ Top(g)'.run = p
         /\ Below(g)' \subseteq Below(g) /\ OnStack(g)' = Below(g) /\ Bottom(g)' = Bottom(g)
         /\ UNCHANGED job /\ Chain(g)'
      \/ /\ Below(g) = {} /\ job'[g] = NoJob /\ job[g].pc = "looping" /\ res # "error" /\ stack'[g] # <<>>
         /\ Top(g)'.pc = "parent" /\ Top(g)'.run = r /\ Top(g)'.seen = res
         /\ Below(g)' = {} /\ OnStack(g)' = {r} /\ Chain(g)'
      \/ Below(g) = {} /\ stack'[g] = <<>> /\ job'[g] = NoJob /\ OnStack(g)' = {}
  <2>1. CASE Below(g) # {}
    BY <1>1, <1>8, <1>20, <1>21, <2>1, PopView DEF Parent
  <2>2. CASE Below(g) = {} /\ job[g].pc = "looping" /\ res # "error"
    <3> DEFINE f == [Frame("parent", r) EXCEPT !.seen = res]
    <3>1. stack'[g] = <<f>> /\ job'[g] = NoJob
      BY <1>1, <1>20, <2>2, LastView
    <3>2. f.pc = "parent" /\ f.run = r /\ f.seen = res
      BY DEF Frame
    <3> HIDE DEF f
    <3> QED
      BY <2>2, <3>1, <3>2, SingleView
  <2>3. CASE Below(g) = {} /\ ~(job[g].pc = "looping" /\ res # "error")
    <3>1. stack'[g] = <<>> /\ job'[g] = NoJob
      BY <1>1, <2>3, LastView
    <3> QED
      BY <2>3, <3>1, EmptyView
  <2> QED
    BY <2>1, <2>2, <2>3
<1>10. \A q \in Runs : q \in OnStack(g)' => q \in OnStack(g)
  BY <1>2, <1>9
<1>11. \A q \in Runs : Reporting(q)' => Reporting(q) \/ (q = r /\ Below(g) = {})
  <2> SUFFICES ASSUME NEW q \in Runs, NEW h \in Procs, At(h, "parent")', Top(h)'.run = q
               PROVE  Reporting(q) \/ (q = r /\ Below(g) = {})
    BY DEF Reporting
  <2>1. CASE h # g
    <3>1. At(h, "parent") /\ Top(h).run = q
      BY <1>7, <2>1, SameView DEF At
    <3> QED
      BY <3>1 DEF Reporting
  <2>2. CASE h = g
    BY <1>9, <2>2 DEF At
  <2> QED
    BY <2>1, <2>2
<1>12. Shrinks
  <2>1. \A q \in Runs : Open(q)' => Open(q)
    <3>1. Open(r)
      BY <1>3 DEF Open
    <3>2. \A q \in Runs : q # r /\ Open(q)' => Open(q)
      BY <1>5, <1>11 DEF Open
    <3> QED
      BY <3>1, <3>2
  <2>2. \A q \in Runs : q = r \/ q # r
    OBVIOUS
  <2>4. \A q \in Runs : q = r => Status(q)' = s
    BY <1>5, <1>2 DEF Status
  <2> QED
    BY <1>3, <1>5, <1>6, <2>1, <2>4 DEF Shrinks
<1>13. Steady(g)
  BY <1>2, <1>5, <1>7, <1>10, <1>12, ShrinkChildless DEF Steady
<1>14. ~Deciding(g) /\ ~Deciding(g)' /\ job'[g].pc \in {"idle", "looping"}
  BY <1>9, InLoop DEF Deciding, NoJob
<1>15. \A q \in Runs : Status(q)' = "needs_approval" <=> Status(q) = "needs_approval"
  <2>1. \A q \in Runs : q = r => Status(q)' = s
    BY <1>2, <1>5 DEF Status
  <2> QED
    BY <1>5, <1>6, <2>1
<1>16. OfTables'
  BY <1>12, <1>13, <1>14, <1>15, LoopTables DEF At
<1>17. CASE Below(g) # {}
  <2>1. p \in Runs /\ p \in Below(g) /\ p # NoRun /\ Status(p) = "active" /\ p # r
    <3>1. p \in Below(g) /\ p \in Runs
      BY <1>2, <1>9, <1>17
    <3>2. r \notin Below(g)
      BY <1>1, <1>17, <1>20, PopView
    <3> QED
      BY <1>1, <3>1, <3>2, ConstantsAssumption DEF Call
  <2>2. \A q \in Below(g) : Status(q)' = "active"
    <3>1. r \notin Below(g) /\ Below(g) \subseteq Runs
      BY <1>1, <1>2, <1>17, <1>20, PopView
    <3> QED
      BY <1>1, <1>5, <3>1 DEF Call
  <2>3. Call(g)'
    <3>1. Status(Top(g).run)' = "active"
      BY <1>9, <1>17, <2>1, <2>2 DEF Status
    <3>2. ~HasAsked(g)'
      BY <1>9, <1>17 DEF HasAsked
    <3> QED
      BY <1>9, <1>17, <2>2, <3>1, <3>2 DEF Call
  <2>4. ASSUME res \notin Live
        PROVE  Childless(Top(g).run)'
    <3> SUFFICES ASSUME NEW d \in Runs, run'[d].parent = p, Open(d)'
                 PROVE  FALSE
      BY <1>9, <1>17 DEF Childless
    <3>1. s \in Terminal
      BY <2>4
    <3>2. ~Open(r)'
      <4>1. ~Reporting(r)
        <5> SUFFICES ASSUME NEW h \in Procs, At(h, "parent"), Top(h).run = r PROVE FALSE
          BY DEF Reporting
        <5>1. r \in OnStack(h)
          BY DEF OnStack, At
        <5>2. h = g
          BY <1>1, <1>2, <5>1 DEF Disjoint
        <5> QED
          BY <5>2 DEF At
      <4>2. run'[r].status \notin Live
        BY <1>5, <3>1 DEF Live, Terminal
      <4>3. ~Reporting(r)'
        BY <1>2, <1>11, <1>17, <4>1
      <4> QED
        BY <1>2, <4>2, <4>3 DEF Open, Status, Reporting
    <3>3. d # r
      BY <3>2
    <3>4. Open(d) /\ run[d].parent = p /\ Open(r) /\ run[r].parent = p
      BY <1>2, <1>3, <1>5, <1>12, <1>21 DEF Shrinks, Open
    <3>5. Status(p) \notin Terminal
      BY <2>1 DEF Terminal
    <3> QED
      BY <1>1, <1>2, <2>1, <3>3, <3>4, <3>5 DEF OneOpenChild
  <2>5. Childfree(g)'
    BY <1>9, <1>14, <1>17, <2>4 DEF Childfree
  <2>6. Answer(g)'
    <3>1. ASSUME NEW c \in Runs, Claims(g, c)', run'[c].parent # NoRun
          PROVE  ~Working(run[c].parent)'
      <4>1. Claims(g, c)
        BY <1>9, <1>14, <1>17, <3>1 DEF Claims, Deciding, Resolving, At
      <4>2. ~Working(run[c].parent) /\ run[c].parent \in Runs /\ run'[c].parent = run[c].parent
        BY <1>4, <1>5, <3>1, <4>1, ClaimsAreOpen DEF RunRows
      <4> QED
        BY <1>10, <1>13, <4>2, WorkShrinks DEF Working
    <3> QED
      BY <1>14, <3>1, LoopAnswer
  <2> QED
    BY <1>9, <1>13, <1>16, <1>17, <2>3, <2>5, <2>6, LifeFrom DEF OfGoroutine
<1>18. CASE Below(g) = {} /\ stack'[g] = <<>> /\ job'[g] = NoJob
  BY <1>13, <1>16, <1>18, EmptyGoroutine, LifeFrom
<1>19. CASE Below(g) = {} /\ stack'[g] # <<>>
  <2>1. /\ job'[g] = NoJob /\ job[g].pc = "looping" /\ res = s
        /\ Top(g)'.pc = "parent" /\ Top(g)'.run = r /\ Top(g)'.seen = res
        /\ Below(g)' = {} /\ Chain(g)'
    BY <1>9, <1>19
  <2>2. Call(g)'
    <3>1. Status(Top(g).run)' = s
      BY <1>5, <2>1 DEF Status
    <3>2. ~HasAsked(g)'
      BY <2>1 DEF HasAsked
    <3> QED
      BY <1>6, <1>19, <2>1, <3>1, <3>2 DEF Call, NoJob
  <2>3. Childfree(g)'
    BY <1>14, <2>1 DEF Childfree
  <2>4. Answer(g)'
    <3>1. ASSUME NEW c \in Runs, Claims(g, c)', run'[c].parent # NoRun
          PROVE  ~Working(run[c].parent)'
      <4>1. c = r
        BY <1>14, <2>1, <3>1 DEF Claims, Deciding, Resolving, NoJob
      <4>2. Claims(g, r)
        BY <1>19, <2>1, BelowView, <1>1, <1>20 DEF Claims
      <4>3. ~Working(run[c].parent) /\ run[c].parent \in Runs /\ run'[c].parent = run[c].parent
        BY <1>4, <1>5, <3>1, <4>1, <4>2, ClaimsAreOpen DEF RunRows
      <4> QED
        BY <1>10, <1>13, <4>3, WorkShrinks DEF Working
    <3> QED
      BY <1>14, <3>1, LoopAnswer
  <2> QED
    BY <1>13, <1>16, <2>1, <2>2, <2>3, <2>4, LifeFrom DEF OfGoroutine
<1> QED
  BY <1>9, <1>17, <1>18, <1>19

LEMMA AlwaysFits == ASSUME NEW r, NEW s, s \notin Live PROVE Fits(r, s)
BY DEF Fits

LEMMA CallEnds ==
  ASSUME Calm, TypeInv, WorkType', LifeInv, NEW g \in Procs, daemon = "up", UNCHANGED boot,
         BudgetStop(g) \/ ProviderFails(g) \/ Complete(g) \/ InterruptParent(g) \/ Paused(g)
  PROVE  LifeInv'
<1>1. ~Faults /\ WorkType /\ Call(g) /\ "interrupted" \notin Live /\ "failed" \notin Live
      /\ "completed" \notin Live /\ RowsType
  BY GoroutineInv DEF Calm, TypeInv, Live
<1>2. {"interrupted", "failed", "completed"} \subseteq Statuses \cap Terminal
  BY DEF Statuses, Terminal
<1>3. CASE BudgetStop(g)
  <2>1. stack[g] # <<>> /\ Top(g).pc = "turn" /\ UNCHANGED ticket
    BY <1>3 DEF BudgetStop, Turning, At
  <2>2. Status(Top(g).run) = "active"
    BY <1>1, <2>1 DEF Call
  <2>3. run' = [run EXCEPT ![Top(g).run].status = "interrupted"] /\ Return(g, "interrupted")
    BY <1>1, <1>3, AlwaysFits DEF BudgetStop, Journal
  <2> QED
    BY <1>2, <2>1, <2>2, <2>3, Returns
<1>4. CASE ProviderFails(g)
  <2>1. stack[g] # <<>> /\ Top(g).pc = "turn" /\ UNCHANGED ticket
    BY <1>4 DEF ProviderFails, Turning, At
  <2>2. Status(Top(g).run) = "active"
    BY <1>1, <2>1 DEF Call
  <2>3. run' = [run EXCEPT ![Top(g).run].status = "failed"] /\ Return(g, "error")
    BY <1>1, <1>4, AlwaysFits DEF ProviderFails, Journal
  <2> QED
    BY <1>2, <2>1, <2>2, <2>3, Returns
<1>5. CASE Complete(g)
  <2>1. stack[g] # <<>> /\ Top(g).pc = "complete" /\ UNCHANGED ticket
    BY <1>5 DEF Complete, At
  <2>2. Status(Top(g).run) = "active"
    BY <1>1, <2>1 DEF Call
  <2>3. run' = [run EXCEPT ![Top(g).run].status = "completed"] /\ Return(g, "completed")
    BY <1>1, <1>5, AlwaysFits DEF Complete, Journal
  <2> QED
    BY <1>2, <2>1, <2>2, <2>3, Returns
<1>6. CASE InterruptParent(g)
  <2>1. stack[g] # <<>> /\ Top(g).pc = "announce" /\ UNCHANGED ticket
    BY <1>6 DEF InterruptParent, At
  <2>2. Status(Top(g).run) = "active"
    BY <1>1, <2>1 DEF Call
  <2>3. run' = [run EXCEPT ![Top(g).run].status = "interrupted"] /\ Return(g, "error")
    BY <1>1, <1>6, AlwaysFits DEF InterruptParent, Journal
  <2> QED
    BY <1>2, <2>1, <2>2, <2>3, Returns
<1>7. CASE Paused(g)
  <2>1. stack[g] # <<>> /\ Top(g).pc = "paused" /\ UNCHANGED ticket /\ UNCHANGED run
        /\ Return(g, Status(Top(g).run))
    BY <1>7 DEF Paused, At, rows
  <2>2. Status(Top(g).run) \in Live /\ Status(Top(g).run) \in Statuses
    BY <1>1, <2>1 DEF Call, Live, Statuses
  <2> QED
    BY <2>1, <2>2, Returns
<1> QED
  BY <1>3, <1>4, <1>5, <1>6, <1>7

(* A run has a parent in the table, or none.                               *)
LEMMA ParentOfRun == ASSUME RowsType, NEW r \in Runs PROVE run[r].parent \in Runs \cup {NoRun}
BY DEF RowsType, RunRows

LEMMA CheckParentLife ==
  ASSUME Calm, TypeInv, WorkType', LifeInv, NEW g \in Procs, daemon = "up", UNCHANGED boot,
         CheckParent(g)
  PROVE  LifeInv'
<1>1. /\ ~Faults /\ WorkType /\ RowsType /\ Call(g) /\ Answer(g) /\ OneOpenChild /\ Disjoint
      /\ WaitingIsChildless
  BY GoroutineInv DEF Calm, TypeInv, LifeInv, OfTables
<1>2. At(g, "parent") /\ stack[g] # <<>> /\ Top(g).pc = "parent" /\ UNCHANGED rows /\ Top(g).run \in Runs
  BY <1>1, AtTyped DEF CheckParent, At, FreePcs
<1>3. Below(g) = {} /\ job[g] = NoJob /\ Top(g).seen = Status(Top(g).run) /\ Top(g).seen # "none"
      /\ UNCHANGED <<run, ticket>>
  BY <1>1, <1>2 DEF Call, rows
<1>4. PICK c : c = Top(g).run
  OBVIOUS
<1>5. PICK p : p = run[c].parent
  OBVIOUS
<1>6. c \in Runs /\ c \in OnStack(g) /\ OnStack(g) = {c} /\ Claims(g, c) /\ Open(c) /\ p \in Runs \cup {NoRun}
  BY <1>1, <1>2, <1>3, <1>4, <1>5, ParentOfRun DEF OnStack, Claims, Open, Reporting
<1>7. CASE Return(g, "error")
  <2>1. stack'[g] = <<>> /\ job'[g] = NoJob /\ \A h \in Procs : h # g => stack'[h] = stack[h] /\ job'[h] = job[h]
    BY <1>1, <1>2, <1>3, <1>7, LastView DEF OthersStacks, WorkType
  <2> QED
    BY <1>2, <2>1, Stops DEF At
<1>8. CASE /\ p # NoRun /\ Top(g).seen \in Terminal /\ Status(p) \notin Terminal
           /\ Goto(g, [Top(g) EXCEPT !.pc = "announce", !.run = p])
  <2> DEFINE f == [Top(g) EXCEPT !.pc = "announce", !.run = p]
  <2>1. f \in Good /\ f.run = p /\ f.pc = "announce"
    <3>1. Top(g) \in Free /\ p \in Runs
      BY <1>1, <1>2, <1>6, <1>8, AtTyped DEF FreePcs
    <3>2. f \in Free
      BY <3>1 DEF Free, FrameSet, FreePcs
    <3> QED
      BY <3>1, <3>2 DEF Good, Free, FrameSet
  <2>2. Goto(g, f)
    BY <1>8
  <2> HIDE DEF f
  <2>3. /\ stack'[g] # <<>> /\ Top(g)' = f /\ Below(g)' = {} /\ OnStack(g)' = {p}
        /\ UNCHANGED job /\ \A h \in Procs : h # g => stack'[h] = stack[h]
    BY <1>1, <1>2, <1>3, <2>1, <2>2, GotoView DEF OthersStacks
  <2>4. p \in Runs /\ ~Working(p) /\ p # c
    <3>1. p \in Runs /\ ~Working(p)
      BY <1>5, <1>6, <1>8, ClaimsAreOpen
    <3> QED
      BY <1>1, <1>6, <3>1, WorkingView
  <2>5. Status(p) = "active"
    <3>1. Status(p) # "none"
      BY <1>5, <1>6, <1>8 DEF LifeInv, OfTables, Families
    <3>2. Status(p) # "needs_approval"
      BY <1>1, <1>5, <1>6, <2>4 DEF WaitingIsChildless, Childless
    <3> QED
      BY <1>1, <1>8, <2>4, <3>1, <3>2, StatusOfRun DEF Statuses, Live, Terminal
  <2>6. \A r \in Runs : Status(r)' = Status(r) /\ run'[r] = run[r]
    BY <1>3 DEF Status
  <2>7. \A r \in Runs : Reporting(r)' => Reporting(r) /\ r # c
    <3> SUFFICES ASSUME NEW r \in Runs, NEW h \in Procs, At(h, "parent")', Top(h)'.run = r
                 PROVE  Reporting(r) /\ r # c
      BY DEF Reporting
    <3>1. h # g
      BY <2>1, <2>3 DEF At
    <3>2. At(h, "parent") /\ Top(h).run = r
      BY <2>3, <3>1, SameView DEF At
    <3>3. r \in OnStack(h)
      BY <3>2 DEF At, OnStack
    <3>4. r # c
      BY <1>1, <1>6, <3>1, <3>3 DEF Disjoint
    <3> QED
      BY <3>2, <3>4 DEF Reporting
  <2>8. Shrinks
    BY <2>6, <2>7 DEF Shrinks, Open
  <2>9. ~Open(c)'
    <3>1. Status(c) \notin Live /\ Status(c)' = Status(c)
      BY <1>3, <1>4, <1>6, <1>8, <2>6 DEF Live, Terminal
    <3> QED
      BY <1>6, <2>7, <3>1 DEF Open
  <2>10. \A d \in Runs : run[d].parent = p /\ Open(d) => d = c
    BY <1>1, <1>5, <1>6, <1>8, <2>4 DEF OneOpenChild
  <2>11. Unclaimed(g, p)
    <3> SUFFICES ASSUME NEW h \in Procs, h # g
                 PROVE  /\ p \notin OnStack(h)
                        /\ Deciding(h) \/ Resolving(h) => JobRun(h) # p
                        /\ \A d \in Runs : Claims(h, d) => run[d].parent # p
      BY DEF Unclaimed
    <3>1. p \notin OnStack(h)
      BY <1>1, <2>4, WorkingView
    <3>2. ASSUME Deciding(h) \/ Resolving(h), JobRun(h) = p
          PROVE  FALSE
      <4>1. CASE Deciding(h)
        <5>1. Childless(p)
          BY <3>2, <4>1, GoroutineInv DEF Childfree
        <5> QED
          BY <1>5, <1>6, <5>1 DEF Childless
      <4>2. CASE Resolving(h)
        <5>1. Status(p) = "needs_approval"
          BY <3>2, <4>2, GoroutineInv DEF Answer
        <5> QED
          BY <2>5, <5>1
      <4> QED
        BY <3>2, <4>1, <4>2
    <3>3. ASSUME NEW d \in Runs, Claims(h, d), run[d].parent = p
          PROVE  FALSE
      <4>1. Open(d)
        BY <3>3, ClaimsAreOpen
      <4>2. d = c
        BY <2>10, <3>3, <4>1
      <4>3. Status(c) \notin Live
        BY <1>3, <1>4, <1>8 DEF Live, Terminal
      <4>4. CASE (Deciding(h) \/ Resolving(h)) /\ d = JobRun(h)
        <5>1. Status(d) \in Live
          BY <4>4, GoroutineInv DEF Answer, Live
        <5> QED
          BY <4>2, <4>3, <5>1
      <4>5. CASE job[h].pc = "looping" /\ d = Bottom(h)
        <5>1. stack[h] # <<>>
          BY <4>5, GoroutineInv DEF Call
        <5>2. d \in OnStack(h)
          BY <1>1, <4>5, <5>1, BelowView
        <5> QED
          BY <1>1, <1>6, <3>2, <4>2, <5>2 DEF Disjoint
      <4>6. CASE At(h, "parent") /\ d = Top(h).run
        <5>1. d \in OnStack(h)
          BY <4>6 DEF At, OnStack
        <5> QED
          BY <1>1, <1>6, <4>2, <5>1 DEF Disjoint
      <4> QED
        BY <3>3, <4>4, <4>5, <4>6 DEF Claims
    <3> QED
      BY <3>1, <3>2, <3>3
  <2>12. Steady(g)
    BY <1>3, <2>3, <2>6, <2>8, <2>11, ShrinkChildless DEF Steady
  <2>13. ~Deciding(g) /\ ~Deciding(g)' /\ job'[g].pc = "idle" /\ job'[g] = NoJob
    BY <1>2, <1>3, <2>3, InLoop DEF Deciding, NoJob
  <2>14. OfTables'
    BY <1>2, <1>3, <2>6, <2>8, <2>12, <2>13, LoopTables DEF At
  <2>15. Chain(g)'
    BY <1>1, <1>2, <1>3, <2>1, <2>2, <2>6, GotoChain, GoroutineInv DEF KeepsParents
  <2>16. Call(g)'
    <3>1. Status(Top(g).run)' = "active"
      BY <2>1, <2>3, <2>4, <2>5, <2>6 DEF Status
    <3>2. ~HasAsked(g)'
      BY <2>1, <2>3 DEF HasAsked
    <3> QED
      BY <2>1, <2>3, <2>13, <3>1, <3>2 DEF Call, NoJob
  <2>17. Childfree(g)'
    <3>1. Childless(Top(g).run)'
      <4> SUFFICES ASSUME NEW d \in Runs, run'[d].parent = p, Open(d)'
                   PROVE  FALSE
        BY <2>1, <2>3 DEF Childless
      <4>1. Open(d) /\ run[d].parent = p /\ d # c
        BY <2>6, <2>8, <2>9 DEF Shrinks
      <4> QED
        BY <2>10, <4>1
    <3> QED
      BY <2>1, <2>3, <2>13, <3>1 DEF Childfree
  <2>18. Answer(g)'
    <3>1. ~\E d : Claims(g, d)'
      BY <2>1, <2>3, <2>13 DEF Claims, Resolving, At
    <3> QED
      BY <2>13, <3>1, LoopAnswer
  <2> QED
    BY <2>12, <2>14, <2>15, <2>16, <2>17, <2>18, LifeFrom DEF OfGoroutine
<1> QED
  BY <1>1, <1>2, <1>4, <1>5, <1>7, <1>8 DEF CheckParent

-----------------------------------------------------------------------------
(* Steps that start a run.                                                 *)

(* A root when no root is live, or a child of an active run without one.   *)
MayBegin(c, p, s) ==
  /\ Status(c) = "none"
  /\ \/ p = NoRun /\ s = Front /\ \A q \in Runs : ~LiveRoot(q)
     \/ p \in Runs /\ s = c /\ Status(p) = "active" /\ Childless(p)

SameReports == \A r \in Runs : Reporting(r)' <=> Reporting(r)

LEMMA NoChildYet ==
  ASSUME Families, NEW c \in Runs, Status(c) = "none"
  PROVE  run[c].parent = NoRun /\ \A d \in Runs : run[d].parent # c
BY ConstantsAssumption DEF Families

LEMMA InsertView ==
  ASSUME RowsType, NEW c \in Runs, NEW p, NEW s, Insert(c, p, s)
  PROVE  /\ run'[c].status = "active" /\ run'[c].parent = p /\ run'[c].session = s
         /\ Status(c)' = "active"
         /\ \A q \in Runs : q # c => run'[q] = run[q] /\ Status(q)' = Status(q)
<1>1. run' = [run EXCEPT ![c] = [status |-> "active", parent |-> p, session |-> s]] /\ run \in RunRows
  BY DEF Insert, RowsType
<1>2. /\ run'[c] = [status |-> "active", parent |-> p, session |-> s]
      /\ \A q \in Runs : q # c => run'[q] = run[q]
  BY <1>1 DEF RunRows
<1> QED
  BY <1>2 DEF Status

LEMMA Birth ==
  ASSUME TypeInv, LifeInv, NEW c \in Runs, NEW p, NEW s, MayBegin(c, p, s), Insert(c, p, s), SameReports
  PROVE  /\ Families' /\ OneLiveRoot' /\ OneOpenChild' /\ WaitingIsChildless'
         /\ Childless(c)' /\ \A q \in Runs : q # p /\ Childless(q) => Childless(q)'
<1>1. Families /\ OneLiveRoot /\ OneOpenChild /\ WaitingIsChildless /\ RowsType
  BY DEF LifeInv, OfTables, TypeInv
<1>2. /\ run'[c].status = "active" /\ run'[c].parent = p /\ run'[c].session = s
      /\ Status(c)' = "active"
      /\ \A q \in Runs : q # c => run'[q] = run[q] /\ Status(q)' = Status(q)
  BY <1>1, InsertView
<1>3. run[c].parent = NoRun /\ (\A d \in Runs : run[d].parent # c) /\ p # c /\ c # NoRun
  BY <1>1, NoChildYet, ConstantsAssumption DEF MayBegin
<1>4. \A q \in Runs : q # c => Open(q)' = Open(q)
  BY <1>2 DEF Open, SameReports
<1>5. Childless(c)'
  BY <1>2, <1>3 DEF Childless
<1>6. ASSUME NEW q \in Runs, q # p, Childless(q)
      PROVE  Childless(q)'
  <2> SUFFICES ASSUME NEW d \in Runs, run'[d].parent = q, Open(d)' PROVE FALSE
    BY DEF Childless
  <2>1. d # c
    BY <1>2, <1>6
  <2> QED
    BY <1>2, <1>4, <1>6, <2>1 DEF Childless
<1>7. Families'
  <2> SUFFICES ASSUME NEW r \in Runs
               PROVE  /\ run'[r].parent = NoRun => run'[r].session = Front
                      /\ run'[r].parent # NoRun =>
                           Status(r)' # "none" /\ run'[r].session = r /\ run'[run'[r].parent].status # "none"
    BY DEF Families, Status
  <2>1. CASE r = c
    <3>1. p = NoRun => s = Front
      BY ConstantsAssumption DEF MayBegin
    <3>2. p # NoRun => s = c /\ p \in Runs /\ Status(p) # "none"
      BY DEF MayBegin
    <3>3. p # NoRun => run'[p].status # "none"
      BY <1>2, <1>3, <3>2 DEF Status
    <3> QED
      BY <1>2, <2>1, <3>1, <3>2, <3>3
  <2>2. CASE r # c
    <3>1. run'[r] = run[r] /\ Status(r)' = Status(r)
      BY <1>2, <2>2
    <3>2. run[r].parent # NoRun => run'[run[r].parent] = run[run[r].parent]
      BY <1>1, <1>2, <1>3, ParentOfRun
    <3> QED
      BY <1>1, <3>1, <3>2 DEF Families, Status
  <2> QED
    BY <2>1, <2>2
<1>8. OneLiveRoot'
  <2> SUFFICES ASSUME NEW q \in Runs, NEW r \in Runs, LiveRoot(q)', LiveRoot(r)', q # r PROVE FALSE
    BY DEF OneLiveRoot
  <2>1. \A d \in Runs : LiveRoot(d)' => (d = c /\ p = NoRun) \/ (d # c /\ LiveRoot(d))
    BY <1>2 DEF LiveRoot
  <2>2. p = NoRun => \A d \in Runs : ~LiveRoot(d)
    BY ConstantsAssumption DEF MayBegin
  <2> QED
    BY <1>1, <2>1, <2>2 DEF OneLiveRoot
<1>9. OneOpenChild'
  <2> SUFFICES ASSUME NEW d \in Runs, NEW e \in Runs,
                      run'[d].parent = run'[e].parent, run'[d].parent # NoRun,
                      run'[run'[d].parent].status \notin Terminal, Open(d)', Open(e)', d # e
               PROVE  FALSE
    BY DEF OneOpenChild, Status
  <2>1. p # NoRun => \A q \in Runs : run[q].parent = p => ~Open(q)
    BY DEF MayBegin, Childless
  <2>2. d # c /\ e # c
    BY <1>2, <1>4, <2>1
  <2>3. run[d].parent = run[e].parent /\ run[d].parent # NoRun /\ Open(d) /\ Open(e)
        /\ run'[d].parent = run[d].parent
    BY <1>2, <1>4, <2>2
  <2>4. run'[run[d].parent] = run[run[d].parent]
    BY <1>1, <1>2, <1>3, <2>3, ParentOfRun
  <2> QED
    BY <1>1, <2>3, <2>4 DEF OneOpenChild, Status
<1>10. WaitingIsChildless'
  <2> SUFFICES ASSUME NEW r \in Runs, Status(r)' = "needs_approval" PROVE Childless(r)'
    BY DEF WaitingIsChildless
  <2>1. r # c /\ Status(r) = "needs_approval"
    BY <1>2
  <2>2. r # p
    BY <2>1, ConstantsAssumption DEF MayBegin
  <2> QED
    BY <1>1, <1>6, <2>1, <2>2 DEF WaitingIsChildless
<1> QED
  BY <1>5, <1>6, <1>7, <1>8, <1>9, <1>10

(* Nobody works for a run that is new.                                     *)
LEMMA NewIsUnclaimed ==
  ASSUME TypeInv, LifeInv, NEW c \in Runs, Status(c) = "none", NEW g \in Procs
  PROVE  Unclaimed(g, c)
<1> SUFFICES ASSUME NEW h \in Procs
             PROVE  /\ c \notin OnStack(h)
                    /\ Deciding(h) \/ Resolving(h) => JobRun(h) # c
                    /\ \A d \in Runs : Claims(h, d) => run[d].parent # c
  BY DEF Unclaimed
<1>1. c \notin OnStack(h)
  BY OnStackUsed, GoroutineInv DEF TypeInv
<1>2. ASSUME Deciding(h) \/ Resolving(h), JobRun(h) = c
      PROVE  FALSE
  <2>1. Claims(h, c)
    BY <1>2 DEF Claims
  <2> QED
    BY <2>1, ClaimsAreOpen
<1>3. \A d \in Runs : run[d].parent # c
  BY NoChildYet DEF LifeInv, OfTables
<1> QED
  BY <1>1, <1>2, <1>3

LEMMA StartCheckLife ==
  ASSUME TypeInv, WorkType', LifeInv, NEW g \in Procs, daemon = "up", UNCHANGED boot, StartCheck(g)
  PROVE  LifeInv'
<1> DEFINE f == Frame("start", NoRun)
<1>1. stack[g] = <<>> /\ job[g] = NoJob /\ UNCHANGED <<run, ticket, job>>
      /\ stack' = [stack EXCEPT ![g] = <<f>> \o <<>>] /\ WorkType
  BY DEF StartCheck, Idle, Push, rows, TypeInv
<1>2. f.pc = "start" /\ f.run = NoRun
  BY DEF Frame
<1> HIDE DEF f
<1>3. stack'[g] = <<f>> /\ \A h \in Procs : h # g => stack'[h] = stack[h]
  BY <1>1 DEF WorkType
<1>4. stack'[g] # <<>> /\ Top(g)' = f /\ Below(g)' = {} /\ OnStack(g)' = {NoRun} /\ Chain(g)'
  BY <1>2, <1>3, SingleView
<1>5. \A r \in Runs : Reporting(r)' => Reporting(r)
  <2> SUFFICES ASSUME NEW r \in Runs, NEW h \in Procs, At(h, "parent")', Top(h)'.run = r
               PROVE  Reporting(r)
    BY DEF Reporting
  <2>1. h # g
    BY <1>2, <1>4 DEF At
  <2>2. At(h, "parent") /\ Top(h).run = r
    BY <1>3, <2>1, SameView DEF At
  <2> QED
    BY <2>2 DEF Reporting
<1>6. \A r \in Runs : Status(r)' = Status(r) /\ run'[r] = run[r]
  BY <1>1 DEF Status
<1>7. Shrinks
  BY <1>5, <1>6 DEF Shrinks, Open
<1>8. NoRun \notin Runs /\ job[g].pc = "idle"
  BY <1>1, ConstantsAssumption DEF NoJob
<1>9. Steady(g)
  BY <1>1, <1>3, <1>4, <1>6, <1>7, <1>8, ShrinkChildless DEF Steady
<1>10. ~Deciding(g) /\ ~Deciding(g)' /\ ~At(g, "asked") /\ job'[g].pc = "idle"
  BY <1>1, <1>8 DEF Deciding, At
<1>11. OfTables'
  BY <1>1, <1>6, <1>7, <1>9, <1>10, LoopTables
<1>12. Call(g)'
  <2>1. ~HasAsked(g)'
    BY <1>2, <1>4 DEF HasAsked
  <2> QED
    BY <1>1, <1>2, <1>4, <1>10, <2>1 DEF Call
<1>13. Childfree(g)'
  BY <1>2, <1>4, <1>10 DEF Childfree
<1>14. Answer(g)'
  <2>1. ~\E c : Claims(g, c)'
    BY <1>2, <1>4, <1>10 DEF Claims, Resolving, At
  <2> QED
    BY <1>10, <2>1, LoopAnswer
<1> QED
  BY <1>4, <1>9, <1>11, <1>12, <1>13, <1>14, LifeFrom DEF OfGoroutine

(* A goroutine begins the first loop of a new run.                         *)
LEMMA Begins ==
  ASSUME TypeInv, WorkType', LifeInv, NEW g \in Procs, daemon = "up", UNCHANGED boot, UNCHANGED ticket,
         At(g, "start"), NEW r \in Runs, Status(r) = "none", \A q \in Runs : ~LiveRoot(q),
         Insert(r, NoRun, Front), Goto(g, Frame("turn", r))
  PROVE  LifeInv'
<1> DEFINE f == Frame("turn", r)
<1>1. /\ WorkType /\ RowsType /\ Call(g) /\ stack[g] # <<>> /\ Top(g).pc = "start" /\ Families
  BY GoroutineInv DEF TypeInv, At, LifeInv, OfTables
<1>2. f.pc = "turn" /\ f.run = r /\ Goto(g, f)
  BY DEF Frame
<1>3. f \in Good
  BY NewFrame DEF FreePcs, Good, Statuses
<1> HIDE DEF f
<1>4. Below(g) = {} /\ job[g] = NoJob
  BY <1>1 DEF Call
<1>5. /\ stack'[g] # <<>> /\ Top(g)' = f /\ Below(g)' = {} /\ OnStack(g)' = {r}
      /\ UNCHANGED job /\ \A h \in Procs : h # g => stack'[h] = stack[h]
  BY <1>1, <1>2, <1>3, <1>4, GotoView DEF OthersStacks
<1>6. SameReports
  <2>1. \A h \in Procs, q \in Runs : (At(h, "parent") /\ Top(h).run = q)' <=> (At(h, "parent") /\ Top(h).run = q)
    <3> SUFFICES ASSUME NEW h \in Procs, NEW q \in Runs
                 PROVE  (At(h, "parent") /\ Top(h).run = q)' <=> (At(h, "parent") /\ Top(h).run = q)
      OBVIOUS
    <3>1. CASE h = g
      BY <1>1, <1>2, <1>5, <3>1 DEF At
    <3>2. CASE h # g
      BY <1>5, <3>2, SameView DEF At
    <3> QED
      BY <3>1, <3>2
  <2> QED
    BY <2>1 DEF SameReports, Reporting
<1>7. MayBegin(r, NoRun, Front)
  BY DEF MayBegin
<1>8. /\ Families' /\ OneLiveRoot' /\ OneOpenChild' /\ WaitingIsChildless'
      /\ Childless(r)' /\ \A q \in Runs : Childless(q) => Childless(q)'
  BY <1>6, <1>7, Birth, ConstantsAssumption
<1>9. /\ run'[r].status = "active" /\ run'[r].parent = NoRun /\ Status(r)' = "active"
      /\ \A q \in Runs : q # r => run'[q] = run[q] /\ Status(q)' = Status(q)
  BY <1>1, InsertView
<1>10. Unclaimed(g, r)
  BY NewIsUnclaimed
<1>11. \A q \in Runs : Status(q) # "none" => run'[q].parent = run[q].parent
  BY <1>9
<1>12. Steady(g)
  BY <1>5, <1>8, <1>9, <1>10, <1>11 DEF Steady
<1>13. job[g].pc = "idle" /\ ~Deciding(g) /\ ~Deciding(g)' /\ ~At(g, "asked")
  BY <1>1, <1>4, <1>5 DEF Deciding, NoJob, At
<1>14. OfTables'
  <2>1. \A q \in Runs : Status(q)' = "needs_approval" <=> Status(q) = "needs_approval"
    BY <1>9
  <2> QED
    BY <1>8, <1>12, <1>13, <2>1, LoopRest DEF OfTables
<1>15. Chain(g)'
  <2>1. KeepsParents(g)
    BY <1>9, NoChildYet, <1>1 DEF KeepsParents
  <2> QED
    BY <1>1, <1>2, <1>3, <1>4, <2>1, GotoChain, GoroutineInv
<1>16. Call(g)'
  <2>1. Status(Top(g).run)' = "active"
    BY <1>2, <1>5, <1>9 DEF Status
  <2>2. ~HasAsked(g)'
    BY <1>2, <1>5 DEF HasAsked
  <2> QED
    BY <1>2, <1>4, <1>5, <1>13, <2>1, <2>2 DEF Call
<1>17. Childfree(g)'
  <2>1. Childless(Top(g).run)'
    BY <1>2, <1>5, <1>8 DEF Childless
  <2> QED
    BY <1>2, <1>5, <1>13, <2>1 DEF Childfree
<1>18. Answer(g)'
  <2>1. ~\E c : Claims(g, c)'
    BY <1>2, <1>5, <1>13 DEF Claims, Resolving, At
  <2> QED
    BY <1>5, <1>13, <2>1, LoopAnswer
<1> QED
  BY <1>12, <1>14, <1>15, <1>16, <1>17, <1>18, LifeFrom DEF OfGoroutine

LEMMA StartInsertLife ==
  ASSUME Calm, TypeInv, WorkType', LifeInv, NEW g \in Procs, daemon = "up", UNCHANGED boot, StartInsert(g)
  PROVE  LifeInv'
<1>1. ~Faults /\ WorkType /\ At(g, "start") /\ stack[g] # <<>> /\ UNCHANGED ticket /\ Families
  BY DEF Calm, TypeInv, StartInsert, At, LifeInv, OfTables
<1>2. ASSUME NEW r \in Unused, Fits(r, "active"), Insert(r, NoRun, Front), Goto(g, Frame("turn", r))
      PROVE  LifeInv'
  <2>1. r \in Runs /\ Status(r) = "none"
    BY DEF Unused
  <2>2. run[r].parent = NoRun
    BY <1>1, <2>1, NoChildYet
  <2>3. \A q \in Runs : ~LiveRoot(q)
    BY <1>2, <2>1, <2>2 DEF Fits, Live, LiveRoot
  <2> QED
    BY <1>1, <1>2, <2>1, <2>3, Begins
<1>3. CASE UNCHANGED run /\ Finish(g)
  <2>1. stack'[g] = <<>> /\ job'[g] = NoJob /\ \A h \in Procs : h # g => stack'[h] = stack[h] /\ job'[h] = job[h]
    BY <1>1, <1>3 DEF Finish, WorkType
  <2>2. UNCHANGED rows /\ ~At(g, "asked")
    BY <1>1, <1>3 DEF rows, At
  <2> QED
    BY <1>1, <2>1, <2>2, Stops
<1> QED
  BY <1>1, <1>2, <1>3 DEF StartInsert

(* A call that delegates is its session's active run.                      *)
LEMMA DelegatesForItself ==
  ASSUME Families, OneLiveRoot, NEW r \in Runs, Status(r) = "active", NEW p \in Preferred(run[r].session)
  PROVE  p = r
<1>1. p \in Runs /\ run[p].session = run[r].session /\ Status(p) = "active"
  BY DEF Preferred
<1>2. CASE run[r].parent = NoRun
  <2>1. run[p].session = NoRun
    BY <1>1, <1>2 DEF Families, Front
  <2>2. run[p].parent = NoRun
    BY <1>1, <2>1, ConstantsAssumption DEF Families
  <2> QED
    BY <1>1, <1>2, <2>2 DEF OneLiveRoot, LiveRoot, Live
<1>3. CASE run[r].parent # NoRun
  <2>1. run[p].session = r
    BY <1>1, <1>3 DEF Families
  <2>2. run[p].parent # NoRun
    BY <1>1, <2>1, ConstantsAssumption DEF Families, Front
  <2> QED
    BY <1>1, <2>1, <2>2 DEF Families
<1> QED
  BY <1>2, <1>3

LEMMA Spawns ==
  ASSUME TypeInv, WorkType', LifeInv, NEW g \in Procs, daemon = "up", UNCHANGED boot, UNCHANGED ticket,
         At(g, "tools"), NEW c \in Runs, Status(c) = "none", Insert(c, Top(g).run, c), UNCHANGED job,
         Delegates(g, Frame("turn", c), [Top(g) EXCEPT !.pc = "spawned"])
  PROVE  LifeInv'
<1> DEFINE e == Frame("turn", c)
           f == [Top(g) EXCEPT !.pc = "spawned"]
<1>1. /\ WorkType /\ RowsType /\ Call(g) /\ stack[g] # <<>> /\ Top(g).pc = "tools" /\ Families
      /\ Top(g) \in Busy /\ Chain(g) /\ Childfree(g) /\ Top(g).run \in Runs
  BY AtTyped, GoroutineInv DEF TypeInv, At, LifeInv, OfTables, BusyPcs
<1>20. PICK p : p = Top(g).run
  OBVIOUS
<1>2. e.pc = "turn" /\ e.run = c /\ f.run = p /\ Delegates(g, e, f)
  BY <1>20 DEF Frame
<1>3. e \in Good /\ f \in Good
  <2>1. e \in Good
    BY NewFrame DEF FreePcs, Good, Statuses
  <2>2. f \in Good
    BY <1>1, BusyToBusy DEF BusyPcs, Good
  <2> QED
    BY <2>1, <2>2
<1> HIDE DEF e, f
<1>4. p \in Runs /\ Status(p) = "active" /\ Childless(p) /\ p # c /\ p \in OnStack(g)
      /\ OnStack(g) \subseteq Runs /\ OnStack(g) = {p} \cup Below(g)
  BY <1>1, <1>20, CallsHaveRuns DEF Call, Childfree, OnStack
<1>5. c \notin OnStack(g)
  BY <1>1, OnStackUsed
<1>6. /\ run'[c].status = "active" /\ run'[c].parent = p /\ Status(c)' = "active"
      /\ \A q \in Runs : q # c => run'[q] = run[q] /\ Status(q)' = Status(q)
  BY <1>1, <1>20, InsertView
<1>7. KeepsParents(g)
  BY <1>5, <1>6 DEF KeepsParents
<1>8. /\ stack'[g] # <<>> /\ Top(g)' = e /\ Below(g)' = OnStack(g)
      /\ OnStack(g)' = {c} \cup OnStack(g) /\ Bottom(g)' = Bottom(g)
      /\ \A h \in Procs : h # g => stack'[h] = stack[h]
      /\ Chain(g)'
  BY <1>1, <1>2, <1>3, <1>5, <1>6, <1>7, <1>20, DelegateView DEF OthersStacks
<1>9. SameReports
  <2>1. \A h \in Procs, q \in Runs : (At(h, "parent") /\ Top(h).run = q)' <=> (At(h, "parent") /\ Top(h).run = q)
    <3> SUFFICES ASSUME NEW h \in Procs, NEW q \in Runs
                 PROVE  (At(h, "parent") /\ Top(h).run = q)' <=> (At(h, "parent") /\ Top(h).run = q)
      OBVIOUS
    <3>1. CASE h = g
      BY <1>1, <1>2, <1>8, <3>1 DEF At
    <3>2. CASE h # g
      BY <1>8, <3>2, SameView DEF At
    <3> QED
      BY <3>1, <3>2
  <2> QED
    BY <2>1 DEF SameReports, Reporting
<1>10. MayBegin(c, p, c) /\ Insert(c, p, c)
  BY <1>4, <1>20 DEF MayBegin
<1>11. /\ Families' /\ OneLiveRoot' /\ OneOpenChild' /\ WaitingIsChildless'
       /\ Childless(c)' /\ \A q \in Runs : q # p /\ Childless(q) => Childless(q)'
  BY <1>9, <1>10, Birth
<1>12. Unclaimed(g, c)
  BY NewIsUnclaimed
<1>13. \A q \in Runs : Status(q) # "none" => run'[q].parent = run[q].parent
  BY <1>6
<1>14. Steady(g)
  BY <1>4, <1>6, <1>8, <1>11, <1>12, <1>13 DEF Steady
<1>15. job[g].pc \in {"idle", "looping"} /\ ~Deciding(g) /\ ~Deciding(g)' /\ ~At(g, "asked")
  BY <1>1, InLoop DEF Deciding, At
<1>16. OfTables'
  <2>1. \A q \in Runs : Status(q)' = "needs_approval" <=> Status(q) = "needs_approval"
    BY <1>6
  <2> QED
    BY <1>11, <1>14, <1>15, <2>1, LoopRest DEF OfTables
<1>17. Call(g)'
  <2>1. Status(Top(g).run)' = "active"
    BY <1>2, <1>6, <1>8 DEF Status
  <2>2. ~HasAsked(g)'
    BY <1>2, <1>8 DEF HasAsked
  <2>3. \A r \in OnStack(g) : Status(r)' = "active"
    <3>1. \A r \in Below(g) : Status(r) = "active"
      BY <1>1 DEF Call
    <3> QED
      BY <1>4, <1>5, <1>6, <3>1
  <2> QED
    BY <1>2, <1>8, <2>1, <2>2, <2>3 DEF Call
<1>18. Childfree(g)'
  <2>1. Childless(Top(g).run)'
    BY <1>2, <1>8, <1>11 DEF Childless
  <2> QED
    BY <1>2, <1>8, <1>15, <2>1 DEF Childfree
<1>19. Answer(g)'
  <2>1. ASSUME NEW d \in Runs, Claims(g, d)', run'[d].parent # NoRun
        PROVE  ~Working(run[d].parent)'
    <3>1. job[g].pc = "looping" /\ d = Bottom(g)
      BY <1>2, <1>8, <1>15, <2>1 DEF Claims, Deciding, Resolving, At
    <3>2. Claims(g, d) /\ d \in OnStack(g)
      BY <1>1, <3>1, BelowView DEF Claims
    <3>3. run'[d].parent = run[d].parent /\ run[d].parent \in Runs
      BY <1>1, <1>5, <1>6, <2>1, <3>2, ParentOfRun
    <3>4. ~Working(run[d].parent) /\ run[d].parent # c
      BY <1>1, <2>1, <3>2, <3>3, ClaimsAreOpen, NoChildYet
    <3>5. \A q \in Runs : q # c /\ Working(q)' => Working(q)
      <4> SUFFICES ASSUME NEW q \in Runs, q # c, Working(q)' PROVE Working(q)
        OBVIOUS
      <4>1. PICK h \in Procs : q \in OnStack(h)'
        BY WorkingViewNext
      <4>2. q \in OnStack(h)
        BY <1>8, <4>1, SameView
      <4> QED
        BY <1>1, <4>2, WorkingView
    <3> QED
      BY <3>3, <3>4, <3>5 DEF Working
  <2> QED
    BY <1>15, <2>1, LoopAnswer
<1> QED
  BY <1>8, <1>14, <1>16, <1>17, <1>18, <1>19, LifeFrom DEF OfGoroutine

LEMMA DelegateLife ==
  ASSUME Calm, TypeInv, WorkType', LifeInv, NEW g \in Procs, daemon = "up", UNCHANGED boot, Delegate(g)
  PROVE  LifeInv'
<1>1. /\ ~Faults /\ WorkType /\ At(g, "tools") /\ stack[g] # <<>> /\ Top(g).pc = "tools"
      /\ UNCHANGED ticket /\ Families /\ OneLiveRoot /\ Top(g) \in Busy /\ Top(g).run \in Runs
  BY AtTyped DEF Calm, TypeInv, Delegate, Calling, At, LifeInv, OfTables, BusyPcs
<1>2. Status(Top(g).run) = "active" /\ Childless(Top(g).run)
  BY <1>1, GoroutineInv DEF Call, Childfree
<1>3. ASSUME NEW c \in Unused, NEW p \in Preferred(run[Top(g).run].session), Insert(c, p, c), UNCHANGED job,
             Delegates(g, Frame("turn", c), [Top(g) EXCEPT !.pc = "spawned"])
      PROVE  LifeInv'
  <2>1. c \in Runs /\ Status(c) = "none"
    BY DEF Unused
  <2>2. p = Top(g).run
    BY <1>1, <1>2, DelegatesForItself
  <2>3. Insert(c, Top(g).run, c)
    BY <1>3, <2>2
  <2> QED
    BY <1>1, <1>3, <2>1, <2>3, Spawns
<1>4. CASE UNCHANGED run /\ Goto(g, [Top(g) EXCEPT !.pc = "record", !.seen = "error"])
  <2> DEFINE f == [Top(g) EXCEPT !.pc = "record", !.seen = "error"]
  <2>1. f \in Good /\ f.run = Top(g).run /\ f.pc = "record" /\ f.seen = "error"
    BY <1>1 DEF Busy, FrameSet, BusyPcs, Good
  <2>2. Goto(g, f) /\ UNCHANGED rows
    BY <1>1, <1>4 DEF rows
  <2> HIDE DEF f
  <2> QED
    BY <1>1, <1>2, <2>1, <2>2, Advance
<1>5. \/ \E c \in Unused, p \in Preferred(run[Top(g).run].session) :
           /\ Insert(c, p, c) /\ UNCHANGED job
           /\ Delegates(g, Frame("turn", c), [Top(g) EXCEPT !.pc = "spawned"])
      \/ UNCHANGED run /\ Goto(g, [Top(g) EXCEPT !.pc = "record", !.seen = "error"])
  BY <1>1 DEF Delegate, Delegates
<1> QED
  BY <1>3, <1>4, <1>5

-----------------------------------------------------------------------------
(* Steps that ask for approval.                                            *)

LEMMA TopNotBelow ==
  ASSUME WorkType, NEW g \in Procs, stack[g] # <<>>, Chain(g)
  PROVE  Top(g).run \notin Below(g)
<1>1. Len(stack[g]) \in Nat \ {0} /\ Top(g) = stack[g][1]
  BY StackView
<1> SUFFICES ASSUME NEW i \in 2 .. Len(stack[g]), stack[g][i].run = stack[g][1].run PROVE FALSE
  BY <1>1 DEF Below
<1>2. i \in 1 .. Len(stack[g]) /\ 1 \in 1 .. Len(stack[g]) /\ i # 1
  BY <1>1
<1> QED
  BY <1>2 DEF Chain

LEMMA AskTables ==
  ASSUME TypeInv, LifeInv, NEW g \in Procs, Steady(g), Shrinks, daemon = "up", UNCHANGED boot,
         UNCHANGED job,
         \A r \in Runs : Status(r)' = "needs_approval" => Status(r) = "needs_approval" \/ Childless(r)
  PROVE  /\ BootInv' /\ Families' /\ OneLiveRoot' /\ Disjoint' /\ OneAnswer' /\ OneOpenChild'
         /\ WaitingIsChildless'
         /\ \A h \in Procs : Deciding(h)' = Deciding(h)
<1>1. BootInv /\ OneAnswer
  BY DEF LifeInv, OfTables
<1>2. Families' /\ OneLiveRoot' /\ OneOpenChild' /\ WaitingIsChildless' /\ Disjoint'
  BY ShrinkTables, OtherDisjoint
<1>3. BootInv'
  BY <1>1 DEF BootInv, boot
<1>4. \A h \in Procs : Deciding(h)' = Deciding(h)
  BY DEF Deciding
<1>5. \A h \in Procs : Deciding(h) => JobRun(h)' = JobRun(h)
  <2> SUFFICES ASSUME NEW h \in Procs, Deciding(h) PROVE JobRun(h)' = JobRun(h)
    OBVIOUS
  <2>1. job[h].ticket \in Tickets /\ ticket[job[h].ticket].state # "none"
    BY JobRunView DEF Deciding
  <2> QED
    BY <2>1 DEF Steady, JobRun
<1>6. OneAnswer'
  BY <1>1, <1>4, <1>5 DEF OneAnswer
<1> QED
  BY <1>2, <1>3, <1>4, <1>6

(* A call that goes on with its run, whose status may change.              *)
LEMMA GoesOn ==
  ASSUME TypeInv, LifeInv, NEW g \in Procs, stack[g] # <<>>, Top(g).pc \in {"tools", "asked", "gate"},
         NEW f \in Good, Goto(g, f), f.run = Top(g).run, f.pc # "parent",
         \A q \in Runs : run'[q].parent = run[q].parent /\ run'[q].session = run[q].session,
         NEW r, r = Top(g).run, Status(r) \in Live, Status(r)' \in Live,
         \A q \in Runs : q # r => Status(q)' = Status(q)
  PROVE  /\ stack'[g] # <<>> /\ Top(g)' = f /\ Below(g)' = Below(g) /\ OnStack(g)' = OnStack(g)
         /\ Bottom(g)' = Bottom(g) /\ UNCHANGED job
         /\ \A h \in Procs : h # g => stack'[h] = stack[h]
         /\ r \in Runs /\ r \in OnStack(g) /\ OnStack(g) \subseteq Runs
         /\ r \notin Below(g) /\ Chain(g)' /\ Shrinks
         /\ \A h \in Procs : h # g => Top(h)' = Top(h)
<1>1. Chain(g) /\ Call(g) /\ WorkType
  BY GoroutineInv DEF TypeInv
<1>2. r \in Runs /\ OnStack(g) \subseteq Runs /\ OnStack(g) = {r} \cup Below(g) /\ r \notin Below(g)
  BY <1>1, CallsHaveRuns, TopNotBelow DEF OnStack
<1>3. /\ stack'[g] # <<>> /\ Top(g)' = f /\ Below(g)' = Below(g) /\ OnStack(g)' = OnStack(g)
      /\ Bottom(g)' = Bottom(g) /\ UNCHANGED job
      /\ \A h \in Procs : h # g => stack'[h] = stack[h]
  BY <1>1, <1>2, GotoView DEF OthersStacks
<1>4. Chain(g)'
  BY <1>1, GotoChain DEF KeepsParents
<1>5. \A q \in Runs : Reporting(q)' => Reporting(q)
  <2> SUFFICES ASSUME NEW q \in Runs, NEW h \in Procs, At(h, "parent")', Top(h)'.run = q
               PROVE  Reporting(q)
    BY DEF Reporting
  <2>1. h # g
    BY <1>3 DEF At
  <2>2. At(h, "parent") /\ Top(h).run = q
    BY <1>3, <2>1, SameView DEF At
  <2> QED
    BY <2>2 DEF Reporting
<1>6. Status(r) \in Live /\ run'[r].status \in Live /\ "none" \notin Live
      /\ \A s \in Live : s \notin Terminal
  BY DEF Live, Terminal, Status
<1>7. \A q \in Runs : /\ Status(q)' = "none" <=> Status(q) = "none"
                      /\ Open(q)' => Open(q)
                      /\ Status(q)' \in Live => Status(q) \in Live
                      /\ Status(q) \in Terminal => Status(q)' \in Terminal
  <2> SUFFICES ASSUME NEW q \in Runs
               PROVE  /\ Status(q)' = "none" <=> Status(q) = "none"
                      /\ Open(q)' => Open(q)
                      /\ Status(q)' \in Live => Status(q) \in Live
                      /\ Status(q) \in Terminal => Status(q)' \in Terminal
    OBVIOUS
  <2>1. CASE q = r
    <3>1. Status(q) \in Live /\ Status(q)' \in Live
      BY <1>6, <2>1 DEF Status
    <3> QED
      BY <1>6, <3>1 DEF Open
  <2>2. CASE q # r
    <3>1. Status(q)' = Status(q)
      BY <2>2
    <3> QED
      BY <1>5, <3>1 DEF Open
  <2> QED
    BY <2>1, <2>2
<1>8. Shrinks
  BY <1>7 DEF Shrinks
<1>9. \A h \in Procs : h # g => Top(h)' = Top(h)
  BY <1>3, SameView
<1> QED
  BY <1>2, <1>3, <1>4, <1>8, <1>9

(* A call that asks keeps the claims of its goroutine.                     *)
LEMMA AskAnswer ==
  ASSUME TypeInv, WorkType', LifeInv, NEW g \in Procs, Steady(g), stack[g] # <<>>, UNCHANGED job,
         stack'[g] # <<>>, Top(g)'.pc # "parent", Bottom(g)' = Bottom(g), OnStack(g)' = OnStack(g),
         \A q \in Runs : run'[q].parent = run[q].parent
  PROVE  Answer(g)'
<1>1. job[g].pc \in {"idle", "looping"} /\ ~Deciding(g)'
  BY InLoop DEF Deciding
<1>2. ASSUME NEW c \in Runs, Claims(g, c)', run'[c].parent # NoRun
      PROVE  ~Working(run[c].parent)'
  <2>1. Claims(g, c)
    <3>1. job[g].pc = "looping" /\ c = Bottom(g)
      BY <1>1, <1>2 DEF Claims, Resolving, At
    <3> QED
      BY <3>1 DEF Claims
  <2>2. run'[c].parent = run[c].parent
    OBVIOUS
  <2>3. ~Working(run[c].parent) /\ run[c].parent \in Runs
    BY <1>2, <2>1, <2>2, ClaimsAreOpen, ParentOfRun DEF TypeInv
  <2> QED
    BY <2>2, <2>3, WorkShrinks DEF Working
<1> QED
  BY <1>1, <1>2, LoopAnswer

LEMMA CreateTicketLife ==
  ASSUME Calm, TypeInv, WorkType', LifeInv, NEW g \in Procs, daemon = "up", UNCHANGED boot, CreateTicket(g)
  PROVE  LifeInv'
<1>1. /\ ~Faults /\ WorkType /\ RowsType /\ At(g, "tools") /\ stack[g] # <<>> /\ Top(g).pc = "tools"
      /\ UNCHANGED run /\ Top(g) \in Busy /\ Top(g).run \in Runs /\ OneTicket /\ AnswersCome /\ Disjoint
  BY AtTyped DEF Calm, TypeInv, CreateTicket, Calling, At, LifeInv, OfTables, BusyPcs
<1>2. Status(Top(g).run) = "active" /\ Childless(Top(g).run) /\ Call(g)
  BY <1>1, GoroutineInv DEF Call, Childfree
<1>3. PICK t \in Spare :
        /\ ticket' = [ticket EXCEPT ![t].state = "pending", ![t].run = Top(g).run]
        /\ Goto(g, [Top(g) EXCEPT !.pc = "asked", !.ticket = t])
  BY <1>1 DEF CreateTicket
<1>4. PICK r : r = Top(g).run
  OBVIOUS
<1> DEFINE f == [Top(g) EXCEPT !.pc = "asked", !.ticket = t]
<1>5. t \in Tickets /\ ticket[t].state = "none"
  BY DEF Spare
<1>6. f \in Good /\ f.run = r /\ f.pc = "asked" /\ f.ticket = t /\ Goto(g, f)
  BY <1>1, <1>3, <1>4, <1>5 DEF Busy, FrameSet, BusyPcs, Good
<1> HIDE DEF f
<1>7. \A q \in Runs : Status(q)' = Status(q) /\ run'[q] = run[q]
  BY <1>1 DEF Status
<1>8. r \in Runs /\ Status(r) = "active" /\ Status(r) \in Live /\ Status(r)' \in Live /\ Childless(r)
  BY <1>1, <1>2, <1>4, <1>7 DEF Live
<1>9. /\ stack'[g] # <<>> /\ Top(g)' = f /\ Below(g)' = Below(g) /\ OnStack(g)' = OnStack(g)
      /\ Bottom(g)' = Bottom(g) /\ UNCHANGED job
      /\ \A h \in Procs : h # g => stack'[h] = stack[h] /\ Top(h)' = Top(h)
      /\ r \in OnStack(g) /\ OnStack(g) \subseteq Runs /\ r \notin Below(g) /\ Chain(g)' /\ Shrinks
  BY <1>1, <1>4, <1>6, <1>7, <1>8, GoesOn
<1>10. /\ ticket'[t].state = "pending" /\ ticket'[t].run = r
       /\ \A u \in Tickets : u # t => ticket'[u] = ticket[u]
  BY <1>1, <1>3, <1>4, <1>5 DEF RowsType, TicketRows
<1>11. Steady(g)
  BY <1>5, <1>7, <1>9, <1>10, ShrinkChildless DEF Steady
<1>12. /\ BootInv' /\ Families' /\ OneLiveRoot' /\ Disjoint' /\ OneAnswer' /\ OneOpenChild'
       /\ WaitingIsChildless' /\ \A h \in Procs : Deciding(h)' = Deciding(h)
  BY <1>7, <1>9, <1>11, AskTables
<1>13. \A h \in Procs : At(h, "asked") => h # g /\ At(h, "asked")' /\ Top(h)' = Top(h)
  BY <1>1, <1>9 DEF At
<1>14. \A u \in Tickets : ~Pending(u, r)
  <2> SUFFICES ASSUME NEW u \in Tickets, Pending(u, r) PROVE FALSE
    OBVIOUS
  <2>1. PICK h \in Procs : At(h, "asked") /\ Top(h).run = r
    BY <1>1, <1>8 DEF OneTicket, Pending
  <2>2. r \in OnStack(h)
    BY <2>1 DEF At, OnStack
  <2> QED
    BY <1>1, <1>8, <1>9, <1>13, <2>1, <2>2 DEF Disjoint
<1>15. OneTicket'
  <2>1. \A u \in Tickets, q \in Runs : Pending(u, q)' => (u = t /\ q = r) \/ (u # t /\ Pending(u, q))
    BY <1>10 DEF Pending
  <2>2. \A u, v \in Tickets : \A q \in Runs : Pending(u, q)' /\ Pending(v, q)' => u = v
    BY <1>1, <1>14, <2>1 DEF OneTicket
  <2>3. ASSUME NEW u \in Tickets, ticket'[u].state = "pending"
        PROVE  \/ run'[ticket'[u].run].status = "needs_approval"
               \/ \E h \in Procs : At(h, "asked")' /\ Top(h)'.run = ticket'[u].run
    <3>1. CASE u = t
      BY <1>6, <1>9, <1>10, <3>1 DEF At
    <3>2. CASE u # t
      <4>1. ticket'[u] = ticket[u] /\ ticket[u].state = "pending"
        BY <1>10, <2>3, <3>2
      <4>2. CASE Status(ticket[u].run) = "needs_approval"
        BY <1>1, <4>1, <4>2 DEF Status
      <4>3. CASE \E h \in Procs : At(h, "asked") /\ Top(h).run = ticket[u].run
        BY <1>13, <4>1, <4>3
      <4> QED
        BY <1>1, <4>1, <4>2, <4>3 DEF OneTicket
    <3> QED
      BY <3>1, <3>2
  <2> QED
    BY <2>2, <2>3 DEF OneTicket, Status
<1>16. AnswersCome'
  <2> SUFFICES ASSUME crashes = 0
               PROVE  AnswersCome'
    BY DEF AnswersCome, boot
  <2>1. ASSUME NEW q \in Runs, Status(q)' = "needs_approval"
        PROVE  \E u \in Tickets : ticket'[u].run = q /\
                 (ticket'[u].state = "pending" \/ \E h \in Procs : Deciding(h)' /\ job'[h].ticket = u)
    <3>1. PICK u \in Tickets : ticket[u].run = q /\
             (ticket[u].state = "pending" \/ \E h \in Procs : Deciding(h) /\ job[h].ticket = u)
      BY <1>1, <1>7, <2>1 DEF AnswersCome
    <3>2. u # t
      <4>1. \A h \in Procs : Deciding(h) => ticket[job[h].ticket].state # "none"
        BY JobRunView DEF Deciding
      <4> QED
        BY <1>5, <3>1, <4>1
    <3> QED
      BY <1>9, <1>10, <1>12, <3>1, <3>2
  <2>2. ASSUME NEW u \in Tickets, ticket'[u].gate = "pending"
        PROVE  \/ ticket'[u].state = "pending"
               \/ \E h \in Procs : job'[h].ticket = u /\ job'[h].pc \in {"resume", "gate"}
    BY <1>1, <1>9, <1>10, <2>2 DEF AnswersCome
  <2> QED
    BY <2>1, <2>2 DEF AnswersCome
<1>17. Call(g)'
  <2>1. Status(Top(g).run)' = "active"
    BY <1>6, <1>7, <1>8, <1>9 DEF Status
  <2>2. \A q \in Below(g) : Status(q)' = "active"
    BY <1>1, <1>2, <1>7, <1>9 DEF Call, OnStack
  <2>3. Pending(Top(g).ticket, Top(g).run)'
    BY <1>6, <1>9, <1>10 DEF Pending
  <2> QED
    BY <1>5, <1>6, <1>9, <2>1, <2>2, <2>3 DEF Call
<1>18. Childfree(g)'
  <2>1. \A q \in Runs : q = r => Childless(q)'
    BY <1>8, <1>9, ShrinkChildless
  <2>2. Childless(Top(g).run)'
    BY <1>6, <1>8, <1>9, <2>1 DEF Childless
  <2>3. ~Deciding(g)'
    BY <1>1, <1>12, InLoop
  <2> QED
    BY <1>6, <1>9, <2>2, <2>3 DEF Childfree
<1>19. Answer(g)'
  BY <1>1, <1>6, <1>7, <1>9, <1>11, AskAnswer
<1> QED
  BY <1>9, <1>11, <1>12, <1>15, <1>16, <1>17, <1>18, <1>19, LifeFrom DEF OfGoroutine, OfTables

LEMMA RequestApprovalLife ==
  ASSUME Calm, TypeInv, WorkType', LifeInv, NEW g \in Procs, daemon = "up", UNCHANGED boot, RequestApproval(g)
  PROVE  LifeInv'
<1>1. /\ ~Faults /\ WorkType /\ RowsType /\ At(g, "asked") /\ stack[g] # <<>> /\ Top(g).pc = "asked"
      /\ UNCHANGED ticket /\ Top(g) \in Busy /\ Top(g).run \in Runs /\ OneTicket /\ AnswersCome
      /\ OneLiveRoot /\ Disjoint
  BY AtTyped DEF Calm, TypeInv, RequestApproval, At, LifeInv, OfTables, BusyPcs
<1>4. PICK r : r = Top(g).run
  OBVIOUS
<1>2. /\ Status(r) = "active" /\ Childless(r) /\ Call(g) /\ r \in Runs
      /\ Top(g).ticket \in Tickets /\ Pending(Top(g).ticket, r)
  BY <1>1, <1>4, GoroutineInv DEF Call, Childfree, HasAsked
<1>3. Fits(r, "needs_approval")
  BY <1>1, <1>2 DEF Fits, OneLiveRoot, LiveRoot, Live
<1>5. run' = [run EXCEPT ![r].status = "needs_approval"] /\ Goto(g, [Top(g) EXCEPT !.pc = "gate"])
  BY <1>1, <1>3, <1>4 DEF RequestApproval, Journal, GotoPc
<1> DEFINE f == [Top(g) EXCEPT !.pc = "gate"]
<1>6. f \in Good /\ f.run = r /\ f.pc = "gate" /\ f.ticket = Top(g).ticket /\ Goto(g, f)
  BY <1>1, <1>4, <1>5, BusyToFree DEF Busy, FrameSet, FreePcs, Good
<1> HIDE DEF f
<1>7. /\ run'[r].status = "needs_approval" /\ Status(r)' = "needs_approval"
      /\ \A q \in Runs : q # r => run'[q] = run[q] /\ Status(q)' = Status(q)
      /\ \A q \in Runs : run'[q].parent = run[q].parent /\ run'[q].session = run[q].session
  <2>1. /\ run'[r].status = "needs_approval"
        /\ \A q \in Runs : q # r => run'[q] = run[q]
        /\ \A q \in Runs : run'[q].parent = run[q].parent /\ run'[q].session = run[q].session
    BY <1>1, <1>2, <1>5 DEF RowsType, RunRows
  <2> QED
    BY <2>1 DEF Status
<1>8. Status(r) \in Live /\ Status(r)' \in Live
  BY <1>2, <1>7 DEF Live
<1>9. /\ stack'[g] # <<>> /\ Top(g)' = f /\ Below(g)' = Below(g) /\ OnStack(g)' = OnStack(g)
      /\ Bottom(g)' = Bottom(g) /\ UNCHANGED job
      /\ \A h \in Procs : h # g => stack'[h] = stack[h] /\ Top(h)' = Top(h)
      /\ r \in OnStack(g) /\ OnStack(g) \subseteq Runs /\ r \notin Below(g) /\ Chain(g)' /\ Shrinks
  BY <1>1, <1>4, <1>6, <1>7, <1>8, GoesOn
<1>11. Steady(g)
  BY <1>1, <1>7, <1>9, ShrinkChildless DEF Steady
<1>12. /\ BootInv' /\ Families' /\ OneLiveRoot' /\ Disjoint' /\ OneAnswer' /\ OneOpenChild'
       /\ WaitingIsChildless' /\ \A h \in Procs : Deciding(h)' = Deciding(h)
  BY <1>2, <1>7, <1>9, <1>11, AskTables
<1>13. \A h \in Procs : At(h, "asked") /\ Top(h).run # r => At(h, "asked")' /\ Top(h)' = Top(h)
  BY <1>4, <1>9 DEF At
<1>15. OneTicket'
  <2>2. \A u, v \in Tickets : \A q \in Runs : Pending(u, q)' /\ Pending(v, q)' => u = v
    BY <1>1 DEF OneTicket, Pending
  <2>3. ASSUME NEW u \in Tickets, ticket'[u].state = "pending"
        PROVE  \/ run'[ticket'[u].run].status = "needs_approval"
               \/ \E h \in Procs : At(h, "asked")' /\ Top(h)'.run = ticket'[u].run
    <3>1. CASE ticket[u].run = r
      BY <1>1, <1>7, <3>1
    <3>2. CASE ticket[u].run # r
      <4>1. ticket'[u] = ticket[u] /\ ticket[u].state = "pending" /\ ticket[u].run \in Runs
        BY <1>1, <2>3 DEF RowsType
      <4>2. CASE Status(ticket[u].run) = "needs_approval"
        BY <1>7, <3>2, <4>1, <4>2 DEF Status
      <4>3. CASE \E h \in Procs : At(h, "asked") /\ Top(h).run = ticket[u].run
        BY <1>13, <3>2, <4>1, <4>3
      <4> QED
        BY <1>1, <4>1, <4>2, <4>3 DEF OneTicket
    <3> QED
      BY <3>1, <3>2
  <2> QED
    BY <2>2, <2>3 DEF OneTicket, Status
<1>16. AnswersCome'
  <2> SUFFICES ASSUME crashes = 0
               PROVE  AnswersCome'
    BY DEF AnswersCome, boot
  <2>1. ASSUME NEW q \in Runs, Status(q)' = "needs_approval"
        PROVE  \E u \in Tickets : ticket'[u].run = q /\
                 (ticket'[u].state = "pending" \/ \E h \in Procs : Deciding(h)' /\ job'[h].ticket = u)
    <3>1. CASE q = r
      BY <1>1, <1>2, <3>1 DEF Pending
    <3>2. CASE q # r
      <4>1. PICK u \in Tickets : ticket[u].run = q /\
               (ticket[u].state = "pending" \/ \E h \in Procs : Deciding(h) /\ job[h].ticket = u)
        BY <1>1, <1>7, <2>1, <3>2 DEF AnswersCome
      <4> QED
        BY <1>1, <1>9, <1>12, <4>1
    <3> QED
      BY <3>1, <3>2
  <2>2. ASSUME NEW u \in Tickets, ticket'[u].gate = "pending"
        PROVE  \/ ticket'[u].state = "pending"
               \/ \E h \in Procs : job'[h].ticket = u /\ job'[h].pc \in {"resume", "gate"}
    BY <1>1, <1>9, <2>2 DEF AnswersCome
  <2> QED
    BY <2>1, <2>2 DEF AnswersCome
<1>17. Call(g)'
  <2>1. Status(Top(g).run)' = "needs_approval"
    BY <1>6, <1>7, <1>9 DEF Status
  <2>2. \A q \in Below(g) : Status(q)' = "active"
    BY <1>1, <1>2, <1>7, <1>9 DEF Call, OnStack
  <2>3. Pending(Top(g).ticket, Top(g).run)'
    BY <1>1, <1>2, <1>6, <1>9 DEF Pending
  <2> QED
    BY <1>2, <1>6, <1>9, <2>1, <2>2, <2>3 DEF Call
<1>18. Childfree(g)'
  <2>3. ~Deciding(g)'
    BY <1>1, <1>12, InLoop
  <2> QED
    BY <1>6, <1>9, <2>3 DEF Childfree
<1>19. Answer(g)'
  BY <1>1, <1>6, <1>7, <1>9, <1>11, AskAnswer
<1> QED
  BY <1>9, <1>11, <1>12, <1>15, <1>16, <1>17, <1>18, <1>19, LifeFrom DEF OfGoroutine, OfTables

LEMMA OpenGateLife ==
  ASSUME Calm, TypeInv, WorkType', LifeInv, NEW g \in Procs, daemon = "up", UNCHANGED boot, OpenGate(g)
  PROVE  LifeInv'
<1>1. /\ ~Faults /\ WorkType /\ RowsType /\ At(g, "gate") /\ stack[g] # <<>> /\ Top(g).pc = "gate"
      /\ UNCHANGED run /\ Top(g) \in Free /\ Top(g).run \in Runs /\ OneTicket /\ AnswersCome
  BY AtTyped DEF Calm, TypeInv, OpenGate, At, LifeInv, OfTables, FreePcs
<1>4. PICK r : r = Top(g).run
  OBVIOUS
<1>20. PICK t : t = Top(g).ticket
  OBVIOUS
<1>2. /\ Status(r) = "needs_approval" /\ Call(g) /\ r \in Runs /\ t \in Tickets /\ Pending(t, r)
  BY <1>1, <1>4, <1>20, GoroutineInv DEF Call, HasAsked
<1>5. ticket' = [ticket EXCEPT ![t].gate = "pending"] /\ Goto(g, [Top(g) EXCEPT !.pc = "paused"])
  BY <1>1, <1>20 DEF OpenGate, GotoPc
<1> DEFINE f == [Top(g) EXCEPT !.pc = "paused"]
<1>6. f \in Good /\ f.run = r /\ f.pc = "paused" /\ f.ticket = t /\ Goto(g, f)
  <2>1. f \in Free
    BY <1>1, FreeToFree DEF FreePcs
  <2>2. f.run = r /\ f.pc = "paused" /\ f.ticket = t
    BY <1>1, <1>4, <1>20 DEF Free, FrameSet
  <2> QED
    BY <1>5, <2>1, <2>2 DEF Good
<1> HIDE DEF f
<1>7. \A q \in Runs : Status(q)' = Status(q) /\ run'[q] = run[q]
  BY <1>1 DEF Status
<1>8. Status(r) \in Live /\ Status(r)' \in Live
  BY <1>2, <1>7 DEF Live
<1>9. /\ stack'[g] # <<>> /\ Top(g)' = f /\ Below(g)' = Below(g) /\ OnStack(g)' = OnStack(g)
      /\ Bottom(g)' = Bottom(g) /\ UNCHANGED job
      /\ \A h \in Procs : h # g => stack'[h] = stack[h] /\ Top(h)' = Top(h)
      /\ r \in OnStack(g) /\ OnStack(g) \subseteq Runs /\ r \notin Below(g) /\ Chain(g)' /\ Shrinks
  BY <1>1, <1>4, <1>6, <1>7, <1>8, GoesOn
<1>10. /\ ticket'[t].gate = "pending"
       /\ \A u \in Tickets : ticket'[u].state = ticket[u].state /\ ticket'[u].run = ticket[u].run
       /\ \A u \in Tickets : u # t => ticket'[u] = ticket[u]
  BY <1>1, <1>2, <1>5 DEF RowsType, TicketRows
<1>11. Steady(g)
  BY <1>7, <1>9, <1>10, ShrinkChildless DEF Steady
<1>12. /\ BootInv' /\ Families' /\ OneLiveRoot' /\ Disjoint' /\ OneAnswer' /\ OneOpenChild'
       /\ WaitingIsChildless' /\ \A h \in Procs : Deciding(h)' = Deciding(h)
  BY <1>7, <1>9, <1>11, AskTables
<1>13. \A h \in Procs : At(h, "asked") => At(h, "asked")' /\ Top(h)' = Top(h)
  BY <1>1, <1>9 DEF At
<1>15. OneTicket'
  <2>1. \A u, v \in Tickets : \A q \in Runs : Pending(u, q)' /\ Pending(v, q)' => u = v
    BY <1>1, <1>10 DEF OneTicket, Pending
  <2>2. ASSUME NEW u \in Tickets, ticket'[u].state = "pending"
        PROVE  \/ run'[ticket'[u].run].status = "needs_approval"
               \/ \E h \in Procs : At(h, "asked")' /\ Top(h)'.run = ticket'[u].run
    <3>1. ticket'[u].run = ticket[u].run /\ ticket[u].state = "pending"
      BY <1>10, <2>2
    <3>2. CASE Status(ticket[u].run) = "needs_approval"
      BY <1>1, <3>1, <3>2 DEF Status
    <3>3. CASE \E h \in Procs : At(h, "asked") /\ Top(h).run = ticket[u].run
      BY <1>13, <3>1, <3>3
    <3> QED
      BY <1>1, <3>1, <3>2, <3>3 DEF OneTicket
  <2> QED
    BY <2>1, <2>2 DEF OneTicket, Status
<1>16. AnswersCome'
  <2> SUFFICES ASSUME crashes = 0
               PROVE  AnswersCome'
    BY DEF AnswersCome, boot
  <2>1. ASSUME NEW q \in Runs, Status(q)' = "needs_approval"
        PROVE  \E u \in Tickets : ticket'[u].run = q /\
                 (ticket'[u].state = "pending" \/ \E h \in Procs : Deciding(h)' /\ job'[h].ticket = u)
    <3>1. PICK u \in Tickets : ticket[u].run = q /\
             (ticket[u].state = "pending" \/ \E h \in Procs : Deciding(h) /\ job[h].ticket = u)
      BY <1>1, <1>7, <2>1 DEF AnswersCome
    <3> QED
      BY <1>9, <1>10, <1>12, <3>1
  <2>2. ASSUME NEW u \in Tickets, ticket'[u].gate = "pending"
        PROVE  \/ ticket'[u].state = "pending"
               \/ \E h \in Procs : job'[h].ticket = u /\ job'[h].pc \in {"resume", "gate"}
    <3>1. CASE u = t
      BY <1>2, <1>10, <3>1 DEF Pending
    <3>2. CASE u # t
      BY <1>1, <1>9, <1>10, <2>2, <3>2 DEF AnswersCome
    <3> QED
      BY <3>1, <3>2
  <2> QED
    BY <2>1, <2>2 DEF AnswersCome
<1>17. Call(g)'
  <2>1. Status(Top(g).run)' = "needs_approval"
    BY <1>2, <1>6, <1>7, <1>9 DEF Status
  <2>2. \A q \in Below(g) : Status(q)' = "active"
    BY <1>1, <1>2, <1>7, <1>9 DEF Call, OnStack
  <2>3. Pending(Top(g).ticket, Top(g).run)'
    BY <1>2, <1>6, <1>9, <1>10 DEF Pending
  <2> QED
    BY <1>2, <1>6, <1>9, <2>1, <2>2, <2>3 DEF Call, Live
<1>18. Childfree(g)'
  <2>3. ~Deciding(g)'
    BY <1>1, <1>12, InLoop
  <2> QED
    BY <1>6, <1>9, <2>3 DEF Childfree
<1>19. Answer(g)'
  BY <1>1, <1>6, <1>7, <1>9, <1>11, AskAnswer
<1> QED
  BY <1>9, <1>11, <1>12, <1>15, <1>16, <1>17, <1>18, <1>19, LifeFrom DEF OfGoroutine, OfTables

-----------------------------------------------------------------------------
(* Steps that answer.                                                      *)

LEMMA SameStacks ==
  ASSUME UNCHANGED stack
  PROVE  /\ \A h \in Procs : OnStack(h)' = OnStack(h) /\ Top(h)' = Top(h)
         /\ \A h \in Procs : \A pc : At(h, pc)' = At(h, pc)
         /\ \A q \in Runs : Reporting(q)' = Reporting(q)
         /\ \A q : Working(q)' = Working(q)
<1>1. \A h \in Procs : OnStack(h)' = OnStack(h) /\ Top(h)' = Top(h)
  BY SameView
<1>2. \A h \in Procs : \A pc : At(h, pc)' = At(h, pc)
  BY <1>1 DEF At
<1>3. \A q \in Runs : Reporting(q)' = Reporting(q)
  BY <1>1, <1>2 DEF Reporting
<1> QED
  BY <1>1, <1>2, <1>3 DEF Working

LEMMA DecideLife ==
  ASSUME Calm, TypeInv, WorkType', LifeInv, NEW g \in Procs, daemon = "up", UNCHANGED boot,
         NEW t \in Tickets, NEW d \in {"approved", "denied"}, Decide(g, t, d)
  PROVE  LifeInv'
<1>1. /\ stack[g] = <<>> /\ job[g] = NoJob /\ UNCHANGED <<run, ticket, stack>> /\ WorkType /\ RowsType
      /\ ticket[t].state = "pending" /\ OneTicket
      /\ \A r \in Runs : r \in {ticket[t].run, run[ticket[t].run].parent} => ~Working(r)
      /\ job' = [job EXCEPT ![g] = [pc |-> "resolve", ticket |-> t, decision |-> d]]
  BY DEF Calm, Decide, Idle, Reachable, rows, TypeInv, LifeInv, OfTables
<1>2. /\ job'[g] = [pc |-> "resolve", ticket |-> t, decision |-> d]
      /\ \A h \in Procs : h # g => stack'[h] = stack[h] /\ job'[h] = job[h]
  BY <1>1 DEF WorkType
<1>3. PICK r : r = ticket[t].run
  OBVIOUS
<1>4. r \in Runs /\ ~Working(r) /\ ticket'[t].run = r
  BY <1>1, <1>3 DEF RowsType
<1>5. \A q \in Runs : Status(q)' = Status(q) /\ run'[q] = run[q]
  BY <1>1 DEF Status
<1>6. Shrinks
  BY <1>1, <1>5, SameStacks DEF Shrinks, Open
<1>7. Steady(g)
  BY <1>1, <1>2, <1>5, <1>6, SameStacks, ShrinkChildless DEF Steady
<1>8. ~Deciding(g) /\ ~Deciding(g)' /\ ~At(g, "asked")
  BY <1>1, <1>2 DEF Deciding, NoJob, At
<1>9. OfTables'
  BY <1>1, <1>5, <1>6, <1>7, <1>8, LoopTables
<1>10. Status(r) = "needs_approval"
  <2>1. ~\E h \in Procs : At(h, "asked") /\ Top(h).run = r
    <3> SUFFICES ASSUME NEW h \in Procs, At(h, "asked"), Top(h).run = r PROVE FALSE
      OBVIOUS
    <3>1. r \in OnStack(h)
      BY DEF At, OnStack
    <3> QED
      BY <1>1, <1>4, <3>1, WorkingView
  <2> QED
    BY <1>1, <1>3, <2>1 DEF OneTicket
<1>11. Chain(g)' /\ Call(g)' /\ Childfree(g)'
  BY <1>1, <1>2, <1>8 DEF Chain, Call, Childfree
<1>12. Answer(g)'
  <2>1. JobRun(g)' = r
    BY <1>2, <1>4 DEF JobRun
  <2>2. ~Working(r)' /\ Status(r)' = "needs_approval"
    BY <1>1, <1>4, <1>5, <1>10, SameStacks
  <2>3. ~Working(JobRun(g))' /\ Status(JobRun(g))' = "needs_approval"
    BY <2>1, <2>2 DEF Working, Status
  <2>4. ASSUME NEW c \in Runs, Claims(g, c)', run'[c].parent # NoRun
        PROVE  ~Working(run[c].parent)'
    <3>1. c = r
      BY <1>1, <1>2, <2>1, <2>4 DEF Claims, At
    <3>2. run[r].parent \in Runs /\ run'[c].parent = run[r].parent
      BY <1>1, <1>4, <2>4, <3>1, ParentOfRun
    <3>3. ~Working(run[r].parent)
      BY <1>1, <1>3, <3>2
    <3> QED
      BY <1>1, <3>2, <3>3, SameStacks DEF Working
  <2> QED
    BY <1>1, <1>2, <1>8, <2>3, <2>4 DEF Answer
<1> QED
  BY <1>7, <1>9, <1>11, <1>12, LifeFrom DEF OfGoroutine

(* What a goroutine with an answer knows of the run.                       *)
LEMMA AnswerView ==
  ASSUME TypeInv, LifeInv, NEW g \in Procs, Deciding(g) \/ Resolving(g), NEW r, r = JobRun(g)
  PROVE  /\ r \in Runs /\ stack[g] = <<>> /\ OnStack(g) = {} /\ ~Working(r) /\ Childless(r)
         /\ Status(r) \in Live /\ run[r].parent # r /\ Claims(g, r)
         /\ run[r].parent # NoRun => run[r].parent \in Runs /\ ~Working(run[r].parent)
         /\ job[g].ticket \in Tickets /\ ticket[job[g].ticket].state # "none"
         /\ ticket[job[g].ticket].run = r /\ job[g].decision \in {"approved", "denied"}
<1>1. Answer(g) /\ Childfree(g) /\ WaitingIsChildless /\ RowsType
  BY GoroutineInv DEF LifeInv, OfTables, TypeInv
<1>2. job[g].pc \notin {"idle", "looping"}
  BY DEF Deciding, Resolving
<1>3. /\ r \in Runs /\ job[g].ticket \in Tickets /\ ticket[job[g].ticket].state # "none"
      /\ ticket[job[g].ticket].run = r /\ job[g].decision \in {"approved", "denied"}
  BY <1>2, JobRunView DEF JobRun
<1>4. stack[g] = <<>> /\ OnStack(g) = {} /\ ~Working(r) /\ Status(r) \in Live
  BY <1>1, <1>2 DEF Answer, OnStack, Live
<1>5. Childless(r)
  BY <1>1, <1>3 DEF Childfree, Answer, WaitingIsChildless
<1>6. run[r].parent # r
  BY <1>3, <1>4, <1>5 DEF Childless, Open
<1>7. Claims(g, r)
  BY DEF Claims
<1> QED
  BY <1>1, <1>3, <1>4, <1>5, <1>6, <1>7, ClaimsAreOpen, ParentOfRun

LEMMA DecidedIsUnclaimed ==
  ASSUME TypeInv, LifeInv, NEW g \in Procs, Deciding(g), NEW r, r = JobRun(g)
  PROVE  Unclaimed(g, r)
<1>1. r \in Runs /\ ~Working(r) /\ Childless(r) /\ OneAnswer /\ WorkType
      /\ \A t \in Tickets : ~Pending(t, r)
  BY AnswerView, GoroutineInv DEF Answer, LifeInv, OfTables, TypeInv
<1> SUFFICES ASSUME NEW h \in Procs, h # g
             PROVE  /\ r \notin OnStack(h)
                    /\ Deciding(h) \/ Resolving(h) => JobRun(h) # r
                    /\ \A c \in Runs : Claims(h, c) => run[c].parent # r
  BY DEF Unclaimed
<1>2. r \notin OnStack(h)
  BY <1>1, WorkingView
<1>3. Deciding(h) => JobRun(h) # r
  BY <1>1 DEF OneAnswer
<1>4. Resolving(h) => JobRun(h) # r
  <2>1. Resolving(h) => job[h].ticket \in Tickets
    BY JobRunView DEF Resolving
  <2> QED
    BY <1>1, <2>1 DEF Resolving, Pending, JobRun
<1>5. \A c \in Runs : Claims(h, c) => run[c].parent # r
  BY <1>1, ClaimsAreOpen DEF Childless
<1> QED
  BY <1>2, <1>3, <1>4, <1>5

LEMMA JobTables ==
  ASSUME TypeInv, LifeInv, NEW g \in Procs, Steady(g), Shrinks, UNCHANGED boot,
         \A q \in Runs : Status(q)' = "needs_approval" => Status(q) = "needs_approval",
         daemon = "up"
  PROVE  BootInv' /\ Families' /\ OneLiveRoot' /\ Disjoint' /\ OneOpenChild' /\ WaitingIsChildless'
<1>1. BootInv
  BY DEF LifeInv, OfTables
<1>2. BootInv'
  BY <1>1 DEF BootInv, boot
<1> QED
  BY <1>2, ShrinkTables, OtherDisjoint

(* A goroutine keeps its answer in hand, or is done with it.               *)
LEMMA AnswerTables ==
  ASSUME TypeInv, LifeInv, NEW g \in Procs, Steady(g), Shrinks, UNCHANGED boot, daemon = "up",
         Deciding(g), NEW r, r = JobRun(g), NEW t, t = job[g].ticket,
         \A u \in Tickets : ticket'[u].state = ticket[u].state /\ ticket'[u].run = ticket[u].run,
         \A u \in Tickets : ticket'[u].gate = "pending" => ticket[u].gate = "pending",
         \A q \in Runs : q # r => Status(q)' = Status(q),
         Status(r)' = "needs_approval" => Status(r) = "needs_approval" /\ Deciding(g)',
         Deciding(g)' => job'[g].ticket = t,
         job[g].pc \in {"resume", "gate"} /\ ticket'[t].gate = "pending" =>
           job'[g].pc \in {"resume", "gate"} /\ job'[g].ticket = t
  PROVE  OfTables'
<1>1. OneAnswer /\ OneTicket /\ AnswersCome /\ RowsType
  BY DEF LifeInv, OfTables, TypeInv
<1>2. r \in Runs /\ stack[g] = <<>> /\ t \in Tickets /\ ticket[t].run = r
      /\ \A u \in Tickets : ~Pending(u, r)
  BY AnswerView, GoroutineInv DEF Answer
<1>3. \A h \in Procs : h # g => job'[h] = job[h] /\ stack'[h] = stack[h] /\ Deciding(h)' = Deciding(h)
  BY DEF Steady, Deciding
<1>4. \A q \in Runs : Status(q)' = "needs_approval" => Status(q) = "needs_approval"
  BY <1>2
<1>5. BootInv' /\ Families' /\ OneLiveRoot' /\ Disjoint' /\ OneOpenChild' /\ WaitingIsChildless'
  BY <1>4, JobTables
<1>6. OneAnswer'
  <2>1. \A h \in Procs : Deciding(h)' => Deciding(h) /\ JobRun(h)' = JobRun(h)
    <3> SUFFICES ASSUME NEW h \in Procs, Deciding(h)' PROVE Deciding(h) /\ JobRun(h)' = JobRun(h)
      OBVIOUS
    <3>1. CASE h = g
      BY <1>2, <3>1 DEF JobRun
    <3>2. CASE h # g
      <4>1. Deciding(h) /\ job[h].pc # "idle"
        BY <1>3, <3>2 DEF Deciding
      <4>2. job[h].ticket \in Tickets
        BY <4>1, JobRunView
      <4> QED
        BY <1>3, <3>2, <4>1, <4>2 DEF JobRun
    <3> QED
      BY <3>1, <3>2
  <2> QED
    BY <1>1, <2>1 DEF OneAnswer
<1>7. OneTicket'
  <2>1. \A u, v \in Tickets : \A q \in Runs : Pending(u, q)' /\ Pending(v, q)' => u = v
    BY <1>1 DEF OneTicket, Pending
  <2>2. ASSUME NEW u \in Tickets, ticket'[u].state = "pending"
        PROVE  \/ run'[ticket'[u].run].status = "needs_approval"
               \/ \E h \in Procs : At(h, "asked")' /\ Top(h)'.run = ticket'[u].run
    <3>1. ticket'[u].run = ticket[u].run /\ ticket[u].state = "pending" /\ ticket[u].run \in Runs
          /\ ticket[u].run # r
      BY <1>1, <1>2, <2>2 DEF RowsType, Pending
    <3>2. CASE Status(ticket[u].run) = "needs_approval"
      BY <3>1, <3>2 DEF Status
    <3>3. CASE \E h \in Procs : At(h, "asked") /\ Top(h).run = ticket[u].run
      <4>1. PICK h \in Procs : At(h, "asked") /\ Top(h).run = ticket[u].run
        BY <3>3
      <4>2. h # g
        BY <1>2, <4>1 DEF At
      <4>3. At(h, "asked")' /\ Top(h)'.run = ticket[u].run
        BY <1>3, <4>1, <4>2, SameView DEF At
      <4> QED
        BY <3>1, <4>3
    <3> QED
      BY <1>1, <3>1, <3>2, <3>3 DEF OneTicket
  <2> QED
    BY <2>1, <2>2 DEF OneTicket, Status
<1>8. AnswersCome'
  <2> SUFFICES ASSUME crashes = 0
               PROVE  AnswersCome'
    BY DEF AnswersCome, boot
  <2>1. ASSUME NEW q \in Runs, Status(q)' = "needs_approval"
        PROVE  \E u \in Tickets : ticket'[u].run = q /\
                 (ticket'[u].state = "pending" \/ \E h \in Procs : Deciding(h)' /\ job'[h].ticket = u)
    <3>1. PICK u \in Tickets : ticket[u].run = q /\
             (ticket[u].state = "pending" \/ \E h \in Procs : Deciding(h) /\ job[h].ticket = u)
      BY <1>1, <1>4, <2>1 DEF AnswersCome
    <3>2. CASE ticket[u].state = "pending"
      BY <3>1, <3>2
    <3>3. CASE \E h \in Procs : Deciding(h) /\ job[h].ticket = u
      <4>1. PICK h \in Procs : Deciding(h) /\ job[h].ticket = u
        BY <3>3
      <4>2. CASE h = g
        <5>1. u = t /\ q = r
          BY <1>2, <3>1, <4>1, <4>2
        <5> QED
          BY <1>2, <2>1, <5>1
      <4>3. CASE h # g
        BY <1>3, <3>1, <4>1, <4>3
      <4> QED
        BY <4>2, <4>3
    <3> QED
      BY <3>1, <3>2, <3>3
  <2>2. ASSUME NEW u \in Tickets, ticket'[u].gate = "pending"
        PROVE  \/ ticket'[u].state = "pending"
               \/ \E h \in Procs : job'[h].ticket = u /\ job'[h].pc \in {"resume", "gate"}
    <3>1. \/ ticket[u].state = "pending"
          \/ \E h \in Procs : job[h].ticket = u /\ job[h].pc \in {"resume", "gate"}
      BY <1>1, <2>2 DEF AnswersCome
    <3>2. CASE ticket[u].state = "pending"
      BY <3>2
    <3>3. CASE \E h \in Procs : job[h].ticket = u /\ job[h].pc \in {"resume", "gate"}
      BY <1>3, <2>2, <3>3
    <3> QED
      BY <3>1, <3>2, <3>3
  <2> QED
    BY <2>1, <2>2 DEF AnswersCome
<1> QED
  BY <1>5, <1>6, <1>7, <1>8 DEF OfTables

(* A step by which a goroutine takes its answer further.                   *)
LEMMA AnswerGoesOn ==
  ASSUME TypeInv, WorkType', LifeInv, NEW g \in Procs, Steady(g), Shrinks,
         Deciding(g) \/ Resolving(g), NEW r, r = JobRun(g), JobRun(g)' = r, UNCHANGED stack,
         job'[g].pc \in {"resume", "gate", "invoke", "interrupt"},
         job'[g].pc \in {"resume", "invoke"} => job'[g].decision = "approved",
         \A t \in Tickets : ~Pending(t, r)',
         Status(r)' = IF job'[g].decision = "denied" \/ job'[g].pc = "resume"
                      THEN "needs_approval" ELSE "active"
  PROVE  OfGoroutine(g)'
<1>1. /\ r \in Runs /\ stack[g] = <<>> /\ ~Working(r) /\ Childless(r) /\ Claims(g, r)
      /\ run[r].parent # NoRun => run[r].parent \in Runs /\ ~Working(run[r].parent)
  BY AnswerView
<1>2. Childless(r)' /\ ~Working(r)' /\ run'[r].parent = run[r].parent
  BY <1>1, ShrinkChildless, SameStacks DEF Shrinks
<1>3. Chain(g)' /\ Call(g)'
  BY <1>1 DEF Chain, Call
<1>4. Childfree(g)'
  <2>1. Childless(JobRun(g))'
    BY <1>2 DEF Childless
  <2> QED
    BY <1>1, <2>1 DEF Childfree
<1>5. Answer(g)'
  <2>1. ~Working(JobRun(g))'
    BY <1>2 DEF Working
  <2>2. \A t \in Tickets : ~Pending(t, JobRun(g))'
    BY DEF Pending
  <2>3. Status(JobRun(g))' = IF job'[g].decision = "denied" \/ job'[g].pc = "resume"
                             THEN "needs_approval" ELSE "active"
    BY DEF Status
  <2>4. ~Resolving(g)'
    BY DEF Resolving
  <2>5. ASSUME NEW c \in Runs, Claims(g, c)', run'[c].parent # NoRun
        PROVE  ~Working(run[c].parent)'
    <3>1. c = r
      BY <1>1, <2>4, <2>5 DEF Claims, At
    <3>2. ~Working(run[r].parent) /\ run'[c].parent = run[r].parent
      BY <1>1, <1>2, <2>5, <3>1
    <3> QED
      BY <3>2, SameStacks DEF Working
  <2> QED
    BY <1>1, <2>1, <2>2, <2>3, <2>4, <2>5 DEF Answer
<1> QED
  BY <1>3, <1>4, <1>5 DEF OfGoroutine

(* ResolveTicket took the answer.                                          *)
LEMMA Resolves ==
  ASSUME Calm, TypeInv, WorkType', LifeInv, NEW g \in Procs, daemon = "up", UNCHANGED boot, Resolving(g),
         UNCHANGED run, ticket' = [ticket EXCEPT ![job[g].ticket].state = job[g].decision],
         JobGoto(g, IF job[g].decision = "approved" THEN "resume" ELSE "gate")
  PROVE  LifeInv'
<1>1. /\ WorkType /\ RowsType /\ OneTicket /\ OneAnswer /\ AnswersCome /\ UNCHANGED stack /\ Answer(g)
  BY GoroutineInv DEF TypeInv, LifeInv, OfTables, JobGoto
<1>2. PICK r : r = JobRun(g)
  OBVIOUS
<1>3. PICK t : t = job[g].ticket
  OBVIOUS
<1>4. PICK d : d = job[g].decision
  OBVIOUS
<1>5. /\ r \in Runs /\ stack[g] = <<>> /\ ~Working(r) /\ Childless(r) /\ t \in Tickets
      /\ ticket[t].run = r /\ d \in {"approved", "denied"} /\ ticket[t].state = "pending"
      /\ Status(r) = "needs_approval"
  BY <1>1, <1>2, <1>3, <1>4, AnswerView DEF Resolving, Answer
<1>6. /\ job'[g].pc = IF d = "approved" THEN "resume" ELSE "gate"
      /\ job'[g].ticket = t /\ job'[g].decision = d
      /\ \A h \in Procs : h # g => stack'[h] = stack[h] /\ job'[h] = job[h]
  BY <1>1, <1>3, <1>4 DEF JobGoto, WorkType, Jobs
<1>7. /\ ticket'[t].state = d /\ ticket'[t].run = r
      /\ \A u \in Tickets : u # t => ticket'[u] = ticket[u]
      /\ \A u \in Tickets : ticket'[u].run = ticket[u].run /\ ticket'[u].gate = ticket[u].gate
  BY <1>1, <1>3, <1>4, <1>5 DEF RowsType, TicketRows
<1>8. \A q \in Runs : Status(q)' = Status(q) /\ run'[q] = run[q]
  BY DEF Status
<1>9. Shrinks
  BY <1>1, <1>8, SameStacks DEF Shrinks, Open
<1>10. \A u \in Tickets : ticket'[u].state = "pending" => u # t /\ ticket[u].state = "pending"
  BY <1>5, <1>7
<1>11. Steady(g)
  <2>1. \A u \in Tickets : ticket[u].state = "none" /\ ticket'[u].state = "pending" => ticket'[u].run \in OnStack(g)
    BY <1>10
  <2>2. \A u \in Tickets : ticket[u].state = "pending" /\ ticket'[u].state # "pending" => ~Working(ticket[u].run)
    BY <1>5, <1>7
  <2> QED
    BY <1>1, <1>6, <1>7, <1>8, <1>9, <1>10, <2>1, <2>2, SameStacks, ShrinkChildless DEF Steady
<1>12. JobRun(g)' = r
  BY <1>6, <1>7 DEF JobRun
<1>13. \A u \in Tickets : ~Pending(u, r)'
  BY <1>1, <1>5, <1>7, <1>10 DEF Pending, OneTicket
<1>14. OfGoroutine(g)'
  BY <1>1, <1>2, <1>5, <1>6, <1>8, <1>9, <1>11, <1>12, <1>13, AnswerGoesOn
<1>15. BootInv' /\ Families' /\ OneLiveRoot' /\ Disjoint' /\ OneOpenChild' /\ WaitingIsChildless'
  BY <1>8, <1>9, <1>11, JobTables
<1>16. \A h \in Procs : h # g /\ Deciding(h) => JobRun(h) # r /\ JobRun(h)' = JobRun(h) /\ job[h].ticket # t
  <2> SUFFICES ASSUME NEW h \in Procs, h # g, Deciding(h)
               PROVE  JobRun(h) # r /\ JobRun(h)' = JobRun(h) /\ job[h].ticket # t
    OBVIOUS
  <2>1. JobRun(h) # r
    BY <1>5, GoroutineInv DEF Answer, Pending
  <2>2. job[h].ticket \in Tickets
    BY JobRunView DEF Deciding
  <2> QED
    BY <1>5, <1>6, <1>7, <2>1, <2>2 DEF JobRun
<1>17. OneAnswer'
  <2>1. \A h \in Procs : Deciding(h)' => h = g \/ (Deciding(h) /\ JobRun(h)' = JobRun(h) /\ JobRun(h) # r)
    BY <1>6, <1>16 DEF Deciding
  <2> QED
    BY <1>1, <1>12, <2>1 DEF OneAnswer
<1>18. OneTicket'
  <2>1. \A u, v \in Tickets : \A q \in Runs : Pending(u, q)' /\ Pending(v, q)' => u = v
    BY <1>1, <1>7, <1>10 DEF OneTicket, Pending
  <2>2. ASSUME NEW u \in Tickets, ticket'[u].state = "pending"
        PROVE  \/ run'[ticket'[u].run].status = "needs_approval"
               \/ \E h \in Procs : At(h, "asked")' /\ Top(h)'.run = ticket'[u].run
    <3>1. ticket'[u].run = ticket[u].run /\ ticket[u].state = "pending"
      BY <1>7, <1>10, <2>2
    <3> QED
      BY <1>1, <3>1, SameStacks DEF OneTicket, Status
  <2> QED
    BY <2>1, <2>2 DEF OneTicket, Status
<1>19. AnswersCome'
  <2> SUFFICES ASSUME crashes = 0
               PROVE  AnswersCome'
    BY DEF AnswersCome, boot
  <2>1. ASSUME NEW q \in Runs, Status(q)' = "needs_approval"
        PROVE  \E u \in Tickets : ticket'[u].run = q /\
                 (ticket'[u].state = "pending" \/ \E h \in Procs : Deciding(h)' /\ job'[h].ticket = u)
    <3>1. PICK u \in Tickets : ticket[u].run = q /\
             (ticket[u].state = "pending" \/ \E h \in Procs : Deciding(h) /\ job[h].ticket = u)
      BY <1>1, <1>8, <2>1 DEF AnswersCome
    <3>2. CASE u = t
      BY <1>6, <1>7, <3>1, <3>2 DEF Deciding
    <3>3. CASE u # t
      <4>1. ~Deciding(g)
        BY DEF Deciding, Resolving
      <4>2. \A h \in Procs : Deciding(h) => Deciding(h)' /\ job'[h] = job[h]
        BY <1>6, <4>1 DEF Deciding
      <4>3. ticket'[u] = ticket[u]
        BY <1>7, <3>3
      <4> QED
        BY <3>1, <4>2, <4>3
    <3> QED
      BY <3>2, <3>3
  <2>2. ASSUME NEW u \in Tickets, ticket'[u].gate = "pending"
        PROVE  \/ ticket'[u].state = "pending"
               \/ \E h \in Procs : job'[h].ticket = u /\ job'[h].pc \in {"resume", "gate"}
    <3>1. CASE u = t
      BY <1>6, <3>1
    <3>2. CASE u # t
      <4>1. \/ ticket[u].state = "pending"
            \/ \E h \in Procs : job[h].ticket = u /\ job[h].pc \in {"resume", "gate"}
        BY <1>1, <1>7, <2>2 DEF AnswersCome
      <4> QED
        BY <1>3, <1>6, <1>7, <3>2, <4>1
    <3> QED
      BY <3>1, <3>2
  <2> QED
    BY <2>1, <2>2 DEF AnswersCome
<1> QED
  BY <1>11, <1>14, <1>15, <1>17, <1>18, <1>19, LifeFrom DEF OfTables

LEMMA ResolveTicketLife ==
  ASSUME Calm, TypeInv, WorkType', LifeInv, NEW g \in Procs, daemon = "up", UNCHANGED boot, ResolveTicket(g)
  PROVE  LifeInv'
<1>1. job[g].pc = "resolve" /\ UNCHANGED run
  BY DEF ResolveTicket, JobAt
<1>2. CASE ticket[job[g].ticket].state = "pending"
  BY <1>1, <1>2, Resolves DEF ResolveTicket, Resolving
<1>3. CASE ticket[job[g].ticket].state # "pending"
  <2>1. UNCHANGED rows /\ Finish(g) /\ WorkType
    BY <1>1, <1>3 DEF ResolveTicket, rows, TypeInv
  <2>2. stack'[g] = <<>> /\ job'[g] = NoJob /\ \A h \in Procs : h # g => stack'[h] = stack[h] /\ job'[h] = job[h]
    BY <2>1 DEF Finish, WorkType
  <2>3. ~Deciding(g) /\ ~At(g, "asked")
    BY <1>1, GoroutineInv DEF Deciding, Answer, At
  <2> QED
    BY <2>1, <2>2, <2>3, Leaves
<1> QED
  BY <1>2, <1>3

LEMMA ResumeRunLife ==
  ASSUME Calm, TypeInv, WorkType', LifeInv, NEW g \in Procs, daemon = "up", UNCHANGED boot, ResumeRun(g)
  PROVE  LifeInv'
<1>1. /\ ~Faults /\ WorkType /\ RowsType /\ job[g].pc = "resume" /\ UNCHANGED ticket /\ Deciding(g)
      /\ Answer(g) /\ OneLiveRoot
  BY GoroutineInv DEF Calm, TypeInv, ResumeRun, JobAt, Deciding, LifeInv, OfTables
<1>2. PICK r : r = JobRun(g)
  OBVIOUS
<1>3. PICK t : t = job[g].ticket
  OBVIOUS
<1>4. /\ r \in Runs /\ stack[g] = <<>> /\ t \in Tickets /\ ticket[t].run = r
      /\ Status(r) = "needs_approval" /\ job[g].decision = "approved"
      /\ \A u \in Tickets : ~Pending(u, r)
  BY <1>1, <1>2, <1>3, AnswerView DEF Answer
<1>5. Fits(r, "active")
  BY <1>1, <1>4 DEF Fits, OneLiveRoot, LiveRoot, Live
<1>6. run' = [run EXCEPT ![r].status = "active"] /\ JobGoto(g, "gate")
  BY <1>1, <1>2, <1>5 DEF ResumeRun, Journal
<1>7. /\ job'[g].pc = "gate" /\ job'[g].ticket = t /\ job'[g].decision = "approved" /\ UNCHANGED stack
      /\ \A h \in Procs : h # g => stack'[h] = stack[h] /\ job'[h] = job[h]
  BY <1>1, <1>3, <1>4, <1>6 DEF JobGoto, WorkType, Jobs
<1>8. /\ run'[r].status = "active"
      /\ \A q \in Runs : q # r => run'[q] = run[q]
      /\ \A q \in Runs : run'[q].parent = run[q].parent /\ run'[q].session = run[q].session
  BY <1>1, <1>4, <1>6 DEF RowsType, RunRows
<1>9. Status(r)' = "active" /\ \A q \in Runs : q # r => Status(q)' = Status(q)
  BY <1>8 DEF Status
<1>10. Shrinks
  <2>1. \A q \in Runs : /\ Status(q)' = "none" <=> Status(q) = "none"
                        /\ Open(q)' => Open(q)
                        /\ Status(q)' \in Live => Status(q) \in Live
                        /\ Status(q) \in Terminal => Status(q)' \in Terminal
    <3> SUFFICES ASSUME NEW q \in Runs
                 PROVE  /\ Status(q)' = "none" <=> Status(q) = "none"
                        /\ Open(q)' => Open(q)
                        /\ Status(q)' \in Live => Status(q) \in Live
                        /\ Status(q) \in Terminal => Status(q)' \in Terminal
      OBVIOUS
    <3>1. Reporting(q)' = Reporting(q)
      BY <1>7, SameStacks
    <3>2. CASE q = r
      BY <1>4, <1>9, <3>2 DEF Open, Live, Terminal
    <3>3. CASE q # r
      BY <1>9, <3>1, <3>3 DEF Open
    <3> QED
      BY <3>2, <3>3
  <2> QED
    BY <1>8, <2>1 DEF Shrinks
<1>11. Steady(g)
  BY <1>1, <1>2, <1>7, <1>8, <1>9, <1>10, SameStacks, ShrinkChildless DEF Steady
<1>12. JobRun(g)' = r
  BY <1>1, <1>4, <1>7 DEF JobRun
<1>13. \A u \in Tickets : ~Pending(u, r)'
  BY <1>1, <1>4 DEF Pending
<1>14. OfGoroutine(g)'
  BY <1>1, <1>2, <1>7, <1>9, <1>10, <1>11, <1>12, <1>13, AnswerGoesOn
<1>15. OfTables'
  BY <1>1, <1>2, <1>3, <1>7, <1>9, <1>10, <1>11, AnswerTables
<1> QED
  BY <1>11, <1>14, <1>15, LifeFrom

LEMMA ResolveGateLife ==
  ASSUME Calm, TypeInv, WorkType', LifeInv, NEW g \in Procs, daemon = "up", UNCHANGED boot, ResolveGate(g)
  PROVE  LifeInv'
<1>1. /\ ~Faults /\ WorkType /\ RowsType /\ job[g].pc = "gate" /\ UNCHANGED run /\ Deciding(g) /\ Answer(g)
  BY GoroutineInv DEF Calm, TypeInv, ResolveGate, JobAt, Deciding
<1>2. PICK r : r = JobRun(g)
  OBVIOUS
<1>3. PICK t : t = job[g].ticket
  OBVIOUS
<1>20. PICK d : d = job[g].decision
  OBVIOUS
<1>4. /\ r \in Runs /\ t \in Tickets /\ ticket[t].run = r /\ d \in {"approved", "denied"}
      /\ Status(r) = IF d = "denied" THEN "needs_approval" ELSE "active"
      /\ \A u \in Tickets : ~Pending(u, r)
  BY <1>1, <1>2, <1>3, <1>20, AnswerView DEF Answer
<1>6. /\ ticket' = [ticket EXCEPT ![t].gate = IF @ = "pending" THEN "resolved" ELSE @]
      /\ JobGoto(g, IF d = "approved" THEN "invoke" ELSE "interrupt")
  BY <1>1, <1>3, <1>20 DEF ResolveGate
<1>7. /\ job'[g].pc = IF d = "approved" THEN "invoke" ELSE "interrupt"
      /\ job'[g].ticket = t /\ job'[g].decision = d /\ UNCHANGED stack
      /\ \A h \in Procs : h # g => stack'[h] = stack[h] /\ job'[h] = job[h]
  BY <1>1, <1>3, <1>6, <1>20 DEF JobGoto, WorkType, Jobs
<1>8. /\ \A u \in Tickets : ticket'[u].state = ticket[u].state /\ ticket'[u].run = ticket[u].run
      /\ \A u \in Tickets : u # t => ticket'[u] = ticket[u]
      /\ ticket'[t].gate # "pending"
  BY <1>1, <1>4, <1>6 DEF RowsType, TicketRows
<1>9. \A q \in Runs : Status(q)' = Status(q) /\ run'[q] = run[q]
  BY <1>1 DEF Status
<1>10. Shrinks
  BY <1>7, <1>9, SameStacks DEF Shrinks, Open
<1>11. Steady(g)
  BY <1>7, <1>8, <1>9, <1>10, SameStacks, ShrinkChildless DEF Steady
<1>12. JobRun(g)' = r
  BY <1>4, <1>7, <1>8 DEF JobRun
<1>13. \A u \in Tickets : ~Pending(u, r)'
  BY <1>4, <1>8 DEF Pending
<1>16. job'[g].pc \in {"invoke", "interrupt"} /\ (job'[g].pc = "invoke" => d = "approved") /\ Deciding(g)'
  BY <1>4, <1>7 DEF Deciding
<1>14. OfGoroutine(g)'
  BY <1>1, <1>2, <1>4, <1>7, <1>9, <1>10, <1>11, <1>12, <1>13, <1>16, AnswerGoesOn
<1>15. OfTables'
  <2>1. \A u \in Tickets : ticket'[u].gate = "pending" => ticket[u].gate = "pending"
    BY <1>8
  <2>2. Status(r)' = Status(r)
    BY <1>4, <1>9
  <2> QED
    BY <1>1, <1>2, <1>3, <1>7, <1>8, <1>9, <1>10, <1>11, <1>16, <2>1, <2>2, AnswerTables
<1> QED
  BY <1>11, <1>14, <1>15, LifeFrom

(* After an answer the goroutine goes to work: for the run, or to tell its *)
(* parent that it has ended.                                               *)
LEMMA AnswerWorks ==
  ASSUME TypeInv, WorkType', LifeInv, NEW g \in Procs, daemon = "up", UNCHANGED boot, Deciding(g),
         NEW r, r = JobRun(g), NEW t, t = job[g].ticket, job[g].pc \in {"invoke", "interrupt"},
         \A u \in Tickets : ticket'[u].state = ticket[u].state /\ ticket'[u].run = ticket[u].run
                            /\ ticket'[u].gate = ticket[u].gate,
         \A q \in Runs : q # r => run'[q] = run[q],
         run'[r].parent = run[r].parent /\ run'[r].session = run[r].session,
         NEW f, f.run = r, stack'[g] = <<f>>,
         \/ f.pc = "turn" /\ job'[g].pc = "looping" /\ Status(r) = "active" /\ run'[r].status = "active"
         \/ f.pc = "parent" /\ f.seen = "interrupted" /\ job'[g] = NoJob /\ run'[r].status = "interrupted",
         \A h \in Procs : h # g => stack'[h] = stack[h] /\ job'[h] = job[h]
  PROVE  LifeInv'
<1>1. /\ r \in Runs /\ stack[g] = <<>> /\ OnStack(g) = {} /\ ~Working(r) /\ Childless(r)
      /\ Status(r) \in Live /\ run[r].parent # r /\ Claims(g, r)
      /\ run[r].parent # NoRun => run[r].parent \in Runs /\ ~Working(run[r].parent)
  BY AnswerView
<1>2. /\ stack'[g] # <<>> /\ Top(g)' = f /\ Below(g)' = {} /\ OnStack(g)' = {r}
      /\ Bottom(g)' = r /\ Chain(g)'
  BY SingleView
<1>3. \A h \in Procs : h # g => Top(h)' = Top(h) /\ \A pc : At(h, pc)' = At(h, pc)
  BY SameView DEF At
<1>4. \A q \in Runs : q # r => Status(q)' = Status(q) /\ (Reporting(q)' => Reporting(q))
  <2> SUFFICES ASSUME NEW q \in Runs, q # r
               PROVE  Status(q)' = Status(q) /\ (Reporting(q)' => Reporting(q))
    OBVIOUS
  <2>1. Status(q)' = Status(q)
    BY DEF Status
  <2>2. ASSUME NEW h \in Procs, At(h, "parent")', Top(h)'.run = q
        PROVE  Reporting(q)
    <3>1. h # g
      BY <1>2, <2>2
    <3> QED
      BY <1>3, <2>2, <3>1 DEF Reporting
  <2> QED
    BY <2>1, <2>2 DEF Reporting
<1>5. run'[r].status \in {"active", "interrupted"} /\ Open(r) /\ Status(r)' \in {"active", "interrupted"}
  BY <1>1 DEF Open, Status
<1>6. Shrinks
  <2>1. \A q \in Runs : /\ Status(q)' = "none" <=> Status(q) = "none"
                        /\ Open(q)' => Open(q)
                        /\ Status(q)' \in Live => Status(q) \in Live
                        /\ Status(q) \in Terminal => Status(q)' \in Terminal
    <3> SUFFICES ASSUME NEW q \in Runs
                 PROVE  /\ Status(q)' = "none" <=> Status(q) = "none"
                        /\ Open(q)' => Open(q)
                        /\ Status(q)' \in Live => Status(q) \in Live
                        /\ Status(q) \in Terminal => Status(q)' \in Terminal
      OBVIOUS
    <3>2. CASE q = r
      BY <1>1, <1>5, <3>2 DEF Live, Terminal
    <3>3. CASE q # r
      BY <1>4, <3>3 DEF Open
    <3> QED
      BY <3>2, <3>3
  <2>2. \A q \in Runs : run'[q].parent = run[q].parent /\ run'[q].session = run[q].session
    OBVIOUS
  <2> QED
    BY <2>1, <2>2 DEF Shrinks
<1>7. Unclaimed(g, r)
  BY DecidedIsUnclaimed
<1>8. Steady(g)
  <2>1. \A q \in Runs : q \in OnStack(g)' => q \in OnStack(g) \/ Unclaimed(g, q)
    BY <1>2, <1>7
  <2>2. \A q \in Runs : run'[q].parent = run[q].parent
    OBVIOUS
  <2> QED
    BY <1>4, <1>6, <2>1, <2>2, ShrinkChildless DEF Steady
<1>9. ~Deciding(g)' /\ ~Resolving(g)' /\ job'[g].pc \in {"idle", "looping"}
  BY DEF Deciding, Resolving, NoJob
<1>10. OfTables'
  <2>1. Status(r)' # "needs_approval"
    BY <1>5
  <2>2. \A q \in Runs : q # r => Status(q)' = Status(q)
    BY <1>4
  <2> QED
    BY <1>6, <1>8, <1>9, <2>1, <2>2, AnswerTables
<1>11. Call(g)'
  <2>1. Status(Top(g).run)' = run'[r].status
    BY <1>2 DEF Status
  <2>2. ~HasAsked(g)'
    BY <1>2 DEF HasAsked
  <2> QED
    BY <1>2, <2>1, <2>2 DEF Call
<1>12. Childfree(g)'
  <2>1. Childless(r)'
    BY <1>1, <1>6, ShrinkChildless
  <2>2. Childless(Top(g).run)'
    BY <1>2, <2>1 DEF Childless
  <2> QED
    BY <1>2, <1>9, <2>2 DEF Childfree
<1>13. Answer(g)'
  <2>1. ASSUME NEW c \in Runs, Claims(g, c)', run'[c].parent # NoRun
        PROVE  ~Working(run[c].parent)'
    <3>1. c = r
      BY <1>2, <1>9, <2>1 DEF Claims
    <3>2. run[r].parent \in Runs /\ ~Working(run[r].parent) /\ run'[c].parent = run[r].parent
          /\ run[r].parent # r
      BY <1>1, <2>1, <3>1
    <3>3. \A q \in Runs : q # r /\ Working(q)' => Working(q)
      <4> SUFFICES ASSUME NEW q \in Runs, q # r, Working(q)' PROVE Working(q)
        OBVIOUS
      <4>1. PICK h \in Procs : q \in OnStack(h)'
        BY WorkingViewNext
      <4>2. q \in OnStack(h)
        BY <1>2, <4>1, SameView
      <4> QED
        BY <4>2, WorkingView DEF TypeInv
    <3> QED
      BY <3>2, <3>3 DEF Working
  <2> QED
    BY <1>9, <2>1, LoopAnswer
<1> QED
  BY <1>2, <1>8, <1>10, <1>11, <1>12, <1>13, LifeFrom DEF OfGoroutine

LEMMA InvokeApprovedLife ==
  ASSUME Calm, TypeInv, WorkType', LifeInv, NEW g \in Procs, daemon = "up", UNCHANGED boot, InvokeApproved(g)
  PROVE  LifeInv'
<1>1. /\ ~Faults /\ WorkType /\ RowsType /\ job[g].pc = "invoke" /\ UNCHANGED run /\ Deciding(g) /\ Answer(g)
  BY GoroutineInv DEF Calm, TypeInv, InvokeApproved, JobAt, Deciding
<1>2. PICK r : r = JobRun(g)
  OBVIOUS
<1>3. PICK t : t = job[g].ticket
  OBVIOUS
<1>4. /\ r \in Runs /\ t \in Tickets /\ ticket[t].run = r /\ job[g].decision = "approved"
      /\ Status(r) = "active" /\ stack[g] = <<>>
      /\ \A u \in Tickets : ~Pending(u, r)
  BY <1>1, <1>2, <1>3, AnswerView DEF Answer
<1>5. ticket' = [ticket EXCEPT ![t].invoked = @ + 1]
  BY <1>3 DEF InvokeApproved
<1>6. \A u \in Tickets : /\ ticket'[u].state = ticket[u].state /\ ticket'[u].run = ticket[u].run
                         /\ ticket'[u].gate = ticket[u].gate
  BY <1>1, <1>4, <1>5 DEF RowsType, TicketRows
<1>7. \A q \in Runs : Status(q)' = Status(q) /\ run'[q] = run[q]
  BY <1>1 DEF Status
<1>8. CASE /\ job' = [job EXCEPT ![g].pc = "looping"]
           /\ stack' = [stack EXCEPT ![g] = <<Frame("turn", r)>>]
  <2> DEFINE f == Frame("turn", r)
  <2>1. f.pc = "turn" /\ f.run = r
    BY DEF Frame
  <2> HIDE DEF f
  <2>2. /\ job'[g].pc = "looping" /\ stack'[g] = <<f>>
        /\ \A h \in Procs : h # g => stack'[h] = stack[h] /\ job'[h] = job[h]
    BY <1>1, <1>8 DEF WorkType, Jobs, f
  <2>3. run'[r].status = "active"
    BY <1>1, <1>4 DEF Status
  <2> QED
    BY <1>1, <1>2, <1>3, <1>4, <1>6, <1>7, <2>1, <2>2, <2>3, AnswerWorks
<1>9. CASE JobGoto(g, "interrupt")
  <2>1. /\ job'[g].pc = "interrupt" /\ job'[g].ticket = t /\ job'[g].decision = "approved" /\ UNCHANGED stack
        /\ \A h \in Procs : h # g => stack'[h] = stack[h] /\ job'[h] = job[h]
    BY <1>1, <1>3, <1>4, <1>9 DEF JobGoto, WorkType, Jobs
  <2>2. Shrinks
    BY <1>7, <2>1, SameStacks DEF Shrinks, Open
  <2>3. Steady(g)
    BY <1>6, <1>7, <2>1, <2>2, SameStacks, ShrinkChildless DEF Steady
  <2>4. JobRun(g)' = r /\ Deciding(g)'
    BY <1>4, <1>6, <2>1 DEF JobRun, Deciding
  <2>5. \A u \in Tickets : ~Pending(u, r)'
    BY <1>4, <1>6 DEF Pending
  <2>6. OfGoroutine(g)'
    BY <1>1, <1>2, <1>4, <1>7, <2>1, <2>2, <2>3, <2>4, <2>5, AnswerGoesOn
  <2>7. OfTables'
    <3>1. Status(r)' = Status(r)
      BY <1>4, <1>7
    <3> QED
      BY <1>1, <1>2, <1>3, <1>6, <1>7, <2>1, <2>2, <2>3, <2>4, <3>1, AnswerTables
  <2> QED
    BY <2>3, <2>6, <2>7, LifeFrom
<1> QED
  BY <1>1, <1>2, <1>8, <1>9 DEF InvokeApproved

LEMMA JobInterruptLife ==
  ASSUME Calm, TypeInv, WorkType', LifeInv, NEW g \in Procs, daemon = "up", UNCHANGED boot, JobInterrupt(g)
  PROVE  LifeInv'
<1>1. /\ ~Faults /\ WorkType /\ RowsType /\ job[g].pc = "interrupt" /\ UNCHANGED ticket /\ Deciding(g)
      /\ "interrupted" \notin Live
  BY DEF Calm, TypeInv, JobInterrupt, JobAt, Deciding, Live
<1>2. PICK r : r = JobRun(g)
  OBVIOUS
<1>3. PICK t : t = job[g].ticket
  OBVIOUS
<1>4. r \in Runs
  BY <1>1, <1>2, AnswerView
<1> DEFINE f == [Frame("parent", r) EXCEPT !.seen = "interrupted"]
<1>5. /\ run' = [run EXCEPT ![r].status = "interrupted"]
      /\ job' = [job EXCEPT ![g] = NoJob] /\ stack' = [stack EXCEPT ![g] = <<f>>]
  BY <1>1, <1>2, AlwaysFits DEF JobInterrupt, Journal
<1>6. f.pc = "parent" /\ f.run = r /\ f.seen = "interrupted"
  BY DEF Frame
<1> HIDE DEF f
<1>7. /\ job'[g] = NoJob /\ stack'[g] = <<f>>
      /\ \A h \in Procs : h # g => stack'[h] = stack[h] /\ job'[h] = job[h]
  BY <1>1, <1>5 DEF WorkType
<1>8. /\ run'[r].status = "interrupted" /\ run'[r].parent = run[r].parent /\ run'[r].session = run[r].session
      /\ \A q \in Runs : q # r => run'[q] = run[q]
  BY <1>1, <1>4, <1>5 DEF RowsType, RunRows
<1> QED
  BY <1>1, <1>2, <1>3, <1>6, <1>7, <1>8, AnswerWorks

-----------------------------------------------------------------------------
(* A restart, and the whole.                                               *)

LEMMA AtRest ==
  ASSUME TypeInv, LifeInv, \A g \in Procs : stack'[g] = <<>> /\ job'[g] = NoJob,
         \A q \in Runs : run'[q].parent = run[q].parent /\ run'[q].session = run[q].session,
         \A q \in Runs : Status(q)' = Status(q) \/ (Status(q)' = "interrupted" /\ Status(q) = "active")
  PROVE  /\ Families' /\ OneLiveRoot' /\ Disjoint' /\ OneAnswer' /\ OneOpenChild' /\ WaitingIsChildless'
         /\ \A g \in Procs : OfGoroutine(g)' /\ Idle(g)'
<1>1. \A g \in Procs : OfGoroutine(g)' /\ OnStack(g)' = {} /\ Idle(g)' /\ ~Deciding(g)' /\ ~At(g, "parent")'
  BY EmptyGoroutine DEF Idle, Deciding, NoJob, At
<1>2. Disjoint' /\ OneAnswer'
  BY <1>1 DEF Disjoint, OneAnswer
<1>3. \A q \in Runs : ~Reporting(q)'
  BY <1>1 DEF Reporting
<1>4. \A q \in Runs : /\ Status(q)' = "none" <=> Status(q) = "none"
                      /\ Open(q)' => Open(q)
                      /\ Status(q)' \in Live => Status(q) \in Live
                      /\ Status(q) \in Terminal => Status(q)' \in Terminal
                      /\ Status(q)' = "needs_approval" => Status(q) = "needs_approval"
  <2> SUFFICES ASSUME NEW q \in Runs
               PROVE  /\ Status(q)' = "none" <=> Status(q) = "none"
                      /\ Open(q)' => Open(q)
                      /\ Status(q)' \in Live => Status(q) \in Live
                      /\ Status(q) \in Terminal => Status(q)' \in Terminal
                      /\ Status(q)' = "needs_approval" => Status(q) = "needs_approval"
    OBVIOUS
  <2>1. CASE Status(q)' = Status(q)
    BY <1>3, <2>1 DEF Open
  <2>2. CASE Status(q)' = "interrupted" /\ Status(q) = "active"
    BY <1>3, <2>2 DEF Open, Live, Terminal
  <2> QED
    BY <2>1, <2>2
<1>5. Shrinks
  BY <1>4 DEF Shrinks
<1> QED
  BY <1>1, <1>2, <1>4, <1>5, ShrinkTables

LEMMA CrashLife ==
  ASSUME TypeInv, LifeInv, Crash
  PROVE  LifeInv'
<1>1. /\ \A g \in Procs : stack'[g] = <<>> /\ job'[g] = NoJob
      /\ UNCHANGED <<run, ticket>> /\ daemon' = "starting" /\ crashes' = crashes + 1
      /\ sweep' = [on |-> TRUE, left |-> {r \in Runs : Status(r) = "active"}]
  BY DEF Crash, SweepBegins, rows
<1>2. /\ \A q \in Runs : run'[q].parent = run[q].parent /\ run'[q].session = run[q].session
      /\ \A q \in Runs : Status(q)' = Status(q)
  BY <1>1 DEF Status
<1>3. /\ Families' /\ OneLiveRoot' /\ Disjoint' /\ OneAnswer' /\ OneOpenChild' /\ WaitingIsChildless'
      /\ \A g \in Procs : OfGoroutine(g)' /\ Idle(g)'
  BY <1>1, <1>2, AtRest
<1>4. crashes' # 0
  BY <1>1, ConstantsAssumption DEF TypeInv, BootType
<1>5. BootInv'
  <2>1. sweep'.on /\ \A r \in sweep'.left : Status(r)' = "active"
    BY <1>1, <1>2
  <2> QED
    BY <1>1, <1>3, <1>4, <2>1 DEF BootInv, Status
<1>6. OneTicket' /\ AnswersCome'
  BY <1>1, <1>4 DEF OneTicket, AnswersCome, Pending, LifeInv, OfTables
<1> QED
  BY <1>3, <1>5, <1>6 DEF LifeInv, OfTables

LEMMA PrepareLife ==
  ASSUME Calm, TypeInv, LifeInv, CliPrepares \/ ReconcileInterrupted \/ ExpireStaleApprovals
  PROVE  LifeInv'
<1>1. ~Cli /\ ~Faults /\ BootInv /\ OneTicket /\ RowsType /\ BootType
  BY DEF Calm, LifeInv, OfTables, TypeInv
<1>2. sweep.on /\ UNCHANGED <<job, stack, crashes>>
  BY <1>1 DEF CliPrepares, ReconcileInterrupted, ExpireStaleApprovals, work
<1>3. /\ daemon = "starting" /\ crashes' # 0
      /\ \A g \in Procs : stack'[g] = <<>> /\ job'[g] = NoJob
      /\ \A r \in sweep.left : Status(r) = "active"
  BY <1>1, <1>2 DEF BootInv, Idle
<1>4. CASE ReconcileInterrupted
  <2>1. PICK r \in sweep.left : /\ run' = [run EXCEPT ![r].status = "interrupted"]
                                /\ sweep' = [sweep EXCEPT !.left = @ \ {r}]
    BY <1>4 DEF ReconcileInterrupted
  <2>2. UNCHANGED ticket /\ UNCHANGED daemon /\ r \in Runs /\ Status(r) = "active"
    BY <1>1, <1>3, <1>4 DEF ReconcileInterrupted, BootType
  <2>3. /\ run'[r].status = "interrupted"
        /\ \A q \in Runs : q # r => run'[q] = run[q]
        /\ \A q \in Runs : run'[q].parent = run[q].parent /\ run'[q].session = run[q].session
    BY <1>1, <2>1, <2>2 DEF RowsType, RunRows
  <2>4. \A q \in Runs : IF q = r THEN Status(q)' = "interrupted" /\ Status(q) = "active"
                        ELSE Status(q)' = Status(q)
    BY <2>2, <2>3 DEF Status
  <2>5. /\ Families' /\ OneLiveRoot' /\ Disjoint' /\ OneAnswer' /\ OneOpenChild' /\ WaitingIsChildless'
        /\ \A g \in Procs : OfGoroutine(g)' /\ Idle(g)'
    BY <1>3, <2>3, <2>4, AtRest
  <2>6. sweep'.on = sweep.on /\ sweep'.left = sweep.left \ {r} /\ sweep.left \subseteq Runs
    BY <1>1, <2>1 DEF BootType
  <2>7. BootInv'
    BY <1>2, <1>3, <2>2, <2>4, <2>5, <2>6 DEF BootInv, Status
  <2>8. OneTicket' /\ AnswersCome'
    BY <1>1, <1>3, <2>2 DEF OneTicket, AnswersCome, Pending
  <2> QED
    BY <2>5, <2>7, <2>8 DEF LifeInv, OfTables
<1>5. CASE ExpireStaleApprovals
  <2>1. PICK old \in SUBSET Tickets :
          ticket' = [t \in Tickets |->
            IF /\ ticket[t].state = "pending"
               /\ t \in old \/ Status(ticket[t].run) # "needs_approval"
            THEN [ticket[t] EXCEPT !.state = "expired"]
            ELSE ticket[t]]
    BY <1>1, <1>5 DEF ExpireStaleApprovals
  <2>2. UNCHANGED run /\ daemon' = "up" /\ sweep' = [sweep EXCEPT !.on = FALSE]
    BY <1>5 DEF ExpireStaleApprovals
  <2>3. \A q \in Runs : Status(q)' = Status(q)
    BY <2>2 DEF Status
  <2>4. /\ Families' /\ OneLiveRoot' /\ Disjoint' /\ OneAnswer' /\ OneOpenChild' /\ WaitingIsChildless'
        /\ \A g \in Procs : OfGoroutine(g)' /\ Idle(g)'
    BY <1>3, <2>2, <2>3, AtRest
  <2>5. ~sweep'.on
    BY <1>1, <2>2 DEF BootType
  <2>6. BootInv' /\ AnswersCome'
    BY <1>3, <2>2, <2>5 DEF BootInv, AnswersCome
  <2>7. \A t \in Tickets : ticket'[t].state = "pending" =>
          /\ ticket[t].state = "pending" /\ ticket'[t] = ticket[t]
          /\ Status(ticket[t].run) = "needs_approval"
    BY <1>1, <2>1 DEF RowsType, TicketRows
  <2>8. \A t \in Tickets : ticket'[t].state = "pending" => Status(ticket[t].run)' = "needs_approval"
    BY <2>2, <2>7 DEF Status
  <2>9. OneTicket'
    BY <1>1, <2>7, <2>8 DEF OneTicket, Pending
  <2> QED
    BY <2>4, <2>6, <2>9 DEF LifeInv, OfTables
<1> QED
  BY <1>1, <1>4, <1>5 DEF CliPrepares

LEMMA LifeInit == Init => LifeInv
<1> SUFFICES ASSUME Init PROVE LifeInv
  OBVIOUS
<1>1. /\ \A r \in Runs : Status(r) = "none" /\ run[r].parent = NoRun /\ run[r].session = Front
      /\ \A g \in Procs : stack[g] = <<>> /\ job[g] = NoJob
      /\ \A t \in Tickets : ticket[t].state = "none" /\ ticket[t].gate = "none"
      /\ daemon = "up" /\ sweep.on = FALSE
  BY DEF Init, Status
<1>2. \A g \in Procs : /\ job[g].pc = "idle" /\ ~Deciding(g) /\ ~Resolving(g) /\ OnStack(g) = {}
                       /\ \A c : ~Claims(g, c)
  BY <1>1 DEF NoJob, Deciding, Resolving, OnStack, Claims, At
<1>3. \A g \in Procs : OfGoroutine(g)
  BY <1>1, <1>2 DEF OfGoroutine, Chain, Call, Childfree, Answer
<1>4. BootInv /\ Families /\ OneTicket /\ AnswersCome
  BY <1>1 DEF BootInv, Families, OneTicket, Pending, AnswersCome
<1>5. OneLiveRoot /\ WaitingIsChildless
  BY <1>1 DEF OneLiveRoot, LiveRoot, Live, WaitingIsChildless
<1>6. Disjoint /\ OneAnswer /\ OneOpenChild
  BY <1>1, <1>2 DEF Disjoint, OneAnswer, OneOpenChild
<1> QED
  BY <1>3, <1>4, <1>5, <1>6 DEF LifeInv, OfTables

LEMMA LifeStep ==
  ASSUME Calm, TypeInv, LifeInv, [Next]_vars
  PROVE  LifeInv'
<1>1. WorkType'
  BY TypeStep DEF TypeInv
<1>2. ASSUME NEW g \in Procs, Step(g)
      PROVE  LifeInv'
  <2>1. daemon = "up" /\ UNCHANGED boot /\ (LoopStep(g) \/ JobStep(g))
    BY <1>2 DEF Step
  <2>2. ~EmptyTurn(g) /\ ~TurnLost(g)
    BY DEF Calm, EmptyTurn, Turning, TurnLost
  <2>3. ~InterruptEmpty(g)
    BY GoroutineInv DEF InterruptEmpty, At, Call
  <2>4. CASE LoopStep(g)
    BY <1>1, <2>1, <2>2, <2>3, <2>4, StartInsertLife, TurnGoesOn, CallGoesOn, CallEnds, CreateTicketLife,
       RequestApprovalLife, OpenGateLife, DelegateLife, CheckParentLife DEF LoopStep
  <2>5. CASE JobStep(g)
    BY <1>1, <2>1, <2>5, ResolveTicketLife, ResumeRunLife, ResolveGateLife, InvokeApprovedLife,
       JobInterruptLife DEF JobStep
  <2> QED
    BY <2>1, <2>4, <2>5
<1>3. ASSUME NEW g \in Procs, Ask(g)
      PROVE  LifeInv'
  <2>1. daemon = "up" /\ UNCHANGED boot
    BY <1>3 DEF Ask
  <2>2. ~SendSession(g)
    BY DEF Calm, SendSession
  <2> QED
    BY <1>1, <1>3, <2>1, <2>2, StartCheckLife, DecideLife DEF Ask
<1>4. CASE UNCHANGED vars
  <2>1. UNCHANGED <<run, ticket, job, stack, daemon, sweep, crashes>>
    BY <1>4 DEF vars
  <2>2. /\ \A h \in Procs : Top(h)' = Top(h) /\ OnStack(h)' = OnStack(h) /\ Below(h)' = Below(h)
        /\ \A h \in Procs : \A pc : At(h, pc)' = At(h, pc)
        /\ \A q : Working(q)' = Working(q)
        /\ \A q \in Runs : Reporting(q)' = Reporting(q)
    BY <2>1, SameStacks, SameView
  <2>3. \A q : Status(q)' = Status(q) /\ LiveRoot(q)' = LiveRoot(q)
    BY <2>1 DEF Status, LiveRoot
  <2>4. \A q \in Runs : Open(q)' = Open(q)
    BY <2>2, <2>3 DEF Open
  <2>5. \A q : Childless(q)' = Childless(q)
    BY <2>1, <2>4 DEF Childless
  <2>6. \A h \in Procs : /\ Deciding(h)' = Deciding(h) /\ Resolving(h)' = Resolving(h)
                         /\ JobRun(h)' = JobRun(h) /\ HasAsked(h)' = HasAsked(h)
                         /\ Bottom(h)' = Bottom(h) /\ Idle(h)' = Idle(h)
    BY <2>1, <2>2, <2>3 DEF Deciding, Resolving, JobRun, HasAsked, Bottom, Idle, Status
  <2>7. \A h \in Procs : \A c : Claims(h, c)' = Claims(h, c)
    BY <2>1, <2>2, <2>6 DEF Claims
  <2>8. \A t, q : Pending(t, q)' = Pending(t, q)
    BY <2>1 DEF Pending
  <2>9. \A h \in Procs : OfGoroutine(h)'
    <3> SUFFICES ASSUME NEW h \in Procs PROVE OfGoroutine(h)'
      OBVIOUS
    <3>1. Chain(h) /\ Call(h) /\ Childfree(h) /\ Answer(h)
      BY GoroutineInv
    <3>2. Chain(h)'
      BY <2>1, <3>1 DEF Chain
    <3>3. Call(h)'
      BY <2>1, <2>2, <2>6, <3>1 DEF Call, Status, Pending
    <3>4. Childfree(h)'
      BY <2>1, <2>2, <2>4, <2>6, <3>1 DEF Childfree, Childless
    <3>5. Answer(h)'
      BY <2>1, <2>6, <2>7, <3>1 DEF Answer, Working, Status, Pending
    <3> QED
      BY <3>2, <3>3, <3>4, <3>5 DEF OfGoroutine
  <2>10. BootInv' /\ Families' /\ OneLiveRoot'
    BY <2>1, <2>3, <2>6 DEF BootInv, Families, OneLiveRoot, LifeInv, OfTables, Status
  <2>11. Disjoint' /\ OneAnswer' /\ OneOpenChild' /\ WaitingIsChildless'
    BY <2>1, <2>2, <2>3, <2>4, <2>5, <2>6 DEF Disjoint, OneAnswer, OneOpenChild, WaitingIsChildless,
       LifeInv, OfTables, Status
  <2>12. OneTicket' /\ AnswersCome'
    BY <2>1, <2>2, <2>3, <2>6, <2>8 DEF OneTicket, AnswersCome, LifeInv, OfTables, Status
  <2> QED
    BY <2>9, <2>10, <2>11, <2>12 DEF LifeInv, OfTables
<1> QED
  BY <1>2, <1>3, <1>4, CrashLife, PrepareLife DEF Next

LEMMA AlwaysAlive == ASSUME Calm PROVE Spec => [](TypeInv /\ LifeInv)
<1>1. Init => TypeInv /\ LifeInv
  BY TypeInit, LifeInit
<1>2. TypeInv /\ LifeInv /\ [Next]_vars => TypeInv' /\ LifeInv'
  BY TypeStep, LifeStep
<1> QED
  BY <1>1, <1>2, PTL DEF Spec

-----------------------------------------------------------------------------
(* What follows.                                                           *)

(* A call of executeRunLoop works on a live run of its stack.              *)
LEMMA LoopView ==
  ASSUME TypeInv, LifeInv, NEW r \in Runs, NEW at \in Loops(r)
  PROVE  /\ at = <<at[1], at[2]>> /\ at[1] \in Procs /\ at[2] \in 1 .. Len(stack[at[1]])
         /\ stack[at[1]][at[2]].run = r /\ r \in OnStack(at[1]) /\ Status(r) \in Live
<1>1. PICK g \in Procs, i \in 1 .. 2 * Cardinality(Runs) : at = <<g, i>>
  BY DEF Loops
<1>2. stack[g] \in Stacks /\ WorkType
  BY DEF TypeInv, WorkType
<1>3. i \in DOMAIN stack[g] /\ stack[g][i].run = r /\ stack[g][i].pc \in LoopPcs
  BY <1>1 DEF Loops
<1>4. i \in 1 .. Len(stack[g]) /\ stack[g] # <<>>
  BY <1>2, <1>3 DEF Stacks
<1>5. r \in OnStack(g)
  BY <1>2, <1>3, <1>4, OnStackAt
<1>6. Status(r) \in Live
  <2>1. Call(g) /\ Len(stack[g]) \in Nat /\ Top(g) = stack[g][1]
    BY <1>2, <1>4, GoroutineInv, StackView
  <2>2. CASE i = 1
    <3>1. Top(g).run = r /\ Top(g).pc \in LoopPcs
      BY <1>3, <2>1, <2>2
    <3> QED
      BY <1>4, <2>1, <3>1 DEF Call, LoopPcs, Live
  <2>3. CASE i # 1
    <3>1. i \in 2 .. Len(stack[g])
      BY <1>4, <2>1, <2>3
    <3>2. r \in Below(g)
      BY <1>3, <3>1 DEF Below
    <3> QED
      BY <1>4, <2>1, <3>2 DEF Call, Live
  <2> QED
    BY <2>2, <2>3
<1> QED
  BY <1>1, <1>3, <1>4, <1>5, <1>6

LEMMA LifeImpliesOneLoop ==
  ASSUME TypeInv, LifeInv
  PROVE  OneLoopPerRun
<1> SUFFICES ASSUME NEW r \in Runs PROVE Cardinality(Loops(r)) <= 1
  BY DEF OneLoopPerRun
<1>1. ASSUME NEW at \in Loops(r), NEW bt \in Loops(r)
      PROVE  at = bt
  <2>1. at[1] = bt[1]
    BY LoopView DEF LifeInv, OfTables, Disjoint
  <2>2. Chain(at[1])
    BY LoopView, GoroutineInv
  <2>3. at[2] = bt[2]
    BY <2>1, <2>2, LoopView DEF Chain
  <2> QED
    BY <2>1, <2>3, LoopView
<1>2. CASE Loops(r) = {}
  <2>1. Cardinality(Loops(r)) = 0
    BY <1>2, FS_EmptySet
  <2> QED
    BY <2>1
<1>3. CASE Loops(r) # {}
  <2>1. PICK at : Loops(r) = {at}
    BY <1>1, <1>3
  <2>2. Cardinality(Loops(r)) = 1
    BY <2>1, FS_Singleton
  <2> QED
    BY <2>2
<1> QED
  BY <1>2, <1>3

LEMMA LifeImpliesOneRoot ==
  ASSUME TypeInv, LifeInv
  PROVE  OneRootAtATime
BY LoopView DEF OneRootAtATime, LifeInv, OfTables, OneLiveRoot, LiveRoot

LEMMA LifeImpliesWelcome ==
  ASSUME TypeInv, LifeInv
  PROVE  AnswersAreWelcome
<1>1. AnswersCome /\ (crashes = 0 \/ crashes > 0)
  BY ConstantsAssumption DEF LifeInv, OfTables, TypeInv, BootType
<1> QED
  BY <1>1 DEF AnswersCome, AnswersAreWelcome, WaitingCanBeAnswered, GatesCanBeAnswered

(* In a calm environment no two goroutines are in the loop of one run.           *)
THEOREM RunsHaveOneLoop == ASSUME Calm PROVE Spec => []OneLoopPerRun
BY AlwaysAlive, LifeImpliesOneLoop, PTL

(* A conversation works on one root run at a time.                         *)
THEOREM RootsTakeTurns == ASSUME Calm PROVE Spec => []OneRootAtATime
BY AlwaysAlive, LifeImpliesOneRoot, PTL

(* Until a restart, whoever is asked for an answer can give it.            *)
THEOREM AnswersStayWelcome == ASSUME Calm PROVE Spec => []AnswersAreWelcome
BY AlwaysAlive, LifeImpliesWelcome, PTL

-----------------------------------------------------------------------------
(* The engine implements the life of its runs.                             *)

LEMMA LifeStarts == Init => Life!Init
BY DEF Init, Life!Init, Status

(* One event that sets a status is a move of one run.                      *)
LEMMA MoveView ==
  ASSUME TypeInv, NEW r \in Runs, NEW s, run' = [run EXCEPT ![r].status = s]
  PROVE  Life!Move(r, Status(r), s)
<1>1. run \in RunRows
  BY DEF TypeInv, RowsType
<1>2. /\ \A q \in Runs : run'[q].status = IF q = r THEN s ELSE run[q].status
      /\ \A q \in Runs : run'[q].parent = run[q].parent
  BY <1>1 DEF RunRows
<1>3. [q \in Runs |-> Status(q)]' = [[q \in Runs |-> Status(q)] EXCEPT ![r] = s]
  BY <1>2 DEF Status
<1>4. [q \in Runs |-> run[q].parent]' = [q \in Runs |-> run[q].parent]
  BY <1>2
<1> QED
  BY <1>3, <1>4 DEF Life!Move

LEMMA Ends ==
  ASSUME TypeInv, NEW r \in Runs, NEW s \in Terminal, Status(r) = "active", run' = [run EXCEPT ![r].status = s]
  PROVE  Life!Next
<1>1. Life!Move(r, "active", s)
  BY MoveView
<1>2. Life!End(r)
  BY <1>1 DEF Life!End, Terminal
<1> QED
  BY <1>2 DEF Life!Next

LEMMA BeginView ==
  ASSUME TypeInv, NEW c \in Runs, NEW p \in Runs \cup {NoRun}, NEW s, MayBegin(c, p, s), Insert(c, p, s)
  PROVE  Life!Next
<1>1. RowsType /\ run \in RunRows
  BY DEF TypeInv, RowsType
<1>2. /\ run'[c].status = "active" /\ run'[c].parent = p
      /\ \A q \in Runs : q # c => run'[q] = run[q]
  BY <1>1, InsertView
<1>3. [q \in Runs |-> Status(q)]' = [[q \in Runs |-> Status(q)] EXCEPT ![c] = "active"]
  BY <1>2 DEF Status
<1>4. [q \in Runs |-> run[q].parent]' = [[q \in Runs |-> run[q].parent] EXCEPT ![c] = p]
  BY <1>2
<1>5. /\ Status(c) = "none"
      /\ p \in Runs => Status(p) = "active"
      /\ p = NoRun => \A q \in Runs : run[q].parent = NoRun => Status(q) \notin Live
  BY ConstantsAssumption DEF MayBegin, LiveRoot
<1>6. Life!Begin(c, p)
  BY <1>3, <1>4, <1>5 DEF Life!Begin, Life!Live, Live
<1> QED
  BY <1>6 DEF Life!Next

LEMMA LifeLoopStep ==
  ASSUME Calm, TypeInv, LifeInv, NEW g \in Procs, LoopStep(g)
  PROVE  Life!Next \/ UNCHANGED run
<1>1. /\ ~Faults /\ WorkType /\ Call(g) /\ Childfree(g) /\ Families /\ OneLiveRoot
      /\ {"completed", "interrupted", "failed"} = Terminal
      /\ "completed" \notin Live /\ "interrupted" \notin Live /\ "failed" \notin Live
  BY GoroutineInv DEF Calm, TypeInv, LifeInv, OfTables, Live, Terminal
<1>2. ~EmptyTurn(g) /\ ~TurnLost(g) /\ ~InterruptEmpty(g)
  BY <1>1 DEF Calm, EmptyTurn, Turning, TurnLost, InterruptEmpty, At, Call
<1>3. ASSUME NEW pc \in {"turn", "complete", "tools", "asked", "announce"}, At(g, pc)
      PROVE  Top(g).run \in Runs /\ Status(Top(g).run) = "active"
             /\ (pc # "record" => Childless(Top(g).run))
  <2>1. stack[g] # <<>> /\ Top(g).pc = pc /\ Top(g).run \in Runs
    BY <1>1, <1>3, AtTyped DEF At, FreePcs, BusyPcs
  <2> QED
    BY <1>1, <2>1 DEF Call, Childfree
<1>4. CASE StartInsert(g)
  <2>1. ASSUME NEW r \in Unused, Fits(r, "active"), Insert(r, NoRun, Front)
        PROVE  Life!Next
    <3>1. r \in Runs /\ Status(r) = "none"
      BY DEF Unused
    <3>2. run[r].parent = NoRun
      BY <1>1, <3>1, NoChildYet
    <3>3. \A q \in Runs : ~LiveRoot(q)
      BY <2>1, <3>1, <3>2 DEF Fits, Live, LiveRoot
    <3>4. MayBegin(r, NoRun, Front)
      BY <3>1, <3>3 DEF MayBegin
    <3> QED
      BY <2>1, <3>1, <3>4, BeginView
  <2> QED
    BY <1>4, <2>1 DEF StartInsert
<1>5. CASE BudgetStop(g) \/ ProviderFails(g) \/ Complete(g) \/ InterruptParent(g)
  <2>1. \E s \in {"completed", "interrupted", "failed"} : run' = [run EXCEPT ![Top(g).run].status = s]
    BY <1>1, <1>5, AlwaysFits DEF BudgetStop, ProviderFails, Complete, InterruptParent, Journal
  <2>2. Top(g).run \in Runs /\ Status(Top(g).run) = "active"
    BY <1>3, <1>5 DEF BudgetStop, ProviderFails, Complete, InterruptParent, Turning
  <2> QED
    BY <1>1, <2>1, <2>2, Ends
<1>6. CASE RequestApproval(g)
  <2>1. Top(g).run \in Runs /\ Status(Top(g).run) = "active"
    BY <1>3, <1>6 DEF RequestApproval
  <2>2. Fits(Top(g).run, "needs_approval")
    BY <1>1, <2>1 DEF Fits, OneLiveRoot, LiveRoot, Live
  <2>3. run' = [run EXCEPT ![Top(g).run].status = "needs_approval"]
    BY <1>1, <1>6, <2>2 DEF RequestApproval, Journal
  <2>4. Life!Pause(Top(g).run)
    BY <2>1, <2>3, MoveView DEF Life!Pause
  <2> QED
    BY <2>1, <2>4 DEF Life!Next
<1>7. CASE Delegate(g)
  <2>1. Top(g).run \in Runs /\ Status(Top(g).run) = "active" /\ Childless(Top(g).run)
    BY <1>3, <1>7 DEF Delegate, Calling
  <2>2. ASSUME NEW c \in Unused, NEW p \in Preferred(run[Top(g).run].session), Insert(c, p, c)
        PROVE  Life!Next
    <3>1. c \in Runs /\ p = Top(g).run
      BY <1>1, <2>1, DelegatesForItself DEF Unused
    <3>2. MayBegin(c, p, c)
      BY <2>1, <3>1 DEF MayBegin, Unused
    <3> QED
      BY <2>1, <2>2, <3>1, <3>2, BeginView
  <2> QED
    BY <1>7, <2>2 DEF Delegate
<1>8. CASE MoreTurns(g) \/ LastTurn(g) \/ ToolTurn(g) \/ PlainCall(g) \/ CreateTicket(g) \/ OpenGate(g)
           \/ Paused(g) \/ RecordChild(g) \/ CheckParent(g) \/ ResumeParent(g)
  BY <1>8 DEF MoreTurns, LastTurn, ToolTurn, PlainCall, CreateTicket, OpenGate, Paused, RecordChild,
     CheckParent, ResumeParent, rows
<1> QED
  BY <1>2, <1>4, <1>5, <1>6, <1>7, <1>8 DEF LoopStep

LEMMA LifeJobStep ==
  ASSUME Calm, TypeInv, LifeInv, NEW g \in Procs, JobStep(g)
  PROVE  Life!Next \/ UNCHANGED run
<1>1. ~Faults /\ OneLiveRoot /\ Answer(g) /\ "interrupted" \notin Live /\ "interrupted" \in Terminal
  BY GoroutineInv DEF Calm, LifeInv, OfTables, Live, Terminal
<1>2. CASE ResumeRun(g)
  <2>1. JobRun(g) \in Runs /\ Status(JobRun(g)) = "needs_approval"
    BY <1>1, <1>2, AnswerView DEF ResumeRun, JobAt, Deciding, Answer
  <2>2. Fits(JobRun(g), "active")
    BY <1>1, <2>1 DEF Fits, OneLiveRoot, LiveRoot, Live
  <2>3. run' = [run EXCEPT ![JobRun(g)].status = "active"]
    BY <1>1, <1>2, <2>2 DEF ResumeRun, Journal
  <2>4. Life!Resume(JobRun(g))
    BY <2>1, <2>3, MoveView DEF Life!Resume
  <2> QED
    BY <2>1, <2>4 DEF Life!Next
<1>3. CASE JobInterrupt(g)
  <2>1. JobRun(g) \in Runs /\ Status(JobRun(g)) \in {"needs_approval", "active"}
    BY <1>1, <1>3, AnswerView DEF JobInterrupt, JobAt, Deciding, Live
  <2>2. run' = [run EXCEPT ![JobRun(g)].status = "interrupted"]
    BY <1>1, <1>3, AlwaysFits DEF JobInterrupt, Journal
  <2>3. CASE Status(JobRun(g)) = "active"
    BY <1>1, <2>1, <2>2, <2>3, Ends
  <2>4. CASE Status(JobRun(g)) = "needs_approval"
    <3>1. Life!Refuse(JobRun(g))
      BY <2>1, <2>2, <2>4, MoveView DEF Life!Refuse
    <3> QED
      BY <2>1, <3>1 DEF Life!Next
  <2> QED
    BY <2>1, <2>3, <2>4
<1>4. CASE ResolveTicket(g) \/ ResolveGate(g) \/ InvokeApproved(g)
  BY <1>4 DEF ResolveTicket, ResolveGate, InvokeApproved
<1> QED
  BY <1>2, <1>3, <1>4 DEF JobStep

LEMMA LifeSimulates ==
  ASSUME Calm, TypeInv, LifeInv, [Next]_vars
  PROVE  [Life!Next]_(Life!vars)
<1>1. ASSUME UNCHANGED run
      PROVE  UNCHANGED Life!vars
  BY <1>1 DEF Life!vars, Status
<1>2. ASSUME NEW g \in Procs, Step(g) \/ Ask(g)
      PROVE  Life!Next \/ UNCHANGED run
  <2>1. ~SendSession(g)
    BY DEF Calm, SendSession
  <2> QED
    BY <1>2, <2>1, LifeLoopStep, LifeJobStep DEF Step, Ask, StartCheck, Decide, rows
<1>3. ASSUME ReconcileInterrupted
      PROVE  Life!Next
  <2>1. PICK r \in sweep.left : run' = [run EXCEPT ![r].status = "interrupted"]
    BY <1>3 DEF ReconcileInterrupted
  <2>2. r \in Runs /\ Status(r) = "active"
    BY <1>3 DEF ReconcileInterrupted, TypeInv, BootType, LifeInv, OfTables, BootInv
  <2> QED
    BY <2>1, <2>2, Ends DEF Terminal
<1>4. ASSUME Crash \/ CliPrepares \/ ExpireStaleApprovals
      PROVE  UNCHANGED run
  BY <1>4 DEF Crash, CliPrepares, ExpireStaleApprovals, rows
<1> QED
  BY <1>1, <1>2, <1>3, <1>4 DEF Next, vars

(* In a calm environment the engine implements the life of its runs: in    *)
(* particular a run that has ended stays as it ended.                      *)
THEOREM EngineImplementsLife == ASSUME Calm PROVE Spec => ImplementsRunLife
<1>1. TypeInv /\ LifeInv /\ [Next]_vars => [Life!Next]_(Life!vars)
  BY LifeSimulates
<1> QED
  BY <1>1, LifeStarts, AlwaysAlive, PTL DEF Spec, Life!Spec, ImplementsRunLife
=============================================================================

------------------------------- MODULE Inbound -------------------------------
(***************************************************************************)
(* Inbound messages of one chat: Telegram's polling goroutine, the         *)
(* goroutines of WhatsApp webhooks, the web handler that writes to the     *)
(* front session, and what they share: the conversation, its front         *)
(* session, its route, the inbound receipts, and its root runs.            *)
(*                                                                         *)
(* A handler executes its run itself, under the context of its transport;  *)
(* only an approved run and a run started from the web have a goroutine of *)
(* their own. A conversation is the row's generation: a reset deletes the  *)
(* row and everything below it, the next message creates another. Runs are *)
(* abstract: the module Runs has their steps.                              *)
(*                                                                         *)
(* Bounds: the sets of messages and goroutines, MaxTries deliveries of a   *)
(* webhook, MaxIncidents, one gate per run.                                *)
(***************************************************************************)
EXTENDS Naturals, Sequences, FiniteSets

CONSTANTS
  Messages,     \* 1..n: update ids, in the order in which the chat sent them
  Writers,      \* goroutines of webhooks or, with polling, the poller alone
  Poller,       \* the polling goroutine
  Senders,      \* web handlers
  Transports,   \* "poll", "webhook"
  MaxTries, MaxIncidents

ASSUME InboundAssumption ==
  /\ IsFiniteSet(Messages) /\ Messages = 1..Cardinality(Messages)
  /\ Poller \in Writers /\ Writers \cap Senders = {}
  /\ Transports \subseteq {"poll", "webhook"}
  /\ MaxTries \in Nat /\ MaxIncidents \in Nat

VARIABLES
  transport,  \* how messages arrive; never changes
  conv,       \* the conversation's row: its generation, 0 if there is none
  convs,      \* generations so far
  front,      \* per generation: front sessions
  routes,     \* per generation: active rows of session_bindings
  receipts,   \* inbound_receipts: [conv, msg, run]
  run,        \* the table runs, a sequence
  handler,    \* per goroutine: where it is, and what it has read
  poll,       \* the poller: next update, end of the batch
  service,    \* the messaging service: sent, those that say /reset, confirmed;
              \* deliveries, acknowledged
  outcome,    \* history: how handlers ended, per message
  left        \* incidents left: faults, restarts, sends and unbinds from the web

inboundVars == <<transport, conv, convs, front, routes, receipts, run, handler, poll,
          service, outcome, left>>
chat == <<conv, convs, front, routes, receipts>>
outside == <<transport, poll, service>>

Goroutines == Writers \cup Senders
Idle == [pc |-> "idle", msg |-> 0, conv |-> 0, run |-> 0, opens |-> FALSE, binds |-> FALSE]
Runs == 1..Len(run)
LiveStatus == {"active", "waiting"}
MaxConvs == Cardinality(Messages) * (MaxTries + MaxIncidents) + 1

InboundInit ==
  /\ transport \in Transports
  /\ conv = 0 /\ convs = 0
  /\ front = [g \in 1..MaxConvs |-> 0]
  /\ routes = [g \in 1..MaxConvs |-> 0]
  /\ receipts = {}
  /\ run = <<>>
  /\ handler = [h \in Goroutines |-> Idle]
  /\ poll = [next |-> 0, last |-> 0]
  /\ service = [sent |-> 0, resets |-> {}, confirmed |-> 0,
                tries |-> [m \in Messages |-> 0], acked |-> {}]
  /\ outcome = [m \in Messages |-> {}]
  /\ left = MaxIncidents

-----------------------------------------------------------------------------
(* Steps of a handler.                                                     *)

At(h, pc) == handler[h].pc = pc
Goto(h, pc) == handler' = [handler EXCEPT ![h].pc = pc]

\* The handler returns: nil or an error. Telegram logs the error; WhatsApp
\* answers 500, and the service will deliver the message again.
Return(h, how) ==
  LET m == handler[h].msg IN
  /\ handler' = [handler EXCEPT ![h] = Idle]
  /\ IF h \in Senders THEN UNCHANGED <<outcome, service>>
     ELSE /\ outcome' = [outcome EXCEPT ![m] = @ \cup {how}]
          /\ service' = IF transport = "webhook" /\ how = "ok"
                        THEN [service EXCEPT !.acked = @ \cup {m}] ELSE service

\* ActiveRootRun: pending, active or needs_approval.
Busy(g) == \E r \in Runs : run[r].conv = g /\ run[r].status \in LiveStatus

\* Mutant: the lookup forgets the message's id.
ReceivedAnything(g, m) == \E x \in receipts : x.conv = g

\* loadInboundReceiptRun.
Received(g, m) == \E x \in receipts : x.conv = g /\ x.msg = m

NewRun(g) == Append(run, [conv |-> g, status |-> "active", loop |-> FALSE, cut |-> FALSE, gate |-> "none"])

\* Control commands come first, then (Telegram) the gate, then the runtime.
Begin(h, m) ==
  handler' = [handler EXCEPT ![h] = [Idle EXCEPT !.msg = m,
    !.pc = CASE m \in service.resets -> "find"
             [] m \notin service.resets /\ transport = "poll" -> "gate"
             [] OTHER -> "resolve"]]

FindConversation(h) ==
  /\ At(h, "find")
  /\ handler' = [handler EXCEPT ![h].conv = conv,
                   ![h].pc = IF conv = 0 THEN "answer" ELSE "check_idle"]
  /\ UNCHANGED <<outside, chat, run, outcome, left>>

CheckIdle(h) ==
  /\ At(h, "check_idle")
  /\ Goto(h, IF Busy(handler[h].conv) THEN "answer" ELSE "delete")
  /\ UNCHANGED <<outside, chat, run, outcome, left>>

\* One transaction over twelve tables.
DeleteConversation(h) ==
  LET g == handler[h].conv IN
  /\ At(h, "delete")
  /\ conv' = IF conv = g THEN 0 ELSE conv
  /\ front' = [front EXCEPT ![g] = 0]
  /\ routes' = [routes EXCEPT ![g] = 0]
  /\ receipts' = {x \in receipts : x.conv # g}
  /\ run' = [r \in Runs |-> IF run[r].conv = g THEN [run[r] EXCEPT !.status = "gone"] ELSE run[r]]
  /\ Goto(h, "answer")
  /\ UNCHANGED <<outside, convs, outcome, left>>

\* The reply to the command may fail to go out.
AnswerCommand(h) ==
  /\ At(h, "answer")
  /\ \E how \in {"ok", "error"} : Return(h, how)
  /\ UNCHANGED <<transport, poll, chat, run, left>>

-----------------------------------------------------------------------------
(* HandleConversationGateReply.                                            *)

PendingGates(g) == {r \in Runs : run[r].conv = g /\ run[r].gate \in {"open", "expired"} /\ run[r].status # "gone"}

ResolvePendingGate(h) ==
  LET m == handler[h].msg IN
  /\ At(h, "gate")
  /\ IF conv = 0 \/ PendingGates(conv) = {}
     THEN Goto(h, "resolve") /\ UNCHANGED <<outcome, service>>
     ELSE \E r \in PendingGates(conv) :
            IF Received(conv, m) THEN Return(h, "ok")
            ELSE /\ handler' = [handler EXCEPT ![h].pc = "record", ![h].conv = conv, ![h].run = r]
                 /\ UNCHANGED <<outcome, service>>
  /\ UNCHANGED <<transport, poll, chat, run, left>>

\* The message and its receipt, on the run that waits.
AppendInboundGateMessage(h) ==
  LET d == handler[h] IN
  /\ At(h, "record")
  /\ IF Received(d.conv, d.msg)
     THEN Return(h, "error") /\ UNCHANGED receipts
     ELSE /\ receipts' = receipts \cup {[conv |-> d.conv, msg |-> d.msg, run |-> d.run]}
          /\ Goto(h, "decide")
          /\ UNCHANGED <<outcome, service>>
  /\ UNCHANGED <<transport, poll, conv, convs, front, routes, run, left>>

\* Mutant: the goroutine is not started.
ResumeOnly(r) == run' = [run EXCEPT ![r].gate = "resolved", ![r].status = "active"]

ResumeRun(r) == run' = [run EXCEPT ![r].gate = "resolved", ![r].status = "active", ![r].loop = TRUE]

\* A clear decision resolves the ticket and the run goes on in a goroutine of
\* its own (an expired ticket cannot be resolved); an unclear one is answered.
DecideGate(h) ==
  LET r == handler[h].run IN
  /\ At(h, "decide")
  /\ \/ run[r].gate = "open" /\ run[r].status = "waiting" /\ ResumeRun(r) /\ Return(h, "ok")
     \/ run[r].gate # "open" /\ UNCHANGED run /\ Return(h, "error")
     \/ UNCHANGED run /\ Return(h, "ok")
  /\ UNCHANGED <<transport, poll, chat, left>>

-----------------------------------------------------------------------------
(* receiveInboundMessage.                                                  *)

\* INSERT ... ON CONFLICT DO NOTHING: at most one row for the key.
ResolveConversation(h) ==
  /\ At(h, "resolve")
  /\ conv = 0 => convs < MaxConvs
  /\ convs' = IF conv = 0 THEN convs + 1 ELSE convs
  /\ conv' = IF conv = 0 THEN convs' ELSE conv
  /\ handler' = [handler EXCEPT ![h].pc = "receipt", ![h].conv = conv']
  /\ UNCHANGED <<outside, front, routes, receipts, run, outcome, left>>

LoadInboundReceiptRun(h) ==
  /\ At(h, "receipt")
  /\ IF Received(handler[h].conv, handler[h].msg)
     THEN Return(h, "ok")
     ELSE Goto(h, "route") /\ UNCHANGED <<outcome, service>>
  /\ UNCHANGED <<transport, poll, chat, run, left>>

\* resolveFrontSession: the active route, else the session of the key.
FindRoute(h) ==
  /\ At(h, "route")
  /\ Goto(h, IF routes[handler[h].conv] > 0 THEN "start" ELSE "session")
  /\ UNCHANGED <<outside, chat, run, outcome, left>>

FindFrontSession(h) ==
  /\ At(h, "session")
  /\ handler' = [handler EXCEPT ![h].pc = "start", ![h].binds = TRUE,
                   ![h].opens = front[handler[h].conv] = 0]
  /\ UNCHANGED <<outside, chat, run, outcome, left>>

\* The daily cap, the authority of the connector and the root run at work are
\* checked before the transaction.
PrepareRunStart(h) ==
  /\ At(h, "start")
  /\ IF Busy(handler[h].conv)
     THEN Return(h, "error")
     ELSE \/ Goto(h, "append") /\ UNCHANGED <<outcome, service>>
          \/ Return(h, "error")
  /\ UNCHANGED <<transport, poll, chat, run, left>>

\* session_bound deactivates the active rows of the thread, then inserts.
SessionBound(g) == routes' = [routes EXCEPT ![g] = 1]

\* session_opened: sessions.key is unique.
SessionOpened(g) == front' = [front EXCEPT ![g] = @ + 1]

\* Mutant: the key is not unique.
KeyNeverTaken(g) == FALSE

KeyTaken(g) == front[g] > 0

\* Mutant: no index keeps two root runs apart.
FitsAlways(g) == TRUE

\* The unique index over the live root runs of a conversation.
Fits(g) == ~Busy(g)

\* Mutant: the transaction does not notice a receipt.
AppendsBlindly(h) == Fits(handler[h].conv)

\* The order of the statements: run_started fails at the index, session_opened
\* at the key of another first message, and the receipt comes last.
Appends(h) ==
  LET d == handler[h] IN
  Fits(d.conv) /\ ~(d.opens /\ KeyTaken(d.conv)) /\ ~Received(d.conv, d.msg)

\* Only the receipt's conflict means that the message is known already.
OnlyTheReceipt(h) ==
  LET d == handler[h] IN Fits(d.conv) /\ ~(d.opens /\ KeyTaken(d.conv))

\* run_started, session_opened, session_bound, session_message_added and
\* inbound_message_recorded in one transaction.
AppendInboundRun(h) ==
  LET d == handler[h]  g == d.conv IN
  /\ At(h, "append")
  /\ IF Appends(h)
     THEN /\ run' = NewRun(g)
          /\ IF d.opens THEN SessionOpened(g) ELSE UNCHANGED front
          /\ IF d.binds THEN SessionBound(g) ELSE UNCHANGED routes
          /\ receipts' = receipts \cup {[conv |-> g, msg |-> d.msg, run |-> Len(run) + 1]}
          /\ handler' = [handler EXCEPT ![h].pc = "started", ![h].run = Len(run) + 1]
          /\ UNCHANGED <<outcome, service>>
     ELSE /\ Return(h, IF OnlyTheReceipt(h) THEN "ok" ELSE "error")
          /\ UNCHANGED <<front, routes, receipts, run>>
  /\ UNCHANGED <<transport, poll, conv, convs, left>>

\* finishRunStart and loadRun may fail although the run is there; it then
\* stays active and nobody executes it.
FinishRunStart(h) ==
  LET r == handler[h].run IN
  /\ At(h, "started")
  /\ \/ Goto(h, "execute") /\ run' = [run EXCEPT ![r].loop = TRUE]
        /\ UNCHANGED <<outcome, service, left>>
     \/ /\ left > 0 /\ left' = left - 1
        /\ run' = [run EXCEPT ![r].cut = TRUE] /\ Return(h, "error")
  /\ UNCHANGED <<transport, poll, chat>>

\* A loop ends: the run is completed or failed, or waits behind a gate. A row
\* that a reset deleted stays deleted.
LoopEnds(r, gate) ==
  run' = [run EXCEPT ![r] =
    [run[r] EXCEPT !.loop = FALSE,
                   !.gate = IF gate THEN "open" ELSE @,
                   !.status = IF @ # "active" THEN @ ELSE IF gate THEN "waiting" ELSE "ended"]]
Asks(r) == run[r].gate = "none" /\ run[r].status = "active"

\* executeRunLoop returns; a provider's error is the handler's.
RunEnds(h) ==
  LET r == handler[h].run IN
  /\ At(h, "execute")
  /\ \/ LoopEnds(r, FALSE) /\ \E how \in {"ok", "error"} : Return(h, how)
     \/ Asks(r) /\ LoopEnds(r, TRUE) /\ Return(h, "ok")
  /\ UNCHANGED <<transport, poll, chat, left>>

\* The goroutine of an approved run, or of a run from the web, comes to the end.
AsyncRunEnds(r) ==
  /\ run[r].loop
  /\ \A h \in Goroutines : ~(At(h, "execute") /\ handler[h].run = r)
  /\ LoopEnds(r, FALSE) \/ (Asks(r) /\ LoopEnds(r, TRUE))
  /\ UNCHANGED <<outside, chat, handler, outcome, left>>

-----------------------------------------------------------------------------
(* The web: sendSession to the front session, and DeactivateRoute.         *)

BeginSend(h) ==
  /\ At(h, "idle") /\ left > 0 /\ conv # 0 /\ front[conv] > 0
  /\ \E r \in Runs : run[r].conv = conv /\ run[r].status # "gone"
  /\ left' = left - 1
  /\ handler' = [handler EXCEPT ![h] = [Idle EXCEPT !.pc = "start", !.conv = conv]]
  /\ UNCHANGED <<outside, chat, run, outcome>>

\* run_started and session_message_added are transactions of their own.
CreateRun(h) ==
  /\ h \in Senders /\ At(h, "append")
  /\ IF Fits(handler[h].conv)
     THEN /\ run' = NewRun(handler[h].conv)
          /\ handler' = [handler EXCEPT ![h].pc = "message", ![h].run = Len(run) + 1]
     ELSE handler' = [handler EXCEPT ![h] = Idle] /\ UNCHANGED run
  /\ UNCHANGED <<outside, chat, outcome, left>>

AppendSessionMessage(h) ==
  LET r == handler[h].run IN
  /\ At(h, "message")
  /\ \/ run' = [run EXCEPT ![r].loop = TRUE] /\ UNCHANGED left
     \/ /\ left > 0 /\ left' = left - 1
        /\ run' = [run EXCEPT ![r].cut = TRUE]
  /\ handler' = [handler EXCEPT ![h] = Idle]
  /\ UNCHANGED <<outside, chat, outcome>>

DeactivateRoute ==
  /\ left > 0 /\ conv # 0 /\ routes[conv] > 0
  /\ left' = left - 1
  /\ routes' = [routes EXCEPT ![conv] = 0]
  /\ UNCHANGED <<outside, conv, convs, front, receipts, run, handler, outcome>>

-----------------------------------------------------------------------------
(* Transports.                                                             *)

ChatSends ==
  /\ service.sent + 1 \in Messages
  /\ service' \in {[service EXCEPT !.sent = @ + 1],
                   [service EXCEPT !.sent = @ + 1, !.resets = @ \cup {service.sent + 1}]}
  /\ UNCHANGED <<transport, poll, chat, run, handler, outcome, left>>

\* Mutant: the offset already names the end of the batch it asks for.
GetUpdatesEagerly ==
  /\ transport = "poll" /\ At(Poller, "idle") /\ poll.next >= poll.last
  /\ service.sent > service.confirmed
  /\ service' = [service EXCEPT !.confirmed = service.sent]
  /\ poll' = [next |-> service.confirmed, last |-> service.sent]
  /\ UNCHANGED <<transport, chat, run, handler, outcome, left>>

\* getUpdates(offset) confirms the updates before the offset and answers the
\* others, in order; `next` is the last update handled, offset = next + 1. The
\* answer may be lost.
GetUpdates ==
  LET confirmed == IF poll.next > service.confirmed THEN poll.next ELSE service.confirmed IN
  /\ transport = "poll" /\ At(Poller, "idle") /\ poll.next >= poll.last
  /\ service.sent > confirmed \/ confirmed > service.confirmed
  /\ service' = [service EXCEPT !.confirmed = confirmed]
  /\ \/ poll' = [next |-> confirmed, last |-> service.sent] /\ UNCHANGED left
     \/ left > 0 /\ left' = left - 1 /\ UNCHANGED poll
  /\ UNCHANGED <<transport, chat, run, handler, outcome>>

\* Mutant: the batch has one update too many.
HandleUpdateBeyond ==
  /\ At(Poller, "idle") /\ poll.next <= poll.last
  /\ poll' = [poll EXCEPT !.next = @ + 1]
  /\ Begin(Poller, poll.next + 1)
  /\ UNCHANGED <<transport, service, chat, run, outcome, left>>

HandleUpdate ==
  /\ At(Poller, "idle") /\ poll.next < poll.last
  /\ poll' = [poll EXCEPT !.next = @ + 1]
  /\ Begin(Poller, poll.next + 1)
  /\ UNCHANGED <<transport, service, chat, run, outcome, left>>

\* The service delivers until it is answered with 200, also again while a
\* delivery is being handled.
HandleWebhook(h, m) ==
  /\ transport = "webhook" /\ At(h, "idle")
  /\ m <= service.sent /\ m \notin service.acked /\ service.tries[m] < MaxTries
  /\ service' = [service EXCEPT !.tries[m] = @ + 1]
  /\ Begin(h, m)
  /\ UNCHANGED <<transport, poll, chat, run, outcome, left>>

\* What becomes of the run of a handler whose context is cancelled: the
\* provider's call fails, and so does the journal's run_failed.
CutRuns(H) ==
  {handler[h].run : h \in {x \in H : handler[x].pc \in {"started", "execute", "message"}}}

\* The supervisor cancels the connector (the poller starts again from offset
\* 0), or the client of a webhook hangs up: every later statement fails.
ContextCancelled(h) ==
  /\ ~At(h, "idle") /\ left > 0
  /\ left' = left - 1
  /\ run' = [r \in Runs |-> IF r \in CutRuns({h}) THEN [run[r] EXCEPT !.loop = FALSE, !.cut = TRUE] ELSE run[r]]
  /\ handler' = [handler EXCEPT ![h] = Idle]
  /\ poll' = IF transport = "poll" /\ h = Poller THEN [next |-> 0, last |-> 0] ELSE poll
  /\ UNCHANGED <<transport, service, chat, outcome>>

\* The daemon stops and starts again: ReconcileInterrupted and
\* ExpireStaleApprovals.
Restart ==
  /\ left > 0 /\ left' = left - 1
  /\ handler' = [h \in Goroutines |-> Idle]
  /\ poll' = [next |-> 0, last |-> 0]
  /\ run' = [r \in Runs |->
       [run[r] EXCEPT !.loop = FALSE,
                      !.status = IF @ = "active" THEN "ended" ELSE @,
                      !.gate = IF @ = "open" THEN "expired" ELSE @]]
  /\ UNCHANGED <<transport, service, chat, outcome>>

-----------------------------------------------------------------------------

HandlerStep(h) ==
  \/ FindConversation(h) \/ CheckIdle(h) \/ DeleteConversation(h) \/ AnswerCommand(h)
  \/ ResolvePendingGate(h) \/ AppendInboundGateMessage(h) \/ DecideGate(h)
  \/ ResolveConversation(h) \/ LoadInboundReceiptRun(h)
  \/ FindRoute(h) \/ FindFrontSession(h) \/ PrepareRunStart(h)
  \/ (h \in Writers /\ AppendInboundRun(h)) \/ CreateRun(h)
  \/ FinishRunStart(h) \/ AppendSessionMessage(h) \/ RunEnds(h)

InboundNext ==
  \/ \E h \in Goroutines : HandlerStep(h) \/ ContextCancelled(h)
  \/ \E r \in Runs : AsyncRunEnds(r)
  \/ \E h \in Senders : BeginSend(h)
  \/ \E h \in Writers, m \in Messages : HandleWebhook(h, m)
  \/ ChatSends \/ GetUpdates \/ HandleUpdate
  \/ DeactivateRoute \/ Restart

InboundSpec == InboundInit /\ [][InboundNext]_inboundVars

\* Goroutines go on, runs come to an end, and the poller polls.
InboundFairness ==
  /\ \A h \in Goroutines : WF_inboundVars(HandlerStep(h))
  /\ WF_inboundVars(HandleUpdate) /\ WF_inboundVars(GetUpdates)

InboundFairSpec == InboundSpec /\ InboundFairness

-----------------------------------------------------------------------------
(* Properties.                                                             *)

Pcs == {"idle", "find", "check_idle", "delete", "answer", "gate", "record", "decide",
        "resolve", "receipt", "route", "session", "start", "append", "started",
        "execute", "message"}

\* Every variable has its type; the service is never told of more updates than
\* it sent.
InboundTypeOK ==
  /\ transport \in Transports
  /\ conv \in 0..MaxConvs /\ convs \in conv..MaxConvs
  /\ front \in [1..MaxConvs -> Nat] /\ routes \in [1..MaxConvs -> Nat]
  /\ receipts \subseteq [conv : 1..MaxConvs, msg : Messages, run : Runs]
  /\ run \in Seq([conv : 1..MaxConvs, status : {"active", "waiting", "ended", "gone"},
                  loop : BOOLEAN, cut : BOOLEAN, gate : {"none", "open", "expired", "resolved"}])
  /\ handler \in [Goroutines -> [pc : Pcs, msg : Messages \cup {0}, conv : 0..MaxConvs,
                               run : Runs \cup {0}, opens : BOOLEAN, binds : BOOLEAN]]
  /\ service.confirmed <= service.sent /\ poll.next <= poll.last
  /\ poll.last <= service.sent
  /\ outcome \in [Messages -> SUBSET {"ok", "error"}]

Executing(r) ==
  \/ run[r].loop
  \/ \E h \in Goroutines : handler[h].run = r /\ handler[h].pc \in {"started", "message"}

\* However often and however concurrently a message is delivered, it starts
\* one run in a conversation, or answers one gate.
OneRunPerMessage ==
  \A x, y \in receipts : x.conv = y.conv /\ x.msg = y.msg => x = y

\* A conversation has one front session and one active route.
OneFrontSession == \A g \in 1..MaxConvs : front[g] <= 1 /\ routes[g] <= 1

\* Only a lost context, or an error after run_started, leaves an active run
\* that nobody executes: no interleaving of handlers does.
ActiveRunsAreExecuted ==
  \A r \in Runs : run[r].status = "active" => Executing(r) \/ run[r].cut

\* Telegram forgets an update only after its handler returned.
ConfirmedWasHandled ==
  transport = "poll" => \A m \in Messages : m <= service.confirmed => outcome[m] # {}

\* A message that was reported as taken has its receipt until a reset deletes
\* it.
TakenMeansReceived ==
  [][\A m \in Messages \ service.resets :
       "ok" \in outcome'[m] \ outcome[m] =>
         \E h \in Goroutines :
           /\ handler[h].msg = m
           /\ \/ \E x \in receipts' : x.conv \in {handler[h].conv, conv} /\ x.msg = m
              \/ handler[h].run \in Runs /\ run[handler[h].run].status = "gone"]_inboundVars

\* Every update is handled in the end, also across cancellations and restarts.
UpdatesAreHandled ==
  \A m \in Messages :
    (transport = "poll" /\ m <= service.sent) ~> (transport = "poll" /\ outcome[m] # {})

\* However often, in whatever order and over whichever transport a message is
\* delivered, it has one receipt, and its conversation one front session; what
\* was confirmed to the service was handled, and a run that was started is
\* executed.
MessagesAreTakenOnce ==
  OneRunPerMessage /\ OneFrontSession /\ ConfirmedWasHandled /\ ActiveRunsAreExecuted

\* A conversation can have one active root run at a time, whoever races to
\* start one and whatever a restart leaves behind.
OneActiveRoot ==
  \A q, r \in Runs :
    run[q].conv = run[r].conv /\ {run[q].status, run[r].status} \subseteq LiveStatus => q = r
=============================================================================

------------------------------- MODULE Routes -------------------------------
(***************************************************************************)
(* Sessions, the routes that bind a thread of a conversation to one of      *)
(* them, and what goes over them: operators bind and deactivate routes and  *)
(* send messages over them (internal/runtime/sessions.go), tasks come in on *)
(* threads and agents talk to each other (internal/runtime/collaboration.go),*)
(* the replies of the runs go out over the route the session has then       *)
(* (queueOutboundIntent). Each step is one statement or transaction of the  *)
(* store.                                                                   *)
(*                                                                         *)
(* A session is the front session or a worker's session of a conversation;  *)
(* CallsOf says which calls a caller makes.                                 *)
(* Bounds: MaxRoutes, MaxSessionRuns, MaxMail.                        *)
(***************************************************************************)
EXTENDS Naturals, Sequences, FiniteSets

CONSTANTS Conversations, Threads, Workers, Callers, CallsOf, MaxRoutes, MaxSessionRuns, MaxMail

ASSUME RoutesAssumption ==
  /\ "front" \notin Workers
  /\ \A k \in Callers :
       CallsOf[k] \subseteq {"bind", "deactivate", "start", "route", "send", "spawn", "note"}
  /\ MaxRoutes \in Nat /\ MaxSessionRuns \in Nat /\ MaxMail \in Nat

VARIABLES
  bindings,  \* the rows of session_bindings, the oldest first
  opened,    \* the sessions that have a row
  work,      \* the runs: their session, their parent and how far they are
  mail,      \* the messages of all sessions, the oldest first
  intents,   \* the outbound messages: which message goes over which route
  calls      \* per caller: the call it is in

routesVars == <<bindings, opened, work, mail, intents, calls>>

Sessions == Conversations \X (Workers \cup {"front"})
Conv(s) == s[1]
IsFront(s) == s[2] = "front"
FrontOf(c) == <<c, "front">>
\* The id of a front session that could not be opened.
LostOf(c) == <<c, "lost">>

NoCall == [pc |-> "idle"]

RoutesInit ==
  /\ bindings = <<>> /\ opened = {} /\ work = <<>> /\ mail = <<>> /\ intents = {}
  /\ calls = [k \in Callers |-> NoCall]

-----------------------------------------------------------------------------
(* What the statements read.                                               *)

Latest(ids) == IF ids = {} THEN 0 ELSE CHOOSE i \in ids : \A j \in ids : j <= i

ActiveRoutes == {i \in DOMAIN bindings : bindings[i].status = "active"}
ThreadRoute(c, t) ==
  Latest({i \in ActiveRoutes : Conv(bindings[i].session) = c /\ bindings[i].thread = t})

\* Mutant: the status of the route is not looked at.
LoadAnyRouteBySession(s) == Latest({i \in DOMAIN bindings : bindings[i].session = s})

LoadRouteBySession(s) == Latest({i \in ActiveRoutes : bindings[i].session = s})

\* The newest route of the front session, or of any other.
loadFrontConversationRoute(c) ==
  LET own == {i \in ActiveRoutes : Conv(bindings[i].session) = c}
      front == {i \in own : IsFront(bindings[i].session)}
  IN  IF front # {} THEN Latest(front) ELSE Latest(own)

\* The run that a session is known by: one that is at work, or its newest.
Ended(i) == work[i].pc = "ended"
RunsOf(s) == {i \in DOMAIN work : work[i].session = s}
loadPreferredRunForSession(s) ==
  LET live == {i \in RunsOf(s) : ~Ended(i)}
  IN  IF live # {} THEN Latest(live) ELSE Latest(RunsOf(s))

Known(s) == s \in opened /\ RunsOf(s) # {}

BusyRoot(c) == \E i \in DOMAIN work : ~Ended(i) /\ work[i].parent = 0 /\ Conv(work[i].session) = c

-----------------------------------------------------------------------------
(* What the events do to the tables.                                       *)

\* Mutant: all the thread's routes are marked, those that ended before too.
EndEveryRoute(r, c, t, by) ==
  IF Conv(r.session) = c /\ r.thread = t
  THEN [r EXCEPT !.status = "replaced", !.by = by, !.end = Len(mail)]
  ELSE r

\* The conversation and the thread are those of the new route.
ReplaceActive(r, c, t, by) ==
  IF Conv(r.session) = c /\ r.thread = t /\ r.status = "active"
  THEN [r EXCEPT !.status = "replaced", !.by = by, !.end = Len(mail)]
  ELSE r

\* session_bound: the thread's active route ends, the new one is inserted.
\* source tells who asked for it, and which routes were there by then.
BindThread(s, t, source) ==
  /\ Len(bindings) < MaxRoutes
  /\ bindings' =
       Append([i \in DOMAIN bindings |-> ReplaceActive(bindings[i], Conv(s), t, Len(bindings) + 1)],
              [session |-> s, thread |-> t, status |-> "active", by |-> 0, end |-> 0, source |-> source])

\* session_unbound, which spares a route that is not active any more.
SessionUnbound(i) ==
  bindings' = IF bindings[i].status = "active"
            THEN [bindings EXCEPT ![i].status = "deactivated", ![i].end = Len(mail)]
            ELSE bindings

\* session_message_added
MessageAdded(from, s, kind) ==
  Len(mail) < MaxMail /\ mail' = Append(mail, [from |-> from, to |-> s, kind |-> kind])

Call(k, call) == calls' = [calls EXCEPT ![k] = call]
ReturnCall(k) == Call(k, NoCall)
CallAt(k, pc) == calls[k].pc = pc
BeginCall(k, call) == CallAt(k, "idle") /\ call \in CallsOf[k]

-----------------------------------------------------------------------------
(* The operator's calls on routes.                                         *)

BindRoute(k) ==
  /\ BeginCall(k, "bind")
  /\ \E s \in opened, t \in Threads : BindThread(s, t, [who |-> "operator", seen |-> Len(bindings)])
  /\ UNCHANGED <<opened, work, mail, intents, calls>>

BeginDeactivate(k) ==
  /\ BeginCall(k, "deactivate") /\ \E i \in ActiveRoutes : Call(k, [pc |-> "deactivate", route |-> i])
  /\ UNCHANGED <<bindings, opened, work, mail, intents>>

FinishDeactivate(k) ==
  /\ CallAt(k, "deactivate") /\ SessionUnbound(calls[k].route) /\ ReturnCall(k)
  /\ UNCHANGED <<opened, work, mail, intents>>

-----------------------------------------------------------------------------
(* Calls that start a run: create it, open its session, bind it, add the    *)
(* message, each in a transaction of its own.                               *)

Starting(from, s, parent, kind, open, bind) ==
  [pc |-> "create", from |-> from, session |-> s, parent |-> parent, kind |-> kind,
   open |-> open, bind |-> bind, run |-> 0]
NoBinding == [thread |-> "none", seen |-> 0]

\* StartFrontSession: the thread's session, or the front session, which is then
\* bound to the thread.
resolveFrontSession(k) ==
  /\ BeginCall(k, "start")
  /\ \E c \in Conversations, t \in Threads :
       LET r == ThreadRoute(c, t)
       IN  IF r # 0
           THEN Call(k, Starting(bindings[r].session, bindings[r].session, 0, "user", FALSE, NoBinding))
           ELSE Call(k, Starting(FrontOf(c), FrontOf(c), 0, "user", FrontOf(c) \notin opened,
                                 [thread |-> t, seen |-> Len(bindings)]))
  /\ UNCHANGED <<bindings, opened, work, mail, intents>>

\* SendRoute looks at the route and then sends to its session.
SendRoute(k) ==
  /\ BeginCall(k, "route")
  /\ \E i \in ActiveRoutes : Call(k, [pc |-> "send", from |-> FrontOf(Conv(bindings[i].session)),
                                      to |-> bindings[i].session])
  /\ UNCHANGED <<bindings, opened, work, mail, intents>>

SendSession(k) ==
  /\ BeginCall(k, "send")
  /\ \E from, to \in opened : Call(k, [pc |-> "send", from |-> from, to |-> to])
  /\ UNCHANGED <<bindings, opened, work, mail, intents>>

\* A message to a worker starts a run beside the one it is known by, below the
\* same parent; a message to a session of another conversation is an error.
sendSession(k) ==
  /\ CallAt(k, "send")
  /\ LET to == calls[k].to
         run == loadPreferredRunForSession(to)
         parent == CASE IsFront(to) -> 0
                     [] ~IsFront(to) /\ work[run].parent # 0 -> work[run].parent
                     [] OTHER -> run
     IN  IF Known(to) /\ Known(calls[k].from) /\ Conv(calls[k].from) = Conv(to)
         THEN Call(k, Starting(calls[k].from, to, parent, "send", FALSE, NoBinding))
         ELSE ReturnCall(k)
  /\ UNCHANGED <<bindings, opened, work, mail, intents>>

\* Spawn: a session known by its run has one opened for a worker.
New(s) ==
  /\ s \notin opened /\ s \notin {work[i].session : i \in DOMAIN work}
  /\ \A k \in Callers : calls[k].pc = "create" => calls[k].session # s
Spawn(k) ==
  /\ BeginCall(k, "spawn")
  /\ \E s \in opened, w \in Workers :
       /\ Known(s) /\ New(<<Conv(s), w>>)
       /\ Call(k, Starting(s, <<Conv(s), w>>, loadPreferredRunForSession(s), "spawn", TRUE, NoBinding))
  /\ UNCHANGED <<bindings, opened, work, mail, intents>>

\* The index of active root runs refuses a second one.
createRun(k) ==
  /\ CallAt(k, "create")
  /\ IF calls[k].parent = 0 /\ BusyRoot(Conv(calls[k].session))
     THEN ReturnCall(k) /\ UNCHANGED work
     ELSE /\ Len(work) < MaxSessionRuns
          /\ work' = Append(work, [pc |-> "new", parent |-> calls[k].parent, message |-> 0, route |-> 0,
                                   session |-> IF calls[k].open /\ calls[k].session \in opened
                                               THEN LostOf(Conv(calls[k].session))
                                               ELSE calls[k].session])
          /\ Call(k, [calls[k] EXCEPT !.pc = "open", !.run = Len(work) + 1])
  /\ UNCHANGED <<bindings, opened, mail, intents>>

\* The key of a session is unique: the second of two callers that both found no
\* front session fails here, and leaves a run that nobody executes.
openSession(k) ==
  /\ CallAt(k, "open")
  /\ IF calls[k].open
     THEN IF calls[k].session \in opened
          THEN ReturnCall(k) /\ UNCHANGED opened
          ELSE opened' = opened \cup {calls[k].session} /\ Call(k, [calls[k] EXCEPT !.pc = "bind"])
     ELSE Call(k, [calls[k] EXCEPT !.pc = "bind"]) /\ UNCHANGED opened
  /\ UNCHANGED <<bindings, work, mail, intents>>

bindSession(k) ==
  /\ CallAt(k, "bind") /\ Call(k, [calls[k] EXCEPT !.pc = "message"])
  /\ IF calls[k].bind = NoBinding
     THEN UNCHANGED bindings
     ELSE BindThread(calls[k].session, calls[k].bind.thread,
                       [who |-> "message", seen |-> calls[k].bind.seen])
  /\ UNCHANGED <<opened, work, mail, intents>>

appendSessionMessage(k) ==
  /\ CallAt(k, "message") /\ MessageAdded(calls[k].from, calls[k].session, calls[k].kind) /\ ReturnCall(k)
  /\ work' = [work EXCEPT ![calls[k].run].pc = "work"]
  /\ UNCHANGED <<bindings, opened, intents>>

-----------------------------------------------------------------------------
(* Notes and messages that start no run.                                   *)

\* Announce, Steer and AgentSend look up two sessions of a conversation, whatever
\* became of their runs, InjectRunNote a run that is live, and its session; then
\* the message is added.
LookOver(k, from, to) == Call(k, [pc |-> "note", from |-> from, session |-> to])
directSessionMessage(k) ==
  /\ BeginCall(k, "note")
  /\ \E from, to \in opened : Known(from) /\ Known(to) /\ Conv(from) = Conv(to) /\ LookOver(k, from, to)
  /\ UNCHANGED <<bindings, opened, work, mail, intents>>

LookAtRun(k) ==
  /\ BeginCall(k, "note")
  /\ \E i \in DOMAIN work :
       ~Ended(i) /\ work[i].session \in opened /\ LookOver(k, work[i].session, work[i].session)
  /\ UNCHANGED <<bindings, opened, work, mail, intents>>

InjectRunNote(k) ==
  /\ CallAt(k, "note") /\ MessageAdded(calls[k].from, calls[k].session, "note") /\ ReturnCall(k)
  /\ UNCHANGED <<bindings, opened, work, intents>>

-----------------------------------------------------------------------------
(* The run's own words: a message of its session, then the route that the   *)
(* session has, then the outbound message. A worker's question takes the    *)
(* front session's route if its own session has none.                       *)

End(run) == [run EXCEPT !.pc = "ended", !.message = 0, !.route = 0]

Speak(i) ==
  /\ work[i].pc = "work"
  /\ \E kind \in {"reply", "question"} :
       /\ MessageAdded(work[i].session, work[i].session, kind)
       /\ work' = [work EXCEPT ![i].pc = kind, ![i].message = Len(mail) + 1]
  /\ UNCHANGED <<bindings, opened, intents, calls>>

RouteFor(i) ==
  LET own == LoadRouteBySession(work[i].session)
  IN  IF own = 0 /\ work[i].pc = "question"
      THEN loadFrontConversationRoute(Conv(work[i].session))
      ELSE own

PickRoute(i) ==
  /\ work[i].pc \in {"reply", "question"}
  /\ work' = [work EXCEPT ![i] = IF RouteFor(i) = 0 THEN End(@)
                                 ELSE [@ EXCEPT !.pc = "routed", !.route = RouteFor(i)]]
  /\ UNCHANGED <<bindings, opened, mail, intents, calls>>

queueOutboundIntent(i) ==
  /\ work[i].pc = "routed"
  /\ intents' = intents \cup {[message |-> work[i].message, route |-> work[i].route]}
  /\ work' = [work EXCEPT ![i] = End(@)]
  /\ UNCHANGED <<bindings, opened, mail, calls>>

RoutesNext ==
  \/ \E k \in Callers :
       \/ BindRoute(k) \/ BeginDeactivate(k) \/ FinishDeactivate(k)
       \/ resolveFrontSession(k) \/ SendRoute(k) \/ SendSession(k) \/ sendSession(k) \/ Spawn(k)
       \/ createRun(k) \/ openSession(k) \/ bindSession(k) \/ appendSessionMessage(k)
       \/ directSessionMessage(k) \/ LookAtRun(k) \/ InjectRunNote(k)
  \/ \E i \in DOMAIN work : Speak(i) \/ PickRoute(i) \/ queueOutboundIntent(i)

RoutesSpec == RoutesInit /\ [][RoutesNext]_routesVars

-----------------------------------------------------------------------------

Thread(i) == <<Conv(bindings[i].session), bindings[i].thread>>

\* Routes and messages are of sessions that were opened; a route that was
\* replaced names the one that did it.
RoutesTypeOK ==
  /\ opened \subseteq Sessions
  /\ \A i \in DOMAIN bindings :
       /\ bindings[i].session \in opened /\ bindings[i].thread \in Threads
       /\ bindings[i].status \in {"active", "replaced", "deactivated"} /\ bindings[i].end \in 0..Len(mail)
       /\ bindings[i].status = "replaced" <=> bindings[i].by # 0
  /\ \A m \in DOMAIN mail : mail[m].to \in opened
  /\ \A i \in DOMAIN work : work[i].session \in Sessions \cup {LostOf(c) : c \in Conversations}

\* A thread has one route at a time, each replaced by the next one of the thread
\* or deactivated before it; a message that found no route on its thread
\* replaces none that it could have found.
RoutesSucceed ==
  \A i \in DOMAIN bindings :
    LET later == {j \in DOMAIN bindings : j > i /\ Thread(j) = Thread(i)}
    IN  /\ bindings[i].status = "active" => later = {}
        /\ bindings[i].status = "replaced" =>
             /\ bindings[i].by \in later /\ \A j \in later : bindings[i].by <= j
             /\ bindings[bindings[i].by].source.who = "message" => i > bindings[bindings[i].by].source.seen

\* What goes out goes over a route of the session that wrote it (a question, of
\* its conversation) that had not ended when it was written; no session writes
\* to one of another conversation.
MailStaysInside ==
  /\ \A m \in DOMAIN mail : Conv(mail[m].from) = Conv(mail[m].to)
  /\ \A x \in intents :
       LET r == bindings[x.route]  m == mail[x.message]
       IN  /\ r.status = "active" \/ r.end >= x.message
           /\ Conv(r.session) = Conv(m.to) /\ (m.kind = "reply" => r.session = m.to)

\* A thread has one route at a time, and what is written goes out over a route
\* its session has had since it was written.
RoutesAreKept == RoutesSucceed /\ MailStaysInside

\* A route that ended stays as it ended.
EndedRoutesStay ==
  [][\A i \in DOMAIN bindings : bindings[i].status # "active" => bindings'[i] = bindings[i]]_routesVars
=============================================================================

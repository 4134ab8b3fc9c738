------------------------------ MODULE Delivery ------------------------------
(***************************************************************************)
(* Outbound delivery: the table `outbound_intents`, the runtime that       *)
(* queues a run's messages, the connectors that deliver them (the drain    *)
(* loop of a connector, the Drain of every Prepare), the replies to        *)
(* control commands, which a handler records and delivers by itself, and   *)
(* the operator's redrive.                                                 *)
(*                                                                         *)
(* Every statement is a transaction of its own; the call to the messaging  *)
(* service lies between two of them and may fail, or succeed and lose its  *)
(* answer. No UPDATE looks at the status it replaces, except the redrive.  *)
(*                                                                         *)
(* Bounds: the sets of intents and deliverers, MaxAttempts (five in the    *)
(* code), MaxStops, MaxRedrives.                                           *)
(***************************************************************************)
EXTENDS Naturals

CONSTANTS
  RunIntents,   \* messages queued for runs
  Replies,      \* replies to control commands: rows without a run
  Drainers,     \* drain loops: the connector's, and those of Prepare in other processes
  Handlers,     \* goroutines that answer control commands
  Kinds,        \* the connectors, by what tells their dispatchers apart
  NoIntent,
  MaxAttempts, MaxStops, MaxRedrives

ASSUME DeliveryAssumption ==
  /\ RunIntents \cap Replies = {} /\ NoIntent \notin RunIntents \cup Replies
  /\ Drainers \cap Handlers = {}
  /\ Kinds \subseteq {"telegram", "whatsapp", "zalo"}
  /\ MaxAttempts \in Nat \ {0} /\ MaxStops \in Nat /\ MaxRedrives \in Nat

VARIABLES
  kind,       \* the connector at work; never changes
  intent,     \* the rows of outbound_intents
  deliverer,  \* per goroutine: what Drain listed, the intent in hand, its attempt
  out,        \* the intents whose message went out at least once
  known,      \* how often it went out and its deliverer knew
  failed,     \* the intents with a delivery_failed event since their last redrive
  budget      \* stops and redrives left

deliveryVars == <<kind, intent, deliverer, out, known, failed, budget>>
traffic == <<out, known>>

Intents == RunIntents \cup Replies
Deliverers == Drainers \cup Handlers
Resting == [pc |-> "idle", todo |-> {}, cur |-> NoIntent, attempt |-> 0]

DeliveryInit ==
  /\ kind \in Kinds
  /\ intent = [i \in Intents |-> "none"]
  /\ deliverer = [p \in Deliverers |-> Resting]
  /\ out = {}
  /\ known = [i \in RunIntents |-> 0]
  /\ failed = {}
  /\ budget = [stops |-> MaxStops, redrives |-> MaxRedrives]

Open(i) == intent[i] \in {"pending", "retrying"}
Exists(i) == intent[i] \notin {"none", "gone"}

-----------------------------------------------------------------------------
(* Recording an intent.                                                    *)

Record(i) ==
  /\ intent[i] = "none"
  /\ intent' = [intent EXCEPT ![i] = "pending"]

\* A run's message. Its dedupe key is the message's own, so the check before
\* the INSERT never finds one.
QueueOutboundIntent(i) ==
  /\ Record(i)
  /\ UNCHANGED <<kind, deliverer, traffic, failed, budget>>

\* A handler answers a control command and delivers the answer itself; Zalo
\* has no control commands.
Send(p, i) ==
  /\ kind # "zalo"
  /\ deliverer[p].pc = "idle"
  /\ Record(i)
  /\ deliverer' = [deliverer EXCEPT ![p] = [Resting EXCEPT !.pc = "send", !.cur = i, !.attempt = 1]]
  /\ UNCHANGED <<kind, traffic, failed, budget>>

-----------------------------------------------------------------------------
(* Drain and deliverWithRetry.                                             *)

\* Mutant: rows that were tried once are not listed.
OnlyPending == {i \in Intents : intent[i] = "pending"}

Pending == {i \in Intents : Open(i)}

\* Telegram scans run_id into a string: a row without a run fails the whole
\* Drain, before anything is delivered.
Drain(p) ==
  /\ deliverer[p].pc = "idle"
  /\ Pending # {}
  /\ kind = "telegram" => Pending \cap Replies = {}
  /\ deliverer' = [deliverer EXCEPT ![p] = [Resting EXCEPT !.pc = "next", !.todo = Pending]]
  /\ UNCHANGED <<kind, intent, traffic, failed, budget>>

TakeNext(p) ==
  LET d == deliverer[p] IN
  /\ d.pc = "next"
  /\ \/ d.todo = {} /\ deliverer' = [deliverer EXCEPT ![p] = Resting]
     \/ \E i \in d.todo : deliverer' = [deliverer EXCEPT ![p] =
          [pc |-> "send", todo |-> d.todo \ {i}, cur |-> i, attempt |-> 1]]
  /\ UNCHANGED <<kind, intent, traffic, failed, budget>>

\* The call to the service: it fails, it succeeds, or it succeeds and the
\* answer is lost.
Attempt(p) ==
  LET i == deliverer[p].cur IN
  /\ deliverer[p].pc = "send"
  /\ \/ /\ deliverer' = [deliverer EXCEPT ![p].pc = "sent"]
        /\ out' = out \cup ({i} \cap RunIntents)
        /\ known' = [j \in RunIntents |-> known[j] + (IF i = j THEN 1 ELSE 0)]
     \/ /\ deliverer' = [deliverer EXCEPT ![p].pc = "refused"]
        /\ UNCHANGED traffic
     \/ /\ deliverer' = [deliverer EXCEPT ![p].pc = "refused"]
        /\ out' = out \cup ({i} \cap RunIntents) /\ UNCHANGED known
  /\ UNCHANGED <<kind, intent, failed, budget>>

\* The UPDATE by id; it finds no row after a reset.
Mark(i, status) ==
  intent' = IF Exists(i)
            THEN [intent EXCEPT ![i] = status]
            ELSE intent

\* What a deliverer does after an intent. Zalo's Drain returns at an error and
\* leaves the rest to the next pass; the others ignore it.
AfterIntent(p, gaveUp) ==
  LET d == deliverer[p] IN
  deliverer' = [deliverer EXCEPT ![p] =
    IF p \in Handlers \/ (gaveUp /\ kind = "zalo") THEN Resting
    ELSE [Resting EXCEPT !.pc = "next", !.todo = d.todo]]

\* Mutant: the error of the call is not looked at.
MarkDeliveredAnyway(p) ==
  LET d == deliverer[p] IN
  /\ d.pc \in {"sent", "refused"}
  /\ Mark(d.cur, "delivered")
  /\ AfterIntent(p, FALSE)
  /\ UNCHANGED <<kind, traffic, failed, budget>>

MarkDelivered(p) ==
  LET d == deliverer[p] IN
  /\ d.pc = "sent"
  /\ Mark(d.cur, "delivered")
  /\ AfterIntent(p, FALSE)
  /\ UNCHANGED <<kind, traffic, failed, budget>>

\* Mutant: one attempt too many.
MarkRetryingOnceMore(p) ==
  LET d == deliverer[p] IN
  /\ d.pc = "refused"
  /\ Mark(d.cur, "retrying")
  /\ deliverer' = [deliverer EXCEPT
       ![p].pc = IF d.attempt <= MaxAttempts THEN "send" ELSE "give_up",
       ![p].attempt = IF d.attempt <= MaxAttempts THEN @ + 1 ELSE @]
  /\ UNCHANGED <<kind, traffic, failed, budget>>

MarkRetrying(p) ==
  LET d == deliverer[p] IN
  /\ d.pc = "refused"
  /\ Mark(d.cur, "retrying")
  /\ deliverer' = [deliverer EXCEPT
       ![p].pc = IF d.attempt < MaxAttempts THEN "send" ELSE "give_up",
       ![p].attempt = IF d.attempt < MaxAttempts THEN @ + 1 ELSE @]
  /\ UNCHANGED <<kind, traffic, failed, budget>>

\* Mutant: the UPDATE is the last thing done.
MarkTerminalOnly(p) ==
  LET d == deliverer[p] IN
  /\ d.pc = "give_up"
  /\ Mark(d.cur, "terminal")
  /\ AfterIntent(p, TRUE)
  /\ UNCHANGED <<kind, traffic, failed, budget>>

MarkTerminal(p) ==
  LET d == deliverer[p] IN
  /\ d.pc = "give_up"
  /\ Mark(d.cur, "terminal")
  /\ deliverer' = [deliverer EXCEPT ![p].pc = "journal"]
  /\ UNCHANGED <<kind, traffic, failed, budget>>

\* AppendDeliveryFailedEvent finds the run's conversation, or writes nothing.
Journaled(i) == i \in RunIntents /\ Exists(i)

AppendDeliveryFailed(p) ==
  LET d == deliverer[p] IN
  /\ d.pc = "journal"
  /\ failed' = IF Journaled(d.cur) THEN failed \cup {d.cur} ELSE failed
  /\ AfterIntent(p, TRUE)
  /\ UNCHANGED <<kind, intent, traffic, budget>>

-----------------------------------------------------------------------------
(* Everyone else.                                                          *)

\* Mutant: the UPDATE has no guard.
RedriveAnything(i) ==
  /\ Exists(i) /\ budget.redrives > 0
  /\ intent' = [intent EXCEPT ![i] = "pending"]
  /\ budget' = [budget EXCEPT !.redrives = @ - 1]
  /\ UNCHANGED <<kind, deliverer, traffic, failed>>

\* The operator retries a delivery that gave up: delivery_redrive_requested.
RetryDelivery(i) ==
  /\ intent[i] = "terminal" /\ budget.redrives > 0
  /\ intent' = [intent EXCEPT ![i] = "pending"]
  /\ budget' = [budget EXCEPT !.redrives = @ - 1]
  /\ failed' = failed \ {i}
  /\ UNCHANGED <<kind, deliverer, traffic>>

\* ResetConversation deletes the intents of the conversation's runs.
ResetIntents ==
  /\ \E i \in RunIntents : Exists(i)
  /\ intent' = [i \in Intents |-> IF i \in RunIntents /\ Exists(i)
                                  THEN "gone" ELSE intent[i]]
  /\ UNCHANGED <<kind, deliverer, traffic, failed, budget>>

\* The process stops or its context is cancelled: every later call and
\* statement of its goroutines fails. The supervisor does the same to a
\* connector that it restarts.
StopDelivery ==
  /\ budget.stops > 0
  /\ budget' = [budget EXCEPT !.stops = @ - 1]
  /\ known' = [i \in RunIntents |->
       IF \E p \in Deliverers : deliverer[p].pc = "sent" /\ deliverer[p].cur = i
       THEN 0 ELSE known[i]]
  /\ deliverer' = [p \in Deliverers |-> Resting]
  /\ UNCHANGED <<kind, intent, out, failed>>

-----------------------------------------------------------------------------

DelivererStep(p) ==
  \/ TakeNext(p) \/ Attempt(p) \/ MarkDelivered(p) \/ MarkRetrying(p)
  \/ MarkTerminal(p) \/ AppendDeliveryFailed(p)

DeliveryNext ==
  \/ \E i \in RunIntents : QueueOutboundIntent(i) \/ RetryDelivery(i)
  \/ \E p \in Handlers, i \in Replies : Send(p, i)
  \/ \E p \in Drainers : Drain(p)
  \/ \E p \in Deliverers : DelivererStep(p)
  \/ ResetIntents
  \/ StopDelivery

DeliverySpec == DeliveryInit /\ [][DeliveryNext]_deliveryVars

\* The ticker of Telegram and WhatsApp drains again and again, and goroutines
\* go on. Zalo drains once per session, before it listens, and a session that
\* stays up never drains again: nothing is assumed of it.
DeliveryFairness ==
  /\ \A p \in Drainers : WF_deliveryVars(kind # "zalo" /\ Drain(p))
  /\ \A p \in Deliverers : WF_deliveryVars(DelivererStep(p))

DeliveryFairSpec == DeliverySpec /\ DeliveryFairness

-----------------------------------------------------------------------------
(* Properties.                                                             *)

IntentStatus == {"none", "pending", "retrying", "delivered", "terminal", "gone"}
DelivererPc == {"idle", "next", "send", "sent", "refused", "give_up", "journal"}

\* Every variable has its type; nobody counts beyond MaxAttempts
\* (deliverWithRetry).
DeliveryTypeOK ==
  /\ kind \in Kinds
  /\ intent \in [Intents -> IntentStatus]
  /\ deliverer \in [Deliverers ->
       [pc : DelivererPc, todo : SUBSET Intents, cur : Intents \cup {NoIntent},
        attempt : 0..MaxAttempts]]
  /\ out \subseteq RunIntents /\ known \in [RunIntents -> Nat]
  /\ failed \subseteq RunIntents
  /\ budget \in [stops : 0..MaxStops, redrives : 0..MaxRedrives]

\* A run's message goes out again only after a time it went out and the
\* program could not know: a lost answer, or a stop between the call and the
\* UPDATE. Neither the retries, nor the next Drain, nor a redrive repeat a
\* message that is known to have arrived.
NoNeedlessRepeat == \A i \in RunIntents : known[i] <= 1

\* A delivery that gave up is in the journal, or about to be, unless a stop
\* came between the two statements: the recovery page and the log agree.
GivingUpIsJournaled ==
  \A i \in RunIntents :
    intent[i] = "terminal" =>
      \/ i \in failed
      \/ \E p \in Deliverers : deliverer[p].pc = "journal" /\ deliverer[p].cur = i
      \/ budget.stops < MaxStops

BoxOf(i) ==
  CASE Open(i) -> "queued" [] intent[i] = "terminal" -> "failed" [] OTHER -> intent[i]

\* The deliveries of runs implement the outbox.
Promise == INSTANCE Outbox WITH Items <- RunIntents, box <- [i \in RunIntents |-> BoxOf(i)]
ImplementsOutbox == Promise!OutboxSpec

\* Nobody drains: Telegram's Drain cannot read a reply that no goroutine
\* delivers any more, and a Zalo session drains only when it begins.
Undrained ==
  \/ kind = "zalo"
  \/ /\ kind = "telegram"
     /\ \E i \in Replies : Open(i) /\ \A p \in Deliverers : deliverer[p].cur # i

Settled(i) == intent[i] \in {"delivered", "terminal", "gone"}

\* Every message is delivered, given up or forgotten in the end, across stops,
\* as long as somebody drains.
MessagesSettle == \A i \in RunIntents : Open(i) ~> (Settled(i) \/ Undrained)

\* "Drain delivers all pending/retrying intents from a previous session."
DrainDeliversAll == \A i \in RunIntents : Open(i) ~> Settled(i)
=============================================================================

-------------------------- MODULE ConnectorProofs ---------------------------
(*****************************************************************************)
(* Typing indicators, for every number of loops and controllers and every    *)
(* limit of the breaker: types, and that nobody types without the manager's  *)
(* knowledge.  The supervisor, for every number of connectors, every kind of *)
(* connector and every length of its durations: no connector is started while *)
(* its last start is still at work.  The Zalo session, for every number of   *)
(* messages, failures and retries and every size of its buffers: the         *)
(* connector and the listener agree on how the session is.                   *)
(*                                                                           *)
(* Outbound delivery and Telegram's drafts: Delivery implements the outbox,  *)
(* and repeats no message that is known to have arrived, for every number of *)
(* messages, replies and handlers, every connector and every limit, as long  *)
(* as one goroutine drains: two drains beside each other may give a message  *)
(* up and deliver it, as no UPDATE looks at the status it replaces.          *)
(*                                                                           *)
(* Inbound messages, for every number of messages, goroutines, deliveries and *)
(* incidents: a conversation has one root run, and each message is taken once. *)
(*****************************************************************************)
EXTENDS MCConnectors, FiniteSetTheorems, SequenceTheorems, TLAPS

-----------------------------------------------------------------------------
(* Presence.                                                               *)

(* Only a loop that is about to stop a controller holds one, and a breaker  *)
(* that tripped has ended its goroutine.                                   *)
HoldsWhatItStops ==
  \A p \in Loops : loop[p].pc \in {"out", "working"} => loop[p].holds = NoController
BreakerHolds ==
  \A c \in Controllers : controller[c].goroutine # "done" => failing[c] < MaxConsecutiveFailures

PresenceInv == PresenceTypeOK /\ BreakerHolds /\ HoldsWhatItStops /\ OnlyTheCurrentTypes

Controls == [stopped : BOOLEAN, cancelled : BOOLEAN, goroutine : ControllerStates]
Works == [pc : {"out", "working", "leaving", "marking"}, holds : Controllers \cup {NoController}]

-----------------------------------------------------------------------------

LEMMA PresenceInitInv == PresenceInit => PresenceInv
<1> SUFFICES ASSUME PresenceInit PROVE PresenceInv
  OBVIOUS
<1> USE PresenceAssumption DEF PresenceInit
<1>1. PresenceTypeOK
  BY DEF PresenceTypeOK, ControllerStates
<1>2. BreakerHolds /\ HoldsWhatItStops
  BY DEF BreakerHolds, HoldsWhatItStops
<1>3. OnlyTheCurrentTypes
  BY DEF OnlyTheCurrentTypes, Made
<1> QED
  BY <1>1, <1>2, <1>3 DEF PresenceInv

(* The step of one loop.                                                   *)
LEMMA LoopStepInv ==
  ASSUME PresenceInv, NEW p \in Loops,
         StartPresence(p) \/ StopPresence(p) \/ MarkOutput(p) \/ StopHeld(p)
  PROVE  PresenceInv'
<1> USE PresenceAssumption
<1>t. /\ current \in Controllers \cup {NoController}
      /\ controller \in [Controllers -> Controls] /\ loop \in [Loops -> Works]
      /\ failing \in [Controllers -> 0..MaxConsecutiveFailures]
  BY DEF PresenceInv, PresenceTypeOK, Controls, Works
<1>h. \A q \in Loops : loop[q].pc \in {"out", "working"} => loop[q].holds = NoController
  BY DEF PresenceInv, HoldsWhatItStops
<1>b. BreakerHolds /\ OnlyTheCurrentTypes
  BY DEF PresenceInv
<1>1. CASE StartPresence(p)
  <2>1. loop' = [loop EXCEPT ![p].pc = "working"] /\ failing' = failing /\ loop[p].pc = "out"
    BY <1>1 DEF StartPresence
  <2>2. HoldsWhatItStops' /\ loop' \in [Loops -> Works] /\ \A q \in Loops : loop'[q].holds = loop[q].holds
    BY <2>1, <1>t, <1>h DEF HoldsWhatItStops, Works
  <2>3. CASE current # NoController /\ UNCHANGED <<current, controller>>
    BY <2>1, <2>2, <2>3, <1>t, <1>b
    DEF PresenceInv, PresenceTypeOK, Controls, Works, BreakerHolds, OnlyTheCurrentTypes, Made, BeingStopped
  <2>4. CASE /\ current = NoController
             /\ \E c \in Controllers \ Made :
                  current' = c /\ controller' = [controller EXCEPT ![c].goroutine = "delay"]
    <3>1. PICK c \in Controllers \ Made :
            current' = c /\ controller' = [controller EXCEPT ![c].goroutine = "delay"]
      BY <2>4
    <3>2. controller[c].goroutine = "unborn"
      BY <3>1 DEF Made
    <3>3. controller' \in [Controllers -> Controls]
      BY <3>1, <1>t DEF Controls, ControllerStates
    <3>4. \A d \in Controllers : /\ controller'[d].stopped = controller[d].stopped
                                 /\ d # c => controller'[d] = controller[d]
      BY <3>1, <1>t DEF Controls
    <3>5. BreakerHolds'
      BY <3>2, <3>4, <2>1, <1>b, <1>t DEF BreakerHolds
    <3>6. OnlyTheCurrentTypes'
      BY <3>1, <3>4, <2>2, <2>4, <1>b, <1>t DEF OnlyTheCurrentTypes, Made, BeingStopped
    <3> QED
      BY <3>1, <3>3, <3>5, <3>6, <2>1, <2>2, <1>t DEF PresenceInv, PresenceTypeOK, Controls, Works
  <2> QED
    BY <1>1, <2>3, <2>4 DEF StartPresence
<1>2. CASE StopPresence(p)
  <2>1. /\ loop[p].pc = "working" /\ loop' = [loop EXCEPT ![p] = [pc |-> "leaving", holds |-> current]]
        /\ current' = NoController /\ controller' = controller /\ failing' = failing
    BY <1>2 DEF StopPresence
  <2>2. loop' \in [Loops -> Works] /\ HoldsWhatItStops'
    BY <2>1, <1>t, <1>h DEF Works, HoldsWhatItStops
  <2>3. OnlyTheCurrentTypes'
    BY <2>1, <1>t, <1>h, <1>b DEF OnlyTheCurrentTypes, Made, BeingStopped, Works
  <2> QED
    BY <2>1, <2>2, <2>3, <1>t, <1>b DEF PresenceInv, PresenceTypeOK, BreakerHolds, Controls, Works
<1>3. CASE MarkOutput(p)
  <2>1. /\ loop[p].pc = "working" /\ loop' = [loop EXCEPT ![p] = [pc |-> "marking", holds |-> current]]
        /\ current' = current /\ controller' = controller /\ failing' = failing
    BY <1>3 DEF MarkOutput
  <2>2. loop' \in [Loops -> Works] /\ HoldsWhatItStops'
    BY <2>1, <1>t, <1>h DEF Works, HoldsWhatItStops
  <2>3. OnlyTheCurrentTypes'
    BY <2>1, <1>t, <1>h, <1>b DEF OnlyTheCurrentTypes, Made, BeingStopped, Works
  <2> QED
    BY <2>1, <2>2, <2>3, <1>t, <1>b DEF PresenceInv, PresenceTypeOK, BreakerHolds, Controls, Works
<1>4. CASE StopHeld(p)
  <2> DEFINE c == loop[p].holds
  <2>1. /\ controller' = IF c = NoController THEN controller ELSE Stopped(c)
        /\ loop' = [loop EXCEPT ![p] = [pc |-> IF @.pc = "leaving" THEN "out" ELSE "working",
                                        holds |-> NoController]]
        /\ current' = current /\ failing' = failing
    BY <1>4 DEF StopHeld
  <2>2. loop' \in [Loops -> Works] /\ HoldsWhatItStops'
    BY <2>1, <1>t, <1>h DEF Works, HoldsWhatItStops
  <2>3. controller' \in [Controllers -> Controls]
    BY <2>1, <1>t, ZenonT(60) DEF Stopped, Controls, Works
  <2>4. /\ \A d \in Controllers : /\ controller'[d].goroutine = controller[d].goroutine
                                  /\ controller[d].stopped => controller'[d].stopped
        /\ c # NoController => controller'[c].stopped
    BY <2>1, <1>t DEF Stopped, Controls, Works
  <2>5. OnlyTheCurrentTypes'
    <3> SUFFICES ASSUME NEW d \in Made'
                 PROVE  d = current' \/ controller'[d].stopped \/ BeingStopped(d)'
      BY DEF OnlyTheCurrentTypes
    <3>1. d \in Controllers /\ d \in Made /\ d # NoController
      BY <2>4 DEF Made
    <3>2. CASE d = c
      BY <3>1, <3>2, <2>4
    <3>3. CASE d # c
      BY <3>1, <3>3, <2>1, <2>4, <1>b, <1>t DEF OnlyTheCurrentTypes, BeingStopped, Works
    <3> QED
      BY <3>2, <3>3
  <2>6. BreakerHolds'
    BY <2>1, <2>4, <1>b DEF BreakerHolds
  <2> QED
    BY <2>1, <2>2, <2>3, <2>5, <2>6, <1>t DEF PresenceInv, PresenceTypeOK, Controls, Works
<1> QED
  BY <1>1, <1>2, <1>3, <1>4

(* The step of one goroutine: it stops nobody but itself.                  *)
LEMMA ControllerStepInv ==
  ASSUME PresenceInv, NEW c \in Controllers, ControllerStep(c)
  PROVE  PresenceInv'
<1> USE PresenceAssumption
<1>t. /\ current \in Controllers \cup {NoController}
      /\ controller \in [Controllers -> Controls] /\ loop \in [Loops -> Works]
      /\ failing \in [Controllers -> 0..MaxConsecutiveFailures]
  BY DEF PresenceInv, PresenceTypeOK, Controls, Works
<1>h. BreakerHolds /\ HoldsWhatItStops /\ OnlyTheCurrentTypes
  BY DEF PresenceInv
<1>1. current' = current /\ loop' = loop
  BY DEF ControllerStep, BeginEmit, EmitSucceeds, EmitFails, Expire, SeesCancel
<1>2. /\ controller[c].goroutine \in {"delay", "keepalive", "emit"}
      /\ controller' \in [Controllers -> Controls]
      /\ \A d \in Controllers : /\ d # c => controller'[d] = controller[d]
                                /\ controller[d].stopped => controller'[d].stopped
      /\ failing' \in [Controllers -> 0..MaxConsecutiveFailures]
      /\ \A d \in Controllers \ {c} : failing'[d] = failing[d]
      /\ controller'[c].goroutine # "done" => failing'[c] < MaxConsecutiveFailures
  <2>0. controller[c].goroutine # "done" => failing[c] < MaxConsecutiveFailures
    BY <1>h DEF BreakerHolds
  <2>1. CASE BeginEmit(c)
    BY <2>0, <2>1, <1>t DEF BeginEmit, GoOn, Controls, ControllerStates
  <2>2. CASE EmitSucceeds(c)
    BY <2>0, <2>2, <1>t DEF EmitSucceeds, GoOn, Controls, ControllerStates
  <2>3. CASE EmitFails(c)
    <3>1. controller[c].goroutine = "emit" /\ failing' = [failing EXCEPT ![c] = @ + 1]
      BY <2>3 DEF EmitFails
    <3>2. failing' \in [Controllers -> 0..MaxConsecutiveFailures] /\ failing'[c] = failing[c] + 1
      BY <3>1, <2>0, <1>t
    <3>3. CASE failing'[c] >= MaxConsecutiveFailures
      BY <2>3, <3>1, <3>2, <3>3, <1>t DEF EmitFails, Trips, Stopped, Controls, ControllerStates
    <3>4. CASE ~(failing'[c] >= MaxConsecutiveFailures)
      BY <2>3, <3>1, <3>2, <3>4, <1>t DEF EmitFails, Trips, GoOn, Controls, ControllerStates
    <3> QED
      BY <3>3, <3>4
  <2>4. CASE Expire(c)
    BY <2>0, <2>4, <1>t DEF Expire, Stopped, Controls, ControllerStates
  <2>5. CASE SeesCancel(c)
    BY <2>0, <2>5, <1>t DEF SeesCancel, GoOn, Controls, ControllerStates
  <2> QED
    BY <2>1, <2>2, <2>3, <2>4, <2>5 DEF ControllerStep
<1>3. BreakerHolds' /\ HoldsWhatItStops'
  BY <1>1, <1>2, <1>h DEF BreakerHolds, HoldsWhatItStops
<1>4. OnlyTheCurrentTypes'
  BY <1>1, <1>2, <1>h DEF OnlyTheCurrentTypes, Made, BeingStopped
<1> QED
  BY <1>1, <1>2, <1>3, <1>4, <1>t DEF PresenceInv, PresenceTypeOK, Controls, Works

LEMMA PresenceStepInv == PresenceInv /\ [PresenceNext]_presenceVars => PresenceInv'
<1> SUFFICES ASSUME PresenceInv, [PresenceNext]_presenceVars PROVE PresenceInv'
  OBVIOUS
<1>1. CASE UNCHANGED presenceVars
  BY <1>1 DEF presenceVars, PresenceInv, PresenceTypeOK, BreakerHolds, HoldsWhatItStops,
              OnlyTheCurrentTypes, Made, BeingStopped
<1>2. CASE PresenceNext
  BY <1>2, LoopStepInv, ControllerStepInv DEF PresenceNext
<1> QED
  BY <1>1, <1>2

LEMMA PresenceInvariant == PresenceSpec => []PresenceInv
<1> QED
  BY PresenceInitInv, PresenceStepInv, PTL DEF PresenceSpec

-----------------------------------------------------------------------------

(* Every variable of the typing indicators has its type, and no controller  *)
(* fails more often in a row than the breaker allows.                      *)
THEOREM PresenceTypes == PresenceSpec => []PresenceTypeOK
<1>1. PresenceInv => PresenceTypeOK
  BY DEF PresenceInv
<1> QED
  BY <1>1, PresenceInvariant, PTL

(* A controller that is not stopped is the route's own or is about to be    *)
(* stopped (Manager.Start, Stop, MarkOutputStarted, MarkPaused).           *)
THEOREM NobodyElseTypes == PresenceSpec => []OnlyTheCurrentTypes
<1>1. PresenceInv => OnlyTheCurrentTypes
  BY DEF PresenceInv
<1> QED
  BY <1>1, PresenceInvariant, PTL

-----------------------------------------------------------------------------
(* The supervisor.                                                         *)

Supervised == [running : BOOLEAN, done : Exits, requested : BOOLEAN, wait : Nat,
               stamps : SUBSET Nat, age : Nat]

(* The types the argument needs.                                           *)
SupervisedOK ==
  /\ state \in [Connectors -> Supervised]
  /\ live \in [Connectors -> 0..1]

(* A result that was not collected is of a call that nobody makes any more. *)
ResultsAreOfEndedCalls ==
  \A c \in Connectors : /\ state[c].done # "none" => live[c] = 0 /\ state[c].running
                        /\ live[c] = 1 => state[c].running
                        /\ state[c].running => live[c] = 1 \/ state[c].done # "none"

SupervisorInv == SupervisedOK /\ ResultsAreOfEndedCalls

-----------------------------------------------------------------------------

LEMMA SupervisorInitInv == SupervisorInit => SupervisorInv
<1> SUFFICES ASSUME SupervisorInit PROVE SupervisorInv
  OBVIOUS
<1>1. Started \in Supervised /\ Started.running /\ Started.done = "none"
  BY DEF Started, Supervised, Exits
<1> QED
  BY <1>1 DEF SupervisorInit, SupervisorInv, SupervisedOK, ResultsAreOfEndedCalls

(* requestRestart touches neither the flag nor the result.                 *)
LEMMA RequestRestartKeeps ==
  ASSUME NEW s \in Supervised
  PROVE  /\ RequestRestart(s) \in Supervised
         /\ RequestRestart(s).running = s.running /\ RequestRestart(s).done = s.done
<1>1. RestartCooldown \in Nat /\ {0} \subseteq Nat
  BY SupervisorAssumption
<1>2. CASE Cardinality(s.stamps) >= MaxRestartsPerHour
  BY <1>2 DEF RequestRestart, Supervised
<1>3. CASE ~(Cardinality(s.stamps) >= MaxRestartsPerHour)
  <2>1. s.stamps \cup {0} \in SUBSET Nat
    BY DEF Supervised
  <2> QED
    BY <1>1, <1>3, <2>1 DEF RequestRestart, Supervised
<1> QED
  BY <1>2, <1>3

(* collectExit takes the result, and with it the flag.                     *)
LEMMA CollectExitKeeps ==
  ASSUME NEW s \in Supervised
  PROVE  /\ CollectExit(s) \in Supervised
         /\ (s.running /\ s.done # "none") =>
              ~CollectExit(s).running /\ CollectExit(s).done = "none"
         /\ ~(s.running /\ s.done # "none") => CollectExit(s) = s
<1>1. CASE s.running /\ s.done # "none"
  <2> DEFINE collected == [s EXCEPT !.running = FALSE, !.done = "none"]
  <2>1. collected \in Supervised /\ ~collected.running /\ collected.done = "none"
    BY DEF Supervised, Exits
  <2>2. CollectExit(s) \in {RequestRestart(collected), collected}
    BY <1>1 DEF CollectExit
  <2> HIDE DEF collected
  <2> QED
    BY <1>1, <2>1, <2>2, RequestRestartKeeps
<1>2. CASE ~(s.running /\ s.done # "none")
  BY <1>2 DEF CollectExit
<1> QED
  BY <1>1, <1>2

LEMMA RestartIfDegradedKeeps ==
  ASSUME NEW c \in Connectors, NEW s \in Supervised
  PROVE  /\ RestartIfDegraded(s, c) \in Supervised
         /\ RestartIfDegraded(s, c).running = s.running
         /\ RestartIfDegraded(s, c).done = s.done
<1> QED
  BY RequestRestartKeeps DEF RestartIfDegraded

(* startPending                                                            *)
LEMMA StartPendingKeeps ==
  ASSUME NEW s \in Supervised
  PROVE  LET begun == [s EXCEPT !.running = TRUE, !.requested = FALSE, !.age = 0]
         IN  begun \in Supervised /\ begun.running /\ begun.done = s.done
<1> QED
  BY DEF Supervised

(* A tick starts only what was collected and is not at work.               *)
LEMMA TickInv == SupervisorInv /\ SupervisorTick => SupervisorInv'
<1> SUFFICES ASSUME SupervisorInv, SupervisorTick PROVE SupervisorInv'
  OBVIOUS
<1> DEFINE collected == [c \in Connectors |-> CollectExit(state[c])]
           after == [c \in Connectors |-> RestartIfDegraded(collected[c], c)]
           begun == {c \in Connectors : PendingStart(after[c])}
<1>1. state' = [c \in Connectors |->
        IF c \in begun THEN [after[c] EXCEPT !.running = TRUE, !.requested = FALSE, !.age = 0]
                       ELSE after[c]]
  BY DEF SupervisorTick
<1>0. live' = [c \in Connectors |-> live[c] + (IF c \in begun THEN 1 ELSE 0)]
  BY DEF SupervisorTick
<1>2. ASSUME NEW c \in Connectors
      PROVE  /\ after[c] \in Supervised /\ after[c].done = "none"
             /\ after[c].running <=> live[c] = 1
             /\ live[c] \in 0..1
  <2>1. state[c] \in Supervised /\ live[c] \in 0..1
    BY DEF SupervisorInv, SupervisedOK
  <2>2. /\ state[c].done # "none" => live[c] = 0 /\ state[c].running
        /\ live[c] = 1 => state[c].running
        /\ state[c].running => live[c] = 1 \/ state[c].done # "none"
    BY DEF SupervisorInv, ResultsAreOfEndedCalls
  <2>3. /\ collected[c] \in Supervised /\ collected[c].done = "none"
        /\ collected[c].running <=> live[c] = 1
    BY <2>1, <2>2, CollectExitKeeps DEF Supervised
  <2>4. after[c] = RestartIfDegraded(collected[c], c)
    OBVIOUS
  <2> HIDE DEF collected, after
  <2> QED
    BY <2>1, <2>3, <2>4, RestartIfDegradedKeeps DEF Supervised
<1>3. ASSUME NEW c \in begun PROVE c \in Connectors /\ ~after[c].running
  BY DEF PendingStart
<1> HIDE DEF collected, after, begun
<1>4. ASSUME NEW c \in Connectors
      PROVE  /\ state'[c] \in Supervised /\ state'[c].done = "none" /\ live'[c] \in 0..1
             /\ state'[c].running <=> live'[c] = 1
  <2>1. CASE c \in begun
    <3> DEFINE started == [after[c] EXCEPT !.running = TRUE, !.requested = FALSE, !.age = 0]
    <3>1. state'[c] = started
      BY <1>1, <2>1
    <3>2. live[c] # 1
      BY <1>2, <1>3, <2>1, Zenon
    <3>5. live[c] \in 0..1
      BY DEF SupervisorInv, SupervisedOK
    <3>3. live'[c] = 1
      BY <1>0, <2>1, <3>2, <3>5
    <3>4. started \in Supervised /\ started.running /\ started.done = after[c].done
      BY <1>2, StartPendingKeeps, Zenon
    <3> HIDE DEF started
    <3>6. state'[c] \in Supervised /\ state'[c].running /\ state'[c].done = "none"
      BY <3>1, <3>4, <1>2, Zenon
    <3>7. live'[c] \in 0..1
      BY <3>3
    <3> QED
      BY <3>3, <3>6, <3>7, Zenon
  <2>2. CASE c \notin begun
    <3>1. state'[c] = after[c]
      BY <1>1, <2>2
    <3>2. live[c] \in 0..1
      BY DEF SupervisorInv, SupervisedOK
    <3>3. live'[c] = live[c]
      BY <1>0, <2>2, <3>2
    <3> QED
      BY <1>2, <3>1, <3>2, <3>3, Zenon
  <2> QED
    BY <2>1, <2>2
<1>5. SupervisedOK'
  BY <1>0, <1>1, <1>4 DEF SupervisedOK
<1>6. ResultsAreOfEndedCalls'
  BY <1>4 DEF ResultsAreOfEndedCalls
<1> QED
  BY <1>5, <1>6 DEF SupervisorInv

LEMMA StartReturnsInv ==
  ASSUME SupervisorInv, NEW c \in Connectors, StartReturns(c) PROVE SupervisorInv'
<1>1. /\ live[c] > 0 /\ state[c].done = "none" /\ live' = [live EXCEPT ![c] = @ - 1]
      /\ \E exit \in {"nil", "cancelled"} : state' = [state EXCEPT ![c].done = exit]
  BY DEF StartReturns
<1>2. PICK exit \in {"nil", "cancelled"} : state' = [state EXCEPT ![c].done = exit]
  BY <1>1
<1>3. SupervisedOK'
  BY <1>1, <1>2 DEF SupervisorInv, SupervisedOK, Supervised, Exits
<1>4. /\ live'[c] = 0 /\ live[c] = 1 /\ state'[c].running = state[c].running
      /\ state'[c].done = exit /\ \A d \in Connectors \ {c} : state'[d] = state[d] /\ live'[d] = live[d]
  BY <1>1, <1>2 DEF SupervisorInv, SupervisedOK, Supervised
<1>5. ResultsAreOfEndedCalls'
  BY <1>4 DEF SupervisorInv, ResultsAreOfEndedCalls
<1> QED
  BY <1>3, <1>5 DEF SupervisorInv

LEMMA PassInv == SupervisorInv /\ Pass => SupervisorInv'
<1> SUFFICES ASSUME SupervisorInv, Pass PROVE SupervisorInv'
  OBVIOUS
<1> DEFINE older(set) == {n + 1 : n \in {m \in set : m + 1 < Hour}}
           oldState(c) == [state[c] EXCEPT !.wait = IF @ > 0 THEN @ - 1 ELSE 0,
                                           !.stamps = older(@), !.age = Oldest(@, StartupGrace)]
<1>1. state' = [c \in Connectors |-> oldState(c)] /\ live' = live
  BY DEF Pass
<1>2. ASSUME NEW c \in Connectors
      PROVE  oldState(c) \in Supervised /\ oldState(c).running = state[c].running
             /\ oldState(c).done = state[c].done
  <2>1. state[c] \in Supervised
    BY DEF SupervisorInv, SupervisedOK
  <2>2. older(state[c].stamps) \in SUBSET Nat
    BY <2>1 DEF Supervised
  <2>3. Oldest(state[c].age, StartupGrace) \in Nat
    BY <2>1, SupervisorAssumption DEF Supervised, Oldest
  <2>4. (IF state[c].wait > 0 THEN state[c].wait - 1 ELSE 0) \in Nat
    BY <2>1 DEF Supervised
  <2> HIDE DEF older
  <2> QED
    BY <2>1, <2>2, <2>3, <2>4 DEF Supervised
<1> HIDE DEF oldState
<1>3. SupervisedOK'
  BY <1>1, <1>2 DEF SupervisorInv, SupervisedOK
<1>4. ResultsAreOfEndedCalls'
  BY <1>1, <1>2 DEF SupervisorInv, ResultsAreOfEndedCalls
<1> QED
  BY <1>3, <1>4 DEF SupervisorInv

LEMMA SupervisorStepInv == SupervisorInv /\ [SupervisorNext]_supervisorVars => SupervisorInv'
<1> SUFFICES ASSUME SupervisorInv, [SupervisorNext]_supervisorVars PROVE SupervisorInv'
  OBVIOUS
<1>1. ASSUME state' = state, live' = live PROVE SupervisorInv'
  BY <1>1 DEF SupervisorInv, SupervisedOK, ResultsAreOfEndedCalls
<1>2. CASE UNCHANGED supervisorVars
  BY <1>1, <1>2 DEF supervisorVars
<1>3. ASSUME NEW c \in Connectors, MarkSuccess(c) \/ MarkDrainSuccess(c) \/ MarkFailure(c)
      PROVE  SupervisorInv'
  BY <1>1, <1>3 DEF MarkSuccess, MarkDrainSuccess, MarkFailure
<1>4. CASE Shutdown
  BY <1>1, <1>4 DEF Shutdown
<1> QED
  BY <1>2, <1>3, <1>4, StartReturnsInv, TickInv, PassInv DEF SupervisorNext

LEMMA SupervisorInvariant == SupervisorSpec => []SupervisorInv
<1> QED
  BY SupervisorInitInv, SupervisorStepInv, PTL DEF SupervisorSpec

-----------------------------------------------------------------------------

(* At most one call of a connector's Start is at work, and the supervisor   *)
(* takes a connector for running exactly while its call is at work or has   *)
(* left a result it did not collect (startConnector, collectExit).         *)
THEOREM StartsDoNotOverlap == SupervisorSpec => []OneStartAtATime
<1>1. SupervisorInv => OneStartAtATime
  <2> SUFFICES ASSUME SupervisorInv, NEW c \in Connectors
               PROVE  live[c] <= 1 /\ (state[c].running <=> (live[c] = 1 \/ state[c].done # "none"))
    BY DEF OneStartAtATime
  <2>1. live[c] \in 0..1
    BY DEF SupervisorInv, SupervisedOK
  <2> QED
    BY <2>1 DEF SupervisorInv, ResultsAreOfEndedCalls
<1> QED
  BY <1>1, SupervisorInvariant, PTL

-----------------------------------------------------------------------------
(* The Zalo session.                                                       *)

LoopRow == [pc : SessionPc, cur : Nat]
ListenerRow == [client : Sockets \cup {NoSocket}, key : BOOLEAN,
                ping : Sockets \cup {NoSocket}, retries : Int, rotated : Int,
                stable : BOOLEAN, cancelled : BOOLEAN, grabbed : Sockets \cup {NoSocket}]
ReaderRow == [pc : {"none", "top", "read", "dial", "dialed"},
              socket : Sockets \cup {NoSocket}, pump : BOOLEAN]
NoticeRow == [error : BOOLEAN, adapterError : BOOLEAN, down : BOOLEAN, adapterDown : BOOLEAN]

ZaloRowsOK ==
  /\ session \in LoopRow /\ listener \in ListenerRow /\ reader \in ReaderRow
  /\ notices \in NoticeRow /\ failures \in Nat /\ sockets \subseteq Sockets
  /\ buffered \in Seq(Nat) /\ hand \in Seq(Nat) /\ adapted \in Seq(Nat)
  /\ sent \in Nat /\ last \in Nat

Serving == session.pc \in {"serve", "dispatch"}

(* A connection is paid for by a failure, but for the first one of a        *)
(* session, which is paid for when the session ends; a dial has been paid.  *)
Toll == IF reader.pc = "dial" THEN -1
        ELSE IF Serving /\ ~listener.cancelled /\ reader.pc # "dialed" /\ ~notices.down /\ ~notices.adapterDown THEN 1
        ELSE 0
SocketsAreFew ==
  IsFiniteSet(sockets) /\ Cardinality(sockets) + failures <= MaxFailures + Toll

(* The key and the pings belong to the client; a listener that dials has    *)
(* neither.                                                                *)
KeysHavePings ==
  /\ listener.ping = IF listener.key THEN listener.client ELSE NoSocket
  /\ reader.pc \in {"dial", "dialed"} => ~listener.key

(* While the connector serves, and until it is cancelled, nobody has stopped *)
(* its listener: it has a client whenever it reads, and brings one when it   *)
(* has dialled.                                                            *)
ListenersAreWhole == Serving /\ ~listener.cancelled =>
  /\ reader.pc \in {"top", "read"} => listener.client # NoSocket
  /\ reader.pc = "dialed" => reader.socket # NoSocket

(* From the conversation back to the socket, all that is still there of     *)
(* what was sent.                                                          *)
InHand == IF session.pc = "dispatch" THEN <<session.cur>> ELSE <<>>
OnTheLine == <<last>> \o InHand \o adapted \o hand \o buffered

LEMMA FreshIsFresh ==
  ASSUME NEW S, S \subseteq Sockets, IsFiniteSet(S), Cardinality(S) <= MaxFailures, NEW ping
  PROVE  \E s \in Sockets : s \notin S \cup {ping}
<1> SUFFICES ASSUME Sockets \subseteq S \cup {ping} PROVE FALSE
  OBVIOUS
<1>1. MaxFailures \in Nat
  BY ZaloAssumption
<1>2. IsFiniteSet(Sockets) /\ Cardinality(Sockets) = MaxFailures + 2
  <2>1. IsFiniteSet(1..(MaxFailures + 2)) /\ Cardinality(1..(MaxFailures + 2)) = MaxFailures + 2
    BY <1>1, FS_Interval
  <2> QED
    BY <2>1 DEF Sockets
<1>3. Cardinality(S) \in Nat
  BY FS_CardinalityType
<1>4. IsFiniteSet(S \cup {ping}) /\ Cardinality(S \cup {ping}) <= Cardinality(S) + 1
  BY <1>3, FS_AddElement
<1>5. Cardinality(Sockets) <= Cardinality(S \cup {ping})
  BY <1>4, FS_Subset
<1>6. Cardinality(S \cup {ping}) \in Nat
  BY <1>4, FS_CardinalityType
<1> QED
  BY <1>1, <1>2, <1>3, <1>4, <1>5, <1>6

(* Where a connection is made, there is room for it.                       *)
LEMMA RoomForOne ==
  ASSUME ZaloRowsOK, SocketsAreFew, session.pc = "open" \/ reader.pc = "dial"
  PROVE  /\ FreshSocket \in Sockets /\ FreshSocket \notin sockets
         /\ FreshSocket # NoSocket
<1>1. Cardinality(sockets) \in Nat /\ MaxFailures \in Nat /\ failures \in Nat
  BY FS_CardinalityType, ZaloAssumption DEF SocketsAreFew, ZaloRowsOK
<1>2. Cardinality(sockets) <= MaxFailures
  BY <1>1 DEF SocketsAreFew, Toll, Serving
<1>3. \E s \in Sockets : s \notin sockets \cup {listener.ping}
  BY <1>2, FreshIsFresh DEF ZaloRowsOK, SocketsAreFew
<1>4. FreshSocket \in Sockets /\ FreshSocket \notin sockets
  BY <1>3 DEF FreshSocket
<1> QED
  BY <1>1, <1>4 DEF Sockets, NoSocket

(* Rows.                                                                   *)

LEMMA LoopRows ==
  ASSUME ZaloRowsOK, SocketsAreFew, LoopStep \/ ListenStep \/ PumpStep \/ Cancel
  PROVE  ZaloRowsOK'
<1> USE DEF ZaloRowsOK
<1>a. LoadCredentials => ZaloRowsOK'
  BY DEF LoadCredentials, Go, Fails, LoopRow, SessionPc, buffers
<1>b. Login => ZaloRowsOK'
  BY DEF Login, Go, Fails, LoopRow, SessionPc, buffers
<1>c. DrainOnce => ZaloRowsOK'
  BY DEF DrainOnce, Go, Fails, LoopRow, SessionPc, buffers
<1>d. ASSUME StartSession PROVE ZaloRowsOK'
  <2>1. FreshSocket \in Sockets
    BY <1>d, RoomForOne DEF StartSession
  <2> DEFINE fresh == FreshSocket
  <2> HIDE DEF fresh
  <2>2. fresh \in Sockets
    BY <2>1 DEF fresh
  <2>3. /\ session.pc = "open" /\ UNCHANGED <<sent, last>>
        /\ buffered' = <<>> /\ hand' = <<>> /\ adapted' = <<>> /\ notices' = Quiet
        /\ \/ /\ listener' = [NewListener EXCEPT !.client = fresh]
              /\ sockets' = sockets \cup {fresh}
              /\ reader' = [pc |-> "top", socket |-> NoSocket, pump |-> TRUE]
              /\ session' = [session EXCEPT !.pc = "serve"] /\ UNCHANGED failures
           \/ /\ listener' = NewListener
              /\ \E pc \in {"sleep", "returned"} : session' = [session EXCEPT !.pc = pc]
              /\ Fails
              /\ UNCHANGED <<sockets, reader>>
    BY <1>d DEF StartSession, Go, fresh
  <2>4. notices' \in NoticeRow
    BY <2>3 DEF Quiet, NoticeRow
  <2>5. NewListener \in ListenerRow
    BY DEF NewListener, ListenerRow
  <2>6. listener' \in ListenerRow
    BY <2>2, <2>3, <2>5 DEF ListenerRow
  <2>7. session' \in LoopRow /\ failures' \in Nat
    BY <2>3 DEF LoopRow, SessionPc, Fails
  <2>8. reader' \in ReaderRow /\ sockets' \subseteq Sockets
    <3>a. reader' \in {reader, [pc |-> "top", socket |-> NoSocket, pump |-> TRUE]}
      BY <2>3
    <3>1. reader' \in ReaderRow
      <4>1. [pc |-> "top", socket |-> NoSocket, pump |-> TRUE] \in ReaderRow
        BY DEF ReaderRow
      <4> QED
        BY <3>a, <4>1
    <3>2. sockets' \subseteq Sockets
      BY <2>2, <2>3
    <3> QED
      BY <3>1, <3>2
  <2> QED
    BY <2>3, <2>4, <2>6, <2>7, <2>8
<1>e. Sleep \/ StartAgain \/ SeeCancelled => ZaloRowsOK'
  <2>1. StartAgain \/ SeeCancelled => ZaloRowsOK'
    BY DEF StartAgain, SeeCancelled, Go, LoopRow, SessionPc, buffers
  <2>2. Sleep => ZaloRowsOK'
    BY DEF Sleep, Go, Fails, LoopRow, SessionPc, buffers
  <2> QED
    BY <2>1, <2>2
<1>f. ASSUME Dispatch PROVE ZaloRowsOK'
  <2>1. /\ session' \in LoopRow /\ last' \in Nat /\ failures' \in Nat
    BY <1>f DEF Dispatch, Fails, LoopRow, SessionPc
  <2> QED
    BY <1>f, <2>1 DEF Dispatch, buffers
<1>g. ASSUME StopTakesClient PROVE ZaloRowsOK'
  <2>1. session' \in LoopRow
    BY <1>g DEF StopTakesClient, Go, LoopRow, SessionPc
  <2>2. listener' \in ListenerRow
    BY <1>g DEF StopTakesClient, ListenerRow
  <2>3. reader' \in ReaderRow
    BY <1>g DEF StopTakesClient, ReaderRow
  <2> QED
    BY <1>g, <2>1, <2>2, <2>3 DEF StopTakesClient, buffers
<1>h. ASSUME StopCloses PROVE ZaloRowsOK'
  <2>1. session' \in LoopRow
    BY <1>h DEF StopCloses, Go, LoopRow, SessionPc
  <2>2. listener' \in ListenerRow
    BY <1>h DEF StopCloses, ListenerRow
  <2> QED
    BY <1>h, <2>1, <2>2 DEF StopCloses, buffers
<1>i. StopWaits => ZaloRowsOK'
  BY DEF StopWaits, Go, LoopRow, SessionPc, buffers
<1>j. ASSUME TakeMessage PROVE ZaloRowsOK'
  <2>1. Head(adapted) \in Nat /\ Tail(adapted) \in Seq(Nat)
    BY <1>j, HeadTailProperties DEF TakeMessage
  <2>2. session' \in LoopRow /\ adapted' \in Seq(Nat)
    BY <1>j, <2>1 DEF TakeMessage, LoopRow, SessionPc
  <2> QED
    BY <1>j, <2>2 DEF TakeMessage
<1>k. NoteError => ZaloRowsOK'
  BY DEF NoteError, NoticeRow, buffers
<1>l. ASSUME NoteDisconnect PROVE ZaloRowsOK'
  <2>1. session' \in LoopRow
    BY <1>l DEF NoteDisconnect, Go, LoopRow, SessionPc
  <2>2. notices' \in NoticeRow
    BY <1>l DEF NoteDisconnect, NoticeRow
  <2> QED
    BY <1>l, <2>1, <2>2 DEF NoteDisconnect, buffers
<1>m. ASSUME PumpTakes PROVE ZaloRowsOK'
  <2>1. Head(buffered) \in Nat /\ Tail(buffered) \in Seq(Nat)
    BY <1>m, HeadTailProperties DEF PumpTakes
  <2>2. <<Head(buffered)>> \in Seq(Nat)
    BY <2>1
  <2> QED
    BY <1>m, <2>1, <2>2 DEF PumpTakes
<1>n. PumpGives => ZaloRowsOK'
  BY ConcatProperties, EmptySeq DEF PumpGives
<1>o. PumpNotices => ZaloRowsOK'
  BY DEF PumpNotices, NoticeRow, buffers
<1>p. ASSUME Cancel PROVE ZaloRowsOK'
  <2>1. session' \in LoopRow /\ failures' \in Nat
    BY <1>p DEF Cancel, Fails
  <2>2. listener' \in ListenerRow
    BY <1>p DEF Cancel, ListenerRow
  <2> QED
    BY <1>p, <2>1, <2>2 DEF Cancel, buffers
<1> QED
  BY <1>a, <1>b, <1>c, <1>d, <1>e, <1>f, <1>g, <1>h, <1>i, <1>j, <1>k, <1>l, <1>m, <1>n, <1>o, <1>p
  DEF LoopStep, ListenStep, PumpStep

(* What a disconnection leaves, whichever way it goes.                      *)
LEMMA DisconnectLemma ==
  ASSUME ZaloRowsOK, HandleDisconnect
  PROVE  /\ Reading /\ failures > 0 /\ failures' = failures - 1
         /\ sockets' = sockets \ {reader.socket}
         /\ listener' \in ListenerRow /\ reader' \in ReaderRow /\ notices' \in NoticeRow
         /\ listener'.client = NoSocket /\ listener'.ping = NoSocket /\ ~listener'.key
         /\ listener'.cancelled = listener.cancelled
         /\ notices'.error /\ notices'.adapterDown = notices.adapterDown
         /\ reader'.pc \in {"dial", "none"} /\ reader'.socket = NoSocket
         /\ reader'.pump = reader.pump
         /\ reader'.pc = "none" => notices'.down
         /\ notices.down => notices'.down
<1> DEFINE reset == ResetAfterDisconnect
           kept == IF listener.stable THEN [reset EXCEPT !.retries = 0, !.rotated = 0] ELSE reset
<1> USE DEF ZaloRowsOK
<1>1. PICK k : k = kept
  OBVIOUS
<1>2. PICK n : n = reset
  OBVIOUS
<1>3. /\ n \in ListenerRow /\ n.client = NoSocket /\ n.ping = NoSocket /\ ~n.key
      /\ n.cancelled = listener.cancelled
  BY <1>2 DEF ResetAfterDisconnect, ListenerRow
<1>4. k = IF listener.stable THEN [n EXCEPT !.retries = 0, !.rotated = 0] ELSE n
  BY <1>1, <1>2
<1>5. /\ k \in ListenerRow /\ k.client = NoSocket /\ k.ping = NoSocket /\ ~k.key
      /\ k.cancelled = listener.cancelled
  <2>1. PICK m : m = [n EXCEPT !.retries = 0, !.rotated = 0]
    OBVIOUS
  <2>2. /\ m \in ListenerRow
        /\ m.client = n.client /\ m.ping = n.ping /\ m.key = n.key /\ m.cancelled = n.cancelled
    <3>1. n \in ListenerRow /\ 0 \in Int
      BY <1>3
    <3> HIDE DEF ZaloRowsOK
    <3>2. m \in ListenerRow
      BY <3>1, <2>1 DEF ListenerRow
    <3>3. m.client = n.client /\ m.ping = n.ping /\ m.key = n.key /\ m.cancelled = n.cancelled
      BY <3>1, <2>1 DEF ListenerRow
    <3> QED
      BY <3>2, <3>3
  <2>3. k = m \/ k = n
    BY <1>4, <2>1
  <2> QED
    BY <1>3, <2>2, <2>3
<1>6. Endpoints \in Nat
  BY ZaloAssumption
<1>7. Reading /\ failures > 0 /\ failures' = failures - 1 /\ sockets' = sockets \ {reader.socket}
  BY DEF HandleDisconnect, Fails
<1>8. \/ /\ \E rotate \in BOOLEAN :
              listener' = [k EXCEPT !.retries = @ + 1,
                             !.rotated = IF rotate /\ @ < Endpoints - 1 THEN @ + 1 ELSE @]
         /\ reader' = [reader EXCEPT !.pc = "dial", !.socket = NoSocket]
         /\ notices' = ReportError
      \/ /\ listener' \in {n, k}
         /\ reader' = [reader EXCEPT !.pc = "none", !.socket = NoSocket]
         /\ notices' = [ReportError EXCEPT !.down = TRUE]
  <2> HIDE DEF reset, kept
  <2>1. \E code \in {"duplicate", "unknown", "known"} :
          IF code = "known" /\ CanRetry(kept.retries)
          THEN /\ \E rotate \in BOOLEAN :
                    listener' = [kept EXCEPT !.retries = @ + 1,
                      !.rotated = IF rotate /\ @ < Endpoints - 1 THEN @ + 1 ELSE @]
               /\ reader' = [reader EXCEPT !.pc = "dial", !.socket = NoSocket]
               /\ notices' = ReportError
          ELSE /\ listener' = IF code = "duplicate" THEN reset ELSE kept
               /\ reader' = [reader EXCEPT !.pc = "none", !.socket = NoSocket]
               /\ notices' = [ReportError EXCEPT !.down = TRUE]
    BY DEF HandleDisconnect, reset, kept
  <2> QED
    BY <2>1, <1>1, <1>2
<1>9. ASSUME NEW rotate \in BOOLEAN, NEW l,
             l = [k EXCEPT !.retries = @ + 1,
                    !.rotated = IF rotate /\ @ < Endpoints - 1 THEN @ + 1 ELSE @]
      PROVE  /\ l \in ListenerRow /\ l.client = NoSocket /\ l.ping = NoSocket /\ ~l.key
             /\ l.cancelled = listener.cancelled
  <2>1. k.retries + 1 \in Int /\ k.rotated \in Int /\ k.rotated + 1 \in Int
    BY <1>5 DEF ListenerRow
  <2>2. PICK a \in Int, b \in Int : l = [k EXCEPT !.retries = a, !.rotated = b]
    BY <1>9, <2>1
  <2>3. /\ l \in ListenerRow
        /\ l.client = k.client /\ l.ping = k.ping /\ l.key = k.key /\ l.cancelled = k.cancelled
    <3>1. k \in ListenerRow
      BY <1>5
    <3> HIDE DEF ZaloRowsOK
    <3>2. l \in ListenerRow
      BY <3>1, <2>2 DEF ListenerRow
    <3>3. l.client = k.client /\ l.ping = k.ping /\ l.key = k.key /\ l.cancelled = k.cancelled
      BY <3>1, <2>2 DEF ListenerRow
    <3> QED
      BY <3>2, <3>3
  <2> QED
    BY <2>3, <1>5
<1>10. /\ listener' \in ListenerRow
       /\ listener'.client = NoSocket /\ listener'.ping = NoSocket /\ ~listener'.key
       /\ listener'.cancelled = listener.cancelled
  BY <1>3, <1>5, <1>8, <1>9
<1>11. /\ reader' \in ReaderRow /\ reader'.pc \in {"dial", "none"} /\ reader'.socket = NoSocket
       /\ reader'.pump = reader.pump
  BY <1>8 DEF ReaderRow
<1>12. /\ notices' \in NoticeRow /\ notices'.error /\ notices'.adapterDown = notices.adapterDown
       /\ notices.down => notices'.down
  BY <1>8 DEF ReportError, NoticeRow
<1>13. reader'.pc = "none" => notices'.down
  BY <1>8 DEF ReportError, NoticeRow, ReaderRow
<1> QED
  BY <1>7, <1>10, <1>11, <1>12, <1>13

OnTheWire ==
  ReaderStep \/ ReceiveMessage \/ ReceiveKey \/ BecomeStable \/ HandleDisconnect \/ ServiceHangsUp

LEMMA ReaderRows ==
  ASSUME ZaloRowsOK, SocketsAreFew, OnTheWire
  PROVE  ZaloRowsOK'
<1> USE DEF ZaloRowsOK
<1>a. ReadNext => ZaloRowsOK'
  BY DEF ReadNext, ReaderRow, ListenerRow, buffers
<1>b. ReadEndsCancelled => ZaloRowsOK'
  BY DEF ReadEndsCancelled, ReaderRow, buffers
<1>c. ASSUME DialFails PROVE ZaloRowsOK'
  <2>1. reader' \in ReaderRow /\ failures' \in Nat /\ notices' \in NoticeRow
    <3>1. reader' \in ReaderRow
      BY <1>c DEF DialFails, ReaderRow
    <3>2. notices' \in NoticeRow
      BY <1>c DEF DialFails, NoticeRow
    <3>3. failures' \in Nat
      BY <1>c DEF DialFails
    <3> QED
      BY <3>1, <3>2, <3>3
  <2> QED
    BY <1>c, <2>1 DEF DialFails, buffers
<1>d. ASSUME Dial PROVE ZaloRowsOK'
  <2>1. FreshSocket \in Sockets
    BY <1>d, RoomForOne DEF Dial
  <2>2. reader' \in ReaderRow /\ sockets' \subseteq Sockets
    BY <1>d, <2>1 DEF Dial, ReaderRow
  <2> QED
    BY <1>d, <2>2 DEF Dial, buffers
<1>e. ASSUME ConnectAssigns PROVE ZaloRowsOK'
  <2>1. reader' \in ReaderRow /\ listener' \in ListenerRow
    BY <1>e DEF ConnectAssigns, BackToTop, ReaderRow, ListenerRow
  <2> QED
    BY <1>e, <2>1 DEF ConnectAssigns, buffers
<1>f. ASSUME ReceiveMessage PROVE ZaloRowsOK'
  <2>1. reader' \in ReaderRow /\ notices' \in NoticeRow /\ sent' \in Nat
    <3>1. reader' \in ReaderRow
      BY <1>f DEF ReceiveMessage, BackToTop, ReaderRow
    <3>2. notices' \in NoticeRow
      BY <1>f DEF ReceiveMessage, NoticeRow
    <3> QED
      BY <1>f, <3>1, <3>2 DEF ReceiveMessage
  <2>2. ASSUME NEW m \in Nat PROVE Emit(buffered, m) \in Seq(Nat)
    <3>1. BufferSize \in Nat \ {0}
      BY ZaloAssumption
    <3>2. CASE Len(buffered) < BufferSize
      BY <3>2, <2>2 DEF Emit
    <3>3. CASE ~(Len(buffered) < BufferSize)
      <4>1. buffered # <<>>
        BY <3>1, <3>3, EmptySeq
      <4>2. Tail(buffered) \in Seq(Nat)
        BY <4>1, HeadTailProperties
      <4> QED
        BY <4>2, <3>3, <2>2 DEF Emit
    <3> QED
      BY <3>2, <3>3
  <2>3. buffered' \in Seq(Nat)
    BY <1>f, <2>1, <2>2 DEF ReceiveMessage
  <2> QED
    BY <1>f, <2>1, <2>3 DEF ReceiveMessage
<1>g. ASSUME ReceiveKey PROVE ZaloRowsOK'
  <2>1. reader' \in ReaderRow
    BY <1>g DEF ReceiveKey, BackToTop, ReaderRow
  <2>2. listener' \in ListenerRow
    BY <1>g DEF ReceiveKey, ListenerRow
  <2> QED
    BY <1>g, <2>1, <2>2 DEF ReceiveKey, buffers
<1>h. BecomeStable => ZaloRowsOK'
  BY DEF BecomeStable, ListenerRow, buffers
<1>i. ASSUME HandleDisconnect PROVE ZaloRowsOK'
  <2>1. listener' \in ListenerRow /\ reader' \in ReaderRow /\ notices' \in NoticeRow
    BY <1>i, DisconnectLemma
  <2>2. failures' \in Nat /\ sockets' \subseteq Sockets
    BY <1>i, DisconnectLemma
  <2> QED
    BY <1>i, <2>1, <2>2 DEF HandleDisconnect, buffers
<1>j. ServiceHangsUp => ZaloRowsOK'
  BY DEF ServiceHangsUp, buffers
<1> QED
  BY <1>a, <1>b, <1>c, <1>d, <1>e, <1>f, <1>g, <1>h, <1>i, <1>j DEF OnTheWire, ReaderStep

(* Control: who reads, who serves, and what they know of each other.        *)
ControlInv ==
  /\ KeysHavePings /\ ListenersAreWhole /\ DeadListenersAreNoticed
  /\ HealthIsHonest /\ NoReaderBetweenSessions

LEMMA LoopControl ==
  ASSUME ZaloRowsOK, SocketsAreFew, ControlInv, LoopStep \/ ListenStep \/ PumpStep \/ Cancel
  PROVE  ControlInv'
<1> USE DEF ControlInv, KeysHavePings, ListenersAreWhole, DeadListenersAreNoticed, HealthIsHonest,
            NoReaderBetweenSessions, Serving
<1>0. session \in LoopRow /\ listener \in ListenerRow /\ reader \in ReaderRow /\ notices \in NoticeRow
  BY DEF ZaloRowsOK
<1>a. LoadCredentials => ControlInv'
  BY <1>0 DEF LoadCredentials, Go, Fails, LoopRow, ListenerRow, ReaderRow, NoticeRow
<1>b. Login => ControlInv'
  BY <1>0 DEF Login, Go, Fails, LoopRow, ListenerRow, ReaderRow, NoticeRow
<1>c. DrainOnce => ControlInv'
  BY <1>0 DEF DrainOnce, Go, Fails, LoopRow, ListenerRow, ReaderRow, NoticeRow
<1>d. StartSession => ControlInv'
  <2> SUFFICES ASSUME StartSession PROVE ControlInv'
    OBVIOUS
  <2>1. FreshSocket # NoSocket
    BY RoomForOne DEF StartSession
  <2>2. CASE /\ listener' = [NewListener EXCEPT !.client = FreshSocket]
             /\ reader' = [pc |-> "top", socket |-> NoSocket, pump |-> TRUE]
             /\ Go("serve")
    <3>1. /\ listener'.client # NoSocket /\ ~listener'.key /\ listener'.ping = NoSocket
          /\ ~listener'.cancelled
      BY <2>1, <2>2 DEF NewListener
    <3>2. reader'.pc = "top"
      BY <2>2
    <3>3. session'.pc = "serve"
      BY <2>2, <1>0 DEF Go, LoopRow
    <3> QED
      BY <3>1, <3>2, <3>3
  <2>3. CASE listener' = NewListener /\ (Go("sleep") \/ Go("returned")) /\ reader' = reader
    <3>1. ~listener'.key /\ listener'.ping = NoSocket
      BY <2>3 DEF NewListener
    <3>2. session'.pc \in {"sleep", "returned"} /\ session.pc = "open"
      BY <2>3, <1>0 DEF Go, LoopRow, StartSession
    <3> QED
      BY <3>1, <3>2, <2>3
  <2> QED
    BY <2>2, <2>3 DEF StartSession
<1>e. Sleep => ControlInv'
  BY <1>0 DEF Sleep, Go, Fails, LoopRow, ListenerRow, ReaderRow, NoticeRow
<1>f. StartAgain => ControlInv'
  BY <1>0 DEF StartAgain, Go, LoopRow, ListenerRow, ReaderRow, NoticeRow
<1>r. SeeCancelled => ControlInv'
  BY <1>0 DEF SeeCancelled, Go, LoopRow, ListenerRow, ReaderRow, NoticeRow
<1>g. Dispatch => ControlInv'
  BY <1>0 DEF Dispatch, Go, Fails, LoopRow, ListenerRow, ReaderRow, NoticeRow
<1>h. StopTakesClient => ControlInv'
  BY <1>0 DEF StopTakesClient, Go, LoopRow, ListenerRow, ReaderRow, NoticeRow
<1>i. StopCloses => ControlInv'
  BY <1>0 DEF StopCloses, Go, LoopRow, ListenerRow, ReaderRow, NoticeRow
<1>j. StopWaits => ControlInv'
  BY <1>0 DEF StopWaits, Go, LoopRow, ListenerRow, ReaderRow, NoticeRow
<1>k. TakeMessage => ControlInv'
  BY <1>0 DEF TakeMessage, Go, LoopRow, ListenerRow, ReaderRow, NoticeRow
<1>l. NoteError => ControlInv'
  BY <1>0 DEF NoteError, Go, LoopRow, ListenerRow, ReaderRow, NoticeRow
<1>m. NoteDisconnect => ControlInv'
  BY <1>0 DEF NoteDisconnect, Go, LoopRow, ListenerRow, ReaderRow, NoticeRow
<1>n. PumpTakes => ControlInv'
  BY <1>0 DEF PumpTakes, Go, LoopRow, ListenerRow, ReaderRow, NoticeRow
<1>o. PumpGives => ControlInv'
  BY <1>0 DEF PumpGives, Go, LoopRow, ListenerRow, ReaderRow, NoticeRow
<1>p. PumpNotices => ControlInv'
  BY <1>0 DEF PumpNotices, Go, LoopRow, ListenerRow, ReaderRow, NoticeRow
<1>q. Cancel => ControlInv'
  BY <1>0 DEF Cancel, Go, Fails, LoopRow, ListenerRow, ReaderRow, NoticeRow
<1> QED
  BY <1>a, <1>b, <1>c, <1>d, <1>e, <1>f, <1>g, <1>h, <1>i, <1>j, <1>k, <1>l, <1>m, <1>n, <1>o, <1>p, <1>q, <1>r
  DEF LoopStep, ListenStep, PumpStep

LEMMA ReaderControl ==
  ASSUME ZaloRowsOK, SocketsAreFew, ControlInv, OnTheWire
  PROVE  ControlInv'
<1> USE DEF ControlInv, KeysHavePings, ListenersAreWhole, DeadListenersAreNoticed, HealthIsHonest,
            NoReaderBetweenSessions, Serving
<1>0. session \in LoopRow /\ listener \in ListenerRow /\ reader \in ReaderRow /\ notices \in NoticeRow
  BY DEF ZaloRowsOK
<1>a. ReadNext => ControlInv'
  BY <1>0 DEF ReadNext, LoopRow, ListenerRow, ReaderRow, NoticeRow
<1>b. ReadEndsCancelled => ControlInv'
  BY <1>0 DEF ReadEndsCancelled, LoopRow, ListenerRow, ReaderRow, NoticeRow
<1>c. DialFails => ControlInv'
  BY <1>0 DEF DialFails, LoopRow, ListenerRow, ReaderRow, NoticeRow
<1>d. Dial => ControlInv'
  <2>1. Dial => FreshSocket # NoSocket
    BY RoomForOne DEF Dial
  <2> QED
    BY <2>1, <1>0 DEF Dial, LoopRow, ListenerRow, ReaderRow, NoticeRow
<1>e. ConnectAssigns => ControlInv'
  BY <1>0 DEF ConnectAssigns, BackToTop, LoopRow, ListenerRow, ReaderRow, NoticeRow
<1>f. ReceiveMessage => ControlInv'
  BY <1>0 DEF ReceiveMessage, BackToTop, Reading, LoopRow, ListenerRow, ReaderRow, NoticeRow
<1>g. ReceiveKey => ControlInv'
  BY <1>0 DEF ReceiveKey, BackToTop, Reading, LoopRow, ListenerRow, ReaderRow, NoticeRow
<1>h. BecomeStable => ControlInv'
  BY <1>0 DEF BecomeStable, Reading, LoopRow, ListenerRow, ReaderRow, NoticeRow
<1>i. HandleDisconnect => ControlInv'
  <2> SUFFICES ASSUME HandleDisconnect PROVE ControlInv'
    OBVIOUS
  <2>1. session' = session /\ zaloHealth' = zaloHealth
    BY DEF HandleDisconnect
  <2> QED
    BY <2>1, DisconnectLemma DEF Reading
<1>j. ServiceHangsUp => ControlInv'
  BY <1>0 DEF ServiceHangsUp, LoopRow, ListenerRow, ReaderRow, NoticeRow
<1> QED
  BY <1>a, <1>b, <1>c, <1>d, <1>e, <1>f, <1>g, <1>h, <1>i, <1>j
  DEF OnTheWire, ReaderStep


(* A step that opens no connection and is not cheaper than it was.          *)
LEMMA TollPaid ==
  ASSUME ZaloRowsOK, SocketsAreFew, sockets' \subseteq sockets, failures' \in Nat,
         failures' - Toll' <= failures - Toll
  PROVE  SocketsAreFew'
<1>1. Cardinality(sockets) \in Nat /\ MaxFailures \in Nat /\ failures \in Nat
  BY FS_CardinalityType, ZaloAssumption DEF SocketsAreFew, ZaloRowsOK
<1>2. IsFiniteSet(sockets') /\ Cardinality(sockets') <= Cardinality(sockets)
  BY FS_Subset DEF SocketsAreFew
<1>3. Cardinality(sockets') \in Nat
  BY <1>2, FS_CardinalityType
<1>4. Toll \in Int /\ Toll' \in Int
  BY DEF Toll
<1>5. Cardinality(sockets) + failures <= MaxFailures + Toll
  BY DEF SocketsAreFew
<1>6. Cardinality(sockets') + failures' <= MaxFailures + Toll'
  <2>1. PICK c \in Nat, d \in Nat, t \in Int, u \in Int, m \in Nat, f \in Nat, g \in Nat :
          /\ c = Cardinality(sockets) /\ d = Cardinality(sockets') /\ t = Toll /\ u = Toll'
          /\ m = MaxFailures /\ f = failures /\ g = failures'
    BY <1>1, <1>3, <1>4
  <2>2. c + f <= m + t /\ d <= c /\ g - u <= f - t
    BY <2>1, <1>2, <1>5
  <2>3. d + g <= m + u
    BY <2>2
  <2> QED
    BY <2>1, <2>3
<1> QED
  BY <1>2, <1>6 DEF SocketsAreFew

LEMMA SocketsStayFew ==
  ASSUME ZaloRowsOK, SocketsAreFew, ZaloNext
  PROVE  SocketsAreFew'
<1> USE DEF Serving
<1>0. /\ session \in LoopRow /\ listener \in ListenerRow /\ reader \in ReaderRow /\ notices \in NoticeRow
      /\ failures \in Nat
  BY DEF ZaloRowsOK
<1>1. Cardinality(sockets) \in Nat /\ MaxFailures \in Nat
  BY FS_CardinalityType, ZaloAssumption DEF SocketsAreFew
<1>2. ASSUME sockets' \subseteq sockets, failures' \in Nat, failures' - Toll' <= failures - Toll
      PROVE  SocketsAreFew'
  BY <1>2, TollPaid
<1>a0. ASSUME LoadCredentials PROVE SocketsAreFew'
  <2>1. sockets' = sockets
    BY <1>a0 DEF LoadCredentials
  <2>2. failures' \in Nat /\ failures' - Toll' <= failures - Toll
    BY <1>a0, <1>0 DEF LoadCredentials, Go, Fails, Toll, LoopRow, ReaderRow, NoticeRow, ListenerRow
  <2> QED
    BY <2>1, <2>2, <1>2
<1>a1. ASSUME Login PROVE SocketsAreFew'
  <2>1. sockets' = sockets
    BY <1>a1 DEF Login
  <2>2. failures' \in Nat /\ failures' - Toll' <= failures - Toll
    BY <1>a1, <1>0 DEF Login, Go, Fails, Toll, LoopRow, ReaderRow, NoticeRow, ListenerRow
  <2> QED
    BY <2>1, <2>2, <1>2
<1>a2. ASSUME DrainOnce PROVE SocketsAreFew'
  <2>1. sockets' = sockets
    BY <1>a2 DEF DrainOnce
  <2>2. failures' \in Nat /\ failures' - Toll' <= failures - Toll
    BY <1>a2, <1>0 DEF DrainOnce, Go, Fails, Toll, LoopRow, ReaderRow, NoticeRow, ListenerRow
  <2> QED
    BY <2>1, <2>2, <1>2
<1>a3. ASSUME Sleep PROVE SocketsAreFew'
  <2>1. sockets' = sockets
    BY <1>a3 DEF Sleep
  <2>2. failures' \in Nat /\ failures' - Toll' <= failures - Toll
    BY <1>a3, <1>0 DEF Sleep, Go, Fails, Toll, LoopRow, ReaderRow, NoticeRow, ListenerRow
  <2> QED
    BY <2>1, <2>2, <1>2
<1>a4. ASSUME StartAgain PROVE SocketsAreFew'
  <2>1. sockets' = sockets
    BY <1>a4 DEF StartAgain
  <2>2. failures' \in Nat /\ failures' - Toll' <= failures - Toll
    BY <1>a4, <1>0 DEF StartAgain, Go, Toll, LoopRow, ReaderRow, NoticeRow, ListenerRow
  <2> QED
    BY <2>1, <2>2, <1>2
<1>a21. ASSUME SeeCancelled PROVE SocketsAreFew'
  <2>1. sockets' = sockets
    BY <1>a21 DEF SeeCancelled
  <2>2. failures' \in Nat /\ failures' - Toll' <= failures - Toll
    BY <1>a21, <1>0 DEF SeeCancelled, Go, Toll, LoopRow, ReaderRow, NoticeRow, ListenerRow
  <2> QED
    BY <2>1, <2>2, <1>2
<1>a5. ASSUME Dispatch PROVE SocketsAreFew'
  <2>1. sockets' = sockets
    BY <1>a5 DEF Dispatch
  <2>2. failures' \in Nat /\ failures' - Toll' <= failures - Toll
    BY <1>a5, <1>0 DEF Dispatch, Go, Fails, Toll, LoopRow, ReaderRow, NoticeRow, ListenerRow
  <2> QED
    BY <2>1, <2>2, <1>2
<1>a6. ASSUME StopTakesClient PROVE SocketsAreFew'
  <2>1. sockets' = sockets
    BY <1>a6 DEF StopTakesClient
  <2>2. failures' \in Nat /\ failures' - Toll' <= failures - Toll
    BY <1>a6, <1>0 DEF StopTakesClient, Go, Toll, LoopRow, ReaderRow, NoticeRow, ListenerRow
  <2> QED
    BY <2>1, <2>2, <1>2
<1>a7. ASSUME StopWaits PROVE SocketsAreFew'
  <2>1. sockets' = sockets
    BY <1>a7 DEF StopWaits
  <2>2. failures' \in Nat /\ failures' - Toll' <= failures - Toll
    BY <1>a7, <1>0 DEF StopWaits, Go, Toll, LoopRow, ReaderRow, NoticeRow, ListenerRow
  <2> QED
    BY <2>1, <2>2, <1>2
<1>a8. ASSUME TakeMessage PROVE SocketsAreFew'
  <2>1. sockets' = sockets
    BY <1>a8 DEF TakeMessage
  <2>2. failures' \in Nat /\ failures' - Toll' <= failures - Toll
    BY <1>a8, <1>0 DEF TakeMessage, Go, Toll, LoopRow, ReaderRow, NoticeRow, ListenerRow
  <2> QED
    BY <2>1, <2>2, <1>2
<1>a9. ASSUME NoteError PROVE SocketsAreFew'
  <2>1. sockets' = sockets
    BY <1>a9 DEF NoteError
  <2>2. failures' \in Nat /\ failures' - Toll' <= failures - Toll
    BY <1>a9, <1>0 DEF NoteError, Go, Toll, LoopRow, ReaderRow, NoticeRow, ListenerRow
  <2> QED
    BY <2>1, <2>2, <1>2
<1>a10. ASSUME NoteDisconnect PROVE SocketsAreFew'
  <2>1. sockets' = sockets
    BY <1>a10 DEF NoteDisconnect
  <2>2. failures' \in Nat /\ failures' - Toll' <= failures - Toll
    BY <1>a10, <1>0 DEF NoteDisconnect, Go, Toll, LoopRow, ReaderRow, NoticeRow, ListenerRow
  <2> QED
    BY <2>1, <2>2, <1>2
<1>a11. ASSUME PumpTakes PROVE SocketsAreFew'
  <2>1. sockets' = sockets
    BY <1>a11 DEF PumpTakes
  <2>2. failures' \in Nat /\ failures' - Toll' <= failures - Toll
    BY <1>a11, <1>0 DEF PumpTakes, Go, Toll, LoopRow, ReaderRow, NoticeRow, ListenerRow
  <2> QED
    BY <2>1, <2>2, <1>2
<1>a12. ASSUME PumpGives PROVE SocketsAreFew'
  <2>1. sockets' = sockets
    BY <1>a12 DEF PumpGives
  <2>2. failures' \in Nat /\ failures' - Toll' <= failures - Toll
    BY <1>a12, <1>0 DEF PumpGives, Go, Toll, LoopRow, ReaderRow, NoticeRow, ListenerRow
  <2> QED
    BY <2>1, <2>2, <1>2
<1>a13. ASSUME PumpNotices PROVE SocketsAreFew'
  <2>1. sockets' = sockets
    BY <1>a13 DEF PumpNotices
  <2>2. failures' \in Nat /\ failures' - Toll' <= failures - Toll
    <3>1. failures' = failures /\ session' = session /\ reader' = reader /\ listener' = listener
      BY <1>a13 DEF PumpNotices
    <3>2. (notices'.down \/ notices'.adapterDown) <=> (notices.down \/ notices.adapterDown)
      BY <1>a13, <1>0 DEF PumpNotices, NoticeRow
    <3>3. Toll' = Toll
      BY <3>1, <3>2 DEF Toll
    <3>4. Toll \in Int
      BY DEF Toll
    <3> QED
      BY <3>1, <3>3, <3>4, <1>0
  <2> QED
    BY <2>1, <2>2, <1>2
<1>a14. ASSUME Cancel PROVE SocketsAreFew'
  <2>1. sockets' = sockets
    BY <1>a14 DEF Cancel
  <2>2. failures' \in Nat /\ failures' - Toll' <= failures - Toll
    BY <1>a14, <1>0 DEF Cancel, Go, Fails, Toll, LoopRow, ReaderRow, NoticeRow, ListenerRow
  <2> QED
    BY <2>1, <2>2, <1>2
<1>a15. ASSUME ReadNext PROVE SocketsAreFew'
  <2>1. sockets' = sockets
    BY <1>a15 DEF ReadNext
  <2>2. failures' \in Nat /\ failures' - Toll' <= failures - Toll
    BY <1>a15, <1>0 DEF ReadNext, Toll, LoopRow, ReaderRow, NoticeRow, ListenerRow
  <2> QED
    BY <2>1, <2>2, <1>2
<1>a16. ASSUME DialFails PROVE SocketsAreFew'
  <2>1. sockets' = sockets
    BY <1>a16 DEF DialFails
  <2>2. failures' \in Nat /\ failures' - Toll' <= failures - Toll
    BY <1>a16, <1>0 DEF DialFails, Toll, LoopRow, ReaderRow, NoticeRow, ListenerRow
  <2> QED
    BY <2>1, <2>2, <1>2
<1>a17. ASSUME ConnectAssigns PROVE SocketsAreFew'
  <2>1. sockets' = sockets
    BY <1>a17 DEF ConnectAssigns
  <2>2. failures' \in Nat /\ failures' - Toll' <= failures - Toll
    BY <1>a17, <1>0 DEF ConnectAssigns, BackToTop, Toll, LoopRow, ReaderRow, NoticeRow, ListenerRow
  <2> QED
    BY <2>1, <2>2, <1>2
<1>a18. ASSUME ReceiveMessage PROVE SocketsAreFew'
  <2>1. sockets' = sockets
    BY <1>a18 DEF ReceiveMessage
  <2>2. failures' \in Nat /\ failures' - Toll' <= failures - Toll
    BY <1>a18, <1>0 DEF ReceiveMessage, BackToTop, Reading, Toll, LoopRow, ReaderRow, NoticeRow, ListenerRow
  <2> QED
    BY <2>1, <2>2, <1>2
<1>a19. ASSUME ReceiveKey PROVE SocketsAreFew'
  <2>1. sockets' = sockets
    BY <1>a19 DEF ReceiveKey
  <2>2. failures' \in Nat /\ failures' - Toll' <= failures - Toll
    BY <1>a19, <1>0 DEF ReceiveKey, BackToTop, Reading, Toll, LoopRow, ReaderRow, NoticeRow, ListenerRow
  <2> QED
    BY <2>1, <2>2, <1>2
<1>a20. ASSUME BecomeStable PROVE SocketsAreFew'
  <2>1. sockets' = sockets
    BY <1>a20 DEF BecomeStable
  <2>2. failures' \in Nat /\ failures' - Toll' <= failures - Toll
    BY <1>a20, <1>0 DEF BecomeStable, Reading, Toll, LoopRow, ReaderRow, NoticeRow, ListenerRow
  <2> QED
    BY <2>1, <2>2, <1>2
<1>b. ASSUME StopCloses \/ ReadEndsCancelled \/ ServiceHangsUp PROVE SocketsAreFew'
  <2>1. sockets' \subseteq sockets
    BY <1>b DEF StopCloses, ReadEndsCancelled, ServiceHangsUp
  <2>2. failures' \in Nat /\ failures' - Toll' <= failures - Toll
    <3>1. failures' = failures /\ notices' = notices
      BY <1>b DEF StopCloses, ReadEndsCancelled, ServiceHangsUp
    <3>2. /\ (Serving' <=> Serving)
          /\ Serving => listener'.cancelled = listener.cancelled
          /\ reader'.pc = reader.pc \/ (reader.pc = "read" /\ reader'.pc = "none")
      BY <1>b, <1>0 DEF StopCloses, ReadEndsCancelled, ServiceHangsUp, Go, LoopRow, ReaderRow, ListenerRow
    <3>3. Toll' = Toll
      BY <3>1, <3>2 DEF Toll
    <3>4. Toll \in Int
      BY DEF Toll
    <3> QED
      BY <3>1, <3>3, <3>4, <1>0
  <2> QED
    BY <2>1, <2>2, <1>2
<1>c. ASSUME HandleDisconnect PROVE SocketsAreFew'
  <2>1. /\ reader.socket \in sockets /\ sockets' = sockets \ {reader.socket}
        /\ failures > 0 /\ failures' = failures - 1
    BY <1>c, DisconnectLemma DEF Reading
  <2>2. IsFiniteSet(sockets') /\ Cardinality(sockets') = Cardinality(sockets) - 1
    BY <2>1, FS_RemoveElement DEF SocketsAreFew
  <2>3. Toll' >= -1 /\ Toll <= 1 /\ Toll' \in Int /\ Toll \in Int
    BY DEF Toll
  <2> QED
    BY <2>1, <2>2, <2>3, <1>0, <1>1 DEF SocketsAreFew
<1>d. ASSUME Dial PROVE SocketsAreFew'
  <2>1. /\ FreshSocket \notin sockets /\ sockets' = sockets \cup {FreshSocket}
        /\ failures' = failures /\ reader.pc = "dial" /\ reader'.pc = "dialed"
    BY <1>d, <1>0, RoomForOne DEF Dial, ReaderRow
  <2>2. IsFiniteSet(sockets') /\ Cardinality(sockets') = Cardinality(sockets) + 1
    BY <2>1, FS_AddElement DEF SocketsAreFew
  <2>3. Toll' = 0 /\ Toll = -1
    BY <2>1 DEF Toll
  <2> QED
    BY <2>1, <2>2, <2>3, <1>0, <1>1 DEF SocketsAreFew
<1>e. ASSUME StartSession PROVE SocketsAreFew'
  <2>1. session.pc = "open" /\ notices' = Quiet
    BY <1>e DEF StartSession
  <2>2. Toll \in {0, -1}
    BY <2>1 DEF Toll
  <2>3. CASE /\ sockets' = sockets \cup {FreshSocket} /\ failures' = failures
             /\ reader' = [pc |-> "top", socket |-> NoSocket, pump |-> TRUE] /\ Go("serve")
    <3>1. FreshSocket \notin sockets
      BY <2>1, RoomForOne
    <3>2. IsFiniteSet(sockets') /\ Cardinality(sockets') = Cardinality(sockets) + 1
      BY <2>3, <3>1, FS_AddElement DEF SocketsAreFew
    <3>3. /\ session'.pc = "serve" /\ reader'.pc = "top" /\ ~listener'.cancelled
          /\ ~notices'.down /\ ~notices'.adapterDown
      BY <2>1, <2>3, <1>0, <1>e DEF StartSession, NewListener, Go, LoopRow, Quiet
    <3>4. Toll' = 1
      BY <3>3 DEF Toll
    <3> QED
      BY <2>2, <2>3, <3>2, <3>4, <1>0, <1>1 DEF SocketsAreFew
  <2>4. CASE sockets' = sockets /\ Fails /\ reader' = reader /\ (Go("sleep") \/ Go("returned"))
    <3>1. session'.pc \in {"sleep", "returned"}
      BY <2>4, <1>0 DEF Go, LoopRow
    <3>2. Toll' = Toll
      BY <2>1, <2>4, <3>1 DEF Toll
    <3> QED
      BY <2>2, <2>4, <3>2, <1>0, <1>2 DEF Fails
  <2> QED
    BY <1>e, <2>3, <2>4 DEF StartSession
<1> QED
  BY <1>a0, <1>a1, <1>a2, <1>a3, <1>a4, <1>a5, <1>a6, <1>a7, <1>a8, <1>a9, <1>a10, <1>a11, <1>a12, <1>a13, <1>a14, <1>a15, <1>a16, <1>a17, <1>a18, <1>a19, <1>a20, <1>a21, <1>b, <1>c, <1>d, <1>e
  DEF ZaloNext, LoopStep, ListenStep, PumpStep, ReaderStep

(* Sequences of message numbers in their order, none beyond n.              *)
Orderly(s, n) == s \in Seq(Nat) /\ InOrder(s) /\ \A i \in 1..Len(s) : s[i] <= n

LEMMA OrderlyTail ==
  ASSUME NEW n \in Nat, NEW s, Orderly(s, n), s # <<>>
  PROVE  Orderly(Tail(s), n)
<1>1. /\ Tail(s) \in Seq(Nat) /\ Len(Tail(s)) = Len(s) - 1 /\ Len(s) \in Nat
      /\ \A i \in 1..Len(Tail(s)) : Tail(s)[i] = s[i + 1]
  BY HeadTailProperties, LenProperties DEF Orderly
<1>2. \A i \in 1..Len(Tail(s)) : i + 1 \in 1..Len(s)
  BY <1>1
<1> QED
  BY <1>1, <1>2 DEF Orderly, InOrder

LEMMA OrderlyAppend ==
  ASSUME NEW n \in Nat, NEW s, Orderly(s, n)
  PROVE  Orderly(Append(s, n + 1), n + 1)
<1>1. PICK m \in Nat : m = n + 1
  OBVIOUS
<1>2. s \in Seq(Nat) /\ Len(s) \in Nat
  BY LenProperties DEF Orderly
<1>3. PICK t : t = Append(s, m)
  OBVIOUS
<1>4. /\ t \in Seq(Nat) /\ Len(t) = Len(s) + 1
      /\ \A i \in 1..Len(s) : t[i] = s[i]
      /\ t[Len(s) + 1] = m
  BY <1>2, <1>3
<1>5. \A i \in 1..Len(t) : i \in 1..Len(s) \/ i = Len(s) + 1
  BY <1>2, <1>4
<1>6. \A i \in 1..Len(s) : t[i] \in Nat /\ t[i] <= n
  BY <1>2, <1>4, ElementOfSeq DEF Orderly
<1>7. \A i \in 1..Len(t) : t[i] <= m
  BY <1>1, <1>4, <1>5, <1>6
<1>8. ASSUME NEW i \in 1..Len(t), NEW j \in 1..Len(t), i < j PROVE t[i] < t[j]
  <2>1. i \in 1..Len(s)
    BY <1>8, <1>4, <1>2
  <2>2. CASE j \in 1..Len(s)
    BY <2>1, <2>2, <1>4, <1>8 DEF Orderly, InOrder
  <2>3. CASE j = Len(s) + 1
    BY <2>1, <2>3, <1>1, <1>4, <1>6
  <2> QED
    BY <2>2, <2>3, <1>5
<1> QED
  BY <1>1, <1>3, <1>4, <1>7, <1>8 DEF Orderly, InOrder

(* A message that is dropped in the middle.                                *)
LEMMA OrderlyDrop ==
  ASSUME NEW n \in Nat, NEW a \in Seq(Nat), NEW b \in Seq(Nat), b # <<>>, Orderly(a \o b, n)
  PROVE  Orderly(a \o Tail(b), n)
<1>1. PICK t : t = Tail(b)
  OBVIOUS
<1>2. /\ t \in Seq(Nat) /\ Len(t) = Len(b) - 1 /\ Len(a) \in Nat /\ Len(b) \in Nat
      /\ \A i \in 1..Len(t) : t[i] = b[i + 1]
  BY <1>1, HeadTailProperties, LenProperties
<1>3. PICK s, u : s = a \o b /\ u = a \o t
  OBVIOUS
<1>4. /\ Len(s) = Len(a) + Len(b)
      /\ \A i \in 1..Len(a) + Len(b) : s[i] = IF i <= Len(a) THEN a[i] ELSE b[i - Len(a)]
  BY <1>3, ConcatProperties
<1>5. /\ u \in Seq(Nat) /\ Len(u) = Len(a) + Len(t)
      /\ \A i \in 1..Len(a) + Len(t) : u[i] = IF i <= Len(a) THEN a[i] ELSE t[i - Len(a)]
  BY <1>2, <1>3, ConcatProperties
<1>6. ASSUME NEW i \in 1..Len(u)
      PROVE  \E k \in 1..Len(s) : u[i] = s[k] /\ k = IF i <= Len(a) THEN i ELSE i + 1
  <2>1. CASE i <= Len(a)
    <3>1. i \in 1..Len(a) + Len(t) /\ i \in 1..Len(a) + Len(b) /\ i \in 1..Len(s)
      BY <2>1, <1>2, <1>4, <1>5
    <3>2. u[i] = a[i] /\ s[i] = a[i]
      BY <2>1, <3>1, <1>4, <1>5
    <3> QED
      BY <2>1, <3>1, <3>2
  <2>2. CASE ~(i <= Len(a))
    <3>1. i - Len(a) \in 1..Len(t) /\ i + 1 \in 1..Len(s) /\ (i + 1) - Len(a) = (i - Len(a)) + 1
      BY <2>2, <1>2, <1>4, <1>5
    <3>2. u[i] = t[i - Len(a)] /\ t[i - Len(a)] = b[(i - Len(a)) + 1]
      BY <2>2, <3>1, <1>2, <1>5
    <3>3. s[i + 1] = b[(i + 1) - Len(a)]
      BY <2>2, <3>1, <1>2, <1>4
    <3> QED
      BY <2>2, <3>1, <3>2, <3>3
  <2> QED
    BY <2>1, <2>2
<1>7. InOrder(u)
  <2> SUFFICES ASSUME NEW i \in 1..Len(u), NEW j \in 1..Len(u), i < j PROVE u[i] < u[j]
    BY DEF InOrder
  <2>1. PICK k \in 1..Len(s) : u[i] = s[k] /\ k = IF i <= Len(a) THEN i ELSE i + 1
    BY <1>6
  <2>2. PICK l \in 1..Len(s) : u[j] = s[l] /\ l = IF j <= Len(a) THEN j ELSE j + 1
    BY <1>6
  <2>3. k < l
    <3>1. i \in Nat /\ j \in Nat /\ Len(a) \in Nat /\ i < j
      BY <1>2, <1>5
    <3>2. k = (IF i <= Len(a) THEN i ELSE i + 1) /\ l = IF j <= Len(a) THEN j ELSE j + 1
      BY <2>1, <2>2
    <3> QED
      BY <3>1, <3>2
  <2>4. s[k] < s[l]
    BY <2>3, <1>3 DEF Orderly, InOrder
  <2> QED
    BY <2>1, <2>2, <2>4
<1>8. \A i \in 1..Len(u) : u[i] <= n
  BY <1>3, <1>6 DEF Orderly
<1> QED
  BY <1>1, <1>3, <1>5, <1>7, <1>8 DEF Orderly

LEMMA HeadFirst ==
  ASSUME NEW b \in Seq(Nat), b # <<>>
  PROVE  /\ Head(b) \in Nat /\ Tail(b) \in Seq(Nat) /\ <<Head(b)>> \in Seq(Nat)
         /\ b = <<Head(b)>> \o Tail(b)
<1>1. Head(b) \in Nat /\ Tail(b) \in Seq(Nat)
  BY HeadTailProperties
<1>2. <<Head(b)>> \in Seq(Nat)
  BY <1>1
<1>3. b = <<Head(b)>> \o Tail(b)
  <2>1. PICK h, t, u : h = <<Head(b)>> /\ t = Tail(b) /\ u = h \o t
    OBVIOUS
  <2>2. /\ Len(t) = Len(b) - 1 /\ Len(b) \in Nat \ {0} /\ Len(h) = 1 /\ h[1] = b[1]
        /\ \A i \in 1..Len(t) : t[i] = b[i + 1]
    BY <2>1, HeadTailProperties, EmptySeq
  <2>3. /\ u \in Seq(Nat) /\ Len(u) = Len(h) + Len(t)
        /\ \A i \in 1..Len(h) + Len(t) : u[i] = IF i <= Len(h) THEN h[i] ELSE t[i - Len(h)]
    BY <2>1, <1>1, <1>2, ConcatProperties
  <2>4. Len(u) = Len(b)
    BY <2>2, <2>3
  <2>5. ASSUME NEW i \in 1..Len(u) PROVE u[i] = b[i]
    <3>1. CASE i = 1
      BY <3>1, <2>2, <2>3
    <3>2. CASE i # 1
      <4>1. i - 1 \in 1..Len(t) /\ (i - 1) + 1 = i /\ i \in 1..Len(h) + Len(t)
        BY <3>2, <2>2, <2>3, <2>4
      <4> QED
        BY <3>2, <4>1, <2>2, <2>3
    <3> QED
      BY <3>1, <3>2
  <2> QED
    BY <2>1, <2>3, <2>4, <2>5, SeqEqual
<1> QED
  BY <1>1, <1>2, <1>3

LineInv == Orderly(OnTheLine, sent)

(* The line, by its parts.                                                 *)
Cat(s, t) == s \o t
Chained(l, c, a, h, b) == Cat(Cat(Cat(Cat(l, c), a), h), b)

LEMMA CatFacts ==
  /\ \A s, t \in Seq(Nat) : Cat(s, t) \in Seq(Nat)
  /\ \A s \in Seq(Nat) : Cat(s, <<>>) = s /\ Cat(<<>>, s) = s
  /\ \A s, t, u \in Seq(Nat) : Cat(Cat(s, t), u) = Cat(s, Cat(t, u))
  /\ \A s \in Seq(Nat) : s # <<>> => Cat(<<Head(s)>>, Tail(s)) = s
<1>1. \A s, t \in Seq(Nat) : Cat(s, t) \in Seq(Nat)
  BY ConcatProperties DEF Cat
<1>2. \A s \in Seq(Nat) : Cat(s, <<>>) = s /\ Cat(<<>>, s) = s
  BY ConcatEmptySeq DEF Cat
<1>3. \A s, t, u \in Seq(Nat) : Cat(Cat(s, t), u) = Cat(s, Cat(t, u))
  <2> SUFFICES ASSUME NEW s \in Seq(Nat), NEW t \in Seq(Nat), NEW u \in Seq(Nat)
               PROVE  (s \o t) \o u = s \o (t \o u)
    BY DEF Cat
  <2> QED
    BY ConcatAssociative, SMTT(60)
<1>4. \A s \in Seq(Nat) : s # <<>> => Cat(<<Head(s)>>, Tail(s)) = s
  BY HeadFirst DEF Cat
<1> QED
  BY <1>1, <1>2, <1>3, <1>4

LEMMA PartsTyped ==
  ASSUME ZaloRowsOK
  PROVE  /\ <<last>> \in Seq(Nat) /\ InHand \in Seq(Nat) /\ adapted \in Seq(Nat)
         /\ hand \in Seq(Nat) /\ buffered \in Seq(Nat) /\ sent \in Nat
         /\ OnTheLine = Chained(<<last>>, InHand, adapted, hand, buffered)
         /\ OnTheLine \in Seq(Nat)
<1>1. session.cur \in Nat /\ last \in Nat
  BY DEF ZaloRowsOK, LoopRow
<1>2. <<last>> \in Seq(Nat) /\ <<session.cur>> \in Seq(Nat) /\ <<>> \in Seq(Nat)
  BY <1>1
<1>3. InHand \in Seq(Nat)
  BY <1>2 DEF InHand
<1>4. OnTheLine = Chained(<<last>>, InHand, adapted, hand, buffered)
  BY DEF OnTheLine, Chained, Cat
<1> QED
  BY <1>2, <1>3, <1>4, CatFacts DEF ZaloRowsOK, Chained

(* The connector takes one up.                                             *)
LEMMA TakenUp ==
  ASSUME NEW l \in Seq(Nat), NEW a \in Seq(Nat), NEW h \in Seq(Nat), NEW b \in Seq(Nat), a # <<>>
  PROVE  Chained(l, <<Head(a)>>, Tail(a), h, b) = Chained(l, <<>>, a, h, b)
<1>1. <<Head(a)>> \in Seq(Nat) /\ Tail(a) \in Seq(Nat)
  BY HeadFirst
<1>2. Cat(Cat(l, <<Head(a)>>), Tail(a)) = Cat(Cat(l, <<>>), a)
  <2>1. PICK u \in Seq(Nat), t \in Seq(Nat) : u = <<Head(a)>> /\ t = Tail(a)
    BY <1>1
  <2>2. Cat(u, t) = a /\ Cat(l, <<>>) = l
    BY <2>1, CatFacts
  <2>3. Cat(Cat(l, u), t) = Cat(l, Cat(u, t))
    BY CatFacts
  <2> QED
    BY <2>1, <2>2, <2>3
<1> QED
  BY <1>2 DEF Chained

(* The pump takes one up, and gives it on.                                 *)
LEMMA PumpTaken ==
  ASSUME NEW n, NEW l \in Seq(Nat), NEW c \in Seq(Nat), NEW a \in Seq(Nat), NEW b \in Seq(Nat),
         b # <<>>, Orderly(Chained(l, c, a, <<>>, b), n)
  PROVE  Orderly(Chained(l, c, a, <<Head(b)>>, Tail(b)), n)
<1>1. Cat(l, c) \in Seq(Nat) /\ Cat(Cat(l, c), a) \in Seq(Nat)
  BY CatFacts
<1>2. <<Head(b)>> \in Seq(Nat) /\ Tail(b) \in Seq(Nat) /\ Cat(<<Head(b)>>, Tail(b)) = b
  BY HeadFirst, CatFacts
<1>3. PICK u \in Seq(Nat), t \in Seq(Nat) : u = <<Head(b)>> /\ t = Tail(b)
  BY <1>2
<1>4. Cat(u, t) = b
  BY <1>2, <1>3
<1>5. \A q \in Seq(Nat) : Cat(Cat(q, u), t) = Cat(q, Cat(u, t)) /\ Cat(q, <<>>) = q
  BY CatFacts
<1>6. \A q \in Seq(Nat) : Cat(Cat(q, <<Head(b)>>), Tail(b)) = Cat(Cat(q, <<>>), b)
  BY <1>3, <1>4, <1>5
<1> QED
  BY <1>1, <1>6 DEF Chained

LEMMA PumpGiven ==
  ASSUME NEW n, NEW l \in Seq(Nat), NEW c \in Seq(Nat),
         NEW a \in Seq(Nat), NEW h \in Seq(Nat), NEW b \in Seq(Nat),
         Orderly(Chained(l, c, a, h, b), n)
  PROVE  Orderly(Chained(l, c, Cat(a, h), <<>>, b), n)
<1>1. Cat(l, c) \in Seq(Nat) /\ Cat(Cat(l, c), a) \in Seq(Nat) /\ Cat(a, h) \in Seq(Nat)
      /\ Cat(Cat(Cat(l, c), a), h) \in Seq(Nat)
  BY CatFacts
<1>2. \A p \in Seq(Nat) : Cat(p, Cat(a, h)) = Cat(Cat(p, a), h)
  BY CatFacts
<1>3. \A p \in Seq(Nat) : Cat(p, <<>>) = p
  BY CatFacts
<1> QED
  BY <1>1, <1>2, <1>3 DEF Chained

LEMMA FirstApart ==
  ASSUME NEW l \in Seq(Nat), NEW c \in Seq(Nat), NEW a \in Seq(Nat), NEW h \in Seq(Nat),
         NEW b \in Seq(Nat)
  PROVE  Chained(l, c, a, h, b) = Cat(l, Chained(c, <<>>, a, h, b))
<1>1. \A s, t, u \in Seq(Nat) : Cat(Cat(s, t), u) = Cat(s, Cat(t, u))
  BY CatFacts
<1>2. Cat(c, a) \in Seq(Nat) /\ Cat(Cat(c, a), h) \in Seq(Nat) /\ Cat(c, <<>>) = c
  BY CatFacts
<1>3. Cat(Cat(l, c), a) = Cat(l, Cat(c, a))
  BY <1>1
<1>4. Cat(Cat(l, Cat(c, a)), h) = Cat(l, Cat(Cat(c, a), h))
  BY <1>1, <1>2
<1>5. Cat(Cat(l, Cat(Cat(c, a), h)), b) = Cat(l, Cat(Cat(Cat(c, a), h), b))
  BY <1>1, <1>2
<1> QED
  BY <1>2, <1>3, <1>4, <1>5 DEF Chained


LEMMA CatAppend ==
  ASSUME NEW s \in Seq(Nat), NEW t \in Seq(Nat), NEW m \in Nat
  PROVE  Cat(s, Append(t, m)) = Append(Cat(s, t), m)
<1>0. <<m>> \in Seq(Nat)
  OBVIOUS
<1>1. PICK e \in Seq(Nat) : e = <<m>>
  BY <1>0
<1>2. \A u \in Seq(Nat) : Append(u, m) = Cat(u, e)
  BY <1>1, AppendIsConcat DEF Cat
<1>3. Cat(s, Cat(t, e)) = Cat(Cat(s, t), e) /\ Cat(s, t) \in Seq(Nat)
  BY CatFacts
<1> QED
  BY <1>2, <1>3

LEMMA FirstIsBefore ==
  ASSUME NEW l \in Nat, NEW z \in Seq(Nat), NEW n \in Nat, Orderly(Cat(<<l>>, z), n)
  PROVE  l <= n
<1>0. <<l>> \in Seq(Nat) /\ Len(<<l>>) = 1 /\ <<l>>[1] = l
  OBVIOUS
<1>1. PICK e \in Seq(Nat) : e = <<l>> /\ Len(e) = 1 /\ e[1] = l
  BY <1>0
<1>2. Len(z) \in Nat
  BY LenProperties
<1>3. /\ Len(e \o z) = 1 + Len(z)
      /\ \A i \in 1..(1 + Len(z)) : (e \o z)[i] = IF i <= 1 THEN e[i] ELSE z[i - 1]
  BY <1>1, ConcatProperties
<1>4. (e \o z)[1] = l /\ 1 \in 1..Len(e \o z)
  BY <1>1, <1>2, <1>3
<1> QED
  BY <1>1, <1>4 DEF Orderly, Cat

(* A message is done with.                                                 *)
LEMMA NextTaken ==
  ASSUME NEW n \in Nat, NEW l \in Nat, NEW c \in Nat,
         NEW a \in Seq(Nat), NEW h \in Seq(Nat), NEW b \in Seq(Nat),
         Orderly(Chained(<<l>>, <<c>>, a, h, b), n)
  PROVE  Orderly(Chained(<<c>>, <<>>, a, h, b), n)
<1>0. <<l>> \in Seq(Nat) /\ <<c>> \in Seq(Nat) /\ <<>> \in Seq(Nat)
  OBVIOUS
<1>1. Chained(<<c>>, <<>>, a, h, b) \in Seq(Nat)
  BY <1>0, CatFacts DEF Chained
<1>2. PICK z \in Seq(Nat) : z = Chained(<<c>>, <<>>, a, h, b)
  BY <1>1
<1>3. Chained(<<l>>, <<c>>, a, h, b) = <<l>> \o z
  <2>1. Chained(<<l>>, <<c>>, a, h, b) = Cat(<<l>>, Chained(<<c>>, <<>>, a, h, b))
    <3>1. PICK u \in Seq(Nat), v \in Seq(Nat) : u = <<l>> /\ v = <<c>>
      BY <1>0
    <3>2. Chained(u, v, a, h, b) = Cat(u, Chained(v, <<>>, a, h, b))
      BY FirstApart
    <3> QED
      BY <3>1, <3>2
  <2> QED
    BY <2>1, <1>2 DEF Cat
<1>5. PICK y \in Seq(Nat) : y = <<l>> \o z
  BY <1>0, ConcatProperties
<1>6. /\ Len(y) = 1 + Len(z) /\ Len(z) \in Nat
      /\ \A i \in 1..(1 + Len(z)) : y[i] = IF i <= 1 THEN <<l>>[i] ELSE z[i - 1]
  <2>1. Len(<<l>>) = 1
    OBVIOUS
  <2> QED
    BY <2>1, <1>0, <1>5, ConcatProperties, LenProperties
<1>7. y # <<>>
  BY <1>6, EmptySeq
<1>8. Tail(y) = z
  <2>1. /\ Tail(y) \in Seq(Nat) /\ Len(Tail(y)) = Len(z)
        /\ \A i \in 1..Len(Tail(y)) : Tail(y)[i] = y[i + 1]
    BY <1>6, <1>7, HeadTailProperties
  <2>2. ASSUME NEW i \in 1..Len(z) PROVE Tail(y)[i] = z[i]
    <3>1. i + 1 \in 1..(1 + Len(z)) /\ ~(i + 1 <= 1) /\ (i + 1) - 1 = i
      BY <1>6
    <3> QED
      BY <3>1, <2>1, <1>6
  <2> QED
    BY <2>1, <2>2, SeqEqual
<1>9. Orderly(y, n)
  BY <1>3, <1>5
<1>10. Orderly(Tail(y), n)
  BY <1>7, <1>9, OrderlyTail
<1> QED
  BY <1>2, <1>8, <1>10

(* The steps that move no message.                                         *)
LEMMA LineAtRest ==
  ASSUME ZaloRowsOK, LineInv, UNCHANGED <<last, adapted, hand, buffered, sent>>, InHand' = InHand
  PROVE  LineInv'
<1>1. OnTheLine' = OnTheLine
  BY DEF OnTheLine
<1> QED
  BY <1>1 DEF LineInv, Orderly, InOrder

QuietStep ==
  \/ LoadCredentials \/ Login \/ DrainOnce \/ Sleep \/ StartAgain \/ SeeCancelled
  \/ StopTakesClient \/ StopCloses \/ StopWaits \/ NoteError \/ NoteDisconnect \/ PumpNotices
  \/ ReaderStep \/ Cancel \/ ReceiveKey \/ BecomeStable \/ HandleDisconnect \/ ServiceHangsUp

LEMMA QuietLine ==
  ASSUME ZaloRowsOK, LineInv, QuietStep
  PROVE  LineInv'
<1>1. session \in LoopRow
  BY DEF ZaloRowsOK
<1>2. CASE LoadCredentials \/ Login \/ DrainOnce \/ Sleep \/ StartAgain \/ SeeCancelled
           \/ StopTakesClient \/ StopCloses \/ StopWaits \/ NoteDisconnect
  <2>1. UNCHANGED <<last, adapted, hand, buffered, sent>>
    BY <1>2 DEF LoadCredentials, Login, DrainOnce, Sleep, StartAgain, SeeCancelled, StopTakesClient,
                StopCloses, StopWaits, NoteDisconnect, buffers
  <2>2. session.pc # "dispatch" /\ \E pc \in SessionPc \ {"dispatch"} : Go(pc)
    BY <1>2 DEF LoadCredentials, Login, DrainOnce, Sleep, StartAgain, SeeCancelled, StopTakesClient,
                StopCloses, StopWaits, NoteDisconnect, SessionPc
  <2>3. InHand' = InHand
    BY <1>1, <2>2 DEF InHand, Go, LoopRow
  <2> QED
    BY <2>1, <2>3, LineAtRest
<1>3. CASE Cancel \/ NoteError \/ PumpNotices \/ ReaderStep \/ ReceiveKey \/ BecomeStable
           \/ HandleDisconnect \/ ServiceHangsUp
  <2>1. UNCHANGED <<last, adapted, hand, buffered, sent>> /\ session' = session
    BY <1>3 DEF Cancel, NoteError, PumpNotices, ReaderStep, ReadNext, ReadEndsCancelled, DialFails, Dial,
                ConnectAssigns, ReceiveKey, BecomeStable, HandleDisconnect, ServiceHangsUp, buffers
  <2>2. InHand' = InHand
    BY <2>1 DEF InHand
  <2> QED
    BY <2>1, <2>2, LineAtRest
<1> QED
  BY <1>2, <1>3 DEF QuietStep

LEMMA LineStep ==
  ASSUME ZaloRowsOK, ZaloRowsOK', LineInv, ZaloNext
  PROVE  LineInv'
<1>0. /\ <<last>> \in Seq(Nat) /\ InHand \in Seq(Nat) /\ adapted \in Seq(Nat)
      /\ hand \in Seq(Nat) /\ buffered \in Seq(Nat) /\ sent \in Nat /\ last \in Nat
      /\ OnTheLine = Chained(<<last>>, InHand, adapted, hand, buffered)
      /\ OnTheLine \in Seq(Nat) /\ session \in LoopRow
  BY PartsTyped DEF ZaloRowsOK
<1>1. OnTheLine' = Chained(<<last'>>, InHand', adapted', hand', buffered')
  BY DEF OnTheLine, Chained, Cat
<1>2. Orderly(OnTheLine, sent)
  BY DEF LineInv
<1>r. PICK l \in Seq(Nat), c \in Seq(Nat), a \in Seq(Nat), h \in Seq(Nat), b \in Seq(Nat) :
        /\ l = <<last>> /\ c = InHand /\ a = adapted /\ h = hand /\ b = buffered
  BY <1>0
<1>l. OnTheLine = Chained(l, c, a, h, b)
  BY <1>0, <1>r
<1>q. QuietStep => LineInv'
  BY QuietLine
<1>a. ASSUME TakeMessage PROVE LineInv'
  <2>1. /\ session.pc = "serve" /\ adapted # <<>> /\ adapted' = Tail(adapted)
        /\ session' = [pc |-> "dispatch", cur |-> Head(adapted)]
        /\ last' = last /\ hand' = hand /\ buffered' = buffered /\ sent' = sent
    BY <1>a DEF TakeMessage
  <2>2. InHand = <<>> /\ InHand' = <<Head(adapted)>>
    BY <2>1 DEF InHand
  <2>3. OnTheLine' = Chained(l, <<Head(a)>>, Tail(a), h, b)
    BY <2>1, <2>2, <1>r, <1>1
  <2>4. OnTheLine = Chained(l, <<>>, a, h, b) /\ a # <<>>
    BY <2>1, <2>2, <1>r, <1>l
  <2>5. OnTheLine' = OnTheLine
    BY <2>3, <2>4, TakenUp
  <2> QED
    BY <2>1, <2>5, <1>2 DEF LineInv
<1>b. ASSUME Dispatch PROVE LineInv'
  <2>1. /\ session.pc = "dispatch" /\ last' = session.cur /\ session'.pc # "dispatch"
        /\ adapted' = adapted /\ hand' = hand /\ buffered' = buffered /\ sent' = sent
    BY <1>b DEF Dispatch, buffers
  <2>2. InHand = <<session.cur>> /\ InHand' = <<>> /\ session.cur \in Nat
    BY <2>1, <1>0 DEF InHand, LoopRow
  <2>3. PICK m \in Nat, k \in Nat : m = last /\ k = session.cur
    BY <2>2, <1>0
  <2>4. OnTheLine' = Chained(<<k>>, <<>>, a, h, b) /\ OnTheLine = Chained(<<m>>, <<k>>, a, h, b)
    BY <2>1, <2>2, <2>3, <1>r, <1>1, <1>l
  <2>5. Orderly(Chained(<<m>>, <<k>>, a, h, b), sent)
    BY <2>4, <1>2
  <2>6. Orderly(Chained(<<k>>, <<>>, a, h, b), sent)
    BY <2>3, <2>5, <1>0, <1>r, NextTaken
  <2> QED
    BY <2>1, <2>4, <2>6 DEF LineInv
<1>c. ASSUME PumpTakes \/ PumpGives PROVE LineInv'
  <2>1. last' = last /\ sent' = sent /\ session' = session
    BY <1>c DEF PumpTakes, PumpGives
  <2>2. InHand' = InHand
    BY <2>1 DEF InHand
  <2>3. CASE PumpTakes
    <3>1. /\ hand = <<>> /\ buffered # <<>> /\ adapted' = adapted
          /\ hand' = <<Head(buffered)>> /\ buffered' = Tail(buffered)
      BY <2>3 DEF PumpTakes
    <3>2. OnTheLine' = Chained(l, c, a, <<Head(b)>>, Tail(b))
      BY <2>1, <2>2, <3>1, <1>r, <1>1
    <3>3. OnTheLine = Chained(l, c, a, <<>>, b) /\ b # <<>>
      BY <3>1, <1>r, <1>l
    <3>4. Orderly(Chained(l, c, a, <<>>, b), sent)
      BY <3>3, <1>2
    <3>5. Orderly(Chained(l, c, a, <<Head(b)>>, Tail(b)), sent)
      BY <3>3, <3>4, <1>r, PumpTaken
    <3> QED
      BY <2>1, <3>2, <3>5 DEF LineInv
  <2>4. CASE PumpGives
    <3>1. adapted' = Cat(adapted, hand) /\ hand' = <<>> /\ buffered' = buffered
      BY <2>4 DEF PumpGives, Cat
    <3>2. OnTheLine' = Chained(l, c, Cat(a, h), <<>>, b)
      BY <2>1, <2>2, <3>1, <1>r, <1>1
    <3>3. Orderly(Chained(l, c, a, h, b), sent)
      BY <1>l, <1>2
    <3>4. Orderly(Chained(l, c, Cat(a, h), <<>>, b), sent)
      BY <3>3, <1>r, PumpGiven
    <3> QED
      BY <2>1, <3>2, <3>4 DEF LineInv
  <2> QED
    BY <1>c, <2>3, <2>4
<1>d. ASSUME StartSession PROVE LineInv'
  <2>1. /\ buffered' = <<>> /\ hand' = <<>> /\ adapted' = <<>> /\ last' = last /\ sent' = sent
        /\ Go("serve") \/ Go("sleep") \/ Go("returned")
    BY <1>d DEF StartSession
  <2>2. InHand' = <<>>
    BY <2>1, <1>0 DEF InHand, Go, LoopRow
  <2>3. OnTheLine' = <<last>>
    <3>1. OnTheLine' = Chained(l, <<>>, <<>>, <<>>, <<>>)
      BY <2>1, <2>2, <1>r, <1>1
    <3>2. Cat(l, <<>>) = l
      BY CatFacts
    <3> QED
      BY <3>1, <3>2, <1>r DEF Chained
  <2>4. last <= sent
    <3>1. Chained(c, <<>>, a, h, b) \in Seq(Nat)
      BY CatFacts, EmptySeq DEF Chained
    <3>2. PICK z \in Seq(Nat) : z = Chained(c, <<>>, a, h, b)
      BY <3>1
    <3>3. OnTheLine = Cat(l, z)
      BY <3>2, <1>l, FirstApart
    <3>4. PICK m \in Nat, n \in Nat : m = last /\ n = sent
      BY <1>0
    <3>5. Orderly(Cat(<<m>>, z), n)
      BY <3>3, <3>4, <1>r, <1>2
    <3>6. m <= n
      BY <3>5, FirstIsBefore
    <3> QED
      BY <3>4, <3>6
  <2>5. Orderly(<<last>>, sent)
    BY <2>4, <1>0 DEF Orderly, InOrder
  <2> QED
    BY <2>1, <2>3, <2>5 DEF LineInv
<1>e. ASSUME ReceiveMessage PROVE LineInv'
  <2>1. /\ last' = last /\ hand' = hand /\ adapted' = adapted /\ session' = session
        /\ sent' = sent + 1 /\ buffered' \in {buffered, Emit(buffered, sent + 1)}
    BY <1>e DEF ReceiveMessage
  <2>2. InHand' = InHand
    BY <2>1 DEF InHand
  <2>3. PICK x \in Seq(Nat) : x = Cat(Cat(Cat(l, c), a), h)
    BY CatFacts
  <2>4. OnTheLine = Cat(x, b) /\ OnTheLine' = Cat(x, buffered')
    BY <2>1, <2>2, <2>3, <1>r, <1>1, <1>l DEF Chained
  <2>5. PICK m \in Nat, n \in Nat : n = sent /\ m = n + 1
    BY <1>0
  <2>6. CASE buffered' = buffered
    <3>1. OnTheLine' = OnTheLine
      BY <2>4, <2>6, <1>r
    <3>2. Orderly(OnTheLine, m)
      BY <2>5, <1>2 DEF Orderly
    <3> QED
      BY <3>1, <3>2, <2>1, <2>5 DEF LineInv
  <2>7. CASE buffered' = Append(buffered, m)
    <3>1. OnTheLine' = Append(Cat(x, b), m)
      BY <2>4, <2>7, <1>r, CatAppend
    <3>2. Orderly(Append(Cat(x, b), n + 1), n + 1)
      BY <2>4, <2>5, <1>2, OrderlyAppend
    <3> QED
      BY <3>1, <3>2, <2>1, <2>5 DEF LineInv
  <2>8. CASE buffered' = Append(Tail(buffered), m) /\ buffered # <<>>
    <3>1. Tail(b) \in Seq(Nat) /\ b # <<>>
      BY <2>8, <1>r, HeadTailProperties
    <3>2. Orderly(Cat(x, Tail(b)), n)
      BY <2>4, <2>5, <3>1, <1>2, OrderlyDrop DEF Cat
    <3>3. OnTheLine' = Append(Cat(x, Tail(b)), m)
      BY <2>4, <2>8, <3>1, <1>r, CatAppend
    <3>4. Orderly(Append(Cat(x, Tail(b)), n + 1), n + 1)
      BY <3>2, OrderlyAppend
    <3> QED
      BY <3>3, <3>4, <2>1, <2>5 DEF LineInv
  <2>9. BufferSize \in Nat \ {0} /\ Len(<<>>) = 0
    BY ZaloAssumption
  <2> QED
    BY <2>1, <2>5, <2>6, <2>7, <2>8, <2>9 DEF Emit
<1> QED
  BY <1>q, <1>a, <1>b, <1>c, <1>d, <1>e
  DEF ZaloNext, LoopStep, ListenStep, PumpStep, QuietStep

-----------------------------------------------------------------------------

ZaloInv == ZaloRowsOK /\ SocketsAreFew /\ ControlInv /\ LineInv

LEMMA ZaloStep == ZaloInv /\ [ZaloNext]_zaloVars => ZaloInv'
<1> SUFFICES ASSUME ZaloInv, [ZaloNext]_zaloVars PROVE ZaloInv'
  OBVIOUS
<1> USE DEF ZaloInv
<1>1. CASE UNCHANGED zaloVars
  BY <1>1 DEF zaloVars, ZaloRowsOK, SocketsAreFew, Toll, Serving, ControlInv, KeysHavePings,
              ListenersAreWhole, DeadListenersAreNoticed, HealthIsHonest, NoReaderBetweenSessions,
              LineInv, Orderly, InOrder, OnTheLine, InHand
<1>2. CASE ZaloNext
  <2>1. (LoopStep \/ ListenStep \/ PumpStep \/ Cancel) \/ OnTheWire
    BY <1>2 DEF ZaloNext, OnTheWire
  <2>2. ZaloRowsOK'
    BY <2>1, LoopRows, ReaderRows
  <2>3. SocketsAreFew'
    BY <1>2, SocketsStayFew
  <2>4. ControlInv'
    BY <2>1, LoopControl, ReaderControl
  <2>5. LineInv'
    BY <1>2, <2>2, LineStep
  <2> QED
    BY <2>2, <2>3, <2>4, <2>5
<1> QED
  BY <1>1, <1>2

LEMMA ZaloStart == ZaloInit => ZaloInv
<1> SUFFICES ASSUME ZaloInit PROVE ZaloInv
  OBVIOUS
<1> USE DEF ZaloInit
<1>0. MaxFailures \in Nat
  BY ZaloAssumption
<1>1. ZaloRowsOK
  <2>1. session \in LoopRow /\ reader \in ReaderRow
    BY DEF LoopRow, SessionPc, ReaderRow
  <2>2. listener \in ListenerRow
    BY DEF NewListener, ListenerRow
  <2>3. notices \in NoticeRow
    BY DEF Quiet, NoticeRow
  <2> QED
    BY <2>1, <2>2, <2>3, <1>0 DEF ZaloRowsOK
<1>2. SocketsAreFew
  BY <1>0, FS_EmptySet DEF SocketsAreFew, Toll, Serving, Quiet
<1>3. ControlInv
  BY DEF ControlInv, KeysHavePings, ListenersAreWhole, DeadListenersAreNoticed, HealthIsHonest,
         NoReaderBetweenSessions, Serving, NewListener
<1>4. LineInv
  <2>1. InHand = <<>>
    BY DEF InHand
  <2>2. OnTheLine = <<0>>
    BY <2>1 DEF OnTheLine
  <2>3. Orderly(<<0>>, 0)
    BY DEF Orderly, InOrder
  <2> QED
    BY <2>2, <2>3 DEF LineInv
<1> QED
  BY <1>1, <1>2, <1>3, <1>4 DEF ZaloInv

LEMMA ZaloInvariant == ZaloSpec => []ZaloInv
<1> QED
  BY ZaloStart, ZaloStep, PTL DEF ZaloSpec

LEMMA SessionsHonest == ZaloInv => SessionsAreHonest
<1> SUFFICES ASSUME ZaloInv PROVE SessionsAreHonest
  OBVIOUS
<1>1. MessagesInOrder
  BY DEF MessagesInOrder, ZaloInv, LineInv, Orderly, OnTheLine, InHand
<1>2. PingsFollowTheSocket
  BY DEF PingsFollowTheSocket, ZaloInv, ControlInv, KeysHavePings
<1> QED
  BY <1>1, <1>2 DEF SessionsAreHonest, ZaloInv, ControlInv

(* For any number of messages, failures, retries and endpoints and any size *)
(* of the buffers, whatever Stop, the listener's own reconnects and the     *)
(* pump do between each other's steps: what the conversation sees is in the *)
(* order it was sent; a listener that is dead is noticed; pings go to the   *)
(* socket that is read; "healthy" is no lie; and no reader outlives its     *)
(* session.                                                                *)
THEOREM SessionsStayHonest == ZaloSpec => []SessionsAreHonest
<1> QED
  BY ZaloInvariant, SessionsHonest, PTL

-----------------------------------------------------------------------------
(* Delivery.                                                               *)

IntentRows == [Intents -> IntentStatus]
AtWork == [pc : DelivererPc, todo : SUBSET Intents, cur : Intents \cup {NoIntent}, attempt : Nat]

RowsOK ==
  /\ intent \in IntentRows /\ out \subseteq RunIntents
  /\ deliverer \in [Deliverers -> AtWork]

(* The goroutines that answer commands have a reply in hand, and no list.   *)
Replying(p) == deliverer[p].todo = {} /\ deliverer[p].cur \in Replies \cup {NoIntent}
HandlersReply == \A p \in Handlers : Replying(p)

(* What a drain has still to deliver is open, unless it was reset.          *)
Underway(i) == Open(i) \/ intent[i] = "gone"
Draining(p) ==
  /\ \A i \in deliverer[p].todo \cap RunIntents : Underway(i) /\ i # deliverer[p].cur
  /\ (deliverer[p].pc \in {"send", "sent", "refused", "give_up"}
        /\ deliverer[p].cur \in RunIntents) => Underway(deliverer[p].cur)
DrainsOpenIntents == \A p \in Drainers : Draining(p)

(* Who is between two messages has none in hand; a call that succeeded has  *)
(* sent the message.                                                       *)
Sent(p) ==
  /\ deliverer[p].pc \notin {"idle", "next"} => deliverer[p].cur \in Intents
  /\ deliverer[p].pc = "sent" /\ deliverer[p].cur \in RunIntents => deliverer[p].cur \in out
SentIsOut == \A p \in Deliverers : Sent(p)

DeliveryInv == RowsOK /\ HandlersReply /\ DrainsOpenIntents /\ SentIsOut

(* One goroutine drains.                                                   *)
OneDrainer == \A p, q \in Drainers : p = q

Box == [i \in RunIntents |-> BoxOf(i)]

-----------------------------------------------------------------------------
(* The operators the steps are made of.                                    *)

LEMMA RestingType == Resting \in AtWork /\ Resting.todo = {} /\ Resting.cur = NoIntent /\ Resting.pc = "idle"
<1> QED
  BY DEF Resting, AtWork, DelivererPc

(* An UPDATE by id changes its own row only, and only if it is there.       *)
LEMMA MarkOne ==
  ASSUME NEW i \in Intents, NEW status \in IntentStatus, intent \in IntentRows, Mark(i, status)
  PROVE  /\ intent' \in IntentRows /\ \A j \in Intents \ {i} : intent'[j] = intent[j]
         /\ intent'[i] = IF Exists(i) THEN status ELSE intent[i]
<1> QED
  BY DEF Mark, IntentRows

LEMMA AfterIntentType ==
  ASSUME deliverer \in [Deliverers -> AtWork], NEW p \in Deliverers, NEW gaveUp \in BOOLEAN,
         AfterIntent(p, gaveUp)
  PROVE  /\ deliverer' \in [Deliverers -> AtWork]
         /\ \A q \in Deliverers \ {p} : deliverer'[q] = deliverer[q]
         /\ deliverer'[p].pc \in {"idle", "next"} /\ deliverer'[p].cur = NoIntent
         /\ deliverer'[p].todo \in {{}, deliverer[p].todo}
         /\ p \in Handlers => deliverer'[p].todo = {}
<1> DEFINE going == [Resting EXCEPT !.pc = "next", !.todo = deliverer[p].todo]
<1>1. /\ going \in AtWork /\ going.pc = "next" /\ going.cur = NoIntent
      /\ going.todo = deliverer[p].todo
  <2>1. deliverer[p].todo \in SUBSET Intents
    BY DEF AtWork
  <2> QED
    BY <2>1, RestingType DEF AtWork, DelivererPc
<1>2. deliverer' = [deliverer EXCEPT ![p] =
        IF p \in Handlers \/ (gaveUp /\ kind = "zalo") THEN Resting ELSE going]
  BY DEF AfterIntent
<1> HIDE DEF going
<1>3. CASE p \in Handlers \/ (gaveUp /\ kind = "zalo")
  BY <1>2, <1>3, RestingType
<1>4. CASE ~(p \in Handlers \/ (gaveUp /\ kind = "zalo"))
  BY <1>1, <1>2, <1>4
<1> QED
  BY <1>3, <1>4

-----------------------------------------------------------------------------
(* The invariant.                                                          *)

LEMMA DeliveryInitInv == DeliveryInit => DeliveryInv
<1> SUFFICES ASSUME DeliveryInit PROVE DeliveryInv
  OBVIOUS
<1>1. RowsOK
  BY RestingType DEF DeliveryInit, RowsOK, IntentRows, IntentStatus
<1>2. \A p \in Deliverers : deliverer[p] = Resting
  BY DEF DeliveryInit
<1> QED
  BY <1>1, <1>2, RestingType
  DEF DeliveryInv, HandlersReply, Replying, DrainsOpenIntents, Draining, SentIsOut, Sent, Deliverers

(* A step of one goroutine: what the others have in hand stays as it was,    *)
(* as the drain is the only one that changes the messages of runs.         *)
LEMMA OneGoroutineInv ==
  ASSUME DeliveryInv, OneDrainer, NEW p \in Deliverers,
         intent' \in IntentRows, out \subseteq out', out' \subseteq RunIntents,
         deliverer' \in [Deliverers -> AtWork],
         \A q \in Deliverers \ {p} : deliverer'[q] = deliverer[q],
         p \in Handlers => Replying(p)' /\ \A i \in RunIntents : intent'[i] = intent[i],
         p \in Drainers => Draining(p)', Sent(p)'
  PROVE  DeliveryInv'
<1>1. RowsOK'
  BY DEF RowsOK
<1>2. HandlersReply'
  BY DEF DeliveryInv, HandlersReply, Replying, Deliverers
<1>3. DrainsOpenIntents'
  <2> SUFFICES ASSUME NEW q \in Drainers PROVE Draining(q)'
    BY DEF DrainsOpenIntents
  <2>1. CASE q = p
    BY <2>1
  <2>2. CASE q # p
    <3>1. p \in Handlers /\ q \in Deliverers
      BY <2>2 DEF OneDrainer, Deliverers
    <3>2. \A i \in RunIntents : Underway(i)' <=> Underway(i)
      BY <3>1 DEF Underway, Open
    <3>3. Draining(q) /\ deliverer'[q] = deliverer[q]
      BY <2>2, <3>1 DEF DeliveryInv, DrainsOpenIntents
    <3> QED
      BY <3>2, <3>3 DEF Draining
  <2> QED
    BY <2>1, <2>2
<1>4. SentIsOut'
  BY DEF DeliveryInv, SentIsOut, Sent
<1> QED
  BY <1>1, <1>2, <1>3, <1>4 DEF DeliveryInv

LEMMA TakeNextInv ==
  ASSUME DeliveryInv, OneDrainer, NEW p \in Deliverers, TakeNext(p) PROVE DeliveryInv'
<1> DEFINE d == deliverer[p]
<1>t. RowsOK /\ d \in AtWork /\ d.todo \subseteq Intents
  BY DEF DeliveryInv, RowsOK, AtWork
<1>1. /\ intent' = intent /\ out' = out /\ d.pc = "next"
      /\ \/ deliverer' = [deliverer EXCEPT ![p] = Resting]
         \/ \E i \in d.todo : deliverer' = [deliverer EXCEPT ![p] =
              [pc |-> "send", todo |-> d.todo \ {i}, cur |-> i, attempt |-> 1]]
  BY DEF TakeNext, traffic
<1>2. CASE deliverer' = [deliverer EXCEPT ![p] = Resting]
  <2>1. /\ deliverer' \in [Deliverers -> AtWork] /\ deliverer'[p] = Resting
        /\ \A q \in Deliverers \ {p} : deliverer'[q] = deliverer[q]
    BY <1>t, <1>2, RestingType DEF RowsOK
  <2>2. Replying(p)' /\ Draining(p)' /\ Sent(p)'
    BY <2>1, RestingType DEF Replying, Draining, Sent
  <2> QED
    BY <1>t, <1>1, <2>1, <2>2, OneGoroutineInv DEF RowsOK
<1>3. ASSUME NEW i \in d.todo,
             deliverer' = [deliverer EXCEPT ![p] =
               [pc |-> "send", todo |-> d.todo \ {i}, cur |-> i, attempt |-> 1]]
      PROVE  DeliveryInv'
  <2> DEFINE next == [pc |-> "send", todo |-> d.todo \ {i}, cur |-> i, attempt |-> 1]
  <2>1. next \in AtWork
    BY <1>t DEF AtWork, DelivererPc
  <2>2. /\ deliverer' \in [Deliverers -> AtWork] /\ deliverer'[p] = next
        /\ \A q \in Deliverers \ {p} : deliverer'[q] = deliverer[q]
    BY <1>t, <1>3, <2>1 DEF RowsOK
  <2>3. p \notin Handlers
    BY DEF DeliveryInv, HandlersReply, Replying
  <2>4. p \in Drainers => Draining(p)'
    <3> SUFFICES ASSUME p \in Drainers PROVE Draining(p)'
      OBVIOUS
    <3>1. Draining(p)
      BY DEF DeliveryInv, DrainsOpenIntents
    <3> QED
      BY <1>1, <2>2, <3>1 DEF Draining, Underway, Open
  <2>5. Sent(p)'
    BY <1>t, <2>2 DEF Sent
  <2> QED
    BY <1>t, <1>1, <2>2, <2>3, <2>4, <2>5, OneGoroutineInv DEF RowsOK
<1> QED
  BY <1>1, <1>2, <1>3

LEMMA AttemptInv ==
  ASSUME DeliveryInv, OneDrainer, NEW p \in Deliverers, Attempt(p) PROVE DeliveryInv'
<1> DEFINE i == deliverer[p].cur
<1>t. RowsOK /\ deliverer[p] \in AtWork
  BY DEF DeliveryInv, RowsOK
<1>1. /\ intent' = intent /\ deliverer[p].pc = "send"
      /\ \E pc \in {"sent", "refused"} : deliverer' = [deliverer EXCEPT ![p].pc = pc]
      /\ out' \in {out, out \cup ({i} \cap RunIntents)}
  BY DEF Attempt, traffic
<1>2. PICK pc \in {"sent", "refused"} : deliverer' = [deliverer EXCEPT ![p].pc = pc]
  BY <1>1
<1>3. /\ deliverer' \in [Deliverers -> AtWork]
      /\ \A q \in Deliverers \ {p} : deliverer'[q] = deliverer[q]
      /\ deliverer'[p].pc = pc /\ deliverer'[p].cur = i /\ deliverer'[p].todo = deliverer[p].todo
  BY <1>t, <1>2 DEF RowsOK, AtWork, DelivererPc
<1>4. out \subseteq out' /\ out' \subseteq RunIntents
  BY <1>t, <1>1 DEF RowsOK
<1>5. Sent(p)'
  <2>1. i \in Intents
    BY <1>1 DEF DeliveryInv, SentIsOut, Sent
  <2>2. deliverer'[p].pc = "sent" /\ i \in RunIntents => i \in out'
    <3> SUFFICES ASSUME deliverer'[p].pc = "sent", i \in RunIntents PROVE i \in out'
      OBVIOUS
    <3>1. pc # "refused"
      BY <1>3
    <3>2. deliverer' # [deliverer EXCEPT ![p].pc = "refused"]
      <4>1. [deliverer EXCEPT ![p].pc = "refused"][p].pc = "refused"
        BY <1>t DEF RowsOK, AtWork
      <4> QED
        BY <4>1
    <3>3. out' = out \cup ({i} \cap RunIntents)
      BY <3>2 DEF Attempt
    <3> QED
      BY <3>3
  <2> QED
    BY <1>3, <2>1, <2>2 DEF Sent
<1>6. p \in Handlers => Replying(p)'
  BY <1>3 DEF DeliveryInv, HandlersReply, Replying
<1>7. p \in Drainers => Draining(p)'
  <2> SUFFICES ASSUME p \in Drainers PROVE Draining(p)'
    OBVIOUS
  <2>1. Draining(p)
    BY DEF DeliveryInv, DrainsOpenIntents
  <2> QED
    BY <1>1, <1>3, <2>1 DEF Draining, Underway, Open
<1> QED
  BY <1>t, <1>1, <1>3, <1>4, <1>5, <1>6, <1>7, OneGoroutineInv DEF RowsOK

(* The UPDATEs of a goroutine: of the message in hand, and what it then     *)
(* still has to do.                                                        *)
LEMMA MarkInv ==
  ASSUME DeliveryInv, OneDrainer, NEW p \in Deliverers, NEW status \in IntentStatus,
         deliverer[p].pc \notin {"idle", "next"},
         Mark(deliverer[p].cur, status), out' = out,
         deliverer' \in [Deliverers -> AtWork],
         \A q \in Deliverers \ {p} : deliverer'[q] = deliverer[q],
         deliverer'[p].todo \in {{}, deliverer[p].todo},
         p \in Handlers => deliverer'[p].todo = {},
         deliverer'[p].cur \in {NoIntent, deliverer[p].cur},
         deliverer'[p].pc # "sent",
         deliverer'[p].pc \notin {"idle", "next"} => deliverer'[p].cur = deliverer[p].cur,
         deliverer'[p].pc \in {"send", "refused", "give_up"} =>
           status = "retrying" /\ (deliverer[p].cur \in RunIntents /\ p \in Drainers => Underway(deliverer[p].cur))
  PROVE  DeliveryInv'
<1> USE DeliveryAssumption
<1> DEFINE i == deliverer[p].cur
<1>t. RowsOK
  BY DEF DeliveryInv
<1>1. i \in Intents
  BY DEF DeliveryInv, SentIsOut, Sent
<1>2. /\ intent' \in IntentRows /\ \A j \in Intents \ {i} : intent'[j] = intent[j]
      /\ intent'[i] = IF Exists(i) THEN status ELSE intent[i]
  BY <1>t, <1>1, MarkOne DEF RowsOK
<1>3. p \in Handlers => Replying(p)' /\ \A j \in RunIntents : intent'[j] = intent[j]
  <2> SUFFICES ASSUME p \in Handlers
               PROVE  Replying(p)' /\ \A j \in RunIntents : intent'[j] = intent[j]
    OBVIOUS
  <2>1. i \in Replies
    BY <1>1 DEF DeliveryInv, HandlersReply, Replying, Intents
  <2> QED
    BY <1>2, <2>1 DEF Replying, Intents
<1>4. p \in Drainers => Draining(p)'
  <2> SUFFICES ASSUME p \in Drainers PROVE Draining(p)'
    OBVIOUS
  <2>1. Draining(p)
    BY DEF DeliveryInv, DrainsOpenIntents
  <2>2. ASSUME NEW j \in deliverer'[p].todo \cap RunIntents
        PROVE  Underway(j)' /\ j # deliverer'[p].cur
    <3>1. j \in deliverer[p].todo \cap RunIntents /\ j # i /\ j # NoIntent
      BY <2>1, <2>2 DEF Draining
    <3>2. intent'[j] = intent[j]
      BY <1>2, <3>1 DEF Intents
    <3> QED
      BY <2>1, <3>1, <3>2 DEF Draining, Underway, Open
  <2>3. ASSUME deliverer'[p].pc \in {"send", "sent", "refused", "give_up"},
               deliverer'[p].cur \in RunIntents
        PROVE  Underway(deliverer[p].cur)'
    <3>1. status = "retrying" /\ Underway(i) /\ deliverer'[p].cur = i
      BY <2>3
    <3> QED
      BY <1>2, <3>1 DEF Underway, Open, Exists
  <2> QED
    BY <2>2, <2>3 DEF Draining
<1>5. Sent(p)'
  BY <1>1 DEF Sent
<1> QED
  BY <1>t, <1>2, <1>3, <1>4, <1>5, OneGoroutineInv DEF RowsOK

LEMMA DelivererStepInv ==
  ASSUME DeliveryInv, OneDrainer, NEW p \in Deliverers, DelivererStep(p) PROVE DeliveryInv'
<1> USE DeliveryAssumption
<1> DEFINE d == deliverer[p]
<1>t. RowsOK /\ d \in AtWork /\ deliverer \in [Deliverers -> AtWork]
  BY DEF DeliveryInv, RowsOK
<1>h. p \in Handlers => d.todo = {}
  BY DEF DeliveryInv, HandlersReply, Replying
<1>1. CASE MarkDelivered(p)
  <2>1. /\ d.pc = "sent" /\ Mark(d.cur, "delivered") /\ AfterIntent(p, FALSE) /\ out' = out
    BY <1>1 DEF MarkDelivered, traffic
  <2> QED
    BY <1>t, <2>1, AfterIntentType, MarkInv DEF IntentStatus
<1>2. CASE MarkRetrying(p)
  <2>1. /\ d.pc = "refused" /\ Mark(d.cur, "retrying") /\ out' = out
        /\ deliverer' = [deliverer EXCEPT
             ![p].pc = IF d.attempt < MaxAttempts THEN "send" ELSE "give_up",
             ![p].attempt = IF d.attempt < MaxAttempts THEN @ + 1 ELSE @]
    BY <1>2 DEF MarkRetrying, traffic
  <2>2. /\ deliverer' \in [Deliverers -> AtWork]
        /\ \A q \in Deliverers \ {p} : deliverer'[q] = deliverer[q]
        /\ deliverer'[p].todo = d.todo /\ deliverer'[p].cur = d.cur
        /\ deliverer'[p].pc \in {"send", "give_up"}
    <3> DEFINE pc == IF d.attempt < MaxAttempts THEN "send" ELSE "give_up"
               n == IF d.attempt < MaxAttempts THEN d.attempt + 1 ELSE d.attempt
    <3>1. pc \in {"send", "give_up"}
      OBVIOUS
    <3>2. n \in Nat
      BY <1>t DEF AtWork
    <3>3. deliverer' = [deliverer EXCEPT ![p] = [d EXCEPT !.pc = pc, !.attempt = n]]
      BY <1>t, <2>1
    <3> HIDE DEF pc, n
    <3>4. [d EXCEPT !.pc = pc, !.attempt = n] \in AtWork
      BY <1>t, <3>1, <3>2 DEF AtWork, DelivererPc
    <3> QED
      BY <1>t, <3>1, <3>3, <3>4 DEF AtWork
  <2>3. d.cur \in RunIntents /\ p \in Drainers => Underway(d.cur)
    BY <2>1 DEF DeliveryInv, DrainsOpenIntents, Draining
  <2> QED
    BY <1>h, <2>1, <2>2, <2>3, MarkInv DEF IntentStatus
<1>3. CASE MarkTerminal(p)
  <2>1. /\ d.pc = "give_up" /\ Mark(d.cur, "terminal") /\ out' = out
        /\ deliverer' = [deliverer EXCEPT ![p].pc = "journal"]
    BY <1>3 DEF MarkTerminal, traffic
  <2>2. /\ deliverer' \in [Deliverers -> AtWork]
        /\ \A q \in Deliverers \ {p} : deliverer'[q] = deliverer[q]
        /\ deliverer'[p].todo = d.todo /\ deliverer'[p].cur = d.cur
        /\ deliverer'[p].pc = "journal"
    BY <1>t, <2>1 DEF AtWork, DelivererPc
  <2> QED
    BY <1>h, <2>1, <2>2, MarkInv DEF IntentStatus
<1>4. CASE AppendDeliveryFailed(p)
  <2>1. /\ AfterIntent(p, TRUE) /\ intent' = intent /\ out' = out
    BY <1>4 DEF AppendDeliveryFailed, traffic
  <2>2. /\ deliverer' \in [Deliverers -> AtWork]
        /\ \A q \in Deliverers \ {p} : deliverer'[q] = deliverer[q]
        /\ deliverer'[p].pc \in {"idle", "next"} /\ deliverer'[p].cur = NoIntent
        /\ deliverer'[p].todo \in {{}, d.todo}
        /\ p \in Handlers => deliverer'[p].todo = {}
    BY <1>t, <2>1, AfterIntentType
  <2>3. p \in Handlers => Replying(p)'
    BY <2>2 DEF Replying
  <2>4. p \in Drainers => Draining(p)'
    <3> SUFFICES ASSUME p \in Drainers PROVE Draining(p)'
      OBVIOUS
    <3>1. Draining(p)
      BY DEF DeliveryInv, DrainsOpenIntents
    <3> QED
      BY <2>1, <2>2, <3>1 DEF Draining, Underway, Open
  <2>5. Sent(p)'
    BY <2>2 DEF Sent
  <2> QED
    BY <1>t, <2>1, <2>2, <2>3, <2>4, <2>5, OneGoroutineInv DEF RowsOK
<1> QED
  BY <1>1, <1>2, <1>3, <1>4, TakeNextInv, AttemptInv DEF DelivererStep

LEMMA SendInv ==
  ASSUME DeliveryInv, OneDrainer, NEW p \in Handlers, NEW i \in Replies, Send(p, i)
  PROVE  DeliveryInv'
<1> USE DeliveryAssumption
<1> DEFINE next == [Resting EXCEPT !.pc = "send", !.cur = i, !.attempt = 1]
<1>t. RowsOK /\ p \in Deliverers /\ i \in Intents /\ i \notin RunIntents
  BY DEF DeliveryInv, Deliverers, Intents
<1>1. /\ next \in AtWork /\ next.pc = "send" /\ next.cur = i /\ next.todo = {}
  BY <1>t, RestingType DEF AtWork, DelivererPc
<1>2. /\ intent' = [intent EXCEPT ![i] = "pending"] /\ out' = out
      /\ deliverer' = [deliverer EXCEPT ![p] = next]
  BY DEF Send, Record, traffic
<1> HIDE DEF next
<1>3. /\ deliverer' \in [Deliverers -> AtWork] /\ deliverer'[p] = next
      /\ \A q \in Deliverers \ {p} : deliverer'[q] = deliverer[q]
  BY <1>t, <1>1, <1>2 DEF RowsOK
<1>4. intent' \in IntentRows /\ \A j \in RunIntents : intent'[j] = intent[j]
  BY <1>t, <1>2 DEF RowsOK, IntentRows, IntentStatus, Intents
<1>5. Replying(p)' /\ Sent(p)' /\ p \notin Drainers
  BY <1>t, <1>1, <1>3 DEF Replying, Sent
<1> QED
  BY <1>t, <1>2, <1>3, <1>4, <1>5, OneGoroutineInv DEF RowsOK

LEMMA DrainInv ==
  ASSUME DeliveryInv, OneDrainer, NEW p \in Drainers, Drain(p) PROVE DeliveryInv'
<1> USE DeliveryAssumption
<1> DEFINE next == [Resting EXCEPT !.pc = "next", !.todo = Pending]
<1>t. RowsOK /\ p \in Deliverers /\ p \notin Handlers
  BY DEF DeliveryInv, Deliverers
<1>1. Pending \in SUBSET Intents /\ \A i \in Pending : Open(i)
  BY DEF Pending
<1>2. /\ next \in AtWork /\ next.pc = "next" /\ next.cur = NoIntent /\ next.todo = Pending
  BY <1>1, RestingType DEF AtWork, DelivererPc
<1>3. intent' = intent /\ out' = out /\ deliverer' = [deliverer EXCEPT ![p] = next]
  BY DEF Drain, traffic
<1> HIDE DEF next
<1>4. /\ deliverer' \in [Deliverers -> AtWork] /\ deliverer'[p] = next
      /\ \A q \in Deliverers \ {p} : deliverer'[q] = deliverer[q]
  BY <1>t, <1>2, <1>3 DEF RowsOK
<1>5. Draining(p)' /\ Sent(p)'
  BY <1>1, <1>2, <1>3, <1>4 DEF Draining, Sent, Underway, Open
<1> QED
  BY <1>t, <1>3, <1>4, <1>5, OneGoroutineInv DEF RowsOK

(* What the others do to the rows keeps what is under way.                  *)
LEMMA RowsMoveInv ==
  ASSUME DeliveryInv, intent' \in IntentRows, UNCHANGED <<deliverer, out>>,
         \A i \in RunIntents : Underway(i) => Underway(i)'
  PROVE  DeliveryInv'
<1> QED
  BY DEF DeliveryInv, RowsOK, HandlersReply, Replying, DrainsOpenIntents, Draining, SentIsOut, Sent

LEMMA DeliveryStepInv ==
  ASSUME OneDrainer PROVE DeliveryInv /\ [DeliveryNext]_deliveryVars => DeliveryInv'
<1> SUFFICES ASSUME DeliveryInv, [DeliveryNext]_deliveryVars PROVE DeliveryInv'
  OBVIOUS
<1>t. RowsOK
  BY DEF DeliveryInv
<1>1. CASE UNCHANGED deliveryVars
  BY <1>t, <1>1, RowsMoveInv DEF deliveryVars, RowsOK, Underway, Open
<1>2. ASSUME NEW i \in RunIntents, QueueOutboundIntent(i) PROVE DeliveryInv'
  <2>1. intent' = [intent EXCEPT ![i] = "pending"] /\ deliverer' = deliverer /\ out' = out
    BY <1>2 DEF QueueOutboundIntent, Record, traffic
  <2>2. intent' \in IntentRows /\ \A j \in RunIntents : Underway(j) => Underway(j)'
    BY <1>t, <2>1 DEF RowsOK, IntentRows, IntentStatus, Intents, Underway, Open
  <2> QED
    BY <2>1, <2>2, RowsMoveInv
<1>3. ASSUME NEW i \in RunIntents, RetryDelivery(i) PROVE DeliveryInv'
  <2>1. intent' = [intent EXCEPT ![i] = "pending"] /\ deliverer' = deliverer /\ out' = out
    BY <1>3 DEF RetryDelivery, traffic
  <2>2. intent' \in IntentRows /\ \A j \in RunIntents : Underway(j) => Underway(j)'
    BY <1>t, <2>1 DEF RowsOK, IntentRows, IntentStatus, Intents, Underway, Open
  <2> QED
    BY <2>1, <2>2, RowsMoveInv
<1>4. CASE ResetIntents
  <2>1. /\ intent' = [i \in Intents |-> IF i \in RunIntents /\ Exists(i) THEN "gone" ELSE intent[i]]
        /\ deliverer' = deliverer /\ out' = out
    BY <1>4 DEF ResetIntents, traffic
  <2>2. intent' \in IntentRows /\ \A j \in RunIntents : Underway(j) => Underway(j)'
    BY <1>t, <2>1 DEF RowsOK, IntentRows, IntentStatus, Intents, Underway, Open, Exists
  <2> QED
    BY <2>1, <2>2, RowsMoveInv
<1>5. CASE StopDelivery
  <2>1. intent' = intent /\ out' = out /\ deliverer' = [p \in Deliverers |-> Resting]
    BY <1>5 DEF StopDelivery
  <2>2. RowsOK'
    BY <1>t, <2>1, RestingType DEF RowsOK
  <2> QED
    BY <2>1, <2>2, RestingType
    DEF DeliveryInv, HandlersReply, Replying, DrainsOpenIntents, Draining, SentIsOut, Sent, Deliverers
<1> QED
  BY <1>1, <1>2, <1>3, <1>4, <1>5, SendInv, DrainInv, DelivererStepInv DEF DeliveryNext

LEMMA DeliveryInvariant == ASSUME OneDrainer PROVE DeliverySpec => []DeliveryInv
<1>1. DeliveryInv /\ [DeliveryNext]_deliveryVars => DeliveryInv'
  BY DeliveryStepInv
<1> QED
  BY <1>1, DeliveryInitInv, PTL DEF DeliverySpec

-----------------------------------------------------------------------------
(* The refinement.                                                         *)

LEMMA OutboxInitHolds == DeliveryInit => Promise!OutboxInit
<1> SUFFICES ASSUME DeliveryInit PROVE Promise!OutboxInit
  OBVIOUS
<1>1. \A i \in RunIntents : BoxOf(i) = "none"
  BY DEF DeliveryInit, BoxOf, Open, Intents
<1> QED
  BY <1>1 DEF DeliveryInit, Promise!OutboxInit

(* A step that moves one message, or none, is the outbox's.                 *)
LEMMA BoxMoves ==
  ASSUME NEW i \in RunIntents, \A j \in RunIntents \ {i} : intent'[j] = intent[j]
  PROVE  Box' = [Box EXCEPT ![i] = BoxOf(i)']
<1>1. \A j \in RunIntents \ {i} : BoxOf(j)' = BoxOf(j)
  BY DEF BoxOf, Open
<1> QED
  BY <1>1 DEF Box

LEMMA BoxStays ==
  ASSUME \A j \in RunIntents : intent'[j] = intent[j] PROVE Box' = Box
<1>1. \A j \in RunIntents : BoxOf(j)' = BoxOf(j)
  BY DEF BoxOf, Open
<1> QED
  BY <1>1 DEF Box

LEMMA StaysSame ==
  ASSUME \A j \in RunIntents : intent'[j] = intent[j], out' = out
  PROVE  UNCHANGED Promise!outbox
<1> QED
  BY BoxStays DEF Box, Promise!outbox

LEMMA MoveSim ==
  ASSUME NEW i \in RunIntents, NEW from, NEW to, BoxOf(i) = from, BoxOf(i)' = to, out' = out,
         \A j \in RunIntents \ {i} : intent'[j] = intent[j]
  PROVE  Promise!Move(i, from, to)
<1> QED
  BY BoxMoves DEF Box, Promise!Move

(* What a goroutine does to the message of a run that it has in hand.       *)
LEMMA DelivererStepSim ==
  ASSUME DeliveryInv, OneDrainer, NEW p \in Deliverers, DelivererStep(p)
  PROVE  Promise!OutboxNext \/ UNCHANGED Promise!outbox
<1> USE DeliveryAssumption
<1> DEFINE i == deliverer[p].cur
<1>t. intent \in IntentRows /\ out \subseteq RunIntents /\ RunIntents \subseteq Intents
  BY DEF DeliveryInv, RowsOK, Intents
<1>i. deliverer[p].pc \notin {"idle", "next"} => i \in Intents
  BY DEF DeliveryInv, SentIsOut, Sent
<1>r. i \in RunIntents /\ deliverer[p].pc \in {"send", "sent", "refused", "give_up"} => Underway(i)
  <2> SUFFICES ASSUME i \in RunIntents, deliverer[p].pc \in {"send", "sent", "refused", "give_up"}
               PROVE  Underway(i)
    OBVIOUS
  <2>1. p \notin Handlers
    BY DEF DeliveryInv, HandlersReply, Replying
  <2> QED
    BY <2>1 DEF DeliveryInv, DrainsOpenIntents, Draining, Deliverers
<1>s. ASSUME NEW status \in IntentStatus, i \in Intents, Mark(i, status), out' = out,
             ~(i \in RunIntents /\ Exists(i))
      PROVE  UNCHANGED Promise!outbox
  BY <1>s, <1>t, MarkOne, StaysSame DEF Intents
<1>1. CASE TakeNext(p) \/ AppendDeliveryFailed(p)
  <2>1. intent' = intent /\ out' = out
    BY <1>1 DEF TakeNext, AppendDeliveryFailed, traffic
  <2> QED
    BY <2>1, StaysSame
<1>2. CASE Attempt(p)
  <2>1. /\ intent' = intent /\ deliverer[p].pc = "send"
        /\ out' \in {out, out \cup ({i} \cap RunIntents)}
    BY <1>2 DEF Attempt, traffic
  <2>2. Box' = Box
    BY <2>1, BoxStays
  <2>3. CASE i \in RunIntents /\ out' = out \cup {i}
    <3>1. BoxOf(i) \in {"queued", "gone"}
      BY <1>r, <2>1, <2>3 DEF BoxOf, Underway, Open
    <3>2. Promise!GoOut(i)
      BY <2>2, <2>3, <3>1 DEF Box, Promise!GoOut
    <3> QED
      BY <2>3, <3>2 DEF Promise!OutboxNext
  <2>4. CASE out' = out
    BY <2>1, <2>4, StaysSame
  <2> QED
    BY <2>1, <2>3, <2>4
<1>3. CASE MarkDelivered(p)
  <2>1. /\ deliverer[p].pc = "sent" /\ Mark(i, "delivered") /\ out' = out
        /\ "delivered" \in IntentStatus /\ i \in Intents
    BY <1>3, <1>i DEF MarkDelivered, traffic, IntentStatus
  <2>2. CASE i \in RunIntents /\ Exists(i)
    <3>0. PICK r \in RunIntents : r = i
      BY <2>2
    <3>1. intent'[r] = "delivered" /\ \A j \in Intents \ {r} : intent'[j] = intent[j]
      BY <1>t, <2>1, <2>2, <3>0, MarkOne
    <3>2. BoxOf(r) = "queued" /\ BoxOf(r)' = "delivered"
      BY <1>r, <2>1, <2>2, <3>0, <3>1 DEF BoxOf, Underway, Open, Exists
    <3>3. r \in out
      BY <2>1, <2>2, <3>0 DEF DeliveryInv, SentIsOut, Sent
    <3>4. Promise!Confirm(r)
      BY <1>t, <2>1, <2>2, <3>1, <3>2, <3>3, MoveSim DEF Promise!Confirm
    <3> QED
      BY <3>4 DEF Promise!OutboxNext
  <2> QED
    BY <1>s, <2>1, <2>2
<1>4. CASE MarkRetrying(p)
  <2>1. /\ deliverer[p].pc = "refused" /\ Mark(i, "retrying") /\ out' = out
        /\ "retrying" \in IntentStatus /\ i \in Intents
    BY <1>4, <1>i DEF MarkRetrying, traffic, IntentStatus
  <2>2. CASE i \in RunIntents /\ Exists(i)
    <3>0. PICK r \in RunIntents : r = i
      BY <2>2
    <3>1. intent'[r] = "retrying" /\ \A j \in Intents \ {r} : intent'[j] = intent[j]
      BY <1>t, <2>1, <2>2, <3>0, MarkOne
    <3>2. BoxOf(r) = "queued" /\ BoxOf(r)' = "queued"
      BY <1>r, <2>1, <2>2, <3>0, <3>1 DEF BoxOf, Underway, Open, Exists
    <3>4. \A j \in RunIntents \ {r} : BoxOf(j)' = BoxOf(j)
      BY <1>t, <3>1 DEF BoxOf, Open
    <3>3. Box' = Box
      BY <3>2, <3>4 DEF Box
    <3> QED
      BY <2>1, <3>3 DEF Box, Promise!outbox
  <2> QED
    BY <1>s, <2>1, <2>2
<1>5. CASE MarkTerminal(p)
  <2>1. /\ deliverer[p].pc = "give_up" /\ Mark(i, "terminal") /\ out' = out
        /\ "terminal" \in IntentStatus /\ i \in Intents
    BY <1>5, <1>i DEF MarkTerminal, traffic, IntentStatus
  <2>2. CASE i \in RunIntents /\ Exists(i)
    <3>0. PICK r \in RunIntents : r = i
      BY <2>2
    <3>1. intent'[r] = "terminal" /\ \A j \in Intents \ {r} : intent'[j] = intent[j]
      BY <1>t, <2>1, <2>2, <3>0, MarkOne
    <3>2. BoxOf(r) = "queued" /\ BoxOf(r)' = "failed"
      BY <1>r, <2>1, <2>2, <3>0, <3>1 DEF BoxOf, Underway, Open, Exists
    <3>3. Promise!GiveUp(r)
      BY <1>t, <2>1, <2>2, <3>1, <3>2, MoveSim DEF Promise!GiveUp
    <3> QED
      BY <3>3 DEF Promise!OutboxNext
  <2> QED
    BY <1>s, <2>1, <2>2
<1> QED
  BY <1>1, <1>2, <1>3, <1>4, <1>5 DEF DelivererStep

LEMMA DeliveryStepSim ==
  ASSUME OneDrainer
  PROVE  DeliveryInv /\ [DeliveryNext]_deliveryVars => [Promise!OutboxNext]_(Promise!outbox)
<1> USE DeliveryAssumption
<1> SUFFICES ASSUME DeliveryInv, [DeliveryNext]_deliveryVars
             PROVE  Promise!OutboxNext \/ UNCHANGED Promise!outbox
  OBVIOUS
<1>t. intent \in IntentRows /\ RunIntents \subseteq Intents
  BY DEF DeliveryInv, RowsOK, Intents
<1>1. CASE UNCHANGED deliveryVars
  BY <1>1, StaysSame DEF deliveryVars
<1>2. ASSUME NEW i \in RunIntents, QueueOutboundIntent(i) PROVE Promise!OutboxNext
  <2>1. intent[i] = "none" /\ intent' = [intent EXCEPT ![i] = "pending"] /\ out' = out
    BY <1>2 DEF QueueOutboundIntent, Record, traffic
  <2>2. intent'[i] = "pending" /\ \A j \in RunIntents \ {i} : intent'[j] = intent[j]
    BY <1>t, <2>1 DEF IntentRows
  <2>3. BoxOf(i) = "none" /\ BoxOf(i)' = "queued"
    BY <2>1, <2>2 DEF BoxOf, Open
  <2> QED
    BY <2>1, <2>2, <2>3, MoveSim DEF Promise!OutboxNext, Promise!Accept
<1>3. ASSUME NEW i \in RunIntents, RetryDelivery(i) PROVE Promise!OutboxNext
  <2>1. intent[i] = "terminal" /\ intent' = [intent EXCEPT ![i] = "pending"] /\ out' = out
    BY <1>3 DEF RetryDelivery, traffic
  <2>2. intent'[i] = "pending" /\ \A j \in RunIntents \ {i} : intent'[j] = intent[j]
    BY <1>t, <2>1 DEF IntentRows
  <2>3. BoxOf(i) = "failed" /\ BoxOf(i)' = "queued"
    BY <2>1, <2>2 DEF BoxOf, Open
  <2> QED
    BY <2>1, <2>2, <2>3, MoveSim DEF Promise!OutboxNext, Promise!Retry
<1>4. ASSUME NEW p \in Handlers, NEW i \in Replies, Send(p, i) PROVE UNCHANGED Promise!outbox
  <2>1. intent' = [intent EXCEPT ![i] = "pending"] /\ out' = out
    BY <1>4 DEF Send, Record, traffic
  <2>2. \A j \in RunIntents : intent'[j] = intent[j]
    BY <1>t, <2>1 DEF IntentRows
  <2> QED
    BY <2>1, <2>2, StaysSame
<1>5. ASSUME NEW p \in Drainers, Drain(p) PROVE UNCHANGED Promise!outbox
  BY <1>5, StaysSame DEF Drain, traffic
<1>6. CASE ResetIntents
  <2>1. /\ intent' = [i \in Intents |-> IF i \in RunIntents /\ Exists(i) THEN "gone" ELSE intent[i]]
        /\ out' = out
    BY <1>6 DEF ResetIntents, traffic
  <2>2. \A i \in RunIntents : BoxOf(i)' = IF BoxOf(i) = "none" THEN "none" ELSE "gone"
    BY <1>t, <2>1 DEF BoxOf, Open, Exists, IntentRows, IntentStatus
  <2>3. Promise!Forget
    BY <2>1, <2>2 DEF Promise!Forget
  <2> QED
    BY <2>3 DEF Promise!OutboxNext
<1>7. CASE StopDelivery
  BY <1>7, StaysSame DEF StopDelivery
<1> QED
  BY <1>1, <1>2, <1>3, <1>4, <1>5, <1>6, <1>7, DelivererStepSim DEF DeliveryNext

-----------------------------------------------------------------------------

(* With one drain, what delivery does to the messages of runs is what the   *)
(* outbox promises (deliverWithRetry and the UPDATEs of its callers).       *)
THEOREM DeliveryImplementsOutbox == ASSUME OneDrainer PROVE DeliverySpec => ImplementsOutbox
<1>1. DeliveryInv /\ [DeliveryNext]_deliveryVars => [Promise!OutboxNext]_(Promise!outbox)
  BY DeliveryStepSim
<1> QED
  BY <1>1, OutboxInitHolds, DeliveryInvariant, PTL
  DEF DeliverySpec, ImplementsOutbox, Promise!OutboxSpec

-----------------------------------------------------------------------------
(* No message is repeated needlessly.                                      *)

(* A message that is known to have arrived is marked, or its deliverer is    *)
(* about to mark it; what is still to be delivered is not known to have     *)
(* arrived.                                                                *)
Arrived(i) ==
  \/ intent[i] \in {"delivered", "gone"}
  \/ \E p \in Drainers : deliverer[p].pc = "sent" /\ deliverer[p].cur = i
ToDeliver(p) ==
  {i \in RunIntents : \/ i \in deliverer[p].todo
                      \/ deliverer[p].cur = i /\ deliverer[p].pc \in {"send", "refused", "give_up"}}
KnownOK ==
  /\ known \in [RunIntents -> {0, 1}]
  /\ \A i \in RunIntents : known[i] = 1 => Arrived(i)
  /\ \A p \in Drainers : \A i \in ToDeliver(p) : known[i] = 0

LEMMA KnownInit == DeliveryInit => KnownOK
<1> SUFFICES ASSUME DeliveryInit PROVE KnownOK
  OBVIOUS
<1>1. /\ known \in [RunIntents -> {0, 1}] /\ \A i \in RunIntents : known[i] = 0
      /\ \A p \in Drainers : deliverer[p] = Resting
  BY DEF DeliveryInit, Deliverers
<1> QED
  BY <1>1, RestingType DEF KnownOK, ToDeliver

(* Nothing changes for the drain: what it has in hand, the messages.        *)
LEMMA KnownStays ==
  ASSUME KnownOK, known' = known, \A q \in Drainers : deliverer'[q] = deliverer[q],
         \A i \in RunIntents : known[i] = 1 /\ intent[i] \in {"delivered", "gone"} =>
                                  intent'[i] \in {"delivered", "gone"}
  PROVE  KnownOK'
<1>1. \A i \in RunIntents : known[i] = 1 => Arrived(i)'
  BY DEF KnownOK, Arrived
<1>2. \A q \in Drainers : ToDeliver(q)' = ToDeliver(q)
  BY DEF ToDeliver
<1> QED
  BY <1>1, <1>2 DEF KnownOK

(* A step of the drain, of which there is one.                              *)
LEMMA DrainKnown ==
  ASSUME KnownOK, OneDrainer, NEW p \in Drainers, known' = known,
         \A i \in ToDeliver(p)' : known[i] = 0,
         \A i \in RunIntents : known[i] = 1 => Arrived(i)'
  PROVE  KnownOK'
<1>1. \A q \in Drainers : q = p
  BY DEF OneDrainer
<1> QED
  BY <1>1 DEF KnownOK

(* The one goroutine that can be between the call and the UPDATE.           *)
LEMMA WhoSent ==
  ASSUME OneDrainer, NEW p \in Drainers, NEW i \in RunIntents, Arrived(i)
  PROVE  intent[i] \in {"delivered", "gone"} \/ (deliverer[p].pc = "sent" /\ deliverer[p].cur = i)
<1> QED
  BY DEF Arrived, OneDrainer

(* What the goroutine of a reply does changes no message of a run.          *)
LEMMA HandlerKnown ==
  ASSUME DeliveryInv, KnownOK, NEW p \in Handlers, DelivererStep(p) PROVE KnownOK'
<1> USE DeliveryAssumption
<1> DEFINE i == deliverer[p].cur
<1>t. p \in Deliverers /\ p \notin Drainers /\ intent \in IntentRows /\ RunIntents \subseteq Intents
  BY DEF DeliveryInv, RowsOK, Deliverers, Intents
<1>i. i \notin RunIntents /\ (deliverer[p].pc \notin {"idle", "next"} => i \in Intents)
  BY <1>t DEF DeliveryInv, HandlersReply, Replying, SentIsOut, Sent
<1>m. ASSUME NEW status \in IntentStatus, deliverer[p].pc \notin {"idle", "next"}, Mark(i, status)
      PROVE  \A j \in RunIntents : intent'[j] = intent[j]
  BY <1>m, <1>t, <1>i, MarkOne
<1>o. \A q \in Drainers : deliverer'[q] = deliverer[q]
  <2> SUFFICES ASSUME NEW q \in Drainers PROVE deliverer'[q] = deliverer[q]
    OBVIOUS
  <2>1. /\ q # p /\ q \in Deliverers /\ deliverer \in [Deliverers -> AtWork]
        /\ \A d : [deliverer EXCEPT ![p] = d][q] = deliverer[q]
    BY <1>t DEF Deliverers, DeliveryInv, RowsOK
  <2>2. CASE TakeNext(p)
    BY <2>1, <2>2 DEF TakeNext
  <2>3. CASE Attempt(p)
    BY <2>1, <2>3 DEF Attempt
  <2>4. CASE MarkRetrying(p)
    BY <2>1, <2>4 DEF MarkRetrying
  <2>5. CASE MarkTerminal(p)
    BY <2>1, <2>5 DEF MarkTerminal
  <2>6. CASE MarkDelivered(p)
    BY <2>1, <2>6 DEF MarkDelivered, AfterIntent
  <2>7. CASE AppendDeliveryFailed(p)
    BY <2>1, <2>7 DEF AppendDeliveryFailed, AfterIntent
  <2> QED
    BY <2>2, <2>3, <2>4, <2>5, <2>6, <2>7 DEF DelivererStep
<1>1. CASE TakeNext(p) \/ AppendDeliveryFailed(p)
  BY <1>1, <1>o, KnownStays DEF TakeNext, AppendDeliveryFailed, traffic
<1>2. CASE Attempt(p)
  <2>1. intent' = intent
    BY <1>2 DEF Attempt
  <2>2. known' = known
    BY <1>2, <1>i DEF Attempt, traffic, KnownOK
  <2> QED
    BY <1>o, <2>1, <2>2, KnownStays
<1>3. CASE MarkDelivered(p) \/ MarkRetrying(p) \/ MarkTerminal(p)
  <2>1. \A j \in RunIntents : intent'[j] = intent[j]
    BY <1>3, <1>m DEF MarkDelivered, MarkRetrying, MarkTerminal, IntentStatus
  <2>2. known' = known
    BY <1>3 DEF MarkDelivered, MarkRetrying, MarkTerminal, traffic
  <2> QED
    BY <1>o, <2>1, <2>2, KnownStays
<1> QED
  BY <1>1, <1>2, <1>3 DEF DelivererStep

LEMMA TakeNextKnown ==
  ASSUME DeliveryInv, OneDrainer, KnownOK, NEW p \in Drainers, TakeNext(p) PROVE KnownOK'
<1> DEFINE d == deliverer[p]
<1>t. p \in Deliverers /\ deliverer \in [Deliverers -> AtWork] /\ d \in AtWork
  BY DEF DeliveryInv, RowsOK, Deliverers
<1>1. /\ intent' = intent /\ known' = known /\ d.pc = "next"
      /\ \/ deliverer' = [deliverer EXCEPT ![p] = Resting]
         \/ \E i \in d.todo : deliverer' = [deliverer EXCEPT ![p] =
              [pc |-> "send", todo |-> d.todo \ {i}, cur |-> i, attempt |-> 1]]
  BY DEF TakeNext, traffic
<1>2. \A i \in RunIntents : known[i] = 1 => Arrived(i)'
  BY <1>1, WhoSent DEF Arrived, KnownOK
<1>3. CASE deliverer' = [deliverer EXCEPT ![p] = Resting]
  <2>1. ToDeliver(p)' = {}
    BY <1>t, <1>3, RestingType DEF ToDeliver
  <2> QED
    BY <1>1, <1>2, <2>1, DrainKnown
<1>4. ASSUME NEW i \in d.todo,
             deliverer' = [deliverer EXCEPT ![p] =
               [pc |-> "send", todo |-> d.todo \ {i}, cur |-> i, attempt |-> 1]]
      PROVE  KnownOK'
  <2>1. deliverer'[p] = [pc |-> "send", todo |-> d.todo \ {i}, cur |-> i, attempt |-> 1]
    BY <1>t, <1>4
  <2>2. ToDeliver(p)' \subseteq ToDeliver(p)
    BY <1>4, <2>1 DEF ToDeliver
  <2>3. \A j \in ToDeliver(p)' : known[j] = 0
    BY <2>2 DEF KnownOK
  <2> QED
    BY <1>1, <1>2, <2>3, DrainKnown
<1> QED
  BY <1>1, <1>3, <1>4

LEMMA AttemptKnown ==
  ASSUME DeliveryInv, OneDrainer, KnownOK, NEW p \in Drainers, Attempt(p) PROVE KnownOK'
<1> DEFINE i == deliverer[p].cur
<1>t. p \in Deliverers /\ deliverer \in [Deliverers -> AtWork] /\ deliverer[p] \in AtWork
  BY DEF DeliveryInv, RowsOK, Deliverers
<1>1. intent' = intent /\ deliverer[p].pc = "send"
  BY DEF Attempt
<1>w. \A j \in RunIntents : known[j] = 1 => intent[j] \in {"delivered", "gone"}
  BY <1>1, WhoSent DEF KnownOK
<1>2. CASE /\ deliverer' = [deliverer EXCEPT ![p].pc = "sent"]
           /\ known' = [j \in RunIntents |-> known[j] + (IF i = j THEN 1 ELSE 0)]
  <2>1. deliverer'[p].pc = "sent" /\ deliverer'[p].cur = i /\ deliverer'[p].todo = deliverer[p].todo
    BY <1>t, <1>2 DEF AtWork
  <2>2. \A j \in RunIntents : i = j => known[j] = 0
    BY <1>1 DEF KnownOK, ToDeliver
  <2>3. \A j \in RunIntents : known'[j] = IF i = j THEN 1 ELSE known[j]
    BY <1>2, <2>2 DEF KnownOK
  <2>4. known' \in [RunIntents -> {0, 1}]
    BY <1>2, <2>3 DEF KnownOK
  <2>5. \A j \in RunIntents : known'[j] = 1 => Arrived(j)'
    BY <1>1, <1>w, <2>1, <2>3 DEF Arrived
  <2>6. ASSUME NEW j \in ToDeliver(p)' PROVE known'[j] = 0
    <3>1. j \in RunIntents /\ j \in deliverer[p].todo
      BY <2>1, <2>6 DEF ToDeliver
    <3>2. j # i
      BY <3>1 DEF DeliveryInv, DrainsOpenIntents, Draining
    <3>3. known[j] = 0
      BY <3>1 DEF KnownOK, ToDeliver
    <3> QED
      BY <2>3, <3>1, <3>2, <3>3
  <2>7. \A q \in Drainers : q = p
    BY DEF OneDrainer
  <2> QED
    BY <2>4, <2>5, <2>6, <2>7 DEF KnownOK
<1>3. CASE deliverer' = [deliverer EXCEPT ![p].pc = "refused"] /\ known' = known
  <2>1. /\ deliverer'[p].pc = "refused" /\ deliverer'[p].cur = i
        /\ deliverer'[p].todo = deliverer[p].todo
    BY <1>t, <1>3 DEF AtWork
  <2>2. ToDeliver(p)' = ToDeliver(p)
    BY <1>1, <2>1 DEF ToDeliver
  <2>3. \A j \in ToDeliver(p)' : known[j] = 0
    BY <2>2 DEF KnownOK
  <2>4. \A j \in RunIntents : known[j] = 1 => Arrived(j)'
    BY <1>1, <1>w DEF Arrived
  <2> QED
    BY <1>3, <2>3, <2>4, DrainKnown
<1> QED
  BY <1>2, <1>3 DEF Attempt, traffic

(* An UPDATE of the message in hand.                                       *)
LEMMA MarkKnown ==
  ASSUME DeliveryInv, OneDrainer, KnownOK, NEW p \in Drainers, NEW status \in IntentStatus,
         deliverer[p].pc \in {"sent", "refused", "give_up"}, Mark(deliverer[p].cur, status),
         known' = known,
         deliverer[p].pc = "sent" => status = "delivered",
         ToDeliver(p)' \subseteq ToDeliver(p)
  PROVE  KnownOK'
<1> DEFINE i == deliverer[p].cur
<1>t. p \in Deliverers /\ intent \in IntentRows /\ RunIntents \subseteq Intents
  BY DEF DeliveryInv, RowsOK, Deliverers, Intents
<1>1. i \in Intents
  BY <1>t DEF DeliveryInv, SentIsOut, Sent
<1>2. /\ \A j \in Intents \ {i} : intent'[j] = intent[j]
      /\ intent'[i] = IF Exists(i) THEN status ELSE intent[i]
  BY <1>t, <1>1, MarkOne
<1>3. ASSUME NEW j \in RunIntents, known[j] = 1 PROVE Arrived(j)'
  <2>1. Arrived(j)
    BY <1>3 DEF KnownOK
  <2>2. CASE j # i
    <3>1. intent[j] \in {"delivered", "gone"}
      BY <2>1, <2>2, WhoSent
    <3> QED
      BY <1>t, <1>2, <2>2, <3>1 DEF Arrived
  <2>3. CASE j = i
    <3>1. deliverer[p].pc = "sent" /\ status = "delivered"
      BY <1>3, <2>3 DEF KnownOK, ToDeliver
    <3>2. intent[i] \in {"pending", "retrying", "gone"}
      BY <2>3, <3>1 DEF DeliveryInv, DrainsOpenIntents, Draining, Underway, Open
    <3> QED
      BY <1>2, <2>3, <3>1, <3>2 DEF Arrived, Exists
  <2> QED
    BY <2>2, <2>3
<1>4. \A j \in ToDeliver(p)' : known[j] = 0
  BY DEF KnownOK
<1> QED
  BY <1>3, <1>4, DrainKnown

LEMMA DrainerKnown ==
  ASSUME DeliveryInv, OneDrainer, KnownOK, NEW p \in Drainers, DelivererStep(p) PROVE KnownOK'
<1> DEFINE d == deliverer[p]
<1>t. p \in Deliverers /\ deliverer \in [Deliverers -> AtWork] /\ d \in AtWork
  BY DEF DeliveryInv, RowsOK, Deliverers
<1>a. ASSUME NEW gaveUp \in BOOLEAN, AfterIntent(p, gaveUp) PROVE ToDeliver(p)' \subseteq ToDeliver(p)
  <2>1. deliverer'[p].pc \in {"idle", "next"} /\ deliverer'[p].todo \subseteq d.todo
    BY <1>t, <1>a, AfterIntentType
  <2> QED
    BY <2>1 DEF ToDeliver
<1>1. CASE MarkDelivered(p)
  <2>1. d.pc = "sent" /\ Mark(d.cur, "delivered") /\ AfterIntent(p, FALSE) /\ known' = known
    BY <1>1 DEF MarkDelivered, traffic
  <2> QED
    BY <1>a, <2>1, MarkKnown DEF IntentStatus
<1>2. CASE MarkRetrying(p)
  <2>1. /\ d.pc = "refused" /\ Mark(d.cur, "retrying") /\ known' = known
        /\ deliverer' = [deliverer EXCEPT
             ![p].pc = IF d.attempt < MaxAttempts THEN "send" ELSE "give_up",
             ![p].attempt = IF d.attempt < MaxAttempts THEN @ + 1 ELSE @]
    BY <1>2 DEF MarkRetrying, traffic
  <2>2. deliverer'[p].todo = d.todo /\ deliverer'[p].cur = d.cur
    BY <1>t, <2>1 DEF AtWork
  <2>3. ToDeliver(p)' \subseteq ToDeliver(p)
    BY <2>1, <2>2 DEF ToDeliver
  <2> QED
    BY <2>1, <2>3, MarkKnown DEF IntentStatus
<1>3. CASE MarkTerminal(p)
  <2>1. /\ d.pc = "give_up" /\ Mark(d.cur, "terminal") /\ known' = known
        /\ deliverer' = [deliverer EXCEPT ![p].pc = "journal"]
    BY <1>3 DEF MarkTerminal, traffic
  <2>2. /\ deliverer'[p].todo = d.todo /\ deliverer'[p].pc = "journal"
    BY <1>t, <2>1 DEF AtWork
  <2>3. ToDeliver(p)' \subseteq ToDeliver(p)
    BY <2>1, <2>2 DEF ToDeliver
  <2> QED
    BY <2>1, <2>3, MarkKnown DEF IntentStatus
<1>4. CASE AppendDeliveryFailed(p)
  <2>1. /\ d.pc = "journal" /\ AfterIntent(p, TRUE) /\ intent' = intent /\ known' = known
    BY <1>4 DEF AppendDeliveryFailed, traffic
  <2>2. \A j \in ToDeliver(p)' : known[j] = 0
    BY <1>a, <2>1 DEF KnownOK
  <2>3. \A i \in RunIntents : known[i] = 1 => Arrived(i)'
    BY <2>1, WhoSent DEF Arrived, KnownOK
  <2> QED
    BY <2>1, <2>2, <2>3, DrainKnown
<1> QED
  BY <1>1, <1>2, <1>3, <1>4, TakeNextKnown, AttemptKnown DEF DelivererStep

LEMMA KnownStep ==
  ASSUME OneDrainer
  PROVE  DeliveryInv /\ KnownOK /\ [DeliveryNext]_deliveryVars => KnownOK'
<1> USE DeliveryAssumption
<1> SUFFICES ASSUME DeliveryInv, KnownOK, [DeliveryNext]_deliveryVars PROVE KnownOK'
  OBVIOUS
<1>t. /\ intent \in IntentRows /\ deliverer \in [Deliverers -> AtWork]
      /\ RunIntents \subseteq Intents /\ Drainers \subseteq Deliverers
  BY DEF DeliveryInv, RowsOK, Deliverers, Intents
<1>1. CASE UNCHANGED deliveryVars
  BY <1>1, KnownStays DEF deliveryVars
<1>2. ASSUME NEW i \in RunIntents, QueueOutboundIntent(i) \/ RetryDelivery(i) PROVE KnownOK'
  <2>1. /\ intent[i] \in {"none", "terminal"} /\ intent' = [intent EXCEPT ![i] = "pending"]
        /\ deliverer' = deliverer /\ known' = known
    BY <1>2 DEF QueueOutboundIntent, RetryDelivery, Record, traffic
  <2> QED
    BY <1>t, <2>1, KnownStays DEF IntentRows
<1>3. ASSUME NEW p \in Handlers, NEW i \in Replies, Send(p, i) PROVE KnownOK'
  <2>1. /\ intent' = [intent EXCEPT ![i] = "pending"] /\ known' = known
        /\ \A q \in Drainers : deliverer'[q] = deliverer[q]
    BY <1>t, <1>3 DEF Send, Record, traffic
  <2>2. \A j \in RunIntents : intent'[j] = intent[j]
    BY <1>t, <2>1 DEF IntentRows
  <2> QED
    BY <2>1, <2>2, KnownStays
<1>4. ASSUME NEW p \in Drainers, Drain(p) PROVE KnownOK'
  <2> DEFINE next == [Resting EXCEPT !.pc = "next", !.todo = Pending]
  <2>1. /\ intent' = intent /\ known' = known /\ deliverer[p].pc = "idle"
        /\ deliverer' = [deliverer EXCEPT ![p] = next]
    BY <1>4 DEF Drain, traffic
  <2>2. next.pc = "next" /\ next.todo = Pending
    BY DEF Resting
  <2> HIDE DEF next
  <2>3. deliverer'[p].pc = "next" /\ deliverer'[p].todo = Pending
    BY <1>t, <2>1, <2>2
  <2>4. \A i \in RunIntents : known[i] = 1 => intent[i] \in {"delivered", "gone"}
    BY <2>1, WhoSent DEF KnownOK
  <2>5. \A j \in ToDeliver(p)' : known[j] = 0
    <3> SUFFICES ASSUME NEW j \in ToDeliver(p)' PROVE known[j] = 0
      OBVIOUS
    <3>1. j \in RunIntents /\ Open(j)
      BY <2>3 DEF ToDeliver, Pending
    <3> QED
      BY <2>4, <3>1 DEF Open, KnownOK
  <2> QED
    BY <2>1, <2>4, <2>5, DrainKnown DEF Arrived
<1>5. CASE ResetIntents
  <2>1. /\ intent' = [i \in Intents |-> IF i \in RunIntents /\ Exists(i) THEN "gone" ELSE intent[i]]
        /\ deliverer' = deliverer /\ known' = known
    BY <1>5 DEF ResetIntents, traffic
  <2> QED
    BY <1>t, <2>1, KnownStays
<1>6. CASE StopDelivery
  <2>1. /\ intent' = intent /\ deliverer' = [p \in Deliverers |-> Resting]
        /\ known' = [i \in RunIntents |->
             IF \E p \in Deliverers : deliverer[p].pc = "sent" /\ deliverer[p].cur = i
             THEN 0 ELSE known[i]]
    BY <1>6 DEF StopDelivery
  <2>2. known' \in [RunIntents -> {0, 1}]
    BY <2>1 DEF KnownOK
  <2>3. ASSUME NEW i \in RunIntents, known'[i] = 1 PROVE intent[i] \in {"delivered", "gone"}
    <3>1. known[i] = 1 /\ ~\E p \in Deliverers : deliverer[p].pc = "sent" /\ deliverer[p].cur = i
      BY <2>1, <2>3
    <3> QED
      BY <1>t, <3>1 DEF KnownOK, Arrived
  <2>4. \A p \in Drainers : ToDeliver(p)' = {}
    BY <1>t, <2>1, RestingType DEF ToDeliver
  <2> QED
    BY <2>1, <2>2, <2>3, <2>4 DEF KnownOK, Arrived
<1> QED
  BY <1>1, <1>2, <1>3, <1>4, <1>5, <1>6, HandlerKnown, DrainerKnown DEF DeliveryNext, Deliverers

LEMMA KnownOnce == KnownOK => NoNeedlessRepeat
<1> SUFFICES ASSUME KnownOK, NEW i \in RunIntents PROVE known[i] <= 1
  BY DEF NoNeedlessRepeat
<1>1. known[i] \in {0, 1}
  BY DEF KnownOK
<1> QED
  BY <1>1

-----------------------------------------------------------------------------
(* No text is forgotten.                                                   *)

Texts == Seq(Nat)
DraftRows == [text : Texts, dirty : BOOLEAN, completed : BOOLEAN]
Copies == [run : DraftRuns, text : Texts, completed : BOOLEAN]
Streams == [events : Nat, turn : Nat, pieces : Nat, last : Texts]
Sending == [pc : {"idle", "send"}, todo : SUBSET Copies]
Showing == [pc : {"shown"}, todo : SUBSET Copies, copy : Copies]

DraftsTyped ==
  /\ draft \in [DraftRuns -> DraftRows] /\ stream \in [DraftRuns -> Streams]
  /\ shown \in [DraftRuns -> Texts] /\ flush \in Sending \cup Showing

(* A draft holds the text recorded last, and what the service does not show *)
(* is dirty.                                                               *)
Latest(r) == draft[r].text = stream[r].last
UpToDate(r) ==
  /\ draft[r].text # <<>> => Latest(r)
  /\ draft[r].dirty => draft[r].text # <<>>
  /\ shown[r] # stream[r].last => draft[r].dirty
TextsUpToDate == \A r \in DraftRuns : UpToDate(r)

(* A flush has one copy of a draft, which stays dirty until it is shown.     *)
OneCopyEach == \A c, d \in flush.todo : c.run = d.run => c = d
CopiesAreDirty == \A c \in flush.todo : draft[c.run].dirty
TheCopyIsShown ==
  flush.pc = "shown" => flush.copy \in flush.todo /\ shown[flush.copy.run] = flush.copy.text

FlushOK == OneCopyEach /\ CopiesAreDirty /\ TheCopyIsShown
DraftsInv == DraftsTyped /\ TextsUpToDate /\ FlushOK

LEMMA AbsentType ==
  Absent \in DraftRows /\ Absent.text = <<>> /\ Absent.dirty = FALSE /\ NotFlushing \in Sending
    /\ NotFlushing.todo = {} /\ NotFlushing.pc = "idle"
<1>1. <<>> \in Texts
  BY EmptySeq DEF Texts
<1> QED
  BY <1>1 DEF Absent, DraftRows, NotFlushing, Sending

LEMMA DraftsInitInv == DraftsInit => DraftsInv
<1> SUFFICES ASSUME DraftsInit PROVE DraftsInv
  OBVIOUS
<1>e. <<>> \in Texts
  BY EmptySeq DEF Texts
<1>1. [events |-> 0, turn |-> 1, pieces |-> 0, last |-> <<>>] \in Streams
  BY <1>e DEF Streams
<1>2. DraftsTyped
  BY <1>e, <1>1, AbsentType DEF DraftsInit, DraftsTyped
<1>3. TextsUpToDate
  BY AbsentType DEF DraftsInit, TextsUpToDate, UpToDate
<1>4. FlushOK
  BY AbsentType DEF DraftsInit, FlushOK, OneCopyEach, CopiesAreDirty, TheCopyIsShown
<1> QED
  BY <1>2, <1>3, <1>4 DEF DraftsInv

(* A text that is recorded is the latest, and dirty.                        *)
LEMMA RecordInv ==
  ASSUME DraftsInv, NEW r \in DraftRuns, NEW text \in Texts, NEW completed \in BOOLEAN,
         text # <<>>, RecordDraft(r, text, completed), NEW s \in Streams, s.last = text,
         stream' = [stream EXCEPT ![r] = s], UNCHANGED <<flush, shown>>
  PROVE  DraftsInv'
<1>t. /\ draft \in [DraftRuns -> DraftRows] /\ stream \in [DraftRuns -> Streams]
      /\ shown \in [DraftRuns -> Texts] /\ flush \in Sending \cup Showing
  BY DEF DraftsInv, DraftsTyped
<1> DEFINE row == [text |-> text, dirty |-> TRUE, completed |-> completed]
<1>0. row \in DraftRows /\ row.text = text /\ row.dirty = TRUE
  BY DEF DraftRows
<1>1. draft' = [draft EXCEPT ![r] = row]
  BY DEF RecordDraft
<1> HIDE DEF row
<1>2. DraftsTyped'
  BY <1>t, <1>0, <1>1 DEF DraftsTyped
<1>3. ASSUME NEW q \in DraftRuns PROVE UpToDate(q)'
  <2>1. CASE q = r
    <3>1. draft'[q] = row /\ stream'[q] = s
      BY <1>t, <1>1, <2>1
    <3> QED
      BY <1>0, <3>1 DEF UpToDate, Latest
  <2>2. CASE q # r
    <3>1. draft'[q] = draft[q] /\ stream'[q] = stream[q] /\ shown'[q] = shown[q]
      BY <1>t, <1>1, <2>2
    <3> QED
      BY <3>1 DEF DraftsInv, TextsUpToDate, UpToDate, Latest
  <2> QED
    BY <2>1, <2>2
<1>4. \A q \in DraftRuns : draft[q].dirty => draft'[q].dirty
  BY <1>t, <1>0, <1>1
<1>5. \A c \in flush.todo : c.run \in DraftRuns
  BY <1>t DEF Sending, Showing, Copies
<1>6. FlushOK'
  BY <1>4, <1>5 DEF DraftsInv, FlushOK, OneCopyEach, CopiesAreDirty, TheCopyIsShown
<1> QED
  BY <1>2, <1>3, <1>6 DEF DraftsInv, TextsUpToDate

LEMMA TurnDeltaInv == ASSUME DraftsInv, NEW r \in DraftRuns, TurnDelta(r) PROVE DraftsInv'
<1> DEFINE s == stream[r]
<1>t. draft[r] \in DraftRows /\ s \in Streams
  BY DEF DraftsInv, DraftsTyped
<1>n. /\ draft[r].text \in Seq(Nat) /\ draft[r].completed \in BOOLEAN /\ s.turn \in Nat
      /\ s.events + 1 \in Nat /\ s.pieces + 1 \in Nat
  BY <1>t DEF DraftRows, Streams, Texts
<1>1. PICK text \in Seq(Nat) : text = Append(draft[r].text, s.turn)
  BY <1>n, AppendProperties
<1>2. text # <<>>
  BY <1>n, <1>1, AppendProperties, Z3
<1>3. /\ RecordDraft(r, text, draft[r].completed) /\ UNCHANGED <<flush, shown>>
      /\ stream' = [stream EXCEPT ![r] =
           [s EXCEPT !.events = s.events + 1, !.pieces = s.pieces + 1, !.last = text]]
  <2>1. RecordDraft(r, Append(draft[r].text, s.turn), draft[r].completed)
    BY DEF TurnDelta
  <2>2. UNCHANGED <<flush, shown>>
    BY DEF TurnDelta
  <2>3. stream' = [stream EXCEPT ![r] = [s EXCEPT !.events = s.events + 1,
                        !.pieces = s.pieces + 1, !.last = Append(draft[r].text, s.turn)]]
    BY DEF TurnDelta
  <2> QED
    BY <1>1, <2>1, <2>2, <2>3
<1>4. PICK events \in Nat, pieces \in Nat : events = s.events + 1 /\ pieces = s.pieces + 1
  BY <1>n
<1> DEFINE next == [s EXCEPT !.events = events, !.pieces = pieces, !.last = text]
<1>5. next \in Streams /\ next.last = text
  BY <1>t DEF Streams, Texts
<1>6. stream' = [stream EXCEPT ![r] = next]
  BY <1>3, <1>4
<1> HIDE DEF next
<1> QED
  BY <1>n, <1>2, <1>3, <1>5, <1>6, RecordInv DEF Texts

LEMMA PiecesType == ASSUME NEW turn \in Nat, NEW n \in Nat PROVE Pieces(turn, n) \in Texts
<1> QED
  BY DEF Pieces, Texts

LEMMA TurnCompletedInv == ASSUME DraftsInv, NEW r \in DraftRuns, TurnCompleted(r) PROVE DraftsInv'
<1> DEFINE s == stream[r]
<1>t. draft[r] \in DraftRows /\ s \in Streams
  BY DEF DraftsInv, DraftsTyped
<1>n. /\ draft[r].text \in Texts /\ s.turn \in Nat /\ s.pieces \in Nat /\ s.events \in Nat
      /\ s.last \in Texts /\ s.turn + 1 \in Nat /\ s.pieces + 1 \in Nat /\ s.events + 1 \in Nat
  BY <1>t DEF DraftRows, Streams
<1>1. PICK content \in {draft[r].text, Pieces(s.turn, s.pieces), Pieces(s.turn, s.pieces + 1)} :
        LET text == IF content = <<>> THEN draft[r].text ELSE content IN
        /\ IF text = <<>> THEN UNCHANGED draft ELSE RecordDraft(r, text, TRUE)
        /\ stream' = [stream EXCEPT ![r] = [events |-> s.events + 1, turn |-> s.turn + 1, pieces |-> 0,
                        last |-> IF text = <<>> THEN @.last ELSE text]]
  BY DEF TurnCompleted
<1>2. content \in Texts
  BY <1>n, PiecesType
<1> DEFINE text == IF content = <<>> THEN draft[r].text ELSE content
           next(t) == [events |-> s.events + 1, turn |-> s.turn + 1, pieces |-> 0, last |-> t]
<1>3. UNCHANGED <<flush, shown>>
  BY DEF TurnCompleted
<1>4. ASSUME NEW t \in Texts PROVE next(t) \in Streams /\ next(t).last = t
  BY <1>n DEF Streams
<1>5. text \in Texts
  BY <1>n, <1>2
<1>6. CASE text # <<>>
  <2>1. RecordDraft(r, text, TRUE) /\ stream' = [stream EXCEPT ![r] = next(text)]
    BY <1>1, <1>6
  <2>2. next(text) \in Streams /\ next(text).last = text
    BY <1>4, <1>5
  <2> HIDE DEF text, next
  <2> QED
    BY <1>3, <1>5, <1>6, <2>1, <2>2, RecordInv
<1>7. CASE text = <<>>
  <2>1. draft' = draft /\ stream' = [stream EXCEPT ![r] = next(s.last)]
    BY <1>1, <1>7
  <2>2. next(s.last) \in Streams /\ next(s.last).last = s.last
    BY <1>4, <1>n
  <2> HIDE DEF text, next
  <2>3. /\ stream' \in [DraftRuns -> Streams]
        /\ \A q \in DraftRuns : stream'[q].last = stream[q].last
    BY <2>1, <2>2 DEF DraftsInv, DraftsTyped
  <2>4. DraftsTyped' /\ FlushOK'
    BY <1>3, <2>1, <2>3
    DEF DraftsInv, DraftsTyped, FlushOK, OneCopyEach, CopiesAreDirty, TheCopyIsShown
  <2>5. TextsUpToDate'
    BY <1>3, <2>1, <2>3 DEF DraftsInv, TextsUpToDate, UpToDate, Latest
  <2> QED
    BY <2>4, <2>5 DEF DraftsInv
<1> QED
  BY <1>6, <1>7

LEMMA FlushInv == ASSUME DraftsInv, FlushDrafts PROVE DraftsInv'
<1> DEFINE dirty == {r \in DraftRuns : draft[r].dirty}
           pass == [pc |-> "send", todo |-> {Copy(r) : r \in dirty}]
<1>t. draft \in [DraftRuns -> DraftRows]
  BY DEF DraftsInv, DraftsTyped
<1>1. \A r \in DraftRuns : Copy(r) \in Copies /\ Copy(r).run = r
  BY <1>t DEF Copy, Copies, DraftRows
<1>2. flush' = pass /\ UNCHANGED <<draft, shown, stream>>
  BY DEF FlushDrafts
<1>3. pass \in Sending /\ pass.todo = {Copy(r) : r \in dirty} /\ pass.pc = "send"
  BY <1>1 DEF Sending
<1> HIDE DEF pass
<1>4. DraftsTyped'
  BY <1>2, <1>3 DEF DraftsInv, DraftsTyped
<1>5. FlushOK'
  BY <1>1, <1>2, <1>3 DEF FlushOK, OneCopyEach, CopiesAreDirty, TheCopyIsShown
<1> QED
  BY <1>2, <1>4, <1>5 DEF DraftsInv, TextsUpToDate, UpToDate, Latest

(* What a copy holds is the latest text, unless another was recorded since.  *)
LEMMA SendMessageDraftInv == ASSUME DraftsInv, SendMessageDraft PROVE DraftsInv'
<1>t. DraftsTyped /\ shown \in [DraftRuns -> Texts]
  BY DEF DraftsInv, DraftsTyped
<1>u. UNCHANGED <<draft, stream>> /\ flush.pc = "send"
  BY DEF SendMessageDraft
<1>1. CASE flush' = NotFlushing /\ UNCHANGED shown
  <2>1. DraftsTyped'
    BY <1>t, <1>u, <1>1, AbsentType DEF DraftsTyped
  <2>2. FlushOK'
    BY <1>1, AbsentType DEF FlushOK, OneCopyEach, CopiesAreDirty, TheCopyIsShown
  <2> QED
    BY <1>u, <1>1, <2>1, <2>2 DEF DraftsInv, TextsUpToDate, UpToDate, Latest
<1>2. ASSUME NEW c \in flush.todo, shown' = [shown EXCEPT ![c.run] = c.text],
             flush' = [pc |-> "shown", todo |-> flush.todo, copy |-> c]
      PROVE  DraftsInv'
  <2>1. flush.todo \subseteq Copies /\ c \in Copies /\ c.run \in DraftRuns /\ c.text \in Texts
    BY <1>t DEF DraftsTyped, Sending, Showing, Copies
  <2>2. flush' \in Showing /\ flush'.todo = flush.todo /\ flush'.copy = c
    BY <1>2, <2>1 DEF Showing
  <2>3. DraftsTyped'
    BY <1>t, <1>u, <1>2, <2>1, <2>2 DEF DraftsTyped
  <2>4. shown'[c.run] = c.text /\ draft[c.run].dirty
    BY <1>t, <1>2, <2>1 DEF DraftsInv, FlushOK, CopiesAreDirty
  <2>5. FlushOK'
    BY <1>u, <2>2, <2>4 DEF DraftsInv, FlushOK, OneCopyEach, CopiesAreDirty, TheCopyIsShown
  <2>6. ASSUME NEW q \in DraftRuns PROVE UpToDate(q)'
    <3>1. CASE q = c.run
      BY <1>u, <2>4, <3>1 DEF DraftsInv, TextsUpToDate, UpToDate, Latest
    <3>2. CASE q # c.run
      BY <1>t, <1>u, <1>2, <3>2 DEF DraftsInv, TextsUpToDate, UpToDate, Latest
    <3> QED
      BY <3>1, <3>2
  <2> QED
    BY <2>3, <2>5, <2>6 DEF DraftsInv, TextsUpToDate
<1> QED
  BY <1>1, <1>2 DEF SendMessageDraft

(* What is done with was shown as it is.                                   *)
LEMMA MarkShownInv == ASSUME DraftsInv, MarkShown PROVE DraftsInv'
<1> DEFINE c == flush.copy  old == draft[c.run]
           row == IF old.text # c.text THEN old
                  ELSE IF c.completed THEN Absent ELSE [old EXCEPT !.dirty = FALSE]
           rest == IF flush.todo = {c} THEN NotFlushing
                   ELSE [pc |-> "send", todo |-> flush.todo \ {c}]
<1>t. /\ DraftsTyped /\ draft \in [DraftRuns -> DraftRows]
      /\ flush.pc = "shown" /\ flush \in Sending \cup Showing
  BY DEF DraftsInv, DraftsTyped, MarkShown
<1>1. /\ flush.todo \subseteq Copies /\ c \in flush.todo /\ c.run \in DraftRuns
      /\ shown[c.run] = c.text /\ old \in DraftRows /\ old.dirty /\ UpToDate(c.run)
  <2>1. flush.todo \subseteq Copies /\ c \in Copies
    BY <1>t DEF Sending, Showing
  <2>2. c.run \in DraftRuns
    BY <2>1 DEF Copies
  <2> QED
    BY <1>t, <2>1, <2>2
    DEF DraftsInv, TextsUpToDate, FlushOK, TheCopyIsShown, CopiesAreDirty
<1>2. /\ draft' = [draft EXCEPT ![c.run] = row] /\ flush' = rest /\ UNCHANGED <<shown, stream>>
  BY DEF MarkShown
<1>3. row \in DraftRows /\ (row = old \/ (~row.dirty /\ old.text = c.text /\ row.text \in {<<>>, old.text}))
  <2>1. [old EXCEPT !.dirty = FALSE] \in DraftRows
    BY <1>1 DEF DraftRows
  <2>2. /\ [old EXCEPT !.dirty = FALSE].text = old.text
        /\ [old EXCEPT !.dirty = FALSE].dirty = FALSE
    BY <1>1 DEF DraftRows
  <2> QED
    BY <1>1, <2>1, <2>2, AbsentType
<1>4. rest \in Sending /\ rest.todo = flush.todo \ {c} /\ rest.pc \in {"idle", "send"}
  BY <1>1, AbsentType DEF Sending
<1> HIDE DEF row, rest
<1>5. DraftsTyped'
  BY <1>t, <1>1, <1>2, <1>3, <1>4 DEF DraftsTyped
<1>6. \A q \in DraftRuns \ {c.run} : draft'[q] = draft[q]
  BY <1>t, <1>2
<1>7. draft'[c.run] = row
  BY <1>t, <1>1, <1>2
<1>8. FlushOK'
  <2>1. \A d \in flush.todo \ {c} : d.run \in DraftRuns \ {c.run}
    BY <1>1 DEF DraftsInv, FlushOK, OneCopyEach, Copies
  <2> QED
    BY <1>2, <1>4, <1>6, <2>1 DEF DraftsInv, FlushOK, OneCopyEach, CopiesAreDirty, TheCopyIsShown
<1>9. ASSUME NEW q \in DraftRuns PROVE UpToDate(q)'
  <2>1. CASE q # c.run
    BY <1>2, <1>6, <2>1 DEF DraftsInv, TextsUpToDate, UpToDate, Latest
  <2>2. CASE q = c.run
    <3>1. CASE row = old
      BY <1>1, <1>2, <1>7, <2>2, <3>1 DEF UpToDate, Latest
    <3>2. CASE ~row.dirty /\ old.text = c.text /\ row.text \in {<<>>, old.text}
      <4>1. old.text = stream[q].last
        BY <1>1, <2>2 DEF UpToDate, Latest
      <4> QED
        BY <1>1, <1>2, <1>7, <2>2, <3>2, <4>1 DEF UpToDate, Latest
    <3> QED
      BY <1>3, <3>1, <3>2
  <2> QED
    BY <2>1, <2>2
<1> QED
  BY <1>5, <1>8, <1>9 DEF DraftsInv, TextsUpToDate

LEMMA DraftsInvariant == DraftsSpec => []DraftsInv
<1>1. DraftsInv /\ [DraftsNext]_draftVars => DraftsInv'
  <2> SUFFICES ASSUME DraftsInv, [DraftsNext]_draftVars PROVE DraftsInv'
    OBVIOUS
  <2>1. CASE UNCHANGED draftVars
    BY <2>1 DEF draftVars, DraftsInv, DraftsTyped, TextsUpToDate, UpToDate, Latest, FlushOK,
       OneCopyEach, CopiesAreDirty, TheCopyIsShown
  <2>2. CASE DraftsNext
    BY <2>2, TurnDeltaInv, TurnCompletedInv, FlushInv, SendMessageDraftInv, MarkShownInv
    DEF DraftsNext
  <2> QED
    BY <2>1, <2>2
<1> QED
  BY <1>1, DraftsInitInv, PTL DEF DraftsSpec

LEMMA TextsAreKept == DraftsInv => NoTextIsForgotten
<1> QED
  BY DEF DraftsInv, TextsUpToDate, UpToDate, Latest, NoTextIsForgotten

-----------------------------------------------------------------------------

(* With one drain, a message goes out again only after a time it went out   *)
(* and the program could not know; and whatever a run records while its     *)
(* drafts are flushed, its last text is on the screen or will be copied by  *)
(* the next flush (deliverWithRetry, recordDraft, FlushDrafts).             *)
THEOREM WordsGoOut ==
  ASSUME OneDrainer PROVE DeliverySpec /\ DraftsSpec => []WordsGoOutOnce
<1>1. DeliveryInv /\ KnownOK /\ [DeliveryNext]_deliveryVars => KnownOK'
  BY KnownStep
<1>2. DeliverySpec => []KnownOK
  BY <1>1, DeliveryInvariant, KnownInit, PTL DEF DeliverySpec
<1>3. KnownOK /\ DraftsInv => WordsGoOutOnce
  BY KnownOnce, TextsAreKept DEF WordsGoOutOnce
<1> QED
  BY <1>2, <1>3, DraftsInvariant, PTL

-----------------------------------------------------------------------------
(***************************************************************************)
(* Inbound messages.                                                       *)
(*                                                                         *)
(* The invariant says little more than the properties: the rest is the     *)
(* types of what the steps read. A run is added only by the two steps that *)
(* the unique index guards, and a run that is not live never becomes so:   *)
(* the reply to a gate resumes a run that waits, which counts as live.     *)
(* The last two parts add what a handler has in hand: the update at the    *)
(* poller's position, and the run that it has just added.                  *)
(***************************************************************************)

Row == [conv : Nat, status : {"active", "waiting", "ended", "gone"}, loop : BOOLEAN,
        cut : BOOLEAN, gate : {"none", "open", "expired", "resolved"}]
Desk == [pc : Pcs, msg : Nat, conv : Nat, run : Nat, opens : BOOLEAN, binds : BOOLEAN]
Service == [sent : Nat, resets : SUBSET Nat, confirmed : Nat, tries : [Messages -> Nat],
            acked : SUBSET Nat]

Shapes ==
  /\ conv \in Nat /\ convs \in Nat
  /\ front \in [1..MaxConvs -> Nat] /\ routes \in [1..MaxConvs -> Nat]
  /\ run \in Seq(Row)
  /\ handler \in [Goroutines -> Desk]
  /\ poll \in [next : Nat, last : Nat]
  /\ service \in Service

LEMMA MessagesAreNumbers == Messages \subseteq Nat
<1>1. Cardinality(Messages) \in Nat
  BY InboundAssumption, FS_CardinalityType
<1>2. \A m \in 1..Cardinality(Messages) : m \in Nat
  BY <1>1
<1> QED BY <1>2, InboundAssumption

\* A step of a goroutine's own record keeps the records typed.
LEMMA DeskChanges ==
  ASSUME handler \in [Goroutines -> Desk], NEW h \in Goroutines, NEW d \in Desk,
         handler' = [handler EXCEPT ![h] = d]
  PROVE  handler' \in [Goroutines -> Desk]
OBVIOUS

LEMMA IdleDesk == Idle \in Desk
BY DEF Idle, Desk, Pcs

LEMMA Moves ==
  ASSUME handler \in [Goroutines -> Desk], NEW h \in Goroutines, NEW pc \in Pcs, Goto(h, pc)
  PROVE  handler' \in [Goroutines -> Desk]
BY DEF Goto, Desk

LEMMA Returns ==
  ASSUME Shapes, NEW h \in Goroutines, NEW how, Return(h, how)
  PROVE  handler' \in [Goroutines -> Desk] /\ service' \in Service
<1>1. handler' \in [Goroutines -> Desk]
  BY IdleDesk, DeskChanges DEF Return, Shapes
<1>2. handler[h].msg \in Nat
  BY DEF Shapes, Desk
<1>3. service' \in Service
  <2>1. CASE service' = service BY <2>1 DEF Shapes
  <2>2. CASE service' = [service EXCEPT !.acked = @ \cup {handler[h].msg}]
    BY <2>2, <1>2 DEF Shapes, Service
  <2> QED BY <2>1, <2>2 DEF Return
<1> QED BY <1>1, <1>3

LEMMA Begins ==
  ASSUME Shapes, NEW h \in Goroutines, NEW m \in Nat, Begin(h, m)
  PROVE  handler' \in [Goroutines -> Desk]
<1> DEFINE pc == CASE m \in service.resets -> "find"
                   [] m \notin service.resets /\ transport = "poll" -> "gate"
                   [] OTHER -> "resolve"
<1>1. pc \in Pcs BY DEF Pcs
<1>2. [Idle EXCEPT !.msg = m, !.pc = pc] \in Desk
  <2> HIDE DEF pc
  <2> QED BY <1>1 DEF Idle, Desk
<1> QED BY <1>2, DeskChanges DEF Begin, Shapes

-----------------------------------------------------------------------------
(* What the steps do to the table of runs.                                 *)

\* No run is added and none becomes live.
NoneLives ==
  /\ Len(run') = Len(run)
  /\ \A r \in Runs : /\ run'[r].conv = run[r].conv
                     /\ run'[r].status \in LiveStatus => run[r].status \in LiveStatus

LEMMA QuietRuns ==
  ASSUME Shapes, OneActiveRoot, NoneLives
  PROVE  OneActiveRoot'
BY DEF NoneLives, OneActiveRoot, Runs, LiveStatus

\* Rows change, and none becomes live.
LEMMA RowsChange ==
  ASSUME Shapes, run' \in [Runs -> Row],
         \A r \in Runs : /\ run'[r].conv = run[r].conv
                         /\ run'[r].status \in LiveStatus => run[r].status \in LiveStatus
  PROVE  run' \in Seq(Row) /\ NoneLives
<1>1. Len(run) \in Nat /\ Runs = 1..Len(run)
  BY DEF Shapes, Runs
<1>2. run' \in Seq(Row) /\ Len(run') = Len(run)
  BY <1>1
<1> QED BY <1>2 DEF NoneLives

\* One row changes and does not become live.
LEMMA RowChanges ==
  ASSUME Shapes, NEW r, NEW row, run' = [run EXCEPT ![r] = row],
         r \in Runs => /\ row \in Row /\ row.conv = run[r].conv
                       /\ row.status \in LiveStatus => run[r].status \in LiveStatus
  PROVE  run' \in Seq(Row) /\ NoneLives
<1>1. run \in [Runs -> Row]
  BY DEF Shapes, Runs
<1>2. run' \in [Runs -> Row]
  BY <1>1
<1>3. \A q \in Runs : run'[q] = IF q = r THEN row ELSE run[q]
  BY <1>1
<1> QED BY <1>2, <1>3, RowsChange

\* A run is added where none is live.
LEMMA RunAdded ==
  ASSUME Shapes, OneActiveRoot, NEW g \in Nat, Fits(g), run' = NewRun(g)
  PROVE  run' \in Seq(Row) /\ OneActiveRoot'
<1> DEFINE row == [conv |-> g, status |-> "active", loop |-> FALSE, cut |-> FALSE, gate |-> "none"]
<1>1. row \in Row BY DEF Row
<1>2. run' = Append(run, row) BY DEF NewRun
<1> HIDE DEF row
<1>3. /\ run' \in Seq(Row) /\ Len(run') = Len(run) + 1
      /\ \A r \in Runs : run'[r] = run[r]
      /\ run'[Len(run) + 1] = row
  BY <1>1, <1>2 DEF Shapes, Runs
<1>4. \A r \in Runs : ~(run[r].conv = g /\ run[r].status \in LiveStatus)
  BY DEF Fits, Busy
<1>5. row.conv = g BY DEF row
<1>6. OneActiveRoot'
  <2>1. Len(run) \in Nat /\ Runs = 1..Len(run) /\ Runs' = 1..(Len(run) + 1)
    BY <1>3 DEF Shapes, Runs
  <2>2. \A q \in Runs' : q \in Runs \/ q = Len(run) + 1
    BY <2>1
  <2>3. ASSUME NEW q \in Runs, run'[q].status \in LiveStatus PROVE run'[q].conv # g
    BY <1>3, <1>4, <2>3
  <2> QED BY <1>3, <1>5, <2>2, <2>3 DEF OneActiveRoot
<1> QED BY <1>3, <1>6

-----------------------------------------------------------------------------
(* The invariant.                                                          *)

InboundInv == Shapes /\ OneActiveRoot /\ OneRunPerMessage /\ OneFrontSession

LEMMA InboundStarts == InboundInit => InboundInv
<1> SUFFICES ASSUME InboundInit PROVE InboundInv
  OBVIOUS
<1>1. handler \in [Goroutines -> Desk]
  BY IdleDesk DEF InboundInit
<1>2. service \in Service
  BY DEF InboundInit, Service
<1>3. run \in Seq(Row) /\ Runs = {}
  BY DEF InboundInit, Runs
<1>4. front \in [1..MaxConvs -> Nat] /\ routes \in [1..MaxConvs -> Nat]
  BY DEF InboundInit
<1>5. Shapes
  BY <1>1, <1>2, <1>3, <1>4 DEF Shapes, InboundInit
<1> QED BY <1>3, <1>5 DEF InboundInv, OneActiveRoot, OneRunPerMessage, OneFrontSession, InboundInit

\* A step that adds nothing to the tables.
LEMMA Kept ==
  ASSUME InboundInv, Shapes', OneActiveRoot', receipts' \subseteq receipts,
         \A g \in 1..MaxConvs : front'[g] <= 1 /\ routes'[g] <= 1
  PROVE  InboundInv'
BY DEF InboundInv, OneRunPerMessage, OneFrontSession

\* A step of the goroutines, the transports and the conversation's row alone.
LEMMA CalmStep ==
  ASSUME InboundInv, UNCHANGED <<run, front, routes, receipts>>,
         conv' \in Nat /\ convs' \in Nat,
         handler' \in [Goroutines -> Desk], poll' \in [next : Nat, last : Nat],
         service' \in Service
  PROVE  InboundInv'
<1>1. Shapes' /\ OneActiveRoot'
  BY DEF InboundInv, Shapes, OneActiveRoot, Runs
<1> QED BY <1>1, Kept DEF InboundInv, OneFrontSession

\* A step that changes rows of `runs` too, none of which becomes live.
LEMMA RunStep ==
  ASSUME InboundInv, UNCHANGED <<conv, convs, front, routes, receipts>>,
         run' \in Seq(Row), NoneLives,
         handler' \in [Goroutines -> Desk], poll' \in [next : Nat, last : Nat],
         service' \in Service
  PROVE  InboundInv'
<1>1. Shapes'
  BY DEF InboundInv, Shapes
<1>2. OneActiveRoot'
  BY QuietRuns DEF InboundInv
<1> QED BY <1>1, <1>2, Kept DEF InboundInv, OneFrontSession

-----------------------------------------------------------------------------
(* The steps of a handler that leave the tables alone, or shrink them.     *)

LEMMA Looks ==
  ASSUME InboundInv, NEW h \in Goroutines,
         \/ FindConversation(h) \/ CheckIdle(h) \/ AnswerCommand(h) \/ ResolvePendingGate(h)
         \/ ResolveConversation(h) \/ LoadInboundReceiptRun(h) \/ FindRoute(h)
         \/ FindFrontSession(h) \/ PrepareRunStart(h)
  PROVE  InboundInv'
<1> DEFINE d == handler[h]
<1>0. Shapes /\ d \in Desk /\ service \in Service /\ poll \in [next : Nat, last : Nat]
  BY DEF InboundInv, Shapes
<1>t. conv \in Nat /\ convs \in Nat /\ handler \in [Goroutines -> Desk]
  BY DEF InboundInv, Shapes
<1> HIDE DEF d
<1>1. CASE FindConversation(h)
  <2>1. \A pc \in Pcs : [d EXCEPT !.conv = conv, !.pc = pc] \in Desk
    BY <1>0, <1>t DEF Desk
  <2>2. handler' \in [Goroutines -> Desk]
    BY <1>1, <1>t, <2>1, DeskChanges DEF FindConversation, d, Pcs
  <2> QED BY <1>0, <1>1, <1>t, <2>2, CalmStep DEF FindConversation, outside, chat
<1>2. CASE CheckIdle(h)
  <2>1. handler' \in [Goroutines -> Desk]
    BY <1>2, <1>t, Moves DEF CheckIdle, Pcs
  <2> QED BY <1>0, <1>2, <1>t, <2>1, CalmStep DEF CheckIdle, outside, chat
<1>3. CASE AnswerCommand(h)
  <2>1. handler' \in [Goroutines -> Desk] /\ service' \in Service
    BY <1>0, <1>3, Returns DEF AnswerCommand
  <2> QED BY <1>0, <1>3, <1>t, <2>1, CalmStep DEF AnswerCommand, chat
<1>4. CASE ResolvePendingGate(h)
  <2>1. CASE Goto(h, "resolve") /\ service' = service
    <3>1. handler' \in [Goroutines -> Desk]
      BY <1>t, <2>1, Moves DEF Pcs
    <3> QED BY <1>0, <1>4, <1>t, <2>1, <3>1, CalmStep DEF ResolvePendingGate, chat
  <2>2. CASE Return(h, "ok")
    <3>1. handler' \in [Goroutines -> Desk] /\ service' \in Service
      BY <1>0, <2>2, Returns
    <3> QED BY <1>0, <1>4, <1>t, <3>1, CalmStep DEF ResolvePendingGate, chat
  <2>3. ASSUME NEW r \in Runs, service' = service,
               handler' = [handler EXCEPT ![h].pc = "record", ![h].conv = conv, ![h].run = r]
        PROVE  InboundInv'
    <3>1. r \in Nat BY DEF Runs
    <3>2. [d EXCEPT !.pc = "record", !.conv = conv, !.run = r] \in Desk
      BY <1>0, <1>t, <3>1 DEF Desk, Pcs
    <3>3. handler' = [handler EXCEPT ![h] = [d EXCEPT !.pc = "record", !.conv = conv, !.run = r]]
      BY <1>t, <2>3 DEF d
    <3>4. handler' \in [Goroutines -> Desk]
      BY <1>t, <3>2, <3>3, DeskChanges
    <3> QED BY <1>0, <1>4, <1>t, <2>3, <3>4, CalmStep DEF ResolvePendingGate, chat
  <2> QED BY <1>4, <2>1, <2>2, <2>3 DEF ResolvePendingGate, PendingGates
<1>5. CASE ResolveConversation(h)
  <2>1. conv' \in Nat /\ convs' \in Nat
    BY <1>t, <1>5 DEF ResolveConversation
  <2>2. [d EXCEPT !.pc = "receipt", !.conv = conv'] \in Desk
    BY <1>0, <2>1 DEF Desk, Pcs
  <2>3. handler' = [handler EXCEPT ![h] = [d EXCEPT !.pc = "receipt", !.conv = conv']]
    BY <1>5, <1>t DEF ResolveConversation, d
  <2>4. handler' \in [Goroutines -> Desk]
    BY <1>t, <2>2, <2>3, DeskChanges
  <2> QED BY <1>0, <1>5, <2>1, <2>4, CalmStep DEF ResolveConversation, outside
<1>6. CASE LoadInboundReceiptRun(h)
  <2>1. CASE Return(h, "ok")
    <3>1. handler' \in [Goroutines -> Desk] /\ service' \in Service
      BY <1>0, <2>1, Returns
    <3> QED BY <1>0, <1>6, <1>t, <3>1, CalmStep DEF LoadInboundReceiptRun, chat
  <2>2. CASE Goto(h, "route") /\ service' = service
    <3>1. handler' \in [Goroutines -> Desk]
      BY <1>t, <2>2, Moves DEF Pcs
    <3> QED BY <1>0, <1>6, <1>t, <2>2, <3>1, CalmStep DEF LoadInboundReceiptRun, chat
  <2> QED BY <1>6, <2>1, <2>2 DEF LoadInboundReceiptRun
<1>7. CASE FindRoute(h)
  <2>1. handler' \in [Goroutines -> Desk]
    BY <1>7, <1>t, Moves DEF FindRoute, Pcs
  <2> QED BY <1>0, <1>7, <1>t, <2>1, CalmStep DEF FindRoute, outside, chat
<1>8. CASE FindFrontSession(h)
  <2>1. \A opens \in BOOLEAN : [d EXCEPT !.pc = "start", !.binds = TRUE, !.opens = opens] \in Desk
    BY <1>0 DEF Desk, Pcs
  <2>2. (front[handler[h].conv] = 0) \in BOOLEAN
    OBVIOUS
  <2>3. handler' \in [Goroutines -> Desk]
    BY <1>8, <1>t, <2>1, <2>2, DeskChanges DEF FindFrontSession, d
  <2> QED BY <1>0, <1>8, <1>t, <2>3, CalmStep DEF FindFrontSession, outside, chat
<1>9. CASE PrepareRunStart(h)
  <2>1. CASE Return(h, "error")
    <3>1. handler' \in [Goroutines -> Desk] /\ service' \in Service
      BY <1>0, <2>1, Returns
    <3> QED BY <1>0, <1>9, <1>t, <3>1, CalmStep DEF PrepareRunStart, chat
  <2>2. CASE Goto(h, "append") /\ service' = service
    <3>1. handler' \in [Goroutines -> Desk]
      BY <1>t, <2>2, Moves DEF Pcs
    <3> QED BY <1>0, <1>9, <1>t, <2>2, <3>1, CalmStep DEF PrepareRunStart, chat
  <2> QED BY <1>9, <2>1, <2>2 DEF PrepareRunStart
<1> QED BY <1>1, <1>2, <1>3, <1>4, <1>5, <1>6, <1>7, <1>8, <1>9

-----------------------------------------------------------------------------
(* The steps of a handler that change the tables.                          *)

\* Every row of `runs` has its type.
LEMMA RunsAreRows ==
  ASSUME Shapes
  PROVE  run \in [Runs -> Row] /\ Runs \subseteq Nat
BY DEF Shapes, Runs

LEMMA DeleteStep ==
  ASSUME InboundInv, NEW h \in Goroutines, DeleteConversation(h)
  PROVE  InboundInv'
<1> DEFINE g == handler[h].conv
<1>1. Shapes /\ handler \in [Goroutines -> Desk]
  BY DEF InboundInv, Shapes
<1>2. run' \in Seq(Row) /\ NoneLives
  <2>1. \A r \in Runs : [run[r] EXCEPT !.status = "gone"] \in Row
    BY <1>1, RunsAreRows DEF Row
  <2>2. run' \in [Runs -> Row]
    BY <1>1, <2>1, RunsAreRows DEF DeleteConversation
  <2>3. \A r \in Runs : run'[r] \in {run[r], [run[r] EXCEPT !.status = "gone"]}
    BY DEF DeleteConversation
  <2>4. \A r \in Runs : /\ run'[r].conv = run[r].conv
                        /\ run'[r].status \in LiveStatus => run[r].status \in LiveStatus
    BY <1>1, <2>3, RunsAreRows DEF Row, LiveStatus
  <2> QED BY <1>1, <2>2, <2>4, RowsChange
<1>3. handler' \in [Goroutines -> Desk]
  BY <1>1, Moves DEF DeleteConversation, Pcs
<1>4. front' \in [1..MaxConvs -> Nat] /\ routes' \in [1..MaxConvs -> Nat]
  BY <1>1 DEF DeleteConversation, Shapes
<1>5. \A c \in 1..MaxConvs : front'[c] <= 1 /\ routes'[c] <= 1
  BY <1>1 DEF DeleteConversation, Shapes, InboundInv, OneFrontSession
<1>6. conv' \in Nat /\ UNCHANGED <<convs, poll, service>> /\ receipts' \subseteq receipts
  BY <1>1 DEF DeleteConversation, Shapes, outside
<1>7. Shapes'
  BY <1>1, <1>2, <1>3, <1>4, <1>6 DEF Shapes
<1>8. OneActiveRoot'
  BY <1>1, <1>2, QuietRuns DEF InboundInv
<1> QED BY <1>5, <1>6, <1>7, <1>8, Kept

\* The receipt of a gate's reply is of a message that has none yet.
LEMMA GateMessageStep ==
  ASSUME InboundInv, NEW h \in Goroutines, AppendInboundGateMessage(h)
  PROVE  InboundInv'
<1>1. Shapes /\ handler \in [Goroutines -> Desk] /\ service \in Service
  BY DEF InboundInv, Shapes
<1>2. UNCHANGED <<conv, convs, front, routes, run, poll>>
  BY DEF AppendInboundGateMessage
<1>3. CASE Return(h, "error") /\ receipts' = receipts
  <2>1. handler' \in [Goroutines -> Desk] /\ service' \in Service
    BY <1>1, <1>3, Returns
  <2> QED BY <1>1, <1>2, <1>3, <2>1, CalmStep DEF Shapes
<1>4. CASE /\ ~Received(handler[h].conv, handler[h].msg)
           /\ receipts' = receipts \cup {[conv |-> handler[h].conv, msg |-> handler[h].msg,
                                           run |-> handler[h].run]}
           /\ Goto(h, "decide") /\ service' = service
  <2>1. handler' \in [Goroutines -> Desk]
    BY <1>1, <1>4, Moves DEF Pcs
  <2>2. Shapes' /\ OneActiveRoot'
    BY <1>1, <1>2, <1>4, <2>1 DEF Shapes, InboundInv, OneActiveRoot, Runs
  <2>3. OneRunPerMessage'
    BY <1>4 DEF OneRunPerMessage, InboundInv, Received
  <2> QED BY <1>2, <2>2, <2>3 DEF InboundInv, OneFrontSession
<1> QED BY <1>3, <1>4 DEF AppendInboundGateMessage

\* A run that waits is live already.
LEMMA DecideStep ==
  ASSUME InboundInv, NEW h \in Goroutines, DecideGate(h)
  PROVE  InboundInv'
<1> DEFINE r == handler[h].run
<1>1. Shapes /\ UNCHANGED <<conv, convs, front, routes, receipts, poll>>
      /\ poll \in [next : Nat, last : Nat]
  BY DEF InboundInv, Shapes, DecideGate, chat
<1>2. handler' \in [Goroutines -> Desk] /\ service' \in Service
  BY <1>1, Returns DEF DecideGate
<1>3. CASE run' = run
  BY <1>1, <1>2, <1>3, CalmStep DEF Shapes
<1>4. CASE run[r].status = "waiting" /\ ResumeRun(r)
  <2> DEFINE row == [run[r] EXCEPT !.gate = "resolved", !.status = "active", !.loop = TRUE]
  <2>1. run' = [run EXCEPT ![r] = row]
    BY <1>1, <1>4, RunsAreRows DEF ResumeRun
  <2>2. r \in Runs => row \in Row /\ row.conv = run[r].conv
    <3>1. SUFFICES ASSUME r \in Runs PROVE row \in Row /\ row.conv = run[r].conv
      OBVIOUS
    <3>2. run[r] \in Row
      BY <1>1, <3>1, RunsAreRows
    <3> QED BY <3>2 DEF Row
  <2>3. run' \in Seq(Row) /\ NoneLives
    <3> HIDE DEF row
    <3> QED BY <1>1, <1>4, <2>1, <2>2, RowChanges DEF LiveStatus
  <2> QED BY <1>1, <1>2, <2>3, RunStep
<1> QED BY <1>3, <1>4 DEF DecideGate

\* The run, its session, its route and its receipt are added together.
LEMMA AppendStep ==
  ASSUME InboundInv, NEW h \in Goroutines, AppendInboundRun(h)
  PROVE  InboundInv'
<1> DEFINE d == handler[h]  n == Len(run) + 1
<1>1. Shapes /\ d \in Desk /\ UNCHANGED <<conv, convs, poll>> /\ service \in Service
      /\ handler \in [Goroutines -> Desk] /\ poll \in [next : Nat, last : Nat]
  BY DEF InboundInv, Shapes, AppendInboundRun
<1>2. CASE /\ UNCHANGED <<front, routes, receipts, run>>
           /\ \E how \in {"ok", "error"} : Return(h, how)
  <2>1. handler' \in [Goroutines -> Desk] /\ service' \in Service
    BY <1>1, <1>2, Returns
  <2> QED BY <1>1, <1>2, <2>1, CalmStep DEF Shapes
<1>3. CASE /\ Appends(h) /\ run' = NewRun(d.conv)
           /\ IF d.opens THEN SessionOpened(d.conv) ELSE UNCHANGED front
           /\ IF d.binds THEN SessionBound(d.conv) ELSE UNCHANGED routes
           /\ receipts' = receipts \cup {[conv |-> d.conv, msg |-> d.msg, run |-> n]}
           /\ handler' = [handler EXCEPT ![h].pc = "started", ![h].run = n]
           /\ service' = service
  <2>1. d.conv \in Nat /\ Fits(d.conv) /\ ~Received(d.conv, d.msg)
        /\ ~(d.opens /\ KeyTaken(d.conv))
    BY <1>1, <1>3 DEF Appends, Desk
  <2>2. run' \in Seq(Row) /\ OneActiveRoot'
    BY <1>1, <1>3, <2>1, RunAdded DEF InboundInv
  <2>3. front' \in [1..MaxConvs -> Nat] /\ routes' \in [1..MaxConvs -> Nat]
    BY <1>1, <1>3 DEF Shapes, SessionOpened, SessionBound
  <2>4. ASSUME NEW c \in 1..MaxConvs PROVE front'[c] <= 1 /\ routes'[c] <= 1
    <3>1. front[c] \in Nat /\ front[c] <= 1 /\ routes[c] \in Nat /\ routes[c] <= 1
      BY <1>1 DEF Shapes, InboundInv, OneFrontSession
    <3>2. routes'[c] \in {1, routes[c]}
      BY <1>1, <1>3 DEF Shapes, SessionBound
    <3>3. front'[c] = front[c] \/ (d.opens /\ c = d.conv /\ front'[c] = front[c] + 1)
      BY <1>1, <1>3 DEF Shapes, SessionOpened
    <3> QED BY <2>1, <3>1, <3>2, <3>3 DEF KeyTaken
  <2>5. handler' \in [Goroutines -> Desk]
    <3>1. n \in Nat BY <1>1 DEF Shapes
    <3> HIDE DEF n
    <3>2. [d EXCEPT !.pc = "started", !.run = n] \in Desk
      BY <1>1, <3>1 DEF Desk, Pcs
    <3>3. handler' = [handler EXCEPT ![h] = [d EXCEPT !.pc = "started", !.run = n]]
      BY <1>1, <1>3
    <3> QED BY <1>1, <3>2, <3>3, DeskChanges
  <2>6. Shapes'
    BY <1>1, <1>3, <2>2, <2>3, <2>5 DEF Shapes
  <2>7. OneRunPerMessage'
    BY <1>3, <2>1 DEF OneRunPerMessage, InboundInv, Received
  <2> QED BY <2>2, <2>4, <2>6, <2>7 DEF InboundInv, OneFrontSession
<1> QED BY <1>2, <1>3 DEF AppendInboundRun

LEMMA FinishStartStep ==
  ASSUME InboundInv, NEW h \in Goroutines, FinishRunStart(h)
  PROVE  InboundInv'
<1> DEFINE r == handler[h].run
<1>1. Shapes /\ UNCHANGED <<conv, convs, front, routes, receipts, poll>>
      /\ poll \in [next : Nat, last : Nat] /\ service \in Service
  BY DEF InboundInv, Shapes, FinishRunStart, chat
<1>2. handler' \in [Goroutines -> Desk] /\ service' \in Service
  <2>1. CASE Goto(h, "execute") /\ service' = service
    BY <1>1, <2>1, Moves DEF Shapes, Pcs
  <2>2. CASE Return(h, "error")
    BY <1>1, <2>2, Returns
  <2> QED BY <2>1, <2>2 DEF FinishRunStart
<1>3. \E row : /\ run' = [run EXCEPT ![r] = row]
               /\ row \in {[run[r] EXCEPT !.loop = TRUE], [run[r] EXCEPT !.cut = TRUE]}
  BY DEF FinishRunStart
<1>4. PICK row : /\ run' = [run EXCEPT ![r] = row]
                 /\ row \in {[run[r] EXCEPT !.loop = TRUE], [run[r] EXCEPT !.cut = TRUE]}
  BY <1>3
<1>5. ASSUME r \in Runs
      PROVE  row \in Row /\ row.conv = run[r].conv /\ row.status = run[r].status
  <2>1. run[r] \in Row
    BY <1>1, <1>5, RunsAreRows
  <2> QED BY <1>4, <2>1 DEF Row
<1>6. run' \in Seq(Row) /\ NoneLives
  BY <1>1, <1>4, <1>5, RowChanges
<1> QED BY <1>1, <1>2, <1>6, RunStep

\* The end of a loop leaves no row live that was not.
LEMMA LoopEndsRows ==
  ASSUME Shapes, NEW r, NEW gate \in BOOLEAN, LoopEnds(r, gate)
  PROVE  run' \in Seq(Row) /\ NoneLives
<1> DEFINE row == [run[r] EXCEPT !.loop = FALSE,
                     !.gate = IF gate THEN "open" ELSE @,
                     !.status = IF @ # "active" THEN @ ELSE IF gate THEN "waiting" ELSE "ended"]
<1>1. run' = [run EXCEPT ![r] = row]
  BY RunsAreRows DEF LoopEnds
<1>2. ASSUME r \in Runs
      PROVE  /\ row \in Row /\ row.conv = run[r].conv
             /\ row.status \in LiveStatus => run[r].status \in LiveStatus
  <2>1. run[r] \in Row
    BY <1>2, RunsAreRows
  <2>2. CASE gate
    BY <2>1, <2>2 DEF Row, LiveStatus
  <2>3. CASE ~gate
    BY <2>1, <2>3 DEF Row, LiveStatus
  <2> QED BY <2>2, <2>3
<1> HIDE DEF row
<1> QED BY <1>1, <1>2, RowChanges

LEMMA RunEndsStep ==
  ASSUME InboundInv, NEW h \in Goroutines, RunEnds(h)
  PROVE  InboundInv'
<1>1. Shapes /\ UNCHANGED <<conv, convs, front, routes, receipts, poll>>
      /\ poll \in [next : Nat, last : Nat]
  BY DEF InboundInv, Shapes, RunEnds, chat
<1>2. handler' \in [Goroutines -> Desk] /\ service' \in Service
  BY <1>1, Returns DEF RunEnds
<1>3. run' \in Seq(Row) /\ NoneLives
  BY <1>1, LoopEndsRows DEF RunEnds
<1> QED BY <1>1, <1>2, <1>3, RunStep

LEMMA AsyncStep ==
  ASSUME InboundInv, NEW r \in Runs, AsyncRunEnds(r)
  PROVE  InboundInv'
<1>1. Shapes /\ UNCHANGED <<conv, convs, front, routes, receipts, poll, handler, service>>
  BY DEF InboundInv, AsyncRunEnds, chat, outside
<1>2. run' \in Seq(Row) /\ NoneLives
  BY <1>1, LoopEndsRows DEF AsyncRunEnds
<1> QED BY <1>1, <1>2, RunStep DEF Shapes

-----------------------------------------------------------------------------
(* The web.                                                                *)

LEMMA BeginSendStep ==
  ASSUME InboundInv, NEW h \in Senders, BeginSend(h)
  PROVE  InboundInv'
<1>1. Shapes /\ h \in Goroutines /\ conv \in Nat
  BY DEF InboundInv, Shapes, Goroutines
<1>2. [Idle EXCEPT !.pc = "start", !.conv = conv] \in Desk
  BY <1>1 DEF Idle, Desk, Pcs
<1>3. handler' \in [Goroutines -> Desk]
  BY <1>1, <1>2, DeskChanges DEF BeginSend, Shapes
<1> QED BY <1>1, <1>3, CalmStep DEF BeginSend, outside, chat, Shapes

LEMMA CreateRunStep ==
  ASSUME InboundInv, NEW h \in Goroutines, CreateRun(h)
  PROVE  InboundInv'
<1> DEFINE d == handler[h]  n == Len(run) + 1
<1>1. Shapes /\ d \in Desk /\ handler \in [Goroutines -> Desk]
      /\ UNCHANGED <<conv, convs, front, routes, receipts, poll, service>>
  BY DEF InboundInv, Shapes, CreateRun, outside, chat
<1>2. CASE /\ Fits(d.conv) /\ run' = NewRun(d.conv)
           /\ handler' = [handler EXCEPT ![h].pc = "message", ![h].run = n]
  <2>1. run' \in Seq(Row) /\ OneActiveRoot'
    BY <1>1, <1>2, RunAdded DEF InboundInv, Desk
  <2>2. n \in Nat BY <1>1 DEF Shapes
  <2> HIDE DEF n
  <2>3. [d EXCEPT !.pc = "message", !.run = n] \in Desk
    BY <1>1, <2>2 DEF Desk, Pcs
  <2>4. handler' = [handler EXCEPT ![h] = [d EXCEPT !.pc = "message", !.run = n]]
    BY <1>1, <1>2
  <2>5. Shapes'
    BY <1>1, <2>1, <2>3, <2>4, DeskChanges DEF Shapes
  <2> QED BY <1>1, <2>1, <2>5, Kept DEF InboundInv, OneFrontSession
<1>3. CASE handler' = [handler EXCEPT ![h] = Idle] /\ run' = run
  BY <1>1, <1>3, IdleDesk, DeskChanges, CalmStep DEF Shapes
<1> QED BY <1>2, <1>3 DEF CreateRun

LEMMA MessageStep ==
  ASSUME InboundInv, NEW h \in Goroutines, AppendSessionMessage(h)
  PROVE  InboundInv'
<1> DEFINE r == handler[h].run
<1>1. Shapes /\ UNCHANGED <<conv, convs, front, routes, receipts, poll, service>>
  BY DEF InboundInv, AppendSessionMessage, chat, outside
<1>2. handler' \in [Goroutines -> Desk]
  BY <1>1, IdleDesk, DeskChanges DEF AppendSessionMessage, Shapes
<1>3. PICK row : /\ run' = [run EXCEPT ![r] = row]
                 /\ row \in {[run[r] EXCEPT !.loop = TRUE], [run[r] EXCEPT !.cut = TRUE]}
  BY DEF AppendSessionMessage
<1>4. ASSUME r \in Runs
      PROVE  row \in Row /\ row.conv = run[r].conv /\ row.status = run[r].status
  <2>1. run[r] \in Row
    BY <1>1, <1>4, RunsAreRows
  <2> QED BY <1>3, <2>1 DEF Row
<1>5. run' \in Seq(Row) /\ NoneLives
  BY <1>1, <1>3, <1>4, RowChanges
<1> QED BY <1>1, <1>2, <1>5, RunStep DEF Shapes

LEMMA DeactivateStep ==
  ASSUME InboundInv, DeactivateRoute
  PROVE  InboundInv'
<1>1. Shapes' /\ OneActiveRoot'
  BY DEF InboundInv, Shapes, DeactivateRoute, outside, OneActiveRoot, Runs
<1>2. \A g \in 1..MaxConvs : front'[g] <= 1 /\ routes'[g] <= 1
  BY DEF InboundInv, Shapes, DeactivateRoute, OneFrontSession
<1> QED BY <1>1, <1>2, Kept DEF DeactivateRoute

-----------------------------------------------------------------------------
(* The transports, and stops.                                              *)

LEMMA TransportStep ==
  ASSUME InboundInv, \/ ChatSends \/ GetUpdates \/ HandleUpdate
                     \/ \E h \in Writers, m \in Messages : HandleWebhook(h, m)
  PROVE  InboundInv'
<1>1. /\ Shapes /\ service \in Service /\ poll \in [next : Nat, last : Nat]
      /\ handler \in [Goroutines -> Desk] /\ conv \in Nat /\ convs \in Nat
      /\ Writers \subseteq Goroutines /\ Poller \in Goroutines
  BY InboundAssumption DEF InboundInv, Shapes, Goroutines
<1>2. service.sent \in Nat /\ service.confirmed \in Nat /\ poll.next \in Nat /\ poll.last \in Nat
  BY <1>1 DEF Service
<1>3. CASE ChatSends
  <2>1. service.sent + 1 \in Nat /\ service.resets \cup {service.sent + 1} \in SUBSET Nat
    BY <1>1, <1>2 DEF Service
  <2>2. service' \in Service
    <3> DEFINE n == service.sent + 1
    <3> HIDE DEF n
    <3>1. service' \in {[service EXCEPT !.sent = n], [service EXCEPT !.sent = n, !.resets = @ \cup {n}]}
      BY <1>3 DEF ChatSends, n
    <3>2. n \in Nat BY <2>1 DEF n
    <3>3. service.resets \cup {n} \in SUBSET Nat
      BY <1>1, <3>2 DEF Service
    <3> DEFINE resets == service.resets \cup {n}
    <3> HIDE DEF resets
    <3>4. CASE service' = [service EXCEPT !.sent = n]
      BY <1>1, <3>2, <3>4 DEF Service
    <3>5. CASE service' = [service EXCEPT !.sent = n, !.resets = resets]
      BY <1>1, <3>2, <3>3, <3>5 DEF Service, resets
    <3> QED BY <3>1, <3>4, <3>5 DEF resets
  <2> QED BY <1>1, <1>3, <2>2, CalmStep DEF ChatSends, chat
<1>4. CASE GetUpdates
  <2> DEFINE c == IF poll.next > service.confirmed THEN poll.next ELSE service.confirmed
  <2>1. c \in Nat BY <1>2
  <2>2. /\ service' = [service EXCEPT !.confirmed = c]
        /\ poll' = [next |-> c, last |-> service.sent] \/ poll' = poll
    BY <1>4 DEF GetUpdates
  <2> HIDE DEF c
  <2>3. service' \in Service
    BY <1>1, <2>1, <2>2 DEF Service
  <2>4. poll' \in [next : Nat, last : Nat]
    BY <1>1, <1>2, <2>1, <2>2
  <2> QED BY <1>1, <1>4, <2>3, <2>4, CalmStep DEF GetUpdates, chat
<1>5. CASE HandleUpdate
  <2> DEFINE n == poll.next + 1
  <2>1. n \in Nat /\ Begin(Poller, n) /\ poll' = [poll EXCEPT !.next = n]
    BY <1>1, <1>2, <1>5 DEF HandleUpdate
  <2> HIDE DEF n
  <2>2. handler' \in [Goroutines -> Desk] /\ poll' \in [next : Nat, last : Nat]
    BY <1>1, <2>1, Begins
  <2> QED BY <1>1, <1>5, <2>2, CalmStep DEF HandleUpdate, chat
<1>6. ASSUME NEW h \in Writers, NEW m \in Messages, HandleWebhook(h, m)
      PROVE  InboundInv'
  <2>1. h \in Goroutines /\ m \in Nat
    BY <1>1, MessagesAreNumbers
  <2>2. handler' \in [Goroutines -> Desk]
    BY <1>1, <1>6, <2>1, Begins DEF HandleWebhook
  <2> DEFINE t == [service.tries EXCEPT ![m] = @ + 1]
  <2>3. t \in [Messages -> Nat]
    BY <1>1 DEF Service
  <2>4. service' = [service EXCEPT !.tries = t]
    BY <1>1, <1>6 DEF HandleWebhook, Service
  <2> HIDE DEF t
  <2>5. service' \in Service
    BY <1>1, <2>3, <2>4 DEF Service
  <2> QED BY <1>1, <1>6, <2>2, <2>5, CalmStep DEF HandleWebhook, chat
<1> QED BY <1>3, <1>4, <1>5, <1>6

LEMMA CancelStep ==
  ASSUME InboundInv, NEW h \in Goroutines, ContextCancelled(h)
  PROVE  InboundInv'
<1>1. Shapes /\ UNCHANGED <<conv, convs, front, routes, receipts, service>>
      /\ poll \in [next : Nat, last : Nat]
  BY DEF InboundInv, Shapes, ContextCancelled, chat
<1>2. handler' \in [Goroutines -> Desk] /\ poll' \in [next : Nat, last : Nat]
  BY <1>1, IdleDesk, DeskChanges DEF ContextCancelled, Shapes
<1>3. \A r \in Runs :
        LET row == [run[r] EXCEPT !.loop = FALSE, !.cut = TRUE]
        IN  row \in Row /\ row.conv = run[r].conv /\ row.status = run[r].status
  BY <1>1, RunsAreRows DEF Row
<1>4. run' \in Seq(Row) /\ NoneLives
  BY <1>1, <1>3, RowsChange, RunsAreRows DEF ContextCancelled
<1> QED BY <1>1, <1>2, <1>4, RunStep DEF Shapes

LEMMA RestartStep ==
  ASSUME InboundInv, Restart
  PROVE  InboundInv'
<1>1. Shapes /\ UNCHANGED <<conv, convs, front, routes, receipts, service>>
  BY DEF InboundInv, Restart, chat
<1>2. handler' \in [Goroutines -> Desk] /\ poll' \in [next : Nat, last : Nat]
  BY IdleDesk DEF Restart
<1>3. ASSUME NEW r \in Runs
      PROVE  /\ run'[r] \in Row /\ run'[r].conv = run[r].conv
             /\ run'[r].status \in LiveStatus => run[r].status \in LiveStatus
  <2>1. run[r] \in Row
    BY <1>1, RunsAreRows
  <2>2. run'[r] = [run[r] EXCEPT !.loop = FALSE,
                                 !.status = IF @ = "active" THEN "ended" ELSE @,
                                 !.gate = IF @ = "open" THEN "expired" ELSE @]
    BY DEF Restart
  <2> QED BY <2>1, <2>2 DEF Row, LiveStatus
<1>4. run' \in [Runs -> Row]
  BY <1>3 DEF Restart
<1>5. run' \in Seq(Row) /\ NoneLives
  BY <1>1, <1>3, <1>4, RowsChange
<1> QED BY <1>1, <1>2, <1>5, RunStep DEF Shapes

-----------------------------------------------------------------------------

LEMMA InboundStepInv == InboundInv /\ [InboundNext]_inboundVars => InboundInv'
<1> SUFFICES ASSUME InboundInv, [InboundNext]_inboundVars PROVE InboundInv'
  OBVIOUS
<1>1. CASE UNCHANGED inboundVars
  BY <1>1, CalmStep DEF inboundVars, InboundInv, Shapes
<1>2. ASSUME NEW h \in Goroutines, HandlerStep(h) PROVE InboundInv'
  BY <1>2, Looks, DeleteStep, GateMessageStep, DecideStep, AppendStep, FinishStartStep,
     RunEndsStep, CreateRunStep, MessageStep DEF HandlerStep
<1> QED
  BY <1>1, <1>2, CancelStep, AsyncStep, BeginSendStep, TransportStep, DeactivateStep, RestartStep
  DEF InboundNext

LEMMA InboundInvariant == InboundSpec => []InboundInv
<1> QED
  BY InboundStarts, InboundStepInv, PTL DEF InboundSpec

\* At most one root run of a conversation is live, however messages, commands,
\* replies to gates and senders on the web race to start one, and whatever lost
\* contexts and restarts leave behind.
THEOREM OneRootRun == InboundSpec => []OneActiveRoot
<1>1. InboundInv => OneActiveRoot
  BY DEF InboundInv
<1> QED BY <1>1, InboundInvariant, PTL

-----------------------------------------------------------------------------
(* What the service forgets was handled: a handler ends with an outcome, so *)
(* every update up to the poller's position has one, except that in hand.  *)
(* A position is confirmed only while nothing is in hand, and a poller that *)
(* starts anew starts before every update.                                 *)

InHandOf(m) == handler[Poller].pc # "idle" /\ m = poll.next

PollInv ==
  /\ outcome \in [Messages -> SUBSET {"ok", "error"}]
  /\ handler[Poller].pc # "message"
  /\ transport = "poll" =>
       /\ handler[Poller].pc # "idle" => handler[Poller].msg = poll.next
       /\ \A m \in Messages : m <= poll.next /\ ~InHandOf(m) => outcome[m] # {}
       /\ \A m \in Messages : m <= service.confirmed => outcome[m] # {}

LEMMA PollerIsOne == Poller \in Goroutines /\ Poller \notin Senders
BY InboundAssumption DEF Goroutines

LEMMA UpdatesArePositive == \A m \in Messages : ~(m <= 0)
<1>1. PICK n \in Nat : n = Cardinality(Messages) /\ Messages = 1..n
  BY InboundAssumption, FS_CardinalityType
<1> QED BY <1>1

LEMMA PollStarts == InboundInit => PollInv
<1> SUFFICES ASSUME InboundInit PROVE PollInv
  OBVIOUS
<1>1. handler[Poller].pc = "idle" /\ poll.next = 0 /\ service.confirmed = 0
  BY PollerIsOne DEF InboundInit, Idle
<1> QED BY <1>1, UpdatesArePositive DEF PollInv, InboundInit

\* A step that neither begins nor ends the poller's handling.
LEMMA PollerStays ==
  ASSUME PollInv, UNCHANGED <<transport, poll, service>>, UNCHANGED outcome,
         /\ handler'[Poller].pc # "idle" <=> handler[Poller].pc # "idle"
         /\ handler'[Poller].msg = handler[Poller].msg \/ handler'[Poller].pc = "idle"
         /\ handler'[Poller].pc # "message"
  PROVE  PollInv'
BY DEF PollInv, InHandOf

\* A handler returns: its message has an outcome.
LEMMA PollReturns ==
  ASSUME InboundInv, PollInv, NEW h \in Goroutines, ~At(h, "idle"), UNCHANGED <<transport, poll>>,
         NEW how \in {"ok", "error"}, Return(h, how)
  PROVE  PollInv'
<1> DEFINE m == handler[h].msg
<1>1. Shapes /\ handler' = [handler EXCEPT ![h] = Idle] /\ handler \in [Goroutines -> Desk]
  BY DEF InboundInv, Shapes, Return
<1>2. service'.confirmed = service.confirmed
  BY <1>1 DEF Return, Shapes, Service
<1>3. \/ h \in Senders /\ outcome' = outcome
      \/ outcome' = [outcome EXCEPT ![m] = @ \cup {how}]
  BY DEF Return
<1>4. outcome' \in [Messages -> SUBSET {"ok", "error"}]
  BY <1>3 DEF PollInv
<1>5. \A x \in Messages : /\ outcome[x] # {} => outcome'[x] # {}
                          /\ h \notin Senders /\ x = m => outcome'[x] # {}
  BY <1>3 DEF PollInv
<1>6. CASE h = Poller
  <2>1. handler'[Poller].pc = "idle" /\ h \notin Senders
    BY <1>1, <1>6, PollerIsOne DEF Idle
  <2>2. transport = "poll" => m = poll.next
    BY <1>6 DEF PollInv, At
  <2> QED BY <1>2, <1>4, <1>5, <1>6, <2>1, <2>2 DEF PollInv, InHandOf
<1>7. CASE h # Poller
  <2>1. handler'[Poller] = handler[Poller]
    BY <1>1, <1>7, PollerIsOne
  <2> QED BY <1>2, <1>4, <1>5, <2>1 DEF PollInv, InHandOf
<1> QED BY <1>6, <1>7

\* A step of a handler that goes on.
LEMMA PollGoesOn ==
  ASSUME InboundInv, PollInv, NEW h \in Goroutines, ~At(h, "idle"),
         UNCHANGED <<transport, poll, service>>, UNCHANGED outcome,
         NEW d, handler' = [handler EXCEPT ![h] = d],
         h = Poller => d.pc \notin {"idle", "message"} /\ d.msg = handler[h].msg
  PROVE  PollInv'
<1>1. handler \in [Goroutines -> Desk]
  BY DEF InboundInv, Shapes
<1> QED BY <1>1, PollerIsOne, PollerStays DEF At, PollInv

\* A step from one place to another.
LEMMA PollGoes ==
  ASSUME InboundInv, PollInv, NEW h \in Goroutines, ~At(h, "idle"),
         UNCHANGED <<transport, poll, service>>, UNCHANGED outcome,
         NEW pc, pc \notin {"idle", "message"}, Goto(h, pc)
  PROVE  PollInv'
<1>1. handler \in [Goroutines -> Desk] /\ handler[h] \in Desk
  BY DEF InboundInv, Shapes
<1>2. PICK d : d = [handler[h] EXCEPT !.pc = pc]
  OBVIOUS
<1>3. d.pc = pc /\ d.msg = handler[h].msg
  BY <1>1, <1>2 DEF Desk
<1>4. handler' = [handler EXCEPT ![h] = d]
  BY <1>1, <1>2 DEF Goto
<1> QED BY <1>3, <1>4, PollGoesOn

LEMMA PollHandlerStep ==
  ASSUME InboundInv, PollInv, NEW h \in Goroutines, HandlerStep(h)
  PROVE  PollInv'
<1>1. handler \in [Goroutines -> Desk] /\ handler[h] \in Desk
  BY DEF InboundInv, Shapes
<1>2. CASE FindConversation(h)
  <2>1. PICK d : d = [handler[h] EXCEPT !.conv = conv,
                        !.pc = IF conv = 0 THEN "answer" ELSE "check_idle"]
    OBVIOUS
  <2>2. d.pc \notin {"idle", "message"} /\ d.msg = handler[h].msg
    BY <1>1, <2>1 DEF Desk
  <2>3. handler' = [handler EXCEPT ![h] = d]
    BY <1>1, <1>2, <2>1 DEF FindConversation
  <2> QED BY <1>2, <2>2, <2>3, PollGoesOn DEF FindConversation, outside, At
<1>3. CASE CheckIdle(h)
  BY <1>3, PollGoes DEF CheckIdle, outside, At
<1>4. CASE DeleteConversation(h)
  BY <1>4, PollGoes DEF DeleteConversation, outside, At
<1>5. CASE AnswerCommand(h)
  BY <1>5, PollReturns DEF AnswerCommand, At
<1>6. CASE ResolvePendingGate(h)
  <2>1. CASE Goto(h, "resolve") /\ UNCHANGED <<outcome, service>>
    BY <1>6, <2>1, PollGoes DEF ResolvePendingGate, At
  <2>2. CASE Return(h, "ok")
    BY <1>6, <2>2, PollReturns DEF ResolvePendingGate, At
  <2>3. ASSUME NEW r, UNCHANGED <<outcome, service>>,
               handler' = [handler EXCEPT ![h].pc = "record", ![h].conv = conv, ![h].run = r]
        PROVE  PollInv'
    <3>1. PICK d : d = [handler[h] EXCEPT !.pc = "record", !.conv = conv, !.run = r]
      OBVIOUS
    <3>2. d.pc \notin {"idle", "message"} /\ d.msg = handler[h].msg
      BY <1>1, <3>1 DEF Desk
    <3>3. handler' = [handler EXCEPT ![h] = d]
      BY <1>1, <2>3, <3>1
    <3> QED BY <1>6, <2>3, <3>2, <3>3, PollGoesOn DEF ResolvePendingGate, At
  <2> QED BY <1>6, <2>1, <2>2, <2>3 DEF ResolvePendingGate
<1>7. CASE AppendInboundGateMessage(h)
  <2>1. CASE Return(h, "error")
    BY <1>7, <2>1, PollReturns DEF AppendInboundGateMessage, At
  <2>2. CASE Goto(h, "decide") /\ UNCHANGED <<outcome, service>>
    BY <1>7, <2>2, PollGoes DEF AppendInboundGateMessage, At
  <2> QED BY <1>7, <2>1, <2>2 DEF AppendInboundGateMessage
<1>8. CASE DecideGate(h)
  BY <1>8, PollReturns DEF DecideGate, At
<1>9. CASE ResolveConversation(h)
  <2>1. PICK d : d = [handler[h] EXCEPT !.pc = "receipt", !.conv = conv']
    OBVIOUS
  <2>2. d.pc \notin {"idle", "message"} /\ d.msg = handler[h].msg
    BY <1>1, <2>1 DEF Desk
  <2>3. handler' = [handler EXCEPT ![h] = d]
    BY <1>1, <1>9, <2>1 DEF ResolveConversation
  <2> QED BY <1>9, <2>2, <2>3, PollGoesOn DEF ResolveConversation, outside, At
<1>10. CASE LoadInboundReceiptRun(h)
  BY <1>10, PollReturns, PollGoes DEF LoadInboundReceiptRun, At
<1>11. CASE FindRoute(h)
  BY <1>11, PollGoes DEF FindRoute, outside, At
<1>12. CASE FindFrontSession(h)
  <2>1. PICK d : d = [handler[h] EXCEPT !.pc = "start", !.binds = TRUE,
                        !.opens = front[handler[h].conv] = 0]
    OBVIOUS
  <2>2. d.pc \notin {"idle", "message"} /\ d.msg = handler[h].msg
    BY <1>1, <2>1 DEF Desk
  <2>3. handler' = [handler EXCEPT ![h] = d]
    BY <1>1, <1>12, <2>1 DEF FindFrontSession
  <2> QED BY <1>12, <2>2, <2>3, PollGoesOn DEF FindFrontSession, outside, At
<1>13. CASE PrepareRunStart(h)
  BY <1>13, PollReturns, PollGoes DEF PrepareRunStart, At
<1>14. CASE AppendInboundRun(h)
  <2>1. CASE \E how \in {"ok", "error"} : Return(h, how)
    BY <1>14, <2>1, PollReturns DEF AppendInboundRun, At
  <2>2. CASE /\ UNCHANGED <<outcome, service>>
             /\ handler' = [handler EXCEPT ![h].pc = "started", ![h].run = Len(run) + 1]
    <3>1. PICK d : d = [handler[h] EXCEPT !.pc = "started", !.run = Len(run) + 1]
      OBVIOUS
    <3>2. d.pc \notin {"idle", "message"} /\ d.msg = handler[h].msg
      BY <1>1, <3>1 DEF Desk
    <3>3. handler' = [handler EXCEPT ![h] = d]
      BY <1>1, <2>2, <3>1
    <3> QED BY <1>14, <2>2, <3>2, <3>3, PollGoesOn DEF AppendInboundRun, At
  <2> QED BY <1>14, <2>1, <2>2 DEF AppendInboundRun
<1>15. CASE CreateRun(h) \/ AppendSessionMessage(h)
  <2>1. h # Poller
    BY <1>15, PollerIsOne DEF CreateRun, AppendSessionMessage, At, PollInv
  <2>2. handler'[Poller] = handler[Poller]
    BY <1>1, <1>15, <2>1, PollerIsOne DEF CreateRun, AppendSessionMessage
  <2>3. UNCHANGED <<transport, poll, service>> /\ UNCHANGED outcome
    BY <1>15 DEF CreateRun, AppendSessionMessage, outside
  <2> QED BY <2>2, <2>3, PollerStays DEF PollInv
<1>16. CASE FinishRunStart(h)
  BY <1>16, PollReturns, PollGoes DEF FinishRunStart, At
<1>17. CASE RunEnds(h)
  BY <1>17, PollReturns DEF RunEnds, At
<1> QED BY <1>2, <1>3, <1>4, <1>5, <1>6, <1>7, <1>8, <1>9, <1>10, <1>11, <1>12, <1>13, <1>14,
           <1>15, <1>16, <1>17 DEF HandlerStep

\* A handler begins an update.
LEMMA PollTransportStep ==
  ASSUME InboundInv, PollInv, \/ ChatSends \/ GetUpdates \/ HandleUpdate
                              \/ \E h \in Writers, m \in Messages : HandleWebhook(h, m)
  PROVE  PollInv'
<1>1. /\ service \in Service /\ poll \in [next : Nat, last : Nat]
      /\ handler \in [Goroutines -> Desk] /\ Messages \subseteq Nat
      /\ outcome \in [Messages -> SUBSET {"ok", "error"}]
  BY MessagesAreNumbers DEF InboundInv, Shapes, PollInv
<1>2. CASE ChatSends
  <2>1. service'.confirmed = service.confirmed
    BY <1>1, <1>2 DEF ChatSends, Service
  <2> QED BY <1>2, <2>1 DEF ChatSends, PollInv, InHandOf
<1>3. CASE GetUpdates
  <2>1. PICK c : c = IF poll.next > service.confirmed THEN poll.next ELSE service.confirmed
    OBVIOUS
  <2>2. /\ service' = [service EXCEPT !.confirmed = c]
        /\ poll' = [next |-> c, last |-> service.sent] \/ poll' = poll
        /\ UNCHANGED <<transport, handler, outcome>> /\ handler[Poller].pc = "idle"
        /\ transport = "poll"
    BY <1>3, <2>1 DEF GetUpdates, At
  <2>3. service'.confirmed = c /\ (poll'.next = c \/ poll' = poll)
    BY <1>1, <2>2 DEF Service
  <2>4. \A m \in Messages : m <= c => m <= poll.next \/ m <= service.confirmed
    BY <2>1
  <2>5. \A m \in Messages : m <= c => outcome[m] # {}
    BY <2>2, <2>4 DEF PollInv, InHandOf
  <2> QED BY <2>2, <2>3, <2>5 DEF PollInv, InHandOf
<1>4. CASE HandleUpdate
  <2>1. PICK n : n = poll.next + 1
    OBVIOUS
  <2>2. PICK d : /\ handler' = [handler EXCEPT ![Poller] = d]
                 /\ d = [Idle EXCEPT !.msg = n,
                          !.pc = CASE n \in service.resets -> "find"
                                   [] n \notin service.resets /\ transport = "poll" -> "gate"
                                   [] OTHER -> "resolve"]
    BY <1>4, <2>1 DEF HandleUpdate, Begin
  <2>3. d.pc \notin {"idle", "message"} /\ d.msg = n
    BY <2>2 DEF Idle
  <2>4. handler'[Poller] = d
    BY <1>1, <2>2, PollerIsOne
  <2>5. poll' = [poll EXCEPT !.next = n] /\ handler[Poller].pc = "idle"
        /\ UNCHANGED <<transport, service, outcome>>
    BY <1>4, <2>1 DEF HandleUpdate, At
  <2>6. poll'.next = n
    BY <1>1, <2>5
  <2>7. \A m \in Messages : m <= n /\ m # n => m <= poll.next
    BY <1>1, <2>1
  <2>8. transport = "poll" => \A m \in Messages : m <= n /\ m # n => outcome[m] # {}
    BY <2>5, <2>7 DEF PollInv, InHandOf
  <2> QED BY <1>1, <2>3, <2>4, <2>5, <2>6, <2>8 DEF PollInv, InHandOf
<1>5. ASSUME NEW h \in Writers, NEW m \in Messages, HandleWebhook(h, m)
      PROVE  PollInv'
  <2>1. transport' = "webhook" /\ outcome' = outcome
    BY <1>5 DEF HandleWebhook
  <2>2. PICK d : /\ handler' = [handler EXCEPT ![h] = d]
                 /\ d = [Idle EXCEPT !.msg = m,
                          !.pc = CASE m \in service.resets -> "find"
                                   [] m \notin service.resets /\ transport = "poll" -> "gate"
                                   [] OTHER -> "resolve"]
    BY <1>5 DEF HandleWebhook, Begin
  <2>3. d.pc # "message"
    BY <2>2 DEF Idle
  <2>4. handler'[Poller].pc # "message"
    BY <1>1, <2>2, <2>3, PollerIsOne DEF PollInv
  <2> QED BY <2>1, <2>4 DEF PollInv
<1> QED BY <1>2, <1>3, <1>4, <1>5

LEMMA PollStepInv == InboundInv /\ PollInv /\ [InboundNext]_inboundVars => PollInv'
<1> SUFFICES ASSUME InboundInv, PollInv, [InboundNext]_inboundVars PROVE PollInv'
  OBVIOUS
<1>1. handler \in [Goroutines -> Desk] /\ \A m \in Messages : ~(m <= 0)
  BY UpdatesArePositive DEF InboundInv, Shapes
<1>2. CASE UNCHANGED inboundVars
  BY <1>2, PollerStays DEF inboundVars, PollInv
<1>3. ASSUME NEW h \in Goroutines, HandlerStep(h) PROVE PollInv'
  BY <1>3, PollHandlerStep
<1>4. ASSUME NEW h \in Goroutines, ContextCancelled(h) PROVE PollInv'
  <2>1. /\ handler' = [handler EXCEPT ![h] = Idle] /\ UNCHANGED <<transport, service, outcome>>
        /\ poll' = IF transport = "poll" /\ h = Poller THEN [next |-> 0, last |-> 0] ELSE poll
    BY <1>4 DEF ContextCancelled
  <2>2. CASE h = Poller
    <3>1. handler'[Poller].pc = "idle" /\ (transport = "poll" => poll'.next = 0)
      BY <1>1, <2>1, <2>2, PollerIsOne DEF Idle
    <3> QED BY <1>1, <2>1, <3>1 DEF PollInv
  <2>3. CASE h # Poller
    <3>1. handler'[Poller] = handler[Poller] /\ poll' = poll
      BY <1>1, <2>1, <2>3, PollerIsOne
    <3> QED BY <2>1, <3>1, PollerStays DEF PollInv
  <2> QED BY <2>2, <2>3
<1>5. ASSUME NEW r \in Runs, AsyncRunEnds(r) PROVE PollInv'
  BY <1>5, PollerStays DEF AsyncRunEnds, outside, PollInv
<1>6. ASSUME NEW h \in Senders, BeginSend(h) PROVE PollInv'
  <2>1. handler'[Poller] = handler[Poller]
    BY <1>1, <1>6, PollerIsOne DEF BeginSend
  <2> QED BY <1>6, <2>1, PollerStays DEF BeginSend, outside, PollInv
<1>7. CASE DeactivateRoute
  BY <1>7, PollerStays DEF DeactivateRoute, outside, PollInv
<1>8. CASE Restart
  <2>1. handler'[Poller].pc = "idle" /\ poll'.next = 0
    BY <1>8, PollerIsOne DEF Restart, Idle
  <2> QED BY <1>1, <1>8, <2>1 DEF Restart, PollInv
<1> QED BY <1>2, <1>3, <1>4, <1>5, <1>6, <1>7, <1>8, PollTransportStep DEF InboundNext

-----------------------------------------------------------------------------
(* An active run is executed: whoever adds one has it in hand until its     *)
(* loop runs, and only an end of its loop takes that away.                  *)

Starts == {"started", "message"}

\* After a step, a run that is active is executed or cut, or it was active before
\* and nothing changed for it.
Carried ==
  \A r \in Runs' :
    run'[r].status = "active" =>
      \/ run'[r].loop \/ run'[r].cut
      \/ \E h \in Goroutines : handler'[h].run = r /\ handler'[h].pc \in Starts
      \/ /\ r \in Runs /\ run[r].status = "active"
         /\ run'[r].loop = run[r].loop /\ run'[r].cut = run[r].cut
         /\ \A h \in Goroutines :
              handler[h].run = r /\ handler[h].pc \in Starts => handler'[h] = handler[h]

LEMMA CarriedOn == ActiveRunsAreExecuted /\ Carried => ActiveRunsAreExecuted'
BY DEF ActiveRunsAreExecuted, Carried, Executing, Starts

\* A handler that has no run in hand moves, and no run changes.
LEMMA HandlerMoves ==
  ASSUME InboundInv, NEW h \in Goroutines, handler[h].pc \notin Starts,
         \A g \in Goroutines \ {h} : handler'[g] = handler[g], run' = run
  PROVE  Carried
BY DEF Carried, Runs

\* The run of a loop that ends is not active.
LEMMA LoopEndsCarries ==
  ASSUME InboundInv, NEW r, NEW gate \in BOOLEAN, LoopEnds(r, gate),
         \A g \in Goroutines : handler[g].pc \in Starts => handler'[g] = handler[g]
  PROVE  Carried
<1>1. run \in [Runs -> Row] /\ run \in Seq(Row)
  BY RunsAreRows DEF InboundInv, Shapes
<1>2. PICK row : /\ run' = [run EXCEPT ![r] = row]
                 /\ row = [run[r] EXCEPT !.loop = FALSE,
                             !.gate = IF gate THEN "open" ELSE @,
                             !.status = IF @ # "active" THEN @ ELSE IF gate THEN "waiting" ELSE "ended"]
  BY <1>1 DEF LoopEnds
<1>3. Runs' = Runs /\ \A q \in Runs : q # r => run'[q] = run[q]
  BY <1>1, <1>2 DEF Runs
<1>4. r \in Runs => run'[r] = row /\ row.status # "active"
  BY <1>1, <1>2 DEF Row
<1> QED BY <1>3, <1>4 DEF Carried

LEMMA ExecutedStep == InboundInv /\ ActiveRunsAreExecuted /\ [InboundNext]_inboundVars => ActiveRunsAreExecuted'
<1> SUFFICES ASSUME InboundInv, ActiveRunsAreExecuted, [InboundNext]_inboundVars
             PROVE  Carried \/ ActiveRunsAreExecuted'
  BY CarriedOn
<1>1. /\ handler \in [Goroutines -> Desk] /\ run \in [Runs -> Row] /\ run \in Seq(Row)
      /\ Runs = 1..Len(run) /\ Len(run) \in Nat
  BY RunsAreRows DEF InboundInv, Shapes, Runs
<1>2. CASE UNCHANGED inboundVars
  BY <1>2 DEF inboundVars, Carried, Runs
<1>3. ASSUME NEW h \in Goroutines, HandlerStep(h) PROVE Carried \/ ActiveRunsAreExecuted'
  <2>1. CASE \/ FindConversation(h) \/ CheckIdle(h) \/ AnswerCommand(h) \/ ResolvePendingGate(h)
             \/ ResolveConversation(h) \/ LoadInboundReceiptRun(h) \/ FindRoute(h)
             \/ FindFrontSession(h) \/ PrepareRunStart(h) \/ AppendInboundGateMessage(h)
    <3>1. handler[h].pc \notin Starts /\ run' = run
      BY <2>1 DEF FindConversation, CheckIdle, AnswerCommand, ResolvePendingGate, ResolveConversation,
         LoadInboundReceiptRun, FindRoute, FindFrontSession, PrepareRunStart,
         AppendInboundGateMessage, At, Starts
    <3>2. \A g \in Goroutines \ {h} : handler'[g] = handler[g]
      BY <1>1, <2>1 DEF FindConversation, CheckIdle, AnswerCommand, ResolvePendingGate, ResolveConversation,
         LoadInboundReceiptRun, FindRoute, FindFrontSession, PrepareRunStart,
         AppendInboundGateMessage, Goto, Return
    <3> QED BY <3>1, <3>2, HandlerMoves
  <2>2. CASE DeleteConversation(h)
    <3>1. handler[h].pc \notin Starts /\ \A g \in Goroutines \ {h} : handler'[g] = handler[g]
      BY <1>1, <2>2 DEF DeleteConversation, Goto, At, Starts
    <3>2. run' \in [Runs -> Row] /\ \A r \in Runs : run'[r].status = "active" => run'[r] = run[r]
      BY <1>1, <2>2 DEF DeleteConversation, Row
    <3>3. Runs' = Runs
      BY <1>1, <2>2 DEF DeleteConversation, Runs
    <3> QED BY <3>1, <3>2, <3>3 DEF Carried
  <2>3. CASE DecideGate(h)
    <3> DEFINE r == handler[h].run
    <3>1. handler[h].pc \notin Starts /\ \A g \in Goroutines \ {h} : handler'[g] = handler[g]
      BY <1>1, <2>3 DEF DecideGate, Return, At, Starts
    <3>2. CASE run' = run
      BY <3>1, <3>2, HandlerMoves
    <3>3. CASE ResumeRun(r)
      <4>1. run' = [run EXCEPT ![r] = [run[r] EXCEPT !.gate = "resolved", !.status = "active", !.loop = TRUE]]
        BY <1>1, <3>3 DEF ResumeRun
      <4>2. \A q \in Runs : q = r => run'[q].loop
        BY <1>1, <4>1 DEF Row
      <4>3. \A q \in Runs : q # r => run'[q] = run[q]
        BY <1>1, <4>1
      <4>4. Runs' = Runs
        BY <1>1, <4>1 DEF Runs
      <4> QED BY <3>1, <4>2, <4>3, <4>4 DEF Carried
    <3> QED BY <2>3, <3>2, <3>3 DEF DecideGate
  <2>4. CASE AppendInboundRun(h)
    <3>1. handler[h].pc \notin Starts
      BY <2>4 DEF AppendInboundRun, At, Starts
    <3>2. CASE run' = run
      BY <1>1, <2>4, <3>1, <3>2, HandlerMoves DEF AppendInboundRun, Return
    <3>3. CASE /\ run' = NewRun(handler[h].conv)
               /\ handler' = [handler EXCEPT ![h].pc = "started", ![h].run = Len(run) + 1]
      <4>1. PICK n : n = Len(run) + 1
        OBVIOUS
      <4>2. PICK d : d = [handler[h] EXCEPT !.pc = "started", !.run = n]
        OBVIOUS
      <4>3. d.pc = "started" /\ d.run = n
        BY <1>1, <4>2 DEF Desk
      <4>4. handler' = [handler EXCEPT ![h] = d]
        BY <1>1, <3>3, <4>1, <4>2
      <4>5. /\ \A q \in Runs' : q \in Runs \/ q = n
            /\ \A q \in Runs : run'[q] = run[q]
        BY <1>1, <3>3, <4>1 DEF NewRun, Runs
      <4>6. handler'[h] = d /\ \A g \in Goroutines \ {h} : handler'[g] = handler[g]
        BY <1>1, <4>4
      <4> QED BY <3>1, <4>3, <4>5, <4>6 DEF Carried, Starts
    <3> QED BY <2>4, <3>2, <3>3 DEF AppendInboundRun
  <2>5. CASE CreateRun(h)
    <3>1. handler[h].pc \notin Starts
      BY <2>5 DEF CreateRun, At, Starts
    <3>2. CASE run' = run /\ handler' = [handler EXCEPT ![h] = Idle]
      BY <1>1, <3>1, <3>2, HandlerMoves
    <3>3. CASE /\ run' = NewRun(handler[h].conv)
               /\ handler' = [handler EXCEPT ![h].pc = "message", ![h].run = Len(run) + 1]
      <4>1. PICK n : n = Len(run) + 1
        OBVIOUS
      <4>2. PICK d : d = [handler[h] EXCEPT !.pc = "message", !.run = n]
        OBVIOUS
      <4>3. d.pc = "message" /\ d.run = n
        BY <1>1, <4>2 DEF Desk
      <4>4. handler' = [handler EXCEPT ![h] = d]
        BY <1>1, <3>3, <4>1, <4>2
      <4>5. /\ \A q \in Runs' : q \in Runs \/ q = n
            /\ \A q \in Runs : run'[q] = run[q]
        BY <1>1, <3>3, <4>1 DEF NewRun, Runs
      <4>6. handler'[h] = d /\ \A g \in Goroutines \ {h} : handler'[g] = handler[g]
        BY <1>1, <4>4
      <4> QED BY <3>1, <4>3, <4>5, <4>6 DEF Carried, Starts
    <3> QED BY <2>5, <3>2, <3>3 DEF CreateRun
  <2>6. CASE FinishRunStart(h) \/ AppendSessionMessage(h)
    <3> DEFINE r == handler[h].run
    <3>1. \A g \in Goroutines \ {h} : handler'[g] = handler[g]
      BY <1>1, <2>6 DEF FinishRunStart, AppendSessionMessage, Goto, Return
    <3>2. PICK row : /\ run' = [run EXCEPT ![r] = row]
                     /\ row \in {[run[r] EXCEPT !.loop = TRUE], [run[r] EXCEPT !.cut = TRUE]}
      BY <2>6 DEF FinishRunStart, AppendSessionMessage
    <3>3. \A q \in Runs : q = r => run'[q] = row /\ (row.loop \/ row.cut)
      BY <1>1, <3>2 DEF Row
    <3>4. \A q \in Runs : q # r => run'[q] = run[q]
      BY <1>1, <3>2
    <3>5. Runs' = Runs
      BY <1>1, <3>2 DEF Runs
    <3> QED BY <3>1, <3>3, <3>4, <3>5 DEF Carried
  <2>7. CASE RunEnds(h)
    <3> DEFINE r == handler[h].run
    <3>1. handler[h].pc \notin Starts /\ \A g \in Goroutines \ {h} : handler'[g] = handler[g]
      BY <1>1, <2>7 DEF RunEnds, Return, At, Starts
    <3>2. PICK gate \in BOOLEAN : LoopEnds(r, gate)
      BY <2>7 DEF RunEnds
    <3> QED BY <3>1, <3>2, LoopEndsCarries
  <2> QED BY <1>3, <2>1, <2>2, <2>3, <2>4, <2>5, <2>6, <2>7 DEF HandlerStep
<1>4. ASSUME NEW h \in Goroutines, ContextCancelled(h) PROVE Carried
  <2>1. /\ run' = [r \in Runs |-> IF r \in CutRuns({h})
                                  THEN [run[r] EXCEPT !.loop = FALSE, !.cut = TRUE] ELSE run[r]]
        /\ handler' = [handler EXCEPT ![h] = Idle]
    BY <1>4 DEF ContextCancelled
  <2>0. run' \in [Runs -> Row]
    BY <1>1, <2>1 DEF Row
  <2>2. Runs' = Runs
    BY <1>1, <2>0 DEF Runs
  <2>3. \A r \in Runs : r \in CutRuns({h}) => run'[r].cut
    BY <1>1, <2>1 DEF Row
  <2>4. \A r \in Runs : r \notin CutRuns({h}) => run'[r] = run[r]
    BY <2>1
  <2>5. \A r \in Runs : handler[h].run = r /\ handler[h].pc \in Starts => r \in CutRuns({h})
    BY DEF CutRuns, Starts
  <2>6. \A g \in Goroutines \ {h} : handler'[g] = handler[g]
    BY <1>1, <2>1
  <2> QED BY <2>2, <2>3, <2>4, <2>5, <2>6 DEF Carried
<1>5. ASSUME NEW r \in Runs, AsyncRunEnds(r) PROVE Carried
  <2>1. handler' = handler /\ \E gate \in BOOLEAN : LoopEnds(r, gate)
    BY <1>5 DEF AsyncRunEnds
  <2>2. PICK gate \in BOOLEAN : LoopEnds(r, gate)
    BY <2>1
  <2> QED BY <2>1, <2>2, LoopEndsCarries
<1>6. ASSUME NEW h \in Senders, BeginSend(h) PROVE Carried
  BY <1>1, <1>6, HandlerMoves DEF BeginSend, At, Starts, Goroutines
<1>7. ASSUME NEW h \in Writers, NEW m \in Messages, HandleWebhook(h, m) PROVE Carried
  BY <1>1, <1>7, HandlerMoves DEF HandleWebhook, Begin, At, Starts, Goroutines
<1>8. CASE HandleUpdate
  BY <1>1, <1>8, HandlerMoves, PollerIsOne DEF HandleUpdate, Begin, At, Starts
<1>9. CASE ChatSends \/ GetUpdates \/ DeactivateRoute
  <2>1. run' = run /\ handler' = handler
    BY <1>9 DEF ChatSends, GetUpdates, DeactivateRoute
  <2> QED BY <2>1 DEF Carried, Runs
<1>10. CASE Restart
  <2>1. \A r \in Runs : run'[r].status # "active"
    BY <1>1, <1>10 DEF Restart, Row
  <2>2. run' \in [Runs -> Row]
    BY <1>1, <1>10 DEF Restart, Row
  <2>3. Runs' = Runs
    BY <1>1, <2>2 DEF Runs
  <2> QED BY <2>1, <2>3 DEF Carried
<1> QED BY <1>2, <1>3, <1>4, <1>5, <1>6, <1>7, <1>8, <1>9, <1>10 DEF InboundNext

\* What was confirmed to the service was handled, and a run that was started is
\* executed unless its context was lost.
Taken == InboundInv /\ PollInv /\ ActiveRunsAreExecuted

LEMMA TakenStarts == InboundInit => Taken
<1>1. InboundInit => ActiveRunsAreExecuted
  BY DEF InboundInit, ActiveRunsAreExecuted, Runs
<1> QED BY <1>1, InboundStarts, PollStarts DEF Taken

LEMMA TakenHolds == InboundSpec => []Taken
<1>1. Taken /\ [InboundNext]_inboundVars => Taken'
  BY InboundStepInv, PollStepInv, ExecutedStep DEF Taken
<1> QED BY <1>1, TakenStarts, PTL DEF InboundSpec

\* However often and over whichever transport a message is delivered, it starts
\* one run or answers one gate; an update that the poller confirmed was handled,
\* also across cancelled contexts and restarts; and an active run is executed by
\* somebody, unless its context was lost or its start failed half way.
THEOREM MessagesTaken == InboundSpec => []MessagesAreTakenOnce
<1>1. Taken => MessagesAreTakenOnce
  BY DEF Taken, InboundInv, PollInv, ConfirmedWasHandled, MessagesAreTakenOnce
<1> QED BY <1>1, TakenHolds, PTL
=============================================================================

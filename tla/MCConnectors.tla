---------------------------- MODULE MCConnectors ----------------------------
(***************************************************************************)
(* The parts of a connector that share no variable, checked in one run: the*)
(* initial state chooses one of them, and only that one takes steps.       *)
(***************************************************************************)
EXTENDS Delivery, Drafts, Supervisor, ZaloSession, Presence, Inbound

VARIABLE part

vars == <<deliveryVars, draftVars, supervisorVars, zaloVars, presenceVars, inboundVars, part>>

Parts == {"delivery", "drafts", "supervisor", "zalo", "presence", "inbound"}

\* The parts that are not chosen start in one way only.
Init ==
  /\ part \in Parts
  /\ DeliveryInit /\ DraftsInit /\ SupervisorInit /\ ZaloInit /\ PresenceInit /\ InboundInit
  /\ part # "delivery" => kind = "telegram"
  /\ part # "supervisor" => kindOf = [c \in Connectors |-> "telegram"]

Next ==
  /\ UNCHANGED part
  /\ IF part = "delivery" THEN DeliveryNext ELSE UNCHANGED deliveryVars
  /\ IF part = "drafts" THEN DraftsNext ELSE UNCHANGED draftVars
  /\ IF part = "supervisor" THEN SupervisorNext ELSE UNCHANGED supervisorVars
  /\ IF part = "zalo" THEN ZaloNext ELSE UNCHANGED zaloVars
  /\ IF part = "presence" THEN PresenceNext ELSE UNCHANGED presenceVars
  /\ IF part = "inbound" THEN InboundNext ELSE UNCHANGED inboundVars

Spec == Init /\ [][Next]_vars

\* Each part's own fairness, where it is chosen.
Fairness ==
  /\ \A d \in Drainers : WF_deliveryVars(part = "delivery" /\ kind # "zalo" /\ Drain(d))
  /\ \A d \in Deliverers : WF_deliveryVars(part = "delivery" /\ DelivererStep(d))
  /\ WF_supervisorVars(part = "supervisor" /\ SupervisorTick)
  /\ WF_supervisorVars(part = "supervisor" /\ Pass)
  /\ \A c \in Connectors : WF_supervisorVars(part = "supervisor" /\ StopsWhenTold(c))
  /\ WF_zaloVars(part = "zalo" /\ LoopStep) /\ WF_zaloVars(part = "zalo" /\ ListenStep)
  /\ WF_zaloVars(part = "zalo" /\ PumpStep) /\ WF_zaloVars(part = "zalo" /\ ReaderStep)
  /\ \A p \in Loops : WF_presenceVars(part = "presence" /\ StopHeld(p))
  /\ \A c \in Controllers :
       /\ WF_presenceVars(part = "presence" /\ (EmitSucceeds(c) \/ EmitFails(c)))
       /\ SF_presenceVars(part = "presence" /\ SeesCancel(c))
  /\ \A h \in Goroutines : WF_inboundVars(part = "inbound" /\ HandlerStep(h))
  /\ WF_inboundVars(part = "inbound" /\ HandleUpdate)
  /\ WF_inboundVars(part = "inbound" /\ GetUpdates)

FairSpec == Spec /\ Fairness

-----------------------------------------------------------------------------

\* Every variable of every part has its type; the bounds that the code sets
\* (attempts, restarts, buffers, failures in a row) are kept.
ConnectorsTypeOK ==
  /\ DeliveryTypeOK /\ DraftsTypeOK /\ SupervisorTypeOK /\ ZaloTypeOK /\ PresenceTypeOK
  /\ InboundTypeOK

\* What is told to stop does stop, from whatever point it was at, and what was
\* to follow does follow: a connector its supervisor restarts, a Zalo session
\* that has ended, a typing indicator.
StopsComplete == RestartsHappen /\ SessionsEnd /\ TypingEnds

\* What was said goes out once, as far as anybody can tell, and the last of it
\* does go out.
WordsGoOutOnce == NoNeedlessRepeat /\ NoTextIsForgotten

\* A Zalo listener and its connector agree on how the session is.
SessionsAreHonest ==
  /\ MessagesInOrder /\ DeadListenersAreNoticed /\ PingsFollowTheSocket
  /\ HealthIsHonest /\ NoReaderBetweenSessions
=============================================================================

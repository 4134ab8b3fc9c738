------------------------------- MODULE Outbox -------------------------------
(***************************************************************************)
(* What outbound delivery promises for the messages that runs queue: a     *)
(* message is reported as delivered only after it went out, a delivered    *)
(* message is done with, a failed one waits for an operator, and nothing   *)
(* but a reset of the conversation makes a message disappear. A message    *)
(* may go out more than once.                                              *)
(***************************************************************************)
CONSTANT Items

VARIABLES
  box,  \* "none", "queued", "delivered", "failed" or "gone"
  out   \* the messages that went out at least once

outbox == <<box, out>>

OutboxInit ==
  /\ box = [i \in Items |-> "none"]
  /\ out = {}

Move(i, from, to) == box[i] = from /\ box' = [box EXCEPT ![i] = to] /\ UNCHANGED out

Accept(i) == Move(i, "none", "queued")
GoOut(i) == box[i] \in {"queued", "gone"} /\ out' = out \cup {i} /\ UNCHANGED box
Confirm(i) == i \in out /\ Move(i, "queued", "delivered")
GiveUp(i) == Move(i, "queued", "failed")
Retry(i) == Move(i, "failed", "queued")
Forget ==
  /\ box' = [i \in Items |-> IF box[i] = "none" THEN "none" ELSE "gone"]
  /\ UNCHANGED out

OutboxNext ==
  \/ \E i \in Items : Accept(i) \/ GoOut(i) \/ Confirm(i) \/ GiveUp(i) \/ Retry(i)
  \/ Forget

OutboxSpec == OutboxInit /\ [][OutboxNext]_outbox
=============================================================================

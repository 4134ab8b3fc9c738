------------------------------ MODULE RunLife -------------------------------
(***************************************************************************)
(* What the run engine promises of the runs of one conversation, whoever   *)
(* executes them: a root run starts when no other root run is live, a      *)
(* child under a run that is active; a run that waits for approval goes    *)
(* on, or ends interrupted, only by the answer; and a run ends once.       *)
(***************************************************************************)
CONSTANTS Runs, NoRun

VARIABLES status, parent

vars == <<status, parent>>

Live == {"active", "needs_approval"}

Init ==
  /\ status = [r \in Runs |-> "none"]
  /\ parent = [r \in Runs |-> NoRun]

Begin(r, p) ==
  /\ status[r] = "none"
  /\ p \in Runs => status[p] = "active"
  /\ p = NoRun => \A q \in Runs : parent[q] = NoRun => status[q] \notin Live
  /\ status' = [status EXCEPT ![r] = "active"]
  /\ parent' = [parent EXCEPT ![r] = p]

Move(r, from, to) ==
  /\ status[r] = from
  /\ status' = [status EXCEPT ![r] = to]
  /\ UNCHANGED parent

Pause(r) == Move(r, "active", "needs_approval")
Resume(r) == Move(r, "needs_approval", "active")
End(r) == \E s \in {"completed", "interrupted", "failed"} : Move(r, "active", s)
Refuse(r) == Move(r, "needs_approval", "interrupted")

Next == \E r \in Runs :
  \/ \E p \in Runs \cup {NoRun} : Begin(r, p)
  \/ Pause(r) \/ Resume(r) \/ End(r) \/ Refuse(r)

Spec == Init /\ [][Next]_vars
=============================================================================

---------------------------- MODULE ScheduledTask ----------------------------
(***************************************************************************)
(* What the scheduler promises for each slot of a schedule, without the    *)
(* loop, the clock, the receipts or the restarts: the slot is skipped or   *)
(* claimed, a claimed one is started at most once and only while it is     *)
(* open, and what is closed stays closed.  Deleting the schedule forgets   *)
(* its slots at any time.                                                  *)
(***************************************************************************)
CONSTANT Tasks
VARIABLES phase,     \* what the history says of a task
          started    \* the tasks that were given a run

vars == <<phase, started>>

Init == phase = [t \in Tasks |-> "none"] /\ started = {}

Move(t, from, to) == phase[t] = from /\ phase' = [phase EXCEPT ![t] = to]

Claim(t) == Move(t, "none", "open") /\ UNCHANGED started
Skip(t)  == Move(t, "none", "skipped") /\ UNCHANGED started
Close(t) == Move(t, "open", "closed") /\ UNCHANGED started

Start(t) ==
    /\ t \notin started /\ phase[t] \in {"open", "gone"}
    /\ started' = started \cup {t}
    /\ UNCHANGED phase

Forget(T) ==
    /\ phase' = [t \in Tasks |-> IF t \in T THEN "gone" ELSE phase[t]]
    /\ UNCHANGED started

Next ==
    \/ \E t \in Tasks : Claim(t) \/ Skip(t) \/ Close(t) \/ Start(t)
    \/ \E T \in SUBSET Tasks : Forget(T)

Spec == Init /\ [][Next]_vars
=============================================================================

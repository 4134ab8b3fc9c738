------------------------------ MODULE Presence ------------------------------
(***************************************************************************)
(* Typing indicators: one controller per route, shared by the loops that   *)
(* work for the route at the same time. A controller's goroutine waits for *)
(* the startup delay, emits, and emits again at every keepalive, until it  *)
(* is stopped: by the end of any of its loops, by the first output, by a   *)
(* pause, by its maximal duration, or by too many failures in a row. The   *)
(* manager's lock covers the map, a controller's lock its flags; the call  *)
(* of the connector and the cancellation lie outside both.                 *)
(*                                                                         *)
(* Bounds: Loops, the controllers ever made, MaxConsecutiveFailures.       *)
(***************************************************************************)
EXTENDS Naturals, FiniteSets

CONSTANTS Loops, Controllers, NoController, MaxConsecutiveFailures

ASSUME PresenceAssumption ==
  /\ NoController \notin Controllers /\ IsFiniteSet(Controllers)
  /\ MaxConsecutiveFailures \in Nat \ {0}

VARIABLES
  current,     \* the manager's entry of the route
  controller,  \* per controller: its flags and what its goroutine does
  loop,        \* per loop: what it does, and the controller it is stopping
  failing      \* per controller: failures in a row

presenceVars == <<current, controller, loop, failing>>

Made == {c \in Controllers : controller[c].goroutine # "unborn"}

PresenceInit ==
  /\ current = NoController
  /\ controller = [c \in Controllers |-> [stopped |-> FALSE, cancelled |-> FALSE,
                                          goroutine |-> "unborn"]]
  /\ loop = [p \in Loops |-> [pc |-> "out", holds |-> NoController]]
  /\ failing = [c \in Controllers |-> 0]

-----------------------------------------------------------------------------
(* The run loops.                                                          *)

\* Manager.Start: a loop joins the route's controller, or makes one.
StartPresence(p) ==
  /\ loop[p].pc = "out"
  /\ \/ current # NoController /\ UNCHANGED <<current, controller>>
     \/ /\ current = NoController
        /\ \E c \in Controllers \ Made :
             /\ current' = c
             /\ controller' = [controller EXCEPT ![c].goroutine = "delay"]
  /\ loop' = [loop EXCEPT ![p].pc = "working"]
  /\ UNCHANGED failing

\* Mutant: the entry stays in the map.
StopPresenceKeeping(p) ==
  /\ loop[p].pc = "working"
  /\ loop' = [loop EXCEPT ![p] = [pc |-> "leaving", holds |-> current]]
  /\ UNCHANGED <<current, controller, failing>>

\* Manager.Stop, under its lock: the loop is over, the entry goes, whoever
\* else uses it.
StopPresence(p) ==
  /\ loop[p].pc = "working"
  /\ loop' = [loop EXCEPT ![p] = [pc |-> "leaving", holds |-> current]]
  /\ current' = NoController
  /\ UNCHANGED <<controller, failing>>

\* MarkOutputStarted, MarkPaused: the entry stays, stopped.
MarkOutput(p) ==
  /\ loop[p].pc = "working" /\ current # NoController
  /\ loop' = [loop EXCEPT ![p] = [pc |-> "marking", holds |-> current]]
  /\ UNCHANGED <<current, controller, failing>>

\* Mutant: the goroutine is not told.
StoppedQuietly(c) == [controller EXCEPT ![c].stopped = TRUE]

\* Controller.stop, under its lock, and the cancellation after it.
Stopped(c) == [controller EXCEPT ![c].stopped = TRUE, ![c].cancelled = TRUE]

\* Mutant: the controller to stop is looked up after the entry is gone.
StopLooksAgain(p) ==
  /\ loop[p].pc \in {"leaving", "marking"}
  /\ controller' = IF current = NoController THEN controller ELSE Stopped(current)
  /\ loop' = [loop EXCEPT ![p] = [pc |-> IF @.pc = "leaving" THEN "out" ELSE "working",
                                  holds |-> NoController]]
  /\ UNCHANGED <<current, failing>>

StopHeld(p) ==
  /\ loop[p].pc \in {"leaving", "marking"}
  /\ controller' = IF loop[p].holds = NoController THEN controller ELSE Stopped(loop[p].holds)
  /\ loop' = [loop EXCEPT ![p] = [pc |-> IF @.pc = "leaving" THEN "out" ELSE "working",
                                  holds |-> NoController]]
  /\ UNCHANGED <<current, failing>>

-----------------------------------------------------------------------------
(* A controller's goroutine.                                               *)

GoOn(c, pc) == controller' = [controller EXCEPT ![c].goroutine = pc]

\* The startup delay or the keepalive interval is over. When the context is
\* done too, either may be chosen; the call then fails at once.
BeginEmit(c) ==
  /\ controller[c].goroutine \in {"delay", "keepalive"}
  /\ GoOn(c, "emit")
  /\ UNCHANGED <<current, loop, failing>>

EmitSucceeds(c) ==
  /\ controller[c].goroutine = "emit" /\ ~controller[c].cancelled
  /\ GoOn(c, "keepalive")
  /\ failing' = [failing EXCEPT ![c] = 0]
  /\ UNCHANGED <<current, loop>>

\* Mutant: the breaker never trips.
TripsNever(n) == FALSE

Trips(n) == n >= MaxConsecutiveFailures

EmitFails(c) ==
  /\ controller[c].goroutine = "emit"
  /\ failing' = [failing EXCEPT ![c] = @ + 1]
  /\ IF Trips(failing'[c])
     THEN controller' = [Stopped(c) EXCEPT ![c].goroutine = "done"]
     ELSE GoOn(c, "keepalive")
  /\ UNCHANGED <<current, loop>>

\* The maximal duration is over.
Expire(c) ==
  /\ controller[c].goroutine = "keepalive"
  /\ controller' = [Stopped(c) EXCEPT ![c].goroutine = "done"]
  /\ UNCHANGED <<current, loop, failing>>

SeesCancel(c) ==
  /\ controller[c].goroutine \in {"delay", "keepalive"} /\ controller[c].cancelled
  /\ GoOn(c, "done")
  /\ UNCHANGED <<current, loop, failing>>

-----------------------------------------------------------------------------

ControllerStep(c) ==
  BeginEmit(c) \/ EmitSucceeds(c) \/ EmitFails(c) \/ Expire(c) \/ SeesCancel(c)

PresenceNext ==
  \/ \E p \in Loops : StartPresence(p) \/ StopPresence(p) \/ MarkOutput(p) \/ StopHeld(p)
  \/ \E c \in Controllers : ControllerStep(c)

PresenceSpec == PresenceInit /\ [][PresenceNext]_presenceVars

\* ControllerStates go on, and a done context that is offered again and again is
\* chosen. Nothing is assumed of how long a loop works.
PresenceFairness ==
  /\ \A p \in Loops : WF_presenceVars(StopHeld(p))
  /\ \A c \in Controllers :
       /\ WF_presenceVars(EmitSucceeds(c) \/ EmitFails(c))
       /\ SF_presenceVars(SeesCancel(c))

PresenceFairSpec == PresenceSpec /\ PresenceFairness

-----------------------------------------------------------------------------
(* Properties.                                                             *)

ControllerStates == {"unborn", "delay", "emit", "keepalive", "done"}

\* Every variable has its type; nobody fails more often in a row than the
\* breaker allows (emit).
PresenceTypeOK ==
  /\ current \in Controllers \cup {NoController}
  /\ controller \in [Controllers -> [stopped : BOOLEAN, cancelled : BOOLEAN,
                                     goroutine : ControllerStates]]
  /\ loop \in [Loops -> [pc : {"out", "working", "leaving", "marking"},
                         holds : Controllers \cup {NoController}]]
  /\ failing \in [Controllers -> 0..MaxConsecutiveFailures]

BeingStopped(c) == \E p \in Loops : loop[p].holds = c

\* Nobody types for a route without the manager's knowledge: a controller that
\* is not stopped is the route's own, or somebody is about to stop it. So two
\* indicators never compete, whatever the order of starts, ends and outputs.
OnlyTheCurrentTypes ==
  \A c \in Made : c = current \/ controller[c].stopped \/ BeingStopped(c)

\* When the last loop of a route is over, nothing is left of its indicator.
NothingOutlivesTheLoops ==
  (\A p \in Loops : loop[p].pc = "out")
    => current = NoController /\ \A c \in Made : controller[c].stopped

\* An indicator that was stopped ends: the chat does not type on by itself.
TypingEnds ==
  \A c \in Controllers : controller[c].stopped ~> controller[c].goroutine = "done"
=============================================================================

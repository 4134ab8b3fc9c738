----------------------------- MODULE Supervisor -----------------------------
(***************************************************************************)
(* The connector supervisor of a daemon: it starts every connector, and at *)
(* every tick of its ticker collects the ones that returned, restarts the  *)
(* ones whose health suggests it, starts those whose cooldown is over and  *)
(* stores the health of all of them. A connector runs in a goroutine of    *)
(* its own and keeps its health itself; the health outlives a restart.     *)
(*                                                                         *)
(* The clock is kept as ages: how long ago, up to the first value that no  *)
(* comparison tells from a longer one. Bounds: the durations, in units of  *)
(* that clock, and MaxRestartsPerHour.                                     *)
(***************************************************************************)
EXTENDS Naturals, FiniteSets

CONSTANTS
  Connectors,
  ConnectorKinds,      \* the kinds they may be of: their health differs
  MaxRestartsPerHour,
  Hour, StartupGrace, RestartCooldown, PersistInterval, StaleAfter

ASSUME SupervisorAssumption ==
  /\ ConnectorKinds \subseteq {"telegram", "whatsapp", "zalo"}
  /\ {MaxRestartsPerHour, Hour, StartupGrace, RestartCooldown,
      PersistInterval, StaleAfter} \subseteq Nat \ {0}

VARIABLES
  kindOf,     \* per connector; never changes
  state,      \* supervisedConnector, per connector
  live,       \* per connector: the calls of Start that have not returned
  cancelled,  \* per connector: its context is cancelled
  health,     \* per connector: what its health state remembers
  stored,     \* the snapshots in the table settings
  starts,     \* how long ago each restart of the last hour was
  up          \* FALSE: the daemon's context is cancelled

supervisorVars == <<kindOf, state, live, cancelled, health, stored, starts, up>>

Exits == {"none", "nil", "cancelled"}
Oldest(n, limit) == IF n < limit THEN n + 1 ELSE limit

Fresh == [failing |-> FALSE, seen |-> FALSE, age |-> 0, drained |-> FALSE]
Started == [running |-> TRUE, done |-> "none", requested |-> FALSE,
            wait |-> 0, stamps |-> {}, age |-> 0]

-----------------------------------------------------------------------------
(* What a connector says of its health. "seen": a poll, a webhook or a     *)
(* session succeeded once; "age": how long ago; "failing": the last failure*)
(* is later than every success.                                            *)

TelegramSnapshot(h) ==
  IF h.failing \/ h.age > StaleAfter THEN "degraded"
  ELSE IF h.seen THEN "healthy" ELSE "unknown"

WhatsAppSnapshot(h) ==
  IF h.failing \/ (h.seen /\ h.age > StaleAfter) THEN "degraded"
  ELSE IF h.seen \/ h.drained THEN "healthy" ELSE "unknown"

ZaloSnapshot(h) ==
  IF h.failing THEN "degraded" ELSE IF h.seen THEN "healthy" ELSE "unknown"

Snapshot(c) ==
  CASE kindOf[c] = "telegram" -> TelegramSnapshot(health[c])
    [] kindOf[c] = "whatsapp" -> WhatsAppSnapshot(health[c])
    [] kindOf[c] = "zalo"     -> ZaloSnapshot(health[c])

RestartSuggested(c) == Snapshot(c) = "degraded" /\ kindOf[c] # "whatsapp"

-----------------------------------------------------------------------------
(* The connector's goroutine.                                              *)

\* A poll, a webhook or a session succeeds.
MarkSuccess(c) ==
  /\ live[c] > 0
  /\ health' = [health EXCEPT ![c] = [@ EXCEPT !.failing = FALSE, !.seen = TRUE, !.age = 0]]
  /\ UNCHANGED <<kindOf, state, live, cancelled, stored, starts, up>>

\* A drain succeeds. Telegram then no longer counts a failed poll before it.
MarkDrainSuccess(c) ==
  /\ live[c] > 0 /\ kindOf[c] # "zalo"
  /\ health' = [health EXCEPT ![c] = [@ EXCEPT !.failing = FALSE, !.drained = TRUE]]
  /\ UNCHANGED <<kindOf, state, live, cancelled, stored, starts, up>>

MarkFailure(c) ==
  /\ live[c] > 0
  /\ health' = [health EXCEPT ![c].failing = TRUE]
  /\ UNCHANGED <<kindOf, state, live, cancelled, stored, starts, up>>

\* Start returns: when its context is cancelled; by itself where Telegram has
\* no token, and where a call of Zalo's login or drain times out, which the
\* connector takes for the end of its own context. Zalo's error is then nil.
StartReturns(c) ==
  /\ live[c] > 0 /\ state[c].done = "none"
  /\ \/ /\ cancelled[c] \/ ~up
        /\ \E exit \in {"nil", "cancelled"} : state' = [state EXCEPT ![c].done = exit]
     \/ /\ kindOf[c] # "whatsapp"
        /\ state' = [state EXCEPT ![c].done = "nil"]
  /\ live' = [live EXCEPT ![c] = @ - 1]
  /\ UNCHANGED <<kindOf, cancelled, health, stored, starts, up>>

-----------------------------------------------------------------------------
(* One tick of the supervisor, connector by connector: collectExit,        *)
(* restartIfDegraded, startPending.                                        *)

\* Mutant: the restart is not noted.
RequestRestartUnnoted(s) ==
  IF Cardinality(s.stamps) >= MaxRestartsPerHour
  THEN [s EXCEPT !.requested = FALSE]
  ELSE [s EXCEPT !.requested = TRUE, !.wait = RestartCooldown]

\* Mutant: one restart too many.
RequestRestartBeyond(s) ==
  IF Cardinality(s.stamps) > MaxRestartsPerHour
  THEN [s EXCEPT !.requested = FALSE]
  ELSE [s EXCEPT !.requested = TRUE, !.wait = RestartCooldown, !.stamps = @ \cup {0}]

\* The stamps of the last hour are the ones the clock has not dropped.
RequestRestart(s) ==
  IF Cardinality(s.stamps) >= MaxRestartsPerHour
  THEN [s EXCEPT !.requested = FALSE]
  ELSE [s EXCEPT !.requested = TRUE, !.wait = RestartCooldown, !.stamps = @ \cup {0}]

\* Mutant: a connector that returns nil is taken to have finished.
CollectOnlyErrors(s) ==
  IF s.running /\ s.done # "none"
  THEN [s EXCEPT !.running = FALSE, !.done = "none"]
  ELSE s

CollectExit(s) ==
  IF s.running /\ s.done # "none"
  THEN LET collected == [s EXCEPT !.running = FALSE, !.done = "none"] IN
       IF up /\ ~s.requested /\ s.done # "cancelled"
       THEN RequestRestart(collected) ELSE collected
  ELSE s

Restartable(s, c) ==
  s.running /\ ~s.requested /\ s.age >= StartupGrace /\ RestartSuggested(c)

RestartIfDegraded(s, c) == IF Restartable(s, c) THEN RequestRestart(s) ELSE s

\* Mutant: the connector is not told.
CancelsNothing(before, after, c) == FALSE

Cancels(before, after, c) == Restartable(before, c) /\ after.requested

\* Mutant: a connector that still runs is started again.
PendingStartAnyway(s) == s.requested /\ s.wait = 0 /\ up

PendingStart(s) == ~s.running /\ s.requested /\ s.wait = 0 /\ up

\* Mutant: only the interval counts.
ShouldPersistInTime == \E c \in Connectors : stored[c].lag >= PersistInterval

ShouldPersist ==
  \E c \in Connectors : \/ stored[c].lag >= PersistInterval
                        \/ stored[c].state # Snapshot(c)

\* Zalo's snapshot carries the time of its last change, the others' the time
\* it was asked for.
PersistSnapshots ==
  stored' = [c \in Connectors |-> [state |-> Snapshot(c), lag |-> 0, failed |-> FALSE]]

SupervisorTick ==
  LET collected == [c \in Connectors |-> CollectExit(state[c])]
      after == [c \in Connectors |-> RestartIfDegraded(collected[c], c)]
      begun == {c \in Connectors : PendingStart(after[c])}
  IN /\ up
     /\ state' = [c \in Connectors |->
          IF c \in begun THEN [after[c] EXCEPT !.running = TRUE, !.requested = FALSE, !.age = 0]
                         ELSE after[c]]
     /\ live' = [c \in Connectors |-> live[c] + (IF c \in begun THEN 1 ELSE 0)]
     /\ cancelled' = [c \in Connectors |->
          IF c \in begun THEN FALSE
          ELSE cancelled[c] \/ Cancels(collected[c], after[c], c)]
     /\ starts' = [c \in Connectors |-> starts[c] \cup (IF c \in begun THEN {0} ELSE {})]
     /\ IF ShouldPersist
        THEN \/ PersistSnapshots
             \/ stored' = [c \in Connectors |-> [stored[c] EXCEPT !.failed = TRUE]]
        ELSE UNCHANGED stored
     /\ UNCHANGED <<kindOf, health, up>>

\* Every connector's context is a child of the daemon's.
Shutdown ==
  /\ up /\ up' = FALSE
  /\ UNCHANGED <<kindOf, state, live, cancelled, health, stored, starts>>

\* Run waits for every Start before it returns.
SupervisorReturned == ~up /\ \A c \in Connectors : live[c] = 0

\* The clock moves on.
Pass ==
  LET older(set) == {n + 1 : n \in {m \in set : m + 1 < Hour}} IN
  /\ up
  /\ state' = [c \in Connectors |->
       [state[c] EXCEPT !.wait = IF @ > 0 THEN @ - 1 ELSE 0,
                        !.stamps = older(@), !.age = Oldest(@, StartupGrace)]]
  /\ health' = [c \in Connectors |->
       [health[c] EXCEPT !.age = Oldest(@, StaleAfter + 1)]]
  /\ stored' = [c \in Connectors |-> [stored[c] EXCEPT !.lag = Oldest(@, PersistInterval)]]
  /\ starts' = [c \in Connectors |-> older(starts[c])]
  /\ UNCHANGED <<kindOf, live, cancelled, up>>

-----------------------------------------------------------------------------

\* Run has started every connector and stored the first snapshots.
SupervisorInit ==
  /\ kindOf \in [Connectors -> ConnectorKinds]
  /\ state = [c \in Connectors |-> Started]
  /\ live = [c \in Connectors |-> 1]
  /\ cancelled = [c \in Connectors |-> FALSE]
  /\ health = [c \in Connectors |-> Fresh]
  /\ stored = [c \in Connectors |-> [state |-> "unknown", lag |-> 0, failed |-> FALSE]]
  /\ starts = [c \in Connectors |-> {}]
  /\ up = TRUE

SupervisorNext ==
  \/ \E c \in Connectors :
       MarkSuccess(c) \/ MarkDrainSuccess(c) \/ MarkFailure(c) \/ StartReturns(c)
  \/ SupervisorTick \/ Pass \/ Shutdown

SupervisorSpec == SupervisorInit /\ [][SupervisorNext]_supervisorVars

StopsWhenTold(c) == (cancelled[c] \/ ~up) /\ StartReturns(c)

\* The ticker ticks, the clock moves, a cancelled Start returns.
SupervisorFairness ==
  /\ WF_supervisorVars(SupervisorTick) /\ WF_supervisorVars(Pass)
  /\ \A c \in Connectors : WF_supervisorVars(StopsWhenTold(c))

SupervisorFairSpec == SupervisorSpec /\ SupervisorFairness

-----------------------------------------------------------------------------
(* Properties.                                                             *)

States == {"unknown", "healthy", "degraded"}

\* Every variable has its type: in particular the supervisor remembers no more
\* restarts than it allows (requestRestart).
SupervisorTypeOK ==
  /\ kindOf \in [Connectors -> ConnectorKinds]
  /\ \A c \in Connectors :
       /\ state[c].running \in BOOLEAN /\ state[c].done \in Exits
       /\ state[c].requested \in BOOLEAN /\ state[c].wait \in 0..RestartCooldown
       /\ state[c].stamps \subseteq 0..(Hour - 1)
       /\ Cardinality(state[c].stamps) <= MaxRestartsPerHour
       /\ state[c].age \in 0..StartupGrace
       /\ health[c] \in [failing : BOOLEAN, seen : BOOLEAN,
                         age : 0..(StaleAfter + 1), drained : BOOLEAN]
       /\ stored[c] \in [state : States, lag : 0..PersistInterval, failed : BOOLEAN]
       /\ starts[c] \subseteq 0..(Hour - 1)
  /\ live \in [Connectors -> Nat] /\ cancelled \in [Connectors -> BOOLEAN]
  /\ up \in BOOLEAN

\* A connector is never started while an earlier call of its Start is still at
\* work (two poll loops would take each message twice), and the supervisor
\* never believes in a call that nobody makes.
OneStartAtATime ==
  \A c \in Connectors :
    /\ live[c] <= 1
    /\ state[c].running <=> (live[c] = 1 \/ state[c].done # "none")

\* Whatever a connector's health says and however often it returns, it is
\* restarted at most MaxRestartsPerHour times within an hour, and once more if
\* a stop it was told to make took longer than the others.
RestartsAreRare ==
  \A c \in Connectors : Cardinality(starts[c]) <= MaxRestartsPerHour + 1

\* A connector is left alone only when its restarts of an hour are spent.
GivenUpOnlyAtTheLimit ==
  [][\A c \in Connectors :
       (up' /\ ~state'[c].running /\ ~state'[c].requested)
         => \/ ~state[c].running /\ ~state[c].requested
            \/ Cardinality(state'[c].stamps) >= MaxRestartsPerHour]_supervisorVars

\* What the status pages read is what the connector said at the last tick, and
\* no older than the interval, unless the last write failed.
StoredIsCurrent ==
  [][SupervisorTick =>
       \A c \in Connectors : \/ stored'[c].failed
                             \/ stored'[c].state = Snapshot(c) /\ stored'[c].lag < PersistInterval
    ]_supervisorVars

\* A restart that was asked for happens, and a daemon that is told to stop
\* does: no connector is left between the two states.
RestartsHappen ==
  /\ \A c \in Connectors : state[c].requested ~> (~state[c].requested \/ ~up)
  /\ ~up ~> SupervisorReturned
=============================================================================

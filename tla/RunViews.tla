------------------------------ MODULE RunViews ------------------------------
(***************************************************************************)
(* What the web pages show of a run and the runs it delegated to            *)
(* (internal/web over internal/replay): the cluster of the work list, the   *)
(* graph of the detail page, and the chain, the approval and the labels of  *)
(* one node. Runs are spawned and change their status meanwhile; a page     *)
(* that takes two queries may see the tree before and after such a step;    *)
(* one that was shown is left before the runs go on.                        *)
(*                                                                         *)
(* Run 1 is the root; ids grow with the time of creation. Run r is given to *)
(* agent AgentOf[r]. Bounds: MaxRuns, MaxTickets.                           *)
(***************************************************************************)
EXTENDS Naturals, Sequences, FiniteSets, SequencesExt, FiniteSetsExt, Sorted

CONSTANTS MaxRuns, MaxTickets, AgentOf, ProfileOf

ASSUME RunViewsAssumption ==
  /\ MaxRuns \in Nat \ {0} /\ MaxTickets \in Nat
  /\ \A r \in 1..MaxRuns :
       ProfileOf[AgentOf[r]] \in {"research", "write", "review", "verify", "operator"}

VARIABLES
  parent,    \* per run: the run that spawned it; 0 for the root and for none
  status,    \* per run: its status, "none" if there is no such run
  tickets,   \* per run: its approval tickets, the oldest first
  view       \* the page that is being made, or was shown last

runViewsVars == <<parent, status, tickets, view>>

RunIds == 1..MaxRuns
ExistingRuns == {r \in RunIds : status[r] # "none"}
BusyStatuses == {"pending", "active", "needs_approval"}
SettledStatuses == {"completed", "failed", "interrupted"}
Statuses == BusyStatuses \cup SettledStatuses \cup {"none", "dismissed"}
NoView == [pc |-> "none"]
Shown == view.pc \in {"cluster", "node"}

RunViewsInit ==
  /\ parent = [r \in RunIds |-> 0]
  /\ status = [r \in RunIds |-> IF r = 1 THEN "active" ELSE "none"]
  /\ tickets = [r \in RunIds |-> <<>>]
  /\ view = NoView

-----------------------------------------------------------------------------
(* The steps of the runs, as the pages may meet them.                      *)

runVars == <<parent, status, tickets>>

Move(r, from, to) ==
  /\ ~Shown /\ status[r] \in from
  /\ status' = [status EXCEPT ![r] = to]

Spawned(p, r) ==
  /\ ~Shown /\ p \in ExistingRuns /\ status[p] = "active"
  /\ r \notin ExistingRuns /\ \A q \in RunIds : q < r => q \in ExistingRuns
  /\ parent' = [parent EXCEPT ![r] = p]
  /\ status' = [status EXCEPT ![r] = "pending"]
  /\ UNCHANGED <<tickets, view>>

Asked(r) ==
  /\ Len(tickets[r]) < MaxTickets
  /\ Move(r, {"active"}, "needs_approval")
  /\ tickets' = [tickets EXCEPT ![r] = Append(@, "pending")]
  /\ UNCHANGED <<parent, view>>

Answered(r) ==
  /\ Move(r, {"needs_approval"}, "active")
  /\ tickets' = [tickets EXCEPT ![r] = [k \in DOMAIN @ |-> "resolved"]]
  /\ UNCHANGED <<parent, view>>

Proceeded(r) ==
  /\ \/ Move(r, {"pending"}, "active")
     \/ Move(r, {"active"}, "completed")
     \/ Move(r, {"active"}, "failed")
     \/ Move(r, {"pending", "active"}, "interrupted")
  /\ UNCHANGED <<parent, tickets, view>>

\* The operator takes an interrupted run off the list.
dismissRun(r) ==
  /\ Move(r, {"interrupted"}, "dismissed")
  /\ UNCHANGED <<parent, tickets, view>>

-----------------------------------------------------------------------------
(* The tree below a run.                                                   *)

\* What the recursive query finds: the least set that has r and, of each of its
\* members, the children.
Lineage(r) ==
  {d \in RunIds : \A s \in SUBSET RunIds :
     r \in s /\ (\A c \in RunIds : parent[c] \in s => c \in s) => d \in s}
Descendants(r) == Lineage(r) \ {r}
Children(r) == {c \in ExistingRuns : parent[c] = r}
ByAge(runs) == SortedBy(runs, {d \in runs \X runs : d[1] < d[2]})

\* From a run up to the one the page is about, or to one without a parent.
PathFrom[r \in RunIds] == IF r = 1 \/ parent[r] = 0 THEN <<r>> ELSE Append(PathFrom[parent[r]], r)

-----------------------------------------------------------------------------
(* The work list: one query for the roots, a second for what they spawned.  *)

\* Mutant: only what the root itself spawned is looked at.
QueueStatusOfChildren(r) ==
  IF \E c \in Children(r) : status[c] = "needs_approval" THEN "needs_approval" ELSE status[r]

\* A root is listed under what is most pressing among the runs below it.
QueueStatus(r) ==
  LET pressing == <<"needs_approval", "failed", "interrupted", "active", "pending">>
      found == {i \in DOMAIN pressing : \E d \in Descendants(r) : status[d] = pressing[i]}
  IN  IF found = {} THEN status[r] ELSE pressing[Min(found)]

QueryRoots ==
  /\ view = NoView /\ status[1] # "dismissed"
  /\ view' = [pc |-> "roots", queue |-> QueueStatus(1), root |-> status[1]]
  /\ UNCHANGED runVars

loadRunDescendants(r) ==
  LET found == ByAge(Descendants(r))
  IN  [k \in DOMAIN found |-> [id |-> found[k], status |-> status[found[k]]]]

CountOf(children, s) == Cardinality({k \in DOMAIN children : children[k].status = s})

\* The label names the first run below the root that has the status, and says
\* something general if the second query found none.
BlockerOf(queue, root, children) ==
  LET first(s) == SelectInSeq(children, LAMBDA c : c.status = s)
  IN  CASE queue \in {"needs_approval", "failed", "interrupted"} ->
             IF first(queue) # 0 THEN [says |-> queue, id |-> children[first(queue)].id]
             ELSE [says |-> queue, id |-> 0]
        [] queue = "active" /\ CountOf(children, "active") > 0 ->
             [says |-> "workers active", count |-> CountOf(children, "active")]
        [] queue = "active" /\ CountOf(children, "active") = 0 /\ root = "active" ->
             [says |-> "lead active"]
        [] queue = "pending" ->
             IF CountOf(children, "pending") > 0
             THEN [says |-> "workers queued", count |-> CountOf(children, "pending")]
             ELSE [says |-> "queued"]
        [] OTHER -> [says |-> IF children = <<>> THEN "no workers" ELSE "settled"]

ShowCluster ==
  /\ view.pc = "roots"
  /\ LET children == loadRunDescendants(1)
     IN  view' = [pc |-> "cluster", root |-> view.queue, children |-> children,
                  blocker |-> BlockerOf(view.queue, view.root, children)]
  /\ UNCHANGED runVars

\* The strip over the list counts the root under its queue status.
QueueStrip ==
  LET counted == <<view.root>> \o [k \in DOMAIN view.children |-> view.children[k].status]
  IN  [s \in Statuses |-> Cardinality({k \in DOMAIN counted : counted[k] = s})]
RecoveryRuns == QueueStrip["needs_approval"] + QueueStrip["failed"] + QueueStrip["interrupted"]

-----------------------------------------------------------------------------
(* The graph of the detail page, from one query over the lineage.          *)

Nodes == Lineage(1)

graphNodeKind(r) ==
  CASE r = 1 -> "root"
    [] r # 1 /\ ProfileOf[AgentOf[r]] \in {"review", "verify"} -> ProfileOf[AgentOf[r]]
    [] OTHER -> "worker"

graphLaneID(r) ==
  IF graphNodeKind(r) = "root" \/ AgentOf[r] = AgentOf[1] THEN "coordination"
  ELSE CASE ProfileOf[AgentOf[r]] = "research" -> "research"
         [] ProfileOf[AgentOf[r]] = "write" -> "build"
         [] ProfileOf[AgentOf[r]] = "review" -> "review"
         [] ProfileOf[AgentOf[r]] = "verify" -> "verify"
         [] OTHER -> "workers"

graphBranchRootID[r \in RunIds] ==
  IF r = 1 \/ parent[r] \in {0, 1} THEN r ELSE graphBranchRootID[parent[r]]

graphStatusPriority(s) ==
  CASE s = "needs_approval" -> 6 [] s = "active" -> 5 [] s = "pending" -> 4
    [] s = "failed" -> 3 [] s = "interrupted" -> 2 [] s = "completed" -> 1 [] OTHER -> 0

\* A branch of a lane: the nodes of the lane that have the same branch root,
\* shown folded when none of them is busy.
Branches == {[lane |-> graphLaneID(r), root |-> graphBranchRootID[r]] : r \in Nodes}
BranchNodes(b) == {r \in Nodes : graphLaneID(r) = b.lane /\ graphBranchRootID[r] = b.root}
DefaultCollapsed(b) == b.root # 1 /\ ~\E r \in BranchNodes(b) : status[r] \in BusyStatuses

\* By depth, then by age.
Depth(r) == Len(PathFrom[r])
SnapshotOrder ==
  SortedBy(Nodes, {d \in Nodes \X Nodes :
                     Depth(d[1]) < Depth(d[2]) \/ (Depth(d[1]) = Depth(d[2]) /\ d[1] < d[2])})

\* The path to the first node of the highest priority.
ActivePath ==
  LET best == Max({graphStatusPriority(status[r]) : r \in Nodes})
      places == {k \in DOMAIN SnapshotOrder : graphStatusPriority(status[SnapshotOrder[k]]) = best}
  IN  PathFrom[SnapshotOrder[Min(places)]]

graphDelegationEdge(r) == IF status[r] = "needs_approval" THEN "blocked" ELSE "delegates"
GraphEdges ==
  {<<parent[r], r, graphDelegationEdge(r)>> : r \in Nodes \ {1}}
    \cup {<<r, parent[r], "reports">> : r \in {r \in Nodes \ {1} : status[r] \in SettledStatuses}}

SummaryOf(s) == Cardinality({r \in Nodes : status[r] = s})

-----------------------------------------------------------------------------
(* One node: the graph is read first, then its record, then its tickets.   *)

OpenNode(r) ==
  /\ view = NoView /\ r \in Nodes
  /\ view' = [pc |-> "read", run |-> r, path |-> PathFrom[r], children |-> Children(r)]
  /\ UNCHANGED runVars

\* The newest ticket that still waits, or the newest of all.
ApprovalShown(r) ==
  LET waiting == {k \in DOMAIN tickets[r] : tickets[r][k] = "pending"}
  IN  CASE tickets[r] = <<>> -> 0
        [] waiting # {} -> Max(waiting)
        [] OTHER -> Len(tickets[r])

ReadRecord ==
  /\ view.pc = "read"
  /\ view' = [pc |-> "record", run |-> view.run, path |-> view.path, children |-> view.children,
              status |-> status[view.run]]
  /\ UNCHANGED runVars

ShowNode ==
  /\ view.pc = "record"
  /\ LET k == ApprovalShown(view.run)
     IN  view' = [pc |-> "node", run |-> view.run, path |-> view.path, children |-> view.children,
                  status |-> view.status, ticket |-> k,
                  canResolve |-> k # 0 /\ tickets[view.run][k] = "pending"]
  /\ UNCHANGED runVars

ClosePage == Shown /\ view' = NoView /\ UNCHANGED runVars

RunViewsNext ==
  \/ \E p, r \in RunIds : Spawned(p, r)
  \/ \E r \in RunIds : Asked(r) \/ Answered(r) \/ Proceeded(r) \/ dismissRun(r) \/ OpenNode(r)
  \/ QueryRoots \/ ShowCluster \/ ReadRecord \/ ShowNode \/ ClosePage

RunViewsSpec == RunViewsInit /\ [][RunViewsNext]_runViewsVars

-----------------------------------------------------------------------------

\* The runs are a tree whose root is there, and a page shows what was read.
RunViewsTypeOK ==
  /\ status \in [RunIds -> Statuses] /\ status[1] # "none"
  /\ \A r \in RunIds : parent[r] \in 0..(r - 1) /\ (parent[r] # 0 => r \in ExistingRuns)
  /\ \A r \in RunIds : Len(tickets[r]) <= MaxTickets
  /\ view.pc \in {"none", "roots", "cluster", "read", "record", "node"}

\* The graph has every run of the tree once, in the branch of the root's child
\* it descends from, one edge from its parent, and one back once it settled;
\* the chain of a node that was read is its way from the root. (The runs take the
\* same steps while a page is made: its tree need not be looked at then.)
GraphIsTheTree ==
  /\ view = NoView =>
       /\ Nodes = ExistingRuns
       /\ \A b \in Branches : \A r \in BranchNodes(b) :
            b.root = IF r = 1 THEN 1 ELSE PathFrom[r][2]
       /\ \A r \in ExistingRuns \ {1} :
            Cardinality({e \in GraphEdges : r \in {e[1], e[2]} /\ parent[r] \in {e[1], e[2]}})
              = IF status[r] \in SettledStatuses THEN 2 ELSE 1
  /\ view.pc \in {"read", "record", "node"} =>
       /\ Head(view.path) = 1 /\ Last(view.path) = view.run
       /\ \A k \in 2..Len(view.path) : parent[view.path[k]] = view.path[k - 1]

\* Whatever waits for a person below the root, at any depth, puts the root on
\* the list of what waits, ends the active path and is never folded away; a
\* root is not listed as settled while a run below it goes on; a cluster with
\* a run that needs somebody is counted.
NothingPressingIsHidden ==
  /\ view = NoView =>
       /\ \A r \in ExistingRuns \ {1} :
            status[r] = "needs_approval" => QueueStatus(1) = "needs_approval"
       /\ QueueStatus(1) = "completed" => \A r \in ExistingRuns : status[r] \notin BusyStatuses
       /\ \A b \in Branches :
            DefaultCollapsed(b) => \A r \in BranchNodes(b) : status[r] \notin BusyStatuses
       /\ (\E r \in ExistingRuns : status[r] = "needs_approval")
            => status[Last(ActivePath)] = "needs_approval"
       /\ \A k \in 2..Len(ActivePath) : parent[ActivePath[k]] = ActivePath[k - 1]
  /\ (view.pc = "cluster" /\ \E k \in DOMAIN view.children : view.children[k].status = "needs_approval")
       => RecoveryRuns > 0
=============================================================================

---------------------------- MODULE TeamsProofs -----------------------------
(***************************************************************************)
(* The team that a run starts with, for every number of handlers, projects *)
(* and calls, all profiles, paths, agents and edits: whatever the others   *)
(* write meanwhile, it is closed; undisturbed it is the one of the active  *)
(* project as one save wrote it; and it is that of all of the run's tree.  *)
(*                                                                         *)
(* The invariant says of each handler what it has (HandlerOK), and two things *)
(* that the others cannot take from it: nobody else is under way while it  *)
(* is alone, and what it has read is what it would read now while it is    *)
(* quiet (CallAgrees). Of a directory that no save was cut off in it says  *)
(* that one save at most writes to it, how far that save has come          *)
(* (HalfWritten), and that the files are whole when none does. The last    *)
(* team saved is the machine's default: it is of one save unless it was    *)
(* read back while another save came between (Machine in torn).            *)
(***************************************************************************)
EXTENDS TurnsProofs

-----------------------------------------------------------------------------
(* What there is, and the invariant.                                       *)

TeamSpec == [members : SUBSET TeamAgents, front : TeamAgents \cup {"none"}, nr : Nat]
SoulFiles == UNION {[S -> Nat] : S \in SUBSET TeamAgents}
Team == [spec : TeamSpec, souls : SoulFiles]
Files == [yaml : {"gone", "none", "cut", "full"}, spec : TeamSpec, souls : SoulFiles]
CallPlaces ==
  {"idle", "lookup", "insert", "activate", "project", "profile", "readable", "souls", "loaded",
   "old", "cut", "spec", "soul", "write", "source", "select", "copy", "delete"}
WritePlaces == {"cut", "spec", "write", "soul"}
Calls ==
  [at : CallPlaces, kind : {"none", "activate", "run", "save", "select", "delete"},
   path : ProjectPaths \cup {""}, project : 0..MaxProjects, name : TeamProfiles, dir : Dirs \cup {Machine},
   team : Team, cfg : TeamSpec, old : SUBSET TeamAgents, left : SUBSET TeamAgents, from : Files,
   quiet : BOOLEAN, alone : BOOLEAN]

Closed(team) == team.spec.front \in team.spec.members /\ DOMAIN team.souls = team.spec.members
Uniform(team) == \A a \in team.spec.members : team.souls[a] = team.spec.nr
HasFront(files) == files.yaml = "full" => files.spec.front \in files.spec.members

\* What a call has at each of its points, whatever the others do.
HandlerOK(c, nr) ==
  /\ c.at = "idle" => ~c.quiet /\ ~c.alone
  /\ c.at \in {"lookup", "insert"} => c.path \in ProjectPaths
  /\ c.at = "activate" => c.project \in 1..nr
  /\ c.at \in {"profile", "source", "select", "copy"} => c.project \in 1..MaxProjects
  /\ c.at \in {"readable", "souls", "loaded", "old"} \cup WritePlaces => c.dir \in Dirs
  /\ c.at \in {"old"} \cup WritePlaces => c.kind = "save"
  /\ c.at \in WritePlaces => c.cfg.front \in c.cfg.members /\ c.left \subseteq TeamAgents
  /\ c.at \in {"soul", "write"} => c.left \subseteq c.cfg.members
  /\ c.at = "write" => c.left # {}
  /\ c.at = "copy" => HasFront(c.from)
  /\ c.at = "souls" => c.team.spec.front \in c.team.spec.members /\ DOMAIN c.team.souls \subseteq c.team.spec.members
  /\ c.at = "loaded" => Closed(c.team)

TeamsTyped ==
  /\ projectPaths \in Seq(ProjectPaths) /\ Len(projectPaths) \in 1..MaxProjects
  /\ activeProject \in 1..Len(projectPaths)
  /\ profileOf \in [1..MaxProjects -> TeamProfiles] /\ teamDirs \in [Dirs -> Files] /\ defaultTeam \in Team
  /\ teamOps \in [Handlers -> Calls] /\ torn \subseteq Dirs \cup {Machine} /\ raced \in BOOLEAN /\ teamCalls \in 0..MaxTeamCalls
HandlersOK ==
  /\ \A h \in Handlers : HandlerOK(teamOps[h], Len(projectPaths))
  /\ \A d \in Dirs : HasFront(teamDirs[d])
  /\ Closed(defaultTeam)
AloneIsAlone == \A h, o \in Handlers : h # o /\ teamOps[h].alone => teamOps[o].at = "idle"

\* What a call has read while nothing was changed is what it would read now.
TeamIn(files) == IF Loadable(files) THEN TeamOf(files) ELSE defaultTeam
CallAgrees(c) ==
  /\ c.kind = "run" /\ c.at = "profile" => c.project = activeProject
  /\ c.kind = "run" /\ c.at \in {"readable", "souls", "loaded"} => c.dir = <<activeProject, profileOf[activeProject]>>
  /\ c.at = "souls" => /\ Readable(c.dir).yaml = "full" /\ c.team.spec = Readable(c.dir).spec
                       /\ \A a \in DOMAIN c.team.souls :
                            a \in DOMAIN Readable(c.dir).souls /\ c.team.souls[a] = Readable(c.dir).souls[a]
  /\ c.at = "loaded" => c.team = TeamIn(Readable(c.dir))
QuietIsQuiet == \A h \in Handlers : teamOps[h].quiet => CallAgrees(teamOps[h])

\* The files of a directory that nobody, or one save, is at.
Whole(files) ==
  /\ files.yaml # "cut"
  /\ files.yaml = "full" => DOMAIN files.souls = files.spec.members /\ \A a \in files.spec.members : files.souls[a] = files.spec.nr
  /\ files.yaml \in {"gone", "none"} => DOMAIN files.souls = {}
HalfWritten(c, files) ==
  /\ c.at = "cut" => DOMAIN files.souls = c.old /\ (files.yaml = "gone" => c.old = {})
  /\ c.at = "spec" => DOMAIN files.souls = c.old /\ files.yaml = "cut"
  /\ c.at \in {"soul", "write"} =>
       /\ files.yaml = "full" /\ files.spec = c.cfg /\ DOMAIN files.souls \subseteq c.old \cup c.cfg.members
       /\ \A a \in c.cfg.members \ c.left : a \in DOMAIN files.souls /\ files.souls[a] = c.cfg.nr
DirOK(d) ==
  /\ \A h, o \in Handlers : WritingTo(h, d) /\ WritingTo(o, d) => h = o
  /\ (\A h \in Handlers : ~WritingTo(h, d)) => Whole(teamDirs[d])
  /\ \A h \in Handlers : WritingTo(h, d) => HalfWritten(teamOps[h], teamDirs[d])
DirsOK ==
  /\ \A d \in Dirs \ torn : DirOK(d)
  /\ \A h \in Handlers : teamOps[h].at = "copy" /\ teamOps[h].alone
                           /\ <<teamOps[h].project, teamOps[h].name>> \notin torn =>
       teamOps[h].from.yaml = "full" /\ Whole(teamOps[h].from)
  /\ Machine \in torn \/ Uniform(defaultTeam)

\* What a call that is alone has seen is so.
SeenRight(c) ==
  /\ c.at \in {"source", "select"} => c.project = activeProject
  /\ c.at = "select" => c.name = "default" \/ HasSpec(teamDirs[<<c.project, c.name>>])
  /\ c.at = "delete" => c.name # profileOf[activeProject]
AloneIsRight == \A h \in Handlers : teamOps[h].alone => SeenRight(teamOps[h])
ProfileOK(d) == Readable(d).yaml = "full" \/ d \in torn \/ \E h \in Handlers : WritingTo(h, d)
ProfilesOK ==
  ~raced => /\ \A p \in 1..MaxProjects : ProfileOK(<<p, profileOf[p]>>)
            /\ \A i, j \in 1..Len(projectPaths) : projectPaths[i] = projectPaths[j] => i = j

RunOK(r) ==
  /\ Closed(r.team)
  /\ r.quiet /\ r.parent = 0 => r.team = r.now /\ (~r.torn => Uniform(r.team))
Run == [team : Team, now : Team, quiet : BOOLEAN, torn : BOOLEAN, parent : Nat]
RunsOK ==
  /\ teamRuns \in Seq(Run)
  /\ \A i \in 1..Len(teamRuns) :
       /\ RunOK(teamRuns[i])
       /\ teamRuns[i].parent # 0 => teamRuns[i].parent \in 1..(i - 1) /\ teamRuns[i].team = teamRuns[teamRuns[i].parent].team

TeamsInv == TeamsTyped /\ HandlersOK /\ AloneIsAlone /\ QuietIsQuiet /\ DirsOK /\ AloneIsRight /\ ProfilesOK /\ RunsOK

-----------------------------------------------------------------------------

\* A call that another one has not touched, but for what it knows of its company.
Like(c, b) ==
  /\ c \in Calls /\ c.at = b.at /\ c.kind = b.kind /\ c.path = b.path /\ c.project = b.project /\ c.name = b.name
  /\ c.dir = b.dir /\ c.team = b.team /\ c.cfg = b.cfg /\ c.old = b.old /\ c.left = b.left /\ c.from = b.from
  /\ (c.quiet => b.quiet) /\ (c.alone => b.alone)
OthersStay(h) == \A o \in Handlers : o # h => Like(teamOps'[o], teamOps[o])

LEMMA EmptySouls == NoSouls \in SoulFiles /\ DOMAIN NoSouls = {}
<1>1. NoSouls = [a \in {} |-> 0]
  BY DEF NoSouls
<1>2. [a \in {} |-> 0] \in [{} -> Nat]
  OBVIOUS
<1>3. {} \in SUBSET TeamAgents
  OBVIOUS
<1> QED BY <1>1, <1>2, <1>3 DEF SoulFiles

LEMMA NoTeamIs ==
  /\ NoSpec \in TeamSpec /\ NoSpec.members = {}
  /\ \A yaml \in {"gone", "none"} :
       /\ WithoutTeam(yaml) \in Files /\ WithoutTeam(yaml).yaml = yaml
       /\ DOMAIN WithoutTeam(yaml).souls = {} /\ Whole(WithoutTeam(yaml))
<1>1. NoSpec \in TeamSpec /\ NoSpec.members = {}
  BY DEF NoSpec, TeamSpec
<1> QED BY <1>1, EmptySouls DEF WithoutTeam, Files, Whole

LEMMA SoulFilesAre ==
  /\ \A f \in SoulFiles : DOMAIN f \subseteq TeamAgents /\ f = [a \in DOMAIN f |-> f[a]] /\ \A a \in DOMAIN f : f[a] \in Nat
  /\ \A S \in SUBSET TeamAgents : \A f \in [S -> Nat] : f \in SoulFiles
BY DEF SoulFiles

LEMMA ShippedIs ==
  /\ Shipped \in Files /\ Shipped.yaml = "full" /\ HasFront(Shipped) /\ Whole(Shipped) /\ Loadable(Shipped)
  /\ TeamOf(Shipped) \in Team /\ Closed(TeamOf(Shipped)) /\ Uniform(TeamOf(Shipped))
<1>1. PICK sp : sp = FirstTeam
  OBVIOUS
<1>2. sp \in TeamSpec /\ sp.front \in sp.members /\ sp.members \in SUBSET TeamAgents /\ sp.nr \in Nat
  BY <1>1, TeamsAssumption DEF TeamSpec
<1>3. PICK souls : souls = [a \in sp.members |-> sp.nr]
  OBVIOUS
<1>4. souls \in [sp.members -> Nat] /\ DOMAIN souls = sp.members /\ \A a \in sp.members : souls[a] = sp.nr
  BY <1>2, <1>3
<1>5. souls \in SoulFiles
  BY <1>2, <1>4, SoulFilesAre
<1>6. Shipped = [yaml |-> "full", spec |-> sp, souls |-> souls]
  BY <1>1, <1>3 DEF Shipped
<1>7. Shipped \in Files /\ Shipped.yaml = "full" /\ Shipped.spec = sp /\ Shipped.souls = souls
  BY <1>2, <1>5, <1>6 DEF Files
<1>8. HasFront(Shipped) /\ Whole(Shipped) /\ Loadable(Shipped)
  BY <1>2, <1>4, <1>7 DEF HasFront, Whole, Loadable
<1>9. TeamOf(Shipped) = [spec |-> sp, souls |-> [a \in sp.members |-> souls[a]]]
  BY <1>7 DEF TeamOf
<1>10. [a \in sp.members |-> souls[a]] = souls
  BY <1>4
<1>11. TeamOf(Shipped) = [spec |-> sp, souls |-> souls]
  BY <1>9, <1>10
<1> QED BY <1>2, <1>4, <1>5, <1>7, <1>8, <1>11 DEF Team, Closed, Uniform

LEMMA FreeIs ==
  /\ Free \in Calls /\ Free.at = "idle" /\ ~Free.quiet /\ ~Free.alone /\ Free.kind = "none"
  /\ \A nr : HandlerOK(Free, nr)
<1>1. WithoutTeam("none") \in Files
  BY NoTeamIs
<1>2. PICK e, f, g, m : e = WithoutTeam("none") /\ f = NoSpec /\ g = NoSouls /\ m = Machine
  OBVIOUS
<1>3. Free = [at |-> "idle", kind |-> "none", path |-> "", project |-> 0, name |-> "default", dir |-> m,
              team |-> [spec |-> f, souls |-> g], cfg |-> f, old |-> {}, left |-> {},
              from |-> e, quiet |-> FALSE, alone |-> FALSE]
  BY <1>2 DEF Free
<1>4. e \in Files /\ f \in TeamSpec /\ g \in SoulFiles /\ "default" \in TeamProfiles /\ 0 \in 0..MaxProjects
  BY <1>1, <1>2, NoTeamIs, EmptySouls, TeamsAssumption
<1>5. [spec |-> f, souls |-> g] \in Team
  BY <1>4 DEF Team
<1>6. Free \in Calls
  BY <1>2, <1>3, <1>4, <1>5 DEF Calls, CallPlaces
<1>7. Free.at = "idle" /\ ~Free.quiet /\ ~Free.alone /\ Free.kind = "none"
  BY <1>3
<1> QED BY <1>6, <1>7 DEF HandlerOK, WritePlaces

LEMMA GoesIs ==
  ASSUME TeamsTyped, NEW h \in Handlers, NEW op \in Calls, Goes(h, op)
  PROVE  /\ teamOps' \in [Handlers -> Calls] /\ teamOps'[h] = op /\ OthersStay(h)
         /\ teamCalls' = teamCalls /\ \A o \in Handlers : o # h => teamOps'[o] = teamOps[o]
<1>1. teamOps \in [Handlers -> Calls] /\ teamOps' = [teamOps EXCEPT ![h] = op] /\ teamCalls' = teamCalls
  BY DEF TeamsTyped, Goes
<1>2. teamOps' \in [Handlers -> Calls] /\ teamOps'[h] = op /\ \A o \in Handlers : o # h => teamOps'[o] = teamOps[o]
  BY <1>1
<1>3. \A o \in Handlers : teamOps[o] \in Calls
  BY <1>1
<1> QED BY <1>1, <1>2, <1>3 DEF OthersStay, Like

LEMMA WritesIs ==
  ASSUME TeamsTyped, NEW h \in Handlers, NEW op \in Calls, Writes(h, op)
  PROVE  /\ teamOps' \in [Handlers -> Calls] /\ teamOps'[h] = op /\ OthersStay(h)
         /\ teamCalls' = teamCalls /\ \A o \in Handlers : o # h => ~teamOps'[o].quiet
<1>1. teamOps \in [Handlers -> Calls]
  BY DEF TeamsTyped
<1>2. teamCalls' = teamCalls /\ teamOps' = [o \in Handlers |-> IF o = h THEN op ELSE [teamOps[o] EXCEPT !.quiet = FALSE]]
  BY DEF Writes
<1>3. ASSUME NEW c \in Calls PROVE Like([c EXCEPT !.quiet = FALSE], c) /\ [c EXCEPT !.quiet = FALSE] \in Calls /\ ~[c EXCEPT !.quiet = FALSE].quiet
  BY DEF Calls, Like
<1>4. ASSUME NEW o \in Handlers, o # h PROVE Like(teamOps'[o], teamOps[o]) /\ teamOps'[o] \in Calls /\ ~teamOps'[o].quiet
  <2>1. teamOps'[o] = [teamOps[o] EXCEPT !.quiet = FALSE] /\ teamOps[o] \in Calls
    BY <1>1, <1>2, <1>4
  <2> QED BY <1>3, <2>1
<1>5. teamOps'[h] = op
  BY <1>2
<1>6. teamOps' \in [Handlers -> Calls]
  BY <1>2, <1>4, <1>5
<1> QED BY <1>2, <1>4, <1>5, <1>6 DEF OthersStay

LEMMA BeginsIs ==
  ASSUME TeamsTyped, NEW h \in Handlers, NEW op \in Calls, HandlerBegins(h, op)
  PROVE  /\ teamOps' \in [Handlers -> Calls] /\ teamOps[h] = Free /\ OthersStay(h)
         /\ teamOps'[h] = [op EXCEPT !.quiet = TRUE, !.alone = \A x \in Handlers : teamOps[x] = Free]
         /\ teamCalls' \in 0..MaxTeamCalls /\ \A o \in Handlers : o # h => ~teamOps'[o].alone
<1>1. teamOps \in [Handlers -> Calls] /\ teamCalls \in 0..MaxTeamCalls /\ MaxTeamCalls \in Nat
  BY TeamsAssumption DEF TeamsTyped
<1>2. PICK b \in BOOLEAN : b = \A x \in Handlers : teamOps[x] = Free
  OBVIOUS
<1>3. /\ teamOps[h] = Free /\ teamCalls < MaxTeamCalls /\ teamCalls' = teamCalls + 1
      /\ teamOps' = [o \in Handlers |-> IF o = h THEN [op EXCEPT !.quiet = TRUE, !.alone = b]
                                       ELSE [teamOps[o] EXCEPT !.alone = FALSE]]
  BY <1>2 DEF HandlerBegins
<1>4. ASSUME NEW c \in Calls PROVE Like([c EXCEPT !.alone = FALSE], c) /\ [c EXCEPT !.alone = FALSE] \in Calls /\ ~[c EXCEPT !.alone = FALSE].alone
  BY DEF Calls, Like
<1>5. ASSUME NEW o \in Handlers, o # h PROVE Like(teamOps'[o], teamOps[o]) /\ teamOps'[o] \in Calls /\ ~teamOps'[o].alone
  <2>1. teamOps'[o] = [teamOps[o] EXCEPT !.alone = FALSE] /\ teamOps[o] \in Calls
    BY <1>1, <1>3, <1>5
  <2> QED BY <1>4, <2>1
<1>6. teamOps'[h] = [op EXCEPT !.quiet = TRUE, !.alone = b]
  BY <1>3
<1>7. teamOps'[h] \in Calls
  BY <1>6 DEF Calls
<1>8. teamOps' \in [Handlers -> Calls]
  BY <1>3, <1>5, <1>7
<1>9. teamCalls' \in 0..MaxTeamCalls
  BY <1>1, <1>3
<1> QED BY <1>2, <1>3, <1>5, <1>6, <1>8, <1>9 DEF OthersStay

-----------------------------------------------------------------------------
(* What each step does to its call, and the steps that begin or register.  *)

\* A step of a call that is under way, and the start of one.
Steps(h, c, n) ==
  /\ c = teamOps[h] /\ n = teamOps'[h] /\ c \in Calls /\ n \in Calls
  /\ teamOps' \in [Handlers -> Calls] /\ OthersStay(h)
Continues(h, c, n) == Steps(h, c, n) /\ c.at # "idle" /\ (n.quiet => c.quiet) /\ (n.alone => c.alone)
Starts(h, c, n) ==
  /\ Steps(h, c, n) /\ c.at = "idle" /\ (n.alone => \A x \in Handlers : teamOps[x].at = "idle")
  /\ \A o \in Handlers : o # h => ~teamOps'[o].alone
  /\ teamCalls' \in 0..MaxTeamCalls

\* Nothing is known of a call there.
Dull == {"idle", "lookup", "insert", "activate", "project", "old"}

LEMMA LikeOK ==
  ASSUME NEW c, NEW b, Like(c, b), NEW m \in Nat, NEW n \in Nat, m <= n, HandlerOK(b, m)
  PROVE  HandlerOK(c, n)
<1>1. /\ c.at = b.at /\ c.kind = b.kind /\ c.path = b.path /\ c.project = b.project /\ c.name = b.name
      /\ c.dir = b.dir /\ c.team = b.team /\ c.cfg = b.cfg /\ c.old = b.old /\ c.left = b.left /\ c.from = b.from
      /\ (c.quiet => b.quiet) /\ (c.alone => b.alone)
  BY DEF Like
<1>2. c.at = "activate" => c.project \in 1..n
  <2>1. c.at = "activate" => c.project \in 1..m
    BY <1>1 DEF HandlerOK
  <2> QED BY <2>1
<1> QED BY <1>1, <1>2 DEF HandlerOK

LEMMA HandlersStay ==
  ASSUME TeamsTyped, HandlersOK, NEW h \in Handlers, OthersStay(h), NEW n \in Nat, Len(projectPaths) <= n,
         HandlerOK(teamOps'[h], n)
  PROVE  \A o \in Handlers : HandlerOK(teamOps'[o], n)
<1>1. Len(projectPaths) \in Nat
  BY TeamsAssumption DEF TeamsTyped
<1>2. ASSUME NEW o \in Handlers, o # h PROVE HandlerOK(teamOps'[o], n)
  <2>1. Like(teamOps'[o], teamOps[o]) /\ HandlerOK(teamOps[o], Len(projectPaths))
    BY <1>2 DEF OthersStay, HandlersOK
  <2> QED BY <1>1, <2>1, LikeOK
<1> QED BY <1>2

LEMMA GoesOn ==
  ASSUME TeamsTyped, HandlersOK, NEW h \in Handlers, NEW op \in Calls, Goes(h, op) \/ Writes(h, op), teamOps[h].at # "idle",
         op.quiet => teamOps[h].quiet, op.alone => teamOps[h].alone
  PROVE  Continues(h, teamOps[h], op) /\ teamCalls' = teamCalls
<1>1. teamOps[h] \in Calls
  BY DEF TeamsTyped
<1>2. teamOps' \in [Handlers -> Calls] /\ teamOps'[h] = op /\ OthersStay(h) /\ teamCalls' = teamCalls
  BY GoesIs, WritesIs
<1> QED BY <1>1, <1>2 DEF Continues, Steps

LEMMA BeginsAt ==
  ASSUME TeamsTyped, NEW h \in Handlers, NEW op \in Calls, HandlerBegins(h, op)
  PROVE  \E n \in Calls : /\ Starts(h, teamOps[h], n) /\ n.quiet
                          /\ n.at = op.at /\ n.kind = op.kind /\ n.path = op.path /\ n.project = op.project
                          /\ n.name = op.name /\ n.cfg = op.cfg /\ n.from = op.from
<1>1. PICK b \in BOOLEAN : b = \A x \in Handlers : teamOps[x] = Free
  OBVIOUS
<1>2. /\ teamOps' \in [Handlers -> Calls] /\ teamOps[h] = Free /\ OthersStay(h)
      /\ teamOps'[h] = [op EXCEPT !.quiet = TRUE, !.alone = b]
      /\ teamCalls' \in 0..MaxTeamCalls /\ \A o \in Handlers : o # h => ~teamOps'[o].alone
  BY <1>1, BeginsIs
<1>3. PICK n : n = [op EXCEPT !.quiet = TRUE, !.alone = b]
  OBVIOUS
<1>4. /\ n \in Calls /\ n.quiet /\ n.alone = b /\ n.at = op.at /\ n.kind = op.kind /\ n.path = op.path
      /\ n.project = op.project /\ n.name = op.name /\ n.cfg = op.cfg /\ n.from = op.from
  BY <1>3 DEF Calls
<1>5. teamOps[h].at = "idle" /\ teamOps[h] \in Calls
  BY <1>2, FreeIs
<1>6. n.alone => \A x \in Handlers : teamOps[x].at = "idle"
  BY <1>1, <1>4, FreeIs
<1>7. Starts(h, teamOps[h], n)
  BY <1>2, <1>3, <1>4, <1>5, <1>6 DEF Starts, Steps
<1> QED BY <1>4, <1>7

-----------------------------------------------------------------------------
(* The calls that begin, and those that register a project.                *)

LEMMA PathsAre ==
  ASSUME TeamsTyped
  PROVE  /\ MaxProjects \in Nat /\ Len(projectPaths) \in Nat \ {0} /\ Len(projectPaths) <= MaxProjects
         /\ DOMAIN projectPaths = 1..Len(projectPaths) /\ activeProject \in 1..MaxProjects
         /\ \A path : RowsOf(path) \subseteq 1..Len(projectPaths)
         /\ \A h \in Handlers : teamOps[h] \in Calls
         /\ \A d \in Dirs : teamDirs[d] \in Files
         /\ \A p \in 1..MaxProjects : profileOf[p] \in TeamProfiles
<1>1. MaxProjects \in Nat /\ Len(projectPaths) \in Nat \ {0} /\ Len(projectPaths) <= MaxProjects
  BY TeamsAssumption DEF TeamsTyped
<1>2. DOMAIN projectPaths = 1..Len(projectPaths)
  BY LenProperties DEF TeamsTyped
<1>3. activeProject \in 1..MaxProjects
  BY <1>1 DEF TeamsTyped
<1> QED BY <1>1, <1>2, <1>3 DEF TeamsTyped, RowsOf

LEMMA ActivateIs ==
  ASSUME TeamsTyped, HandlersOK, NEW h \in Handlers, ActivateProjectPath(h) \/ StartRun(h)
  PROVE  \E n \in Calls : Starts(h, teamOps[h], n) /\ n.at \in Dull /\ HandlerOK(n, Len(projectPaths))
<1>1. ASSUME NEW op \in Calls, op.at \in {"lookup", "project"}, op.at = "lookup" => op.path \in ProjectPaths, HandlerBegins(h, op)
      PROVE  \E n \in Calls : Starts(h, teamOps[h], n) /\ n.at \in Dull /\ HandlerOK(n, Len(projectPaths))
  <2>1. PICK n \in Calls : Starts(h, teamOps[h], n) /\ n.at = op.at /\ n.path = op.path
    BY <1>1, BeginsAt
  <2>2. HandlerOK(n, Len(projectPaths))
    BY <1>1, <2>1 DEF HandlerOK, WritePlaces
  <2>3. n.at \in Dull
    BY <1>1, <2>1 DEF Dull
  <2> QED BY <2>1, <2>2, <2>3
<1>2. ASSUME NEW path \in ProjectPaths, NEW kd \in {"activate", "run"},
             HandlerBegins(h, [Free EXCEPT !.at = "lookup", !.kind = kd, !.path = path])
      PROVE  \E n \in Calls : Starts(h, teamOps[h], n) /\ n.at \in Dull /\ HandlerOK(n, Len(projectPaths))
  <2>1. PICK op : op = [Free EXCEPT !.at = "lookup", !.kind = kd, !.path = path]
    OBVIOUS
  <2>2. op \in Calls /\ op.at = "lookup" /\ op.path \in ProjectPaths
    BY <2>1, FreeIs DEF Calls, CallPlaces
  <2> QED BY <1>1, <1>2, <2>1, <2>2
<1>3. ASSUME HandlerBegins(h, [Free EXCEPT !.at = "project", !.kind = "run"])
      PROVE  \E n \in Calls : Starts(h, teamOps[h], n) /\ n.at \in Dull /\ HandlerOK(n, Len(projectPaths))
  <2>1. PICK op : op = [Free EXCEPT !.at = "project", !.kind = "run"]
    OBVIOUS
  <2>2. op \in Calls /\ op.at = "project"
    BY <2>1, FreeIs DEF Calls, CallPlaces
  <2> QED BY <1>1, <1>3, <2>1, <2>2
<1> QED BY <1>2, <1>3 DEF ActivateProjectPath, StartRun

LEMMA AfterRegisterIs ==
  ASSUME NEW c \in Calls, NEW row \in 1..MaxProjects
  PROVE  /\ AfterRegister(c, row) \in Calls /\ AfterRegister(c, row).at \in {"project", "activate"}
         /\ AfterRegister(c, row).at = "activate" => AfterRegister(c, row).project = row
         /\ AfterRegister(c, row).quiet = c.quiet /\ AfterRegister(c, row).alone = c.alone
<1>1. MaxProjects \in Nat
  BY TeamsAssumption
<1>2. row \in 0..MaxProjects
  BY <1>1
<1> QED BY <1>2 DEF AfterRegister, Calls, CallPlaces

LEMMA RegisterIs ==
  ASSUME TeamsTyped, HandlersOK, NEW h \in Handlers, RegisterProjectPath(h)
  PROVE  \E n \in Calls : /\ Continues(h, teamOps[h], n) /\ n.at \in Dull /\ HandlerOK(n, Len(projectPaths))
                          /\ teamCalls' = teamCalls
<1>1. PICK c \in Calls : c = teamOps[h]
  BY PathsAre
<1>2. c.at = "lookup" /\ c.path \in ProjectPaths
  BY <1>1 DEF RegisterProjectPath, HandlersOK, HandlerOK
<1>3. ASSUME NEW i \in RowsOf(c.path), Goes(h, AfterRegister(c, i))
      PROVE  \E n \in Calls : Continues(h, teamOps[h], n) /\ n.at \in Dull /\ HandlerOK(n, Len(projectPaths)) /\ teamCalls' = teamCalls
  <2>1. i \in 1..Len(projectPaths) /\ i \in 1..MaxProjects
    BY PathsAre
  <2>2. PICK n : n = AfterRegister(c, i)
    OBVIOUS
  <2>3. n \in Calls /\ n.at \in {"project", "activate"} /\ (n.at = "activate" => n.project = i) /\ n.quiet = c.quiet /\ n.alone = c.alone
    BY <2>1, <2>2, AfterRegisterIs
  <2>4. HandlerOK(n, Len(projectPaths)) /\ n.at \in Dull
    BY <2>1, <2>3 DEF HandlerOK, WritePlaces, Dull
  <2> QED BY <1>1, <1>2, <1>3, <2>2, <2>3, <2>4, GoesOn
<1>4. ASSUME Goes(h, [c EXCEPT !.at = "insert"])
      PROVE  \E n \in Calls : Continues(h, teamOps[h], n) /\ n.at \in Dull /\ HandlerOK(n, Len(projectPaths)) /\ teamCalls' = teamCalls
  <2>1. PICK n : n = [c EXCEPT !.at = "insert"]
    OBVIOUS
  <2>2. n \in Calls /\ n.at = "insert" /\ n.path = c.path /\ n.quiet = c.quiet /\ n.alone = c.alone
    BY <2>1 DEF Calls, CallPlaces
  <2>3. HandlerOK(n, Len(projectPaths)) /\ n.at \in Dull
    BY <1>2, <2>2 DEF HandlerOK, WritePlaces, Dull
  <2> QED BY <1>1, <1>2, <1>4, <2>1, <2>2, <2>3, GoesOn
<1> QED BY <1>1, <1>3, <1>4 DEF RegisterProjectPath

LEMMA InsertIs ==
  ASSUME TeamsTyped, HandlersOK, NEW h \in Handlers, InsertProject(h)
  PROVE  \E n \in Calls : /\ Continues(h, teamOps[h], n) /\ n.at \in Dull /\ HandlerOK(n, Len(projectPaths) + 1)
                          /\ teamCalls' = teamCalls /\ teamOps[h].path \in ProjectPaths
<1>1. PICK c \in Calls : c = teamOps[h]
  BY PathsAre
<1>2. c.at = "insert" /\ c.path \in ProjectPaths /\ Len(projectPaths) < MaxProjects
  BY <1>1 DEF InsertProject, HandlersOK, HandlerOK
<1>3. PICK row : row = Len(projectPaths) + 1
  OBVIOUS
<1>4. row \in 1..MaxProjects /\ row \in 1..(Len(projectPaths) + 1)
  BY <1>2, <1>3, PathsAre
<1>5. PICK n : n = AfterRegister(c, row)
  OBVIOUS
<1>6. n \in Calls /\ n.at \in {"project", "activate"} /\ (n.at = "activate" => n.project = row) /\ n.quiet = c.quiet /\ n.alone = c.alone
  BY <1>4, <1>5, AfterRegisterIs
<1>7. HandlerOK(n, Len(projectPaths) + 1) /\ n.at \in Dull
  BY <1>4, <1>6 DEF HandlerOK, WritePlaces, Dull
<1>8. Goes(h, n)
  BY <1>1, <1>3, <1>5 DEF InsertProject
<1> QED BY <1>1, <1>2, <1>6, <1>7, <1>8, GoesOn

\* A call that is over.
LEMMA EndsIs ==
  ASSUME TeamsTyped, HandlersOK, NEW h \in Handlers, teamOps[h].at # "idle", Goes(h, Free) \/ Writes(h, Free)
  PROVE  Continues(h, teamOps[h], Free) /\ Free.at \in Dull /\ HandlerOK(Free, Len(projectPaths)) /\ teamCalls' = teamCalls
<1>1. Free \in Calls /\ ~Free.quiet /\ ~Free.alone /\ Free.at = "idle" /\ HandlerOK(Free, Len(projectPaths))
  BY FreeIs
<1> QED BY <1>1, GoesOn DEF Dull

LEMMA ResolveIs ==
  ASSUME TeamsTyped, HandlersOK, NEW h \in Handlers, resolveTeamDir(h)
  PROVE  \E n \in Calls :
           /\ Continues(h, teamOps[h], n) /\ HandlerOK(n, Len(projectPaths)) /\ teamCalls' = teamCalls /\ n.kind = teamOps[h].kind
           /\ \/ n.at = "profile" /\ n.project = activeProject
              \/ n.at = "old"
              \/ /\ teamOps[h].at = "profile" /\ n.at = "readable"
                 /\ n.dir = <<teamOps[h].project, profileOf[activeProject]>>
<1>1. PICK c \in Calls : c = teamOps[h]
  BY PathsAre
<1>2. HandlerOK(c, Len(projectPaths))
  BY <1>1 DEF HandlersOK
<1>3. activeProject \in 1..MaxProjects /\ activeProject \in 0..MaxProjects /\ profileOf[activeProject] \in TeamProfiles
  <2>1. activeProject \in 1..MaxProjects /\ MaxProjects \in Nat
    BY PathsAre
  <2> QED BY <2>1, PathsAre
<1>4. ASSUME c.at = "project", Goes(h, [c EXCEPT !.at = "profile", !.project = activeProject])
      PROVE  \E n \in Calls :
               /\ Continues(h, teamOps[h], n) /\ HandlerOK(n, Len(projectPaths)) /\ teamCalls' = teamCalls /\ n.kind = c.kind
               /\ n.at = "profile" /\ n.project = activeProject
  <2>1. PICK n : n = [c EXCEPT !.at = "profile", !.project = activeProject]
    OBVIOUS
  <2>2. n \in Calls /\ n.at = "profile" /\ n.project = activeProject /\ n.kind = c.kind /\ n.quiet = c.quiet /\ n.alone = c.alone
    BY <1>3, <2>1 DEF Calls, CallPlaces
  <2>3. HandlerOK(n, Len(projectPaths))
    BY <1>3, <2>2 DEF HandlerOK, WritePlaces
  <2> QED BY <1>1, <1>4, <2>1, <2>2, <2>3, GoesOn
<1>5. ASSUME c.at = "profile", Goes(h, [c EXCEPT !.at = IF c.kind = "save" THEN "old" ELSE "readable",
                                                 !.dir = <<c.project, profileOf[activeProject]>>])
      PROVE  \E n \in Calls :
               /\ Continues(h, teamOps[h], n) /\ HandlerOK(n, Len(projectPaths)) /\ teamCalls' = teamCalls /\ n.kind = c.kind
               /\ n.at = "old" \/ (n.at = "readable" /\ n.dir = <<c.project, profileOf[activeProject]>>)
  <2>1. PICK d : d = <<c.project, profileOf[activeProject]>>
    OBVIOUS
  <2>2. d \in Dirs
    BY <1>2, <1>3, <1>5, <2>1 DEF Dirs, HandlerOK
  <2>3. PICK at : at = IF c.kind = "save" THEN "old" ELSE "readable"
    OBVIOUS
  <2>4. at \in {"old", "readable"} /\ (at = "old" => c.kind = "save")
    BY <2>3
  <2>5. PICK n : n = [c EXCEPT !.at = at, !.dir = d]
    OBVIOUS
  <2>6. n \in Calls /\ n.at = at /\ n.dir = d /\ n.kind = c.kind /\ n.quiet = c.quiet /\ n.alone = c.alone
    BY <2>2, <2>4, <2>5 DEF Calls, CallPlaces
  <2>7. HandlerOK(n, Len(projectPaths))
    BY <2>2, <2>4, <2>6 DEF HandlerOK, WritePlaces
  <2>8. Goes(h, n)
    BY <1>5, <2>1, <2>3, <2>5
  <2> QED BY <1>1, <1>5, <2>1, <2>4, <2>6, <2>7, <2>8, GoesOn
<1> QED BY <1>1, <1>4, <1>5 DEF resolveTeamDir

-----------------------------------------------------------------------------
(* Loading a team.                                                         *)

LEMMA ReadableIs ==
  ASSUME TeamsTyped, HandlersOK, NEW d \in Dirs
  PROVE  /\ Readable(d) \in Files /\ HasFront(Readable(d))
         /\ Readable(d) = teamDirs[d] \/ (Readable(d) = Shipped /\ ~HasSpec(teamDirs[d]) /\ d[2] = "default")
BY ShippedIs DEF TeamsTyped, HandlersOK, Readable

LEMMA FilesAre ==
  ASSUME NEW f \in Files
  PROVE  /\ f.spec \in TeamSpec /\ f.spec.members \subseteq TeamAgents /\ f.spec.nr \in Nat /\ f.souls \in SoulFiles
         /\ DOMAIN f.souls \subseteq TeamAgents /\ \A a \in DOMAIN f.souls : f.souls[a] \in Nat
         /\ f.yaml \in {"gone", "none", "cut", "full"}
BY SoulFilesAre DEF Files, TeamSpec

LEMMA CallsAre ==
  ASSUME NEW c \in Calls
  PROVE  /\ c.team.spec \in TeamSpec /\ c.team.spec.members \subseteq TeamAgents /\ c.team.souls \in SoulFiles
         /\ DOMAIN c.team.souls \subseteq TeamAgents /\ c.team \in Team
         /\ c.cfg \in TeamSpec /\ c.cfg.members \subseteq TeamAgents /\ c.cfg.nr \in Nat
         /\ c.old \subseteq TeamAgents /\ c.left \subseteq TeamAgents /\ c.from \in Files /\ c.name \in TeamProfiles
         /\ c.team = [spec |-> c.team.spec, souls |-> c.team.souls]
BY SoulFilesAre DEF Calls, Team, TeamSpec

LEMMA WithSoulIs ==
  ASSUME NEW souls \in SoulFiles, NEW a \in TeamAgents, NEW nr \in Nat
  PROVE  /\ WithSoul(souls, a, nr) \in SoulFiles /\ DOMAIN WithSoul(souls, a, nr) = DOMAIN souls \cup {a}
         /\ WithSoul(souls, a, nr)[a] = nr /\ \A b \in DOMAIN souls : b # a => WithSoul(souls, a, nr)[b] = souls[b]
<1>1. DOMAIN souls \subseteq TeamAgents /\ \A b \in DOMAIN souls : souls[b] \in Nat
  BY SoulFilesAre
<1>2. WithSoul(souls, a, nr) \in [DOMAIN souls \cup {a} -> Nat]
  BY <1>1 DEF WithSoul
<1>3. WithSoul(souls, a, nr) \in SoulFiles
  BY <1>1, <1>2, SoulFilesAre
<1> QED BY <1>3 DEF WithSoul

LEMMA LoadedIs ==
  ASSUME TeamsTyped, HandlersOK, NEW h \in Handlers, teamOps[h].at \in {"readable", "souls"},
         NEW team \in Team, Closed(team), Goes(h, Loaded(teamOps[h], team))
  PROVE  \E n \in Calls :
           /\ Continues(h, teamOps[h], n) /\ HandlerOK(n, Len(projectPaths)) /\ teamCalls' = teamCalls
           /\ n.at = "loaded" /\ n.team = team /\ n.kind = teamOps[h].kind /\ n.dir = teamOps[h].dir
<1>1. PICK c \in Calls : c = teamOps[h]
  BY PathsAre
<1>2. c.dir \in Dirs
  BY <1>1 DEF HandlersOK, HandlerOK
<1>3. PICK n : n = [c EXCEPT !.at = "loaded", !.team = team]
  OBVIOUS
<1>4. /\ n \in Calls /\ n.at = "loaded" /\ n.team = team /\ n.kind = c.kind /\ n.dir = c.dir
      /\ n.quiet = c.quiet /\ n.alone = c.alone
  BY <1>3 DEF Calls, CallPlaces
<1>5. HandlerOK(n, Len(projectPaths))
  BY <1>2, <1>4 DEF HandlerOK, WritePlaces
<1>6. Goes(h, n)
  BY <1>1, <1>3 DEF Loaded
<1> QED BY <1>1, <1>4, <1>5, <1>6, GoesOn

LEMMA LoadSpecIs ==
  ASSUME TeamsTyped, HandlersOK, NEW h \in Handlers, LoadSpec(h)
  PROVE  \E n \in Calls :
           /\ Continues(h, teamOps[h], n) /\ HandlerOK(n, Len(projectPaths)) /\ teamCalls' = teamCalls
           /\ n.kind = teamOps[h].kind /\ n.dir = teamOps[h].dir /\ teamOps[h].at = "readable" /\ n.dir \in Dirs
           /\ \/ /\ n.at = "souls" /\ Readable(n.dir).yaml = "full" /\ n.team.spec = Readable(n.dir).spec
                 /\ DOMAIN n.team.souls = {}
              \/ n.at = "loaded" /\ Readable(n.dir).yaml # "full" /\ n.team = defaultTeam
<1>1. PICK c \in Calls : c = teamOps[h]
  BY PathsAre
<1>2. c.at = "readable" /\ c.dir \in Dirs
  BY <1>1 DEF LoadSpec, HandlersOK, HandlerOK
<1>3. PICK f \in Files : f = Readable(c.dir) /\ HasFront(f)
  BY <1>2, ReadableIs
<1>4. CASE f.yaml = "full"
  <2>1. PICK team : team = [spec |-> f.spec, souls |-> NoSouls]
    OBVIOUS
  <2>2. team \in Team /\ team.spec = f.spec /\ DOMAIN team.souls = {}
    BY <2>1, FilesAre, EmptySouls DEF Team
  <2>3. PICK n : n = [c EXCEPT !.at = "souls", !.team = team]
    OBVIOUS
  <2>4. /\ n \in Calls /\ n.at = "souls" /\ n.team = team /\ n.kind = c.kind /\ n.dir = c.dir
        /\ n.quiet = c.quiet /\ n.alone = c.alone
    BY <2>2, <2>3 DEF Calls, CallPlaces
  <2>5. f.spec.front \in f.spec.members
    BY <1>3, <1>4 DEF HasFront
  <2>6. HandlerOK(n, Len(projectPaths))
    BY <1>2, <2>2, <2>4, <2>5 DEF HandlerOK, WritePlaces
  <2>7. Goes(h, n)
    BY <1>1, <1>3, <1>4, <2>1, <2>3 DEF LoadSpec
  <2>8. Continues(h, teamOps[h], n) /\ teamCalls' = teamCalls
    BY <1>1, <1>2, <2>4, <2>7, GoesOn
  <2> QED BY <1>1, <1>2, <1>3, <1>4, <2>2, <2>4, <2>6, <2>8
<1>5. CASE f.yaml # "full"
  <2>1. Goes(h, Loaded(teamOps[h], defaultTeam))
    BY <1>1, <1>3, <1>5 DEF LoadSpec
  <2>2. defaultTeam \in Team /\ Closed(defaultTeam)
    BY DEF TeamsTyped, HandlersOK
  <2>3. PICK n \in Calls :
           /\ Continues(h, teamOps[h], n) /\ HandlerOK(n, Len(projectPaths)) /\ teamCalls' = teamCalls
           /\ n.at = "loaded" /\ n.team = defaultTeam /\ n.kind = teamOps[h].kind /\ n.dir = teamOps[h].dir
    BY <1>1, <1>2, <2>1, <2>2, LoadedIs
  <2> QED BY <1>1, <1>2, <1>3, <1>5, <2>3
<1> QED BY <1>4, <1>5

LEMMA LoadSoulIs ==
  ASSUME TeamsTyped, HandlersOK, NEW h \in Handlers, LoadSoul(h)
  PROVE  \E n \in Calls :
           /\ Continues(h, teamOps[h], n) /\ HandlerOK(n, Len(projectPaths)) /\ teamCalls' = teamCalls
           /\ n.kind = teamOps[h].kind /\ n.dir = teamOps[h].dir /\ teamOps[h].at = "souls" /\ n.dir \in Dirs
           /\ \/ /\ n.at = "loaded" /\ n.team = teamOps[h].team /\ DOMAIN n.team.souls = n.team.spec.members
              \/ /\ n.at = "loaded" /\ n.team = defaultTeam
                 /\ \E a \in teamOps[h].team.spec.members : a \notin DOMAIN Readable(n.dir).souls
              \/ /\ n.at = "souls" /\ n.team.spec = teamOps[h].team.spec
                 /\ \A b \in DOMAIN n.team.souls :
                      \/ b \in DOMAIN teamOps[h].team.souls /\ n.team.souls[b] = teamOps[h].team.souls[b]
                      \/ b \in DOMAIN Readable(n.dir).souls /\ n.team.souls[b] = Readable(n.dir).souls[b]
<1>1. PICK c \in Calls : c = teamOps[h]
  BY PathsAre
<1>2. c.at = "souls" /\ c.dir \in Dirs
  BY <1>1 DEF LoadSoul, HandlersOK, HandlerOK
<1>3. c.team.spec.front \in c.team.spec.members /\ DOMAIN c.team.souls \subseteq c.team.spec.members
  BY <1>1, <1>2 DEF HandlersOK, HandlerOK
<1>4. PICK rest, files : rest = c.team.spec.members \ DOMAIN c.team.souls /\ files = Readable(c.dir).souls
  OBVIOUS
<1>5. files \in SoulFiles /\ \A a \in DOMAIN files : files[a] \in Nat
  BY <1>2, <1>4, ReadableIs, FilesAre
<1>6. CASE rest = {}
  <2>1. Goes(h, Loaded(teamOps[h], c.team))
    BY <1>1, <1>4, <1>6 DEF LoadSoul
  <2>2. c.team \in Team /\ Closed(c.team) /\ DOMAIN c.team.souls = c.team.spec.members
    BY <1>3, <1>4, <1>6, CallsAre DEF Closed
  <2>3. PICK n \in Calls :
           /\ Continues(h, teamOps[h], n) /\ HandlerOK(n, Len(projectPaths)) /\ teamCalls' = teamCalls
           /\ n.at = "loaded" /\ n.team = c.team /\ n.kind = teamOps[h].kind /\ n.dir = teamOps[h].dir
    BY <1>1, <1>2, <2>1, <2>2, LoadedIs
  <2> QED BY <1>1, <1>2, <2>2, <2>3
<1>7. CASE rest # {}
  <2>1. PICK a : a = CHOOSE x \in rest : TRUE
    OBVIOUS
  <2>2. a \in rest /\ a \in c.team.spec.members /\ a \in TeamAgents /\ a \notin DOMAIN c.team.souls
    BY <1>4, <1>7, <2>1, CallsAre
  <2>3. CASE a \in DOMAIN files
    <3>1. PICK s : s = WithSoul(c.team.souls, a, files[a])
      OBVIOUS
    <3>2. files[a] \in Nat /\ c.team.souls \in SoulFiles
      BY <1>5, <2>3, CallsAre
    <3>3. /\ s \in SoulFiles /\ DOMAIN s = DOMAIN c.team.souls \cup {a} /\ s[a] = files[a]
          /\ \A b \in DOMAIN c.team.souls : b # a => s[b] = c.team.souls[b]
      <4>1. PICK was, nr : was = c.team.souls /\ nr = files[a]
        OBVIOUS
      <4>2. was \in SoulFiles /\ nr \in Nat /\ s = WithSoul(was, a, nr)
        BY <3>1, <3>2, <4>1
      <4>3. /\ s \in SoulFiles /\ DOMAIN s = DOMAIN was \cup {a} /\ s[a] = nr
            /\ \A b \in DOMAIN was : b # a => s[b] = was[b]
        <5>1. WithSoul(was, a, nr) \in SoulFiles /\ DOMAIN WithSoul(was, a, nr) = DOMAIN was \cup {a}
          BY <2>2, <4>2, WithSoulIs
        <5>2. WithSoul(was, a, nr)[a] = nr
          BY <2>2, <4>2, WithSoulIs, ZenonT(60)
        <5>3. \A b \in DOMAIN was : b # a => WithSoul(was, a, nr)[b] = was[b]
          BY <2>2, <4>2, WithSoulIs
        <5> QED BY <4>2, <5>1, <5>2, <5>3
      <4> QED BY <4>1, <4>3
    <3>4. PICK team : team = [spec |-> c.team.spec, souls |-> s]
      OBVIOUS
    <3>5. team \in Team /\ team.spec = c.team.spec /\ team.souls = s
      BY <3>3, <3>4, CallsAre DEF Team
    <3>6. PICK n : n = [c EXCEPT !.team = team]
      OBVIOUS
    <3>7. /\ n \in Calls /\ n.at = "souls" /\ n.team = team /\ n.kind = c.kind /\ n.dir = c.dir
          /\ n.quiet = c.quiet /\ n.alone = c.alone
      BY <1>2, <3>5, <3>6 DEF Calls
    <3>8. HandlerOK(n, Len(projectPaths))
      BY <1>2, <1>3, <2>2, <3>3, <3>5, <3>7 DEF HandlerOK, WritePlaces
    <3>9. Goes(h, n)
      BY <1>1, <1>4, <1>7, <2>1, <2>3, <3>1, <3>4, <3>6 DEF LoadSoul
    <3>10. Continues(h, teamOps[h], n) /\ teamCalls' = teamCalls
      BY <1>1, <1>2, <3>7, <3>9, GoesOn
    <3>11. \A b \in DOMAIN n.team.souls :
             \/ b \in DOMAIN c.team.souls /\ n.team.souls[b] = c.team.souls[b]
             \/ b \in DOMAIN files /\ n.team.souls[b] = files[b]
      BY <2>2, <2>3, <3>3, <3>5, <3>7
    <3> QED BY <1>1, <1>2, <1>4, <3>5, <3>7, <3>8, <3>10, <3>11
  <2>4. CASE a \notin DOMAIN files
    <3>1. Goes(h, Loaded(teamOps[h], defaultTeam))
      BY <1>1, <1>4, <1>7, <2>1, <2>4 DEF LoadSoul
    <3>2. defaultTeam \in Team /\ Closed(defaultTeam)
      BY DEF TeamsTyped, HandlersOK
    <3>3. PICK n \in Calls :
             /\ Continues(h, teamOps[h], n) /\ HandlerOK(n, Len(projectPaths)) /\ teamCalls' = teamCalls
             /\ n.at = "loaded" /\ n.team = defaultTeam /\ n.kind = teamOps[h].kind /\ n.dir = teamOps[h].dir
      BY <1>1, <1>2, <3>1, <3>2, LoadedIs
    <3> QED BY <1>1, <1>2, <1>4, <2>2, <2>4, <3>3
  <2> QED BY <2>3, <2>4
<1> QED BY <1>6, <1>7

LEMMA UpdateTeamIs ==
  ASSUME TeamsTyped, HandlersOK, NEW h \in Handlers, UpdateTeam(h)
  PROVE  \E n \in Calls : Starts(h, teamOps[h], n) /\ n.at \in Dull /\ HandlerOK(n, Len(projectPaths))
<1>1. PICK e \in TeamEdits :
       HandlerBegins(h, [Free EXCEPT !.at = "project", !.kind = "save",
                 !.cfg = [members |-> e.members, front |-> e.front, nr |-> teamCalls + 2]])
  BY DEF UpdateTeam
<1>2. PICK cfg : cfg = [members |-> e.members, front |-> e.front, nr |-> teamCalls + 2]
  OBVIOUS
<1>3. cfg \in TeamSpec
  <2>1. e.members \in SUBSET TeamAgents /\ e.front \in TeamAgents
    BY TeamsAssumption
  <2>2. teamCalls + 2 \in Nat
    BY TeamsAssumption DEF TeamsTyped
  <2> QED BY <1>2, <2>1, <2>2 DEF TeamSpec
<1>4. PICK op : op = [Free EXCEPT !.at = "project", !.kind = "save", !.cfg = cfg]
  OBVIOUS
<1>5. op \in Calls /\ op.at = "project"
  BY <1>3, <1>4, FreeIs DEF Calls, CallPlaces
<1>6. HandlerBegins(h, op)
  BY <1>1, <1>2, <1>4
<1>7. PICK n \in Calls : Starts(h, teamOps[h], n) /\ n.at = "project"
  BY <1>5, <1>6, BeginsAt
<1> QED BY <1>7 DEF HandlerOK, WritePlaces, Dull

\* A call's next point, where nothing else of it changes.
LEMMA NextPlace ==
  ASSUME TeamsTyped, HandlersOK, NEW h \in Handlers, teamOps[h].at # "idle", NEW place \in CallPlaces,
         Goes(h, [teamOps[h] EXCEPT !.at = place]) \/ Writes(h, [teamOps[h] EXCEPT !.at = place])
  PROVE  \E n \in Calls :
           /\ Continues(h, teamOps[h], n) /\ teamCalls' = teamCalls
           /\ n.at = place /\ n.kind = teamOps[h].kind /\ n.project = teamOps[h].project /\ n.name = teamOps[h].name
           /\ n.dir = teamOps[h].dir /\ n.cfg = teamOps[h].cfg /\ n.old = teamOps[h].old /\ n.left = teamOps[h].left
           /\ n.from = teamOps[h].from /\ n.alone = teamOps[h].alone
<1>1. PICK c \in Calls : c = teamOps[h]
  BY PathsAre
<1>2. PICK n : n = [c EXCEPT !.at = place]
  OBVIOUS
<1>3. /\ n \in Calls /\ n.at = place /\ n.kind = c.kind /\ n.project = c.project /\ n.name = c.name
      /\ n.dir = c.dir /\ n.cfg = c.cfg /\ n.old = c.old /\ n.left = c.left
      /\ n.from = c.from /\ n.alone = c.alone /\ n.quiet = c.quiet
  BY <1>2 DEF Calls
<1>4. Goes(h, n) \/ Writes(h, n)
  BY <1>1, <1>2
<1>5. Continues(h, teamOps[h], n) /\ teamCalls' = teamCalls
  BY <1>1, <1>3, <1>4, GoesOn
<1> QED BY <1>1, <1>3, <1>5

-----------------------------------------------------------------------------
(* Saving a team.                                                          *)

LEMMA OldIs ==
  ASSUME TeamsTyped, HandlersOK, NEW h \in Handlers, referencedSoulFiles(h)
  PROVE  \E n \in Calls :
           /\ Continues(h, teamOps[h], n) /\ HandlerOK(n, Len(projectPaths)) /\ teamCalls' = teamCalls
           /\ teamOps[h].at = "old" /\ teamOps[h].dir \in Dirs
           /\ \/ n.at = "idle" /\ n = Free
              \/ /\ n.at = "cut" /\ n.dir = teamOps[h].dir
                 /\ n.old = IF teamDirs[n.dir].yaml = "full" THEN teamDirs[n.dir].spec.members ELSE {}
<1>1. PICK c \in Calls : c = teamOps[h]
  BY PathsAre
<1>2. c.at = "old" /\ c.dir \in Dirs /\ c.kind = "save" /\ c.left \subseteq TeamAgents
  BY <1>1, CallsAre DEF referencedSoulFiles, HandlersOK, HandlerOK
<1>3. CASE ~validateSpec(c.cfg)
  <2>1. Goes(h, Free)
    BY <1>1, <1>3 DEF referencedSoulFiles
  <2>2. Continues(h, teamOps[h], Free) /\ HandlerOK(Free, Len(projectPaths)) /\ teamCalls' = teamCalls
    BY <1>1, <1>2, <2>1, EndsIs
  <2>3. Free \in Calls /\ Free.at = "idle"
    BY FreeIs
  <2> QED BY <1>1, <1>2, <2>2, <2>3
<1>4. CASE validateSpec(c.cfg)
  <2>1. PICK old : old = IF teamDirs[c.dir].yaml = "full" THEN teamDirs[c.dir].spec.members ELSE {}
    OBVIOUS
  <2>2. old \subseteq TeamAgents
    BY <1>2, <2>1, PathsAre, FilesAre
  <2>3. PICK n : n = [c EXCEPT !.at = "cut", !.old = old]
    OBVIOUS
  <2>4. /\ n \in Calls /\ n.at = "cut" /\ n.dir = c.dir /\ n.old = old /\ n.kind = c.kind /\ n.cfg = c.cfg
        /\ n.left = c.left /\ n.quiet = c.quiet /\ n.alone = c.alone
    BY <2>2, <2>3 DEF Calls, CallPlaces
  <2>5. Goes(h, n)
    BY <1>1, <1>4, <2>1, <2>3 DEF referencedSoulFiles
  <2>6. HandlerOK(n, Len(projectPaths))
    BY <1>2, <1>4, <2>4 DEF HandlerOK, WritePlaces, validateSpec
  <2>7. Continues(h, teamOps[h], n) /\ teamCalls' = teamCalls
    BY <1>1, <1>2, <2>4, <2>5, GoesOn
  <2> QED BY <1>1, <1>2, <2>1, <2>4, <2>6, <2>7
<1> QED BY <1>3, <1>4

\* One directory is changed.
Becomes(d, f) ==
  /\ d \in Dirs /\ f \in Files /\ HasFront(f) /\ teamDirs' \in [Dirs -> Files] /\ teamDirs'[d] = f
  /\ \A e \in Dirs : e # d => teamDirs'[e] = teamDirs[e]

LEMMA BecomesIs ==
  ASSUME TeamsTyped, HandlersOK, NEW d \in Dirs, NEW f \in Files, HasFront(f), teamDirs' = [teamDirs EXCEPT ![d] = f]
  PROVE  Becomes(d, f) /\ \A e \in Dirs : HasFront(teamDirs'[e])
<1>1. teamDirs \in [Dirs -> Files] /\ \A e \in Dirs : HasFront(teamDirs[e])
  BY DEF TeamsTyped, HandlersOK
<1>2. teamDirs' \in [Dirs -> Files] /\ teamDirs'[d] = f /\ \A e \in Dirs : e # d => teamDirs'[e] = teamDirs[e]
  BY <1>1
<1> QED BY <1>1, <1>2 DEF Becomes

\* A step of a save at its files.
Written(h, c, n, f) ==
  /\ Continues(h, c, n) /\ HandlerOK(n, Len(projectPaths)) /\ teamCalls' = teamCalls
  /\ Becomes(c.dir, f) /\ n.dir = c.dir /\ n.kind = "save" /\ n.cfg = c.cfg /\ n.old = c.old
  /\ c.at \in WritePlaces /\ \A o \in Handlers : o # h => ~teamOps'[o].quiet

WritesFiles(h, place, rest, f) ==
  /\ teamOps[h].at \in WritePlaces /\ place \in {"spec", "soul", "write", "readable"} /\ rest \subseteq TeamAgents
  /\ (place \in {"soul", "write"} => rest \subseteq teamOps[h].cfg.members) /\ (place = "write" => rest # {})
  /\ Writes(h, [teamOps[h] EXCEPT !.at = place, !.left = rest])
  /\ f \in Files /\ HasFront(f) /\ teamDirs' = [teamDirs EXCEPT ![teamOps[h].dir] = f]

LEMMA WrittenIs ==
  ASSUME TeamsTyped, HandlersOK, NEW h \in Handlers, NEW place, NEW rest, NEW f, WritesFiles(h, place, rest, f)
  PROVE  \E n \in Calls : Written(h, teamOps[h], n, f) /\ n.at = place /\ n.left = rest
<1>1. PICK c \in Calls : c = teamOps[h]
  BY PathsAre
<1>a. /\ teamOps[h].at \in WritePlaces /\ place \in {"spec", "soul", "write", "readable"} /\ rest \subseteq TeamAgents
      /\ (place \in {"soul", "write"} => rest \subseteq teamOps[h].cfg.members) /\ (place = "write" => rest # {})
      /\ Writes(h, [teamOps[h] EXCEPT !.at = place, !.left = rest])
      /\ f \in Files /\ HasFront(f) /\ teamDirs' = [teamDirs EXCEPT ![teamOps[h].dir] = f]
  BY DEF WritesFiles
<1>2. c.dir \in Dirs /\ c.kind = "save" /\ c.cfg.front \in c.cfg.members /\ c.at # "idle"
  BY <1>1, <1>a DEF HandlersOK, HandlerOK, WritePlaces
<1>3. PICK n : n = [c EXCEPT !.at = place, !.left = rest]
  OBVIOUS
<1>4. /\ n \in Calls /\ n.at = place /\ n.left = rest /\ n.dir = c.dir /\ n.kind = c.kind /\ n.cfg = c.cfg
      /\ n.old = c.old /\ n.quiet = c.quiet /\ n.alone = c.alone
  BY <1>a, <1>3 DEF Calls, CallPlaces
<1>5. Writes(h, n)
  BY <1>a, <1>1, <1>3
<1>6. HandlerOK(n, Len(projectPaths))
  BY <1>1, <1>a, <1>2, <1>4 DEF HandlerOK, WritePlaces
<1>7. Continues(h, teamOps[h], n) /\ teamCalls' = teamCalls
  BY <1>1, <1>2, <1>4, <1>5, GoesOn
<1>8. \A o \in Handlers : o # h => ~teamOps'[o].quiet
  BY <1>4, <1>5, WritesIs
<1>9. Becomes(c.dir, f)
  BY <1>1, <1>a, <1>2, BecomesIs
<1> QED BY <1>1, <1>a, <1>2, <1>4, <1>6, <1>7, <1>8, <1>9 DEF Written

LEMMA SameLeft ==
  ASSUME TeamsTyped, NEW h \in Handlers, NEW place
  PROVE  [teamOps[h] EXCEPT !.at = place] = [teamOps[h] EXCEPT !.at = place, !.left = teamOps[h].left]
<1>1. PICK c \in Calls : c = teamOps[h]
  BY PathsAre
<1>2. [c EXCEPT !.at = place] = [c EXCEPT !.at = place, !.left = c.left]
  BY DEF Calls
<1> QED BY <1>1, <1>2

LEMMA OpenSpecIs ==
  ASSUME TeamsTyped, HandlersOK, NEW h \in Handlers, OpenSpec(h)
  PROVE  \E n \in Calls, f \in Files :
           /\ Written(h, teamOps[h], n, f) /\ teamOps[h].at = "cut" /\ n.at = "spec"
           /\ f.yaml = "cut" /\ f.souls = teamDirs[n.dir].souls
<1>1. PICK c \in Calls : c = teamOps[h]
  BY PathsAre
<1>2. c.at = "cut" /\ c.dir \in Dirs /\ c.left \subseteq TeamAgents
  BY <1>1 DEF OpenSpec, HandlersOK, HandlerOK, WritePlaces
<1>3. PICK g \in Files : g = teamDirs[c.dir]
  BY <1>2, PathsAre
<1>4. PICK f : f = [g EXCEPT !.yaml = "cut"]
  OBVIOUS
<1>5. f \in Files /\ f.yaml = "cut" /\ f.souls = g.souls /\ HasFront(f)
  BY <1>4 DEF Files, HasFront
<1>6. teamDirs' = [teamDirs EXCEPT ![c.dir] = f]
  BY <1>1, <1>2, <1>3, <1>4 DEF OpenSpec, TeamsTyped
<1>7. Writes(h, [teamOps[h] EXCEPT !.at = "spec", !.left = teamOps[h].left])
  BY SameLeft DEF OpenSpec
<1>8. PICK n \in Calls : Written(h, teamOps[h], n, f) /\ n.at = "spec"
  <2>1. WritesFiles(h, "spec", teamOps[h].left, f)
    BY <1>1, <1>2, <1>5, <1>6, <1>7 DEF WritePlaces, WritesFiles
  <2> QED BY <2>1, WrittenIs
<1>9. n.dir = c.dir
  BY <1>1, <1>8 DEF Written
<1>10. /\ Written(h, teamOps[h], n, f) /\ teamOps[h].at = "cut" /\ n.at = "spec"
       /\ f.yaml = "cut" /\ f.souls = teamDirs[n.dir].souls
  BY <1>1, <1>2, <1>3, <1>5, <1>8, <1>9
<1> QED BY <1>5, <1>8, <1>10

LEMMA WriteSpecIs ==
  ASSUME TeamsTyped, HandlersOK, NEW h \in Handlers, WriteSpec(h)
  PROVE  \E n \in Calls, f \in Files :
           /\ Written(h, teamOps[h], n, f) /\ teamOps[h].at = "spec" /\ n.at = "soul" /\ n.left = n.cfg.members
           /\ f.yaml = "full" /\ f.spec = n.cfg /\ f.souls = teamDirs[n.dir].souls
<1>1. PICK c \in Calls : c = teamOps[h]
  BY PathsAre
<1>2. c.at = "spec" /\ c.dir \in Dirs /\ c.cfg \in TeamSpec /\ c.cfg.members \subseteq TeamAgents /\ c.cfg.front \in c.cfg.members
  BY <1>1, CallsAre DEF WriteSpec, HandlersOK, HandlerOK, WritePlaces
<1>3. PICK g \in Files : g = teamDirs[c.dir]
  BY <1>2, PathsAre
<1>4. PICK cfg, rest : cfg = c.cfg /\ rest = c.cfg.members
  OBVIOUS
<1>5. PICK f : f = [g EXCEPT !.yaml = "full", !.spec = cfg]
  OBVIOUS
<1>6. f \in Files /\ f.yaml = "full" /\ f.spec = cfg /\ f.souls = g.souls /\ HasFront(f)
  BY <1>2, <1>4, <1>5 DEF Files, HasFront
<1>7. teamDirs' = [teamDirs EXCEPT ![c.dir] = f]
  BY <1>1, <1>2, <1>3, <1>4, <1>5 DEF WriteSpec, TeamsTyped
<1>8. Writes(h, [teamOps[h] EXCEPT !.at = "soul", !.left = rest])
  BY <1>1, <1>4 DEF WriteSpec
<1>9. PICK n \in Calls : Written(h, teamOps[h], n, f) /\ n.at = "soul" /\ n.left = rest
  <2>1. WritesFiles(h, "soul", rest, f)
    BY <1>1, <1>2, <1>4, <1>6, <1>7, <1>8 DEF WritePlaces, WritesFiles
  <2> QED BY <2>1, WrittenIs
<1>10. n.dir = c.dir /\ n.cfg = c.cfg
  BY <1>1, <1>9 DEF Written
<1>11. /\ Written(h, teamOps[h], n, f) /\ teamOps[h].at = "spec" /\ n.at = "soul" /\ n.left = n.cfg.members
       /\ f.yaml = "full" /\ f.spec = n.cfg /\ f.souls = teamDirs[n.dir].souls
  BY <1>1, <1>2, <1>3, <1>4, <1>6, <1>9, <1>10
<1> QED BY <1>6, <1>9, <1>11

\* A soul file is written, empty or with what the save has for it.
Soul(f, g, a, nr) ==
  /\ f.yaml = g.yaml /\ f.spec = g.spec /\ DOMAIN f.souls = DOMAIN g.souls \cup {a} /\ f.souls[a] = nr
  /\ \A b \in DOMAIN g.souls : b # a => f.souls[b] = g.souls[b]

LEMMA SoulIs ==
  ASSUME NEW g \in Files, HasFront(g), NEW a \in TeamAgents, NEW nr \in Nat
  PROVE  \E f \in Files : HasFront(f) /\ Soul(f, g, a, nr) /\ f = [g EXCEPT !.souls = WithSoul(g.souls, a, nr)]
<1>1. PICK was : was = g.souls
  OBVIOUS
<1>2. was \in SoulFiles
  BY <1>1, FilesAre
<1>3. PICK s : s = WithSoul(was, a, nr)
  OBVIOUS
<1>4. s \in SoulFiles /\ DOMAIN s = DOMAIN was \cup {a}
  BY <1>2, <1>3, WithSoulIs
<1>5. s[a] = nr
  BY <1>2, <1>3, WithSoulIs
<1>6. \A b \in DOMAIN was : b # a => s[b] = was[b]
  <2>1. \A b \in DOMAIN was : b # a => WithSoul(was, a, nr)[b] = was[b]
    BY <1>2, WithSoulIs
  <2> QED BY <1>3, <2>1
<1>7. PICK f : f = [g EXCEPT !.souls = s]
  OBVIOUS
<1>8. f \in Files /\ f.yaml = g.yaml /\ f.spec = g.spec /\ f.souls = s
  BY <1>4, <1>7 DEF Files
<1>9. HasFront(f)
  BY <1>8 DEF HasFront
<1>10. Soul(f, g, a, nr)
  BY <1>1, <1>4, <1>5, <1>6, <1>8 DEF Soul
<1> QED BY <1>1, <1>3, <1>7, <1>8, <1>9, <1>10

LEMMA WriteSoulIs ==
  ASSUME TeamsTyped, HandlersOK, NEW h \in Handlers, writeSoulSpec(h)
  PROVE  \E n \in Calls, f \in Files, a \in teamOps[h].left :
           /\ Written(h, teamOps[h], n, f)
           /\ \/ teamOps[h].at = "soul" /\ n.at = "write" /\ n.left = teamOps[h].left /\ Soul(f, teamDirs[n.dir], a, 0)
              \/ /\ teamOps[h].at = "write" /\ n.at = "soul" /\ n.left = teamOps[h].left \ {a}
                 /\ Soul(f, teamDirs[n.dir], a, n.cfg.nr)
<1>1. PICK c \in Calls : c = teamOps[h]
  BY PathsAre
<1>2. /\ c.at \in {"soul", "write"} /\ c.dir \in Dirs /\ c.left \subseteq c.cfg.members /\ c.left \subseteq TeamAgents
      /\ c.left # {} /\ c.cfg.nr \in Nat
  BY <1>1, CallsAre DEF writeSoulSpec, HandlersOK, HandlerOK, WritePlaces
<1>3. PICK g \in Files : g = teamDirs[c.dir] /\ HasFront(g)
  BY <1>2, PathsAre DEF HandlersOK
<1>4. PICK a \in c.left : a = CHOOSE x \in c.left : TRUE
  BY <1>2
<1>5. a \in TeamAgents
  BY <1>2
<1>6. ASSUME NEW nr \in Nat, SoulWritten(c.dir, a, nr)
      PROVE  \E f \in Files : HasFront(f) /\ Soul(f, g, a, nr) /\ teamDirs' = [teamDirs EXCEPT ![c.dir] = f]
  <2>1. PICK f \in Files : HasFront(f) /\ Soul(f, g, a, nr) /\ f = [g EXCEPT !.souls = WithSoul(g.souls, a, nr)]
    BY <1>3, <1>5, SoulIs
  <2>2. PICK dir, s : dir = c.dir /\ s = WithSoul(g.souls, a, nr)
    OBVIOUS
  <2>3. teamDirs' = [teamDirs EXCEPT ![dir].souls = s]
    BY <1>2, <1>3, <1>6, <2>2 DEF SoulWritten, TeamsTyped
  <2>4. teamDirs' = [teamDirs EXCEPT ![dir] = f]
    BY <1>2, <1>3, <2>1, <2>2, <2>3 DEF TeamsTyped
  <2> QED BY <2>1, <2>2, <2>4
<1>7. CASE c.at = "soul"
  <2>1. SoulWritten(c.dir, a, 0) /\ Writes(h, [teamOps[h] EXCEPT !.at = "write"])
    BY <1>1, <1>4, <1>7 DEF writeSoulSpec
  <2>2. PICK f \in Files : HasFront(f) /\ Soul(f, g, a, 0) /\ teamDirs' = [teamDirs EXCEPT ![c.dir] = f]
    BY <1>6, <2>1
  <2>3. PICK rest : rest = c.left
    OBVIOUS
  <2>4. Writes(h, [teamOps[h] EXCEPT !.at = "write", !.left = rest])
    BY <1>1, <2>1, <2>3, SameLeft
  <2>5. PICK n \in Calls : Written(h, teamOps[h], n, f) /\ n.at = "write" /\ n.left = rest
    <3>1. WritesFiles(h, "write", rest, f)
      BY <1>1, <1>2, <1>7, <2>2, <2>3, <2>4 DEF WritePlaces, WritesFiles
    <3> QED BY <3>1, WrittenIs
  <2>6. n.dir = c.dir
    BY <1>1, <2>5 DEF Written
  <2>7. Soul(f, teamDirs[n.dir], a, 0) /\ n.left = teamOps[h].left /\ a \in teamOps[h].left /\ teamOps[h].at = "soul"
    BY <1>1, <1>3, <1>7, <2>2, <2>3, <2>5, <2>6
  <2> QED BY <2>2, <2>5, <2>7
<1>8. CASE c.at = "write"
  <2>1. SoulWritten(c.dir, a, c.cfg.nr) /\ Writes(h, [c EXCEPT !.at = "soul", !.left = @ \ {a}])
    BY <1>1, <1>4, <1>8 DEF writeSoulSpec
  <2>2. PICK f \in Files : HasFront(f) /\ Soul(f, g, a, c.cfg.nr) /\ teamDirs' = [teamDirs EXCEPT ![c.dir] = f]
    BY <1>2, <1>6, <2>1
  <2>3. PICK rest : rest = c.left \ {a}
    OBVIOUS
  <2>4. Writes(h, [teamOps[h] EXCEPT !.at = "soul", !.left = rest])
    BY <1>1, <2>1, <2>3
  <2>5. rest \subseteq TeamAgents /\ rest \subseteq c.cfg.members
    BY <1>2, <2>3
  <2>6. PICK n \in Calls : Written(h, teamOps[h], n, f) /\ n.at = "soul" /\ n.left = rest
    <3>1. WritesFiles(h, "soul", rest, f)
      BY <1>1, <1>2, <1>8, <2>2, <2>4, <2>5 DEF WritePlaces, WritesFiles
    <3> QED BY <3>1, WrittenIs
  <2>7. n.dir = c.dir /\ n.cfg = c.cfg
    BY <1>1, <2>6 DEF Written
  <2>8. /\ Soul(f, teamDirs[n.dir], a, n.cfg.nr) /\ n.left = teamOps[h].left \ {a} /\ a \in teamOps[h].left
        /\ teamOps[h].at = "write"
    BY <1>1, <1>3, <1>8, <2>2, <2>3, <2>6, <2>7
  <2> QED BY <2>2, <2>6, <2>8
<1> QED BY <1>2, <1>7, <1>8

LEMMA OrphansAre ==
  ASSUME TeamsTyped, HandlersOK, NEW h \in Handlers, RemoveOrphans(h)
  PROVE  \E n \in Calls, f \in Files :
           /\ Written(h, teamOps[h], n, f) /\ teamOps[h].at = "soul" /\ teamOps[h].left = {} /\ n.at = "readable"
           /\ f.yaml = teamDirs[n.dir].yaml /\ f.spec = teamDirs[n.dir].spec
           /\ DOMAIN f.souls = DOMAIN teamDirs[n.dir].souls \ (n.old \ n.cfg.members)
           /\ \A a \in DOMAIN f.souls : f.souls[a] = teamDirs[n.dir].souls[a]
<1>1. PICK c \in Calls : c = teamOps[h]
  BY PathsAre
<1>2. c.at = "soul" /\ c.left = {} /\ c.dir \in Dirs
  BY <1>1, CallsAre DEF RemoveOrphans, HandlersOK, HandlerOK, WritePlaces
<1>3. PICK g \in Files : g = teamDirs[c.dir] /\ HasFront(g)
  BY <1>2, PathsAre DEF HandlersOK
<1>4. PICK was, kept : was = g.souls /\ kept = DOMAIN was \ (c.old \ c.cfg.members)
  OBVIOUS
<1>5. was \in SoulFiles /\ DOMAIN was \subseteq TeamAgents /\ \A a \in DOMAIN was : was[a] \in Nat
  BY <1>4, FilesAre, SoulFilesAre
<1>6. PICK s : s = [a \in kept |-> was[a]]
  OBVIOUS
<1>7. kept \in SUBSET TeamAgents /\ kept \subseteq DOMAIN was
  BY <1>4, <1>5
<1>8. s \in [kept -> Nat] /\ DOMAIN s = kept /\ \A a \in kept : s[a] = was[a]
  BY <1>5, <1>6, <1>7
<1>9. s \in SoulFiles
  BY <1>7, <1>8, SoulFilesAre
<1>10. PICK f : f = [g EXCEPT !.souls = s]
  OBVIOUS
<1>11. f \in Files /\ f.yaml = g.yaml /\ f.spec = g.spec /\ f.souls = s
  BY <1>9, <1>10 DEF Files
<1>12. HasFront(f)
  BY <1>3, <1>11 DEF HasFront
<1>13. teamDirs' = [teamDirs EXCEPT ![c.dir].souls = s]
  BY <1>1, <1>2, <1>3, <1>4, <1>6 DEF RemoveOrphans, TeamsTyped
<1>14. teamDirs' = [teamDirs EXCEPT ![c.dir] = f]
  BY <1>2, <1>3, <1>10, <1>13 DEF TeamsTyped
<1>15. Writes(h, [teamOps[h] EXCEPT !.at = "readable", !.left = teamOps[h].left])
  BY SameLeft DEF RemoveOrphans
<1>16. PICK n \in Calls : Written(h, teamOps[h], n, f) /\ n.at = "readable"
  <2>1. WritesFiles(h, "readable", teamOps[h].left, f)
    BY <1>1, <1>2, <1>11, <1>12, <1>14, <1>15 DEF WritePlaces, WritesFiles
  <2> QED BY <2>1, WrittenIs
<1>17. n.dir = c.dir /\ n.cfg = c.cfg /\ n.old = c.old
  BY <1>1, <1>16 DEF Written
<1>18. /\ Written(h, teamOps[h], n, f) /\ teamOps[h].at = "soul" /\ teamOps[h].left = {} /\ n.at = "readable"
       /\ f.yaml = teamDirs[n.dir].yaml /\ f.spec = teamDirs[n.dir].spec
       /\ DOMAIN f.souls = DOMAIN teamDirs[n.dir].souls \ (n.old \ n.cfg.members)
       /\ \A b \in DOMAIN f.souls : f.souls[b] = teamDirs[n.dir].souls[b]
  BY <1>1, <1>2, <1>3, <1>4, <1>8, <1>11, <1>16, <1>17
<1> QED BY <1>11, <1>16, <1>18

-----------------------------------------------------------------------------
(* Settings and profiles.                                                  *)

\* A call that is over, with a change that the others may have read before.
Ends(h) ==
  /\ Continues(h, teamOps[h], Free) /\ HandlerOK(Free, Len(projectPaths)) /\ teamCalls' = teamCalls
  /\ \A o \in Handlers : o # h => ~teamOps'[o].quiet

LEMMA EndsWritten ==
  ASSUME TeamsTyped, HandlersOK, NEW h \in Handlers, teamOps[h].at # "idle", Writes(h, Free)
  PROVE  Ends(h)
<1>1. Continues(h, teamOps[h], Free) /\ HandlerOK(Free, Len(projectPaths)) /\ teamCalls' = teamCalls
  BY EndsIs
<1>2. \A o \in Handlers : o # h => ~teamOps'[o].quiet
  BY FreeIs, WritesIs
<1> QED BY <1>1, <1>2 DEF Ends

LEMMA SelectIs ==
  ASSUME TeamsTyped, HandlersOK, NEW h \in Handlers, SelectTeamProfile(h)
  PROVE  \E n \in Calls : /\ Starts(h, teamOps[h], n) /\ n.at = "source" /\ n.project = activeProject
                          /\ HandlerOK(n, Len(projectPaths))
<1>1. PICK p \in TeamProfiles :
       HandlerBegins(h, [Free EXCEPT !.at = "source", !.kind = "select", !.name = p, !.project = activeProject])
  BY DEF SelectTeamProfile
<1>2. activeProject \in 1..MaxProjects /\ activeProject \in 0..MaxProjects
  <2>1. activeProject \in 1..MaxProjects /\ MaxProjects \in Nat
    BY PathsAre
  <2> QED BY <2>1
<1>3. PICK op : op = [Free EXCEPT !.at = "source", !.kind = "select", !.name = p, !.project = activeProject]
  OBVIOUS
<1>4. op \in Calls /\ op.at = "source" /\ op.project = activeProject
  BY <1>1, <1>2, <1>3, FreeIs DEF Calls, CallPlaces
<1>5. HandlerBegins(h, op)
  BY <1>1, <1>3
<1>6. PICK n \in Calls : Starts(h, teamOps[h], n) /\ n.at = "source" /\ n.project = activeProject
  BY <1>4, <1>5, BeginsAt
<1>7. HandlerOK(n, Len(projectPaths))
  BY <1>2, <1>6 DEF HandlerOK, WritePlaces
<1> QED BY <1>6, <1>7

LEMMA SourceIs ==
  ASSUME TeamsTyped, HandlersOK, NEW h \in Handlers, resolveProfileSourceDir(h)
  PROVE  \E n \in Calls :
           /\ Continues(h, teamOps[h], n) /\ HandlerOK(n, Len(projectPaths)) /\ teamCalls' = teamCalls
           /\ teamOps[h].at = "source"
           /\ \/ n.at = "idle" /\ n = Free
              \/ /\ n.at = "select" /\ n.project = teamOps[h].project /\ n.alone = teamOps[h].alone
                 /\ n.name = "default" \/ HasSpec(teamDirs[<<activeProject, n.name>>])
<1>1. PICK c \in Calls : c = teamOps[h]
  BY PathsAre
<1>2. c.at = "source" /\ c.project \in 1..MaxProjects
  BY <1>1 DEF resolveProfileSourceDir, HandlersOK, HandlerOK
<1>3. PICK n : n = [c EXCEPT !.at = "select"]
  OBVIOUS
<1>4. /\ n \in Calls /\ n.at = "select" /\ n.project = c.project /\ n.name = c.name /\ n.alone = c.alone
      /\ n.quiet = c.quiet
  BY <1>3 DEF Calls, CallPlaces
<1>5. HandlerOK(n, Len(projectPaths))
  BY <1>2, <1>4 DEF HandlerOK, WritePlaces
<1>6. CASE c.name = "default" \/ HasSpec(teamDirs[<<activeProject, c.name>>])
  <2>1. Goes(h, n)
    BY <1>1, <1>3, <1>6 DEF resolveProfileSourceDir
  <2>2. Continues(h, teamOps[h], n) /\ teamCalls' = teamCalls
    BY <1>1, <1>2, <1>4, <2>1, GoesOn
  <2> QED BY <1>1, <1>2, <1>4, <1>5, <1>6, <2>2
<1>7. CASE ~(c.name = "default" \/ HasSpec(teamDirs[<<activeProject, c.name>>]))
  <2>1. Goes(h, Free)
    BY <1>1, <1>7 DEF resolveProfileSourceDir
  <2>2. Continues(h, teamOps[h], Free) /\ HandlerOK(Free, Len(projectPaths)) /\ teamCalls' = teamCalls
    BY <1>1, <1>2, <2>1, EndsIs
  <2> QED BY <1>1, <1>2, <2>2, FreeIs
<1> QED BY <1>6, <1>7

\* The profile is empty until it is copied.
Created(h, n, p, q) ==
  /\ Starts(h, teamOps[h], n) /\ HandlerOK(n, Len(projectPaths))
  /\ n.at = "copy" /\ n.project = activeProject /\ n.name = p /\ n.from = Readable(<<activeProject, q>>)
  /\ <<activeProject, q>> \in Dirs /\ teamDirs[<<activeProject, p>>].yaml = "gone" /\ HasSpec(n.from)
  /\ Becomes(<<activeProject, p>>, WithoutTeam("none"))
  /\ torn' = IF <<activeProject, q>> \in torn THEN torn \cup {<<activeProject, p>>} ELSE torn

LEMMA CreateIs ==
  ASSUME TeamsTyped, HandlersOK, NEW h \in Handlers, CreateProfile(h)
  PROVE  \E n \in Calls : \E p, q \in TeamProfiles : Created(h, n, p, q)
<1>1. PICK p, q \in TeamProfiles :
        /\ teamDirs[<<activeProject, p>>].yaml = "gone" /\ HasSpec(Readable(<<activeProject, q>>))
        /\ teamDirs' = [teamDirs EXCEPT ![<<activeProject, p>>] = WithoutTeam("none")]
        /\ torn' = IF <<activeProject, q>> \in torn THEN torn \cup {<<activeProject, p>>} ELSE torn
        /\ HandlerBegins(h, [Free EXCEPT !.at = "copy", !.kind = "select", !.name = p,
                                         !.project = activeProject, !.from = Readable(<<activeProject, q>>)])
  BY DEF CreateProfile
<1>2. activeProject \in 1..MaxProjects /\ activeProject \in 0..MaxProjects
  <2>1. activeProject \in 1..MaxProjects /\ MaxProjects \in Nat
    BY PathsAre
  <2> QED BY <2>1
<1>3. <<activeProject, p>> \in Dirs /\ <<activeProject, q>> \in Dirs
  BY <1>1, <1>2 DEF Dirs
<1>4. PICK from \in Files : from = Readable(<<activeProject, q>>) /\ HasFront(from)
  BY <1>3, ReadableIs
<1>5. PICK op : op = [Free EXCEPT !.at = "copy", !.kind = "select", !.name = p,
                                  !.project = activeProject, !.from = from]
  OBVIOUS
<1>6. op \in Calls /\ op.at = "copy" /\ op.project = activeProject /\ op.name = p /\ op.from = from
  BY <1>1, <1>2, <1>4, <1>5, FreeIs DEF Calls, CallPlaces
<1>7. HandlerBegins(h, op)
  BY <1>1, <1>4, <1>5
<1>8. PICK n \in Calls : Starts(h, teamOps[h], n) /\ n.at = "copy" /\ n.project = activeProject /\ n.name = p /\ n.from = from
  BY <1>6, <1>7, BeginsAt
<1>9. HandlerOK(n, Len(projectPaths))
  BY <1>2, <1>4, <1>8 DEF HandlerOK, WritePlaces
<1>10. WithoutTeam("none") \in Files /\ HasFront(WithoutTeam("none"))
  BY NoTeamIs DEF HasFront
<1>11. Becomes(<<activeProject, p>>, WithoutTeam("none"))
  BY <1>1, <1>3, <1>10, BecomesIs
<1>12. Created(h, n, p, q)
  BY <1>1, <1>3, <1>4, <1>8, <1>9, <1>11 DEF Created
<1> QED BY <1>1, <1>8, <1>12

LEMMA CopyIs ==
  ASSUME TeamsTyped, HandlersOK, NEW h \in Handlers, copyFS(h)
  PROVE  \E n \in Calls :
           /\ Continues(h, teamOps[h], n) /\ HandlerOK(n, Len(projectPaths)) /\ teamCalls' = teamCalls
           /\ teamOps[h].at = "copy" /\ Becomes(<<teamOps[h].project, teamOps[h].name>>, teamOps[h].from)
           /\ n.at = "source" /\ n.project = activeProject /\ \A o \in Handlers : o # h => ~teamOps'[o].quiet
<1>1. PICK c \in Calls : c = teamOps[h]
  BY PathsAre
<1>2. c.at = "copy" /\ c.project \in 1..MaxProjects /\ HasFront(c.from) /\ c.from \in Files /\ c.name \in TeamProfiles
  BY <1>1, CallsAre DEF copyFS, HandlersOK, HandlerOK
<1>3. activeProject \in 1..MaxProjects /\ activeProject \in 0..MaxProjects
  <2>1. activeProject \in 1..MaxProjects /\ MaxProjects \in Nat
    BY PathsAre
  <2> QED BY <2>1
<1>4. PICK n : n = [c EXCEPT !.at = "source", !.project = activeProject]
  OBVIOUS
<1>5. n \in Calls /\ n.at = "source" /\ n.project = activeProject /\ n.alone = c.alone /\ n.quiet = c.quiet
  BY <1>3, <1>4 DEF Calls, CallPlaces
<1>6. HandlerOK(n, Len(projectPaths))
  BY <1>3, <1>5 DEF HandlerOK, WritePlaces
<1>7. Writes(h, n)
  BY <1>1, <1>4 DEF copyFS
<1>8. Continues(h, teamOps[h], n) /\ teamCalls' = teamCalls
  BY <1>1, <1>2, <1>5, <1>7, GoesOn
<1>9. \A o \in Handlers : o # h => ~teamOps'[o].quiet
  BY <1>5, <1>7, WritesIs
<1>10. PICK d : d = <<c.project, c.name>>
  OBVIOUS
<1>11. d \in Dirs
  BY <1>2, <1>10 DEF Dirs
<1>12. PICK from : from = c.from
  OBVIOUS
<1>13. teamDirs' = [teamDirs EXCEPT ![d] = from]
  BY <1>1, <1>10, <1>12 DEF copyFS
<1>14. Becomes(d, from)
  BY <1>2, <1>11, <1>12, <1>13, BecomesIs
<1> QED BY <1>1, <1>2, <1>5, <1>6, <1>8, <1>9, <1>10, <1>12, <1>14

LEMMA DeleteTeamIs ==
  ASSUME TeamsTyped, HandlersOK, NEW h \in Handlers, DeleteTeamProfile(h)
  PROVE  \E n \in Calls : /\ Starts(h, teamOps[h], n) /\ n.at = "delete" /\ n.name # profileOf[activeProject]
                          /\ HandlerOK(n, Len(projectPaths))
<1>1. PICK p \in TeamProfiles \ {profileOf[activeProject]} :
       HandlerBegins(h, [Free EXCEPT !.at = "delete", !.kind = "delete", !.name = p])
  BY DEF DeleteTeamProfile
<1>2. PICK op : op = [Free EXCEPT !.at = "delete", !.kind = "delete", !.name = p]
  OBVIOUS
<1>3. op \in Calls /\ op.at = "delete" /\ op.name = p
  BY <1>1, <1>2, FreeIs DEF Calls, CallPlaces
<1>4. HandlerBegins(h, op)
  BY <1>1, <1>2
<1>5. PICK n \in Calls : Starts(h, teamOps[h], n) /\ n.at = "delete" /\ n.name = p
  BY <1>3, <1>4, BeginsAt
<1>6. HandlerOK(n, Len(projectPaths))
  BY <1>5 DEF HandlerOK, WritePlaces
<1> QED BY <1>1, <1>5, <1>6

LEMMA DeleteIs ==
  ASSUME TeamsTyped, HandlersOK, NEW h \in Handlers, DeleteProfile(h)
  PROVE  /\ Ends(h) /\ teamOps[h].at = "delete"
         /\ Becomes(<<activeProject, teamOps[h].name>>, WithoutTeam("gone"))
<1>1. PICK c \in Calls : c = teamOps[h]
  BY PathsAre
<1>2. c.at = "delete" /\ Writes(h, Free)
  BY <1>1 DEF DeleteProfile
<1>3. PICK d : d = <<activeProject, c.name>>
  OBVIOUS
<1>4. d \in Dirs
  BY <1>3, PathsAre, CallsAre DEF Dirs
<1>5. WithoutTeam("gone") \in Files /\ HasFront(WithoutTeam("gone"))
  BY NoTeamIs DEF HasFront
<1>6. teamDirs' = [teamDirs EXCEPT ![d] = WithoutTeam("gone")]
  BY <1>1, <1>3 DEF DeleteProfile
<1>7. Becomes(d, WithoutTeam("gone"))
  BY <1>4, <1>5, <1>6, BecomesIs
<1> QED BY <1>1, <1>2, <1>3, <1>7, EndsWritten

\* The settings and the default team: the call is over.
LEMMA SettingIs ==
  ASSUME TeamsTyped, HandlersOK, NEW h \in Handlers,
         SetActiveProject(h) \/ SetActiveProjectTeamProfile(h) \/ SetDefaultExecutionSnapshot(h)
  PROVE  Ends(h)
<1>1. teamOps[h].at # "idle" /\ Writes(h, Free)
  BY DEF SetActiveProject, SetActiveProjectTeamProfile, SetDefaultExecutionSnapshot
<1> QED BY <1>1, EndsWritten

-----------------------------------------------------------------------------
(* What a step leaves alone.                                               *)

Moves(h, n) == Continues(h, teamOps[h], n) \/ Starts(h, teamOps[h], n)

LEMMA MovesIs ==
  ASSUME NEW h \in Handlers, NEW n, Moves(h, n)
  PROVE  /\ n = teamOps'[h] /\ n \in Calls /\ teamOps[h] \in Calls /\ teamOps' \in [Handlers -> Calls]
         /\ \A o \in Handlers : o # h => Like(teamOps'[o], teamOps[o])
BY DEF Moves, Continues, Starts, Steps, OthersStay

LEMMA AloneStays ==
  ASSUME AloneIsAlone, NEW h \in Handlers, NEW n, Moves(h, n)
  PROVE  /\ AloneIsAlone'
         /\ \A o \in Handlers : o # h => ~teamOps'[o].alone /\ (n.alone => teamOps[o].at = "idle" /\ teamOps'[o].at = "idle")
<1>1. n = teamOps'[h] /\ \A o \in Handlers : o # h => Like(teamOps'[o], teamOps[o])
  BY MovesIs
<1>2. ASSUME NEW o \in Handlers, o # h
      PROVE  ~teamOps'[o].alone /\ (n.alone => teamOps[o].at = "idle" /\ teamOps'[o].at = "idle")
  <2>1. (teamOps'[o].alone => teamOps[o].alone) /\ teamOps'[o].at = teamOps[o].at
    BY <1>1, <1>2 DEF Like
  <2>2. CASE Continues(h, teamOps[h], n)
    <3>1. teamOps[h].at # "idle" /\ (n.alone => teamOps[h].alone)
      BY <2>2 DEF Continues
    <3>2. ~teamOps[o].alone /\ (teamOps[h].alone => teamOps[o].at = "idle")
      BY <1>2, <3>1 DEF AloneIsAlone
    <3> QED BY <2>1, <3>1, <3>2
  <2>3. CASE Starts(h, teamOps[h], n)
    BY <1>2, <2>1, <2>3 DEF Starts
  <2> QED BY <2>2, <2>3 DEF Moves
<1>3. ASSUME NEW g \in Handlers, NEW o \in Handlers, g # o, teamOps'[g].alone PROVE teamOps'[o].at = "idle"
  <2>1. g = h
    BY <1>2, <1>3
  <2> QED BY <1>1, <1>2, <1>3, <2>1
<1> QED BY <1>2, <1>3 DEF AloneIsAlone

LEMMA RightStays ==
  ASSUME AloneIsAlone, NEW h \in Handlers, NEW n, Moves(h, n), n.alone => SeenRight(n)'
  PROVE  AloneIsRight'
<1>1. n = teamOps'[h] /\ \A o \in Handlers : o # h => ~teamOps'[o].alone
  BY MovesIs, AloneStays
<1> QED BY <1>1 DEF AloneIsRight, SeenRight

LEMMA QuietReading ==
  ASSUME QuietIsQuiet, NEW h \in Handlers, NEW n, Moves(h, n), n.quiet => CallAgrees(n),
         UNCHANGED <<activeProject, profileOf, teamDirs, defaultTeam>>
  PROVE  QuietIsQuiet'
<1>1. n = teamOps'[h] /\ \A o \in Handlers : o # h => Like(teamOps'[o], teamOps[o])
  BY MovesIs
<1>2. ASSUME NEW c, CallAgrees(c) PROVE CallAgrees(c)'
  BY <1>2 DEF CallAgrees, Readable, TeamIn
<1>3. ASSUME NEW o \in Handlers, o # h, teamOps'[o].quiet PROVE CallAgrees(teamOps'[o])
  <2>1. PICK c, b : c = teamOps'[o] /\ b = teamOps[o]
    OBVIOUS
  <2>2. Like(c, b) /\ c.quiet
    BY <1>1, <1>3, <2>1
  <2>3. CallAgrees(b)
    BY <2>1, <2>2 DEF QuietIsQuiet, Like
  <2>4. c.at = b.at /\ c.kind = b.kind /\ c.project = b.project /\ c.dir = b.dir /\ c.team = b.team
    BY <2>2 DEF Like
  <2> QED BY <2>1, <2>3, <2>4 DEF CallAgrees
<1>4. ASSUME NEW o \in Handlers, teamOps'[o].quiet PROVE CallAgrees(teamOps'[o])
  BY <1>1, <1>3, <1>4
<1>5. ASSUME NEW o \in Handlers, teamOps'[o].quiet PROVE CallAgrees(teamOps[o])'
  <2>1. PICK c : c = teamOps'[o]
    OBVIOUS
  <2>2. CallAgrees(c)'
    BY <1>2, <1>4, <1>5, <2>1
  <2> QED BY <2>1, <2>2 DEF CallAgrees, Readable, TeamIn
<1> QED BY <1>5 DEF QuietIsQuiet

LEMMA QuietWriting ==
  ASSUME NEW h \in Handlers, NEW n, n = teamOps'[h], n.quiet => CallAgrees(n)', \A o \in Handlers : o # h => ~teamOps'[o].quiet
  PROVE  QuietIsQuiet'
BY DEF QuietIsQuiet, CallAgrees, Readable, TeamIn

\* A step that is no start and no change of the settings.
Keeps ==
  /\ UNCHANGED <<projectPaths, activeProject, profileOf, defaultTeam>>
  /\ torn' \subseteq Dirs \cup {Machine} /\ raced' \in BOOLEAN /\ teamCalls' \in 0..MaxTeamCalls

LEMMA TypesStay ==
  ASSUME TeamsTyped, HandlersOK, NEW h \in Handlers, NEW n, Moves(h, n), HandlerOK(n, Len(projectPaths)), Keeps,
         UNCHANGED teamDirs \/ \E d, f : Becomes(d, f)
  PROVE  TeamsTyped' /\ HandlersOK'
<1>1. n = teamOps'[h] /\ teamOps' \in [Handlers -> Calls] /\ OthersStay(h)
  BY MovesIs DEF OthersStay
<1>2. teamDirs' \in [Dirs -> Files] /\ \A d \in Dirs : HasFront(teamDirs'[d])
  BY DEF TeamsTyped, HandlersOK, Becomes
<1>3. TeamsTyped'
  BY <1>1, <1>2 DEF TeamsTyped, Keeps
<1>4. \A o \in Handlers : HandlerOK(teamOps'[o], Len(projectPaths))
  BY <1>1, PathsAre, HandlersStay
<1>5. projectPaths' = projectPaths /\ Closed(defaultTeam')
  BY DEF HandlersOK, Keeps
<1>6. HandlersOK'
  BY <1>2, <1>4, <1>5 DEF HandlersOK
<1> QED BY <1>3, <1>6

-----------------------------------------------------------------------------
(* The files.                                                              *)

LEMMA DirLike ==
  ASSUME NEW h \in Handlers, NEW n, Moves(h, n), NEW d \in Dirs, DirOK(d),
         \A c : HalfWritten(c, teamDirs[d]) => HalfWritten(c, teamDirs'[d]),
         Whole(teamDirs[d]) => Whole(teamDirs'[d]),
         ~WritingTo(h, d), ~WritingTo(h, d)'
  PROVE  DirOK(d)'
<1>1. ASSUME NEW o \in Handlers, WritingTo(o, d)'
      PROVE  o # h /\ WritingTo(o, d) /\ \A f : HalfWritten(teamOps[o], f) => HalfWritten(teamOps'[o], f)
  <2>1. o # h
    BY <1>1
  <2>2. Like(teamOps'[o], teamOps[o])
    BY <2>1, MovesIs
  <2> QED BY <1>1, <2>1, <2>2 DEF WritingTo, Like, HalfWritten
<1>2. ASSUME NEW o \in Handlers, WritingTo(o, d) PROVE WritingTo(o, d)'
  <2>1. o # h
    BY <1>2
  <2>2. Like(teamOps'[o], teamOps[o])
    BY <2>1, MovesIs
  <2> QED BY <1>2, <2>2 DEF WritingTo, Like
<1>3. \A o, g \in Handlers : WritingTo(o, d)' /\ WritingTo(g, d)' => o = g
  BY <1>1 DEF DirOK
<1>4. (\A o \in Handlers : ~WritingTo(o, d)') => Whole(teamDirs'[d])
  BY <1>2 DEF DirOK
<1>5. \A o \in Handlers : WritingTo(o, d)' => HalfWritten(teamOps'[o], teamDirs'[d])
  <2>1. ASSUME NEW o \in Handlers, WritingTo(o, d)' PROVE HalfWritten(teamOps'[o], teamDirs'[d])
    <3>1. HalfWritten(teamOps[o], teamDirs[d])
      BY <1>1, <2>1 DEF DirOK
    <3>2. HalfWritten(teamOps'[o], teamDirs[d])
      BY <1>1, <2>1, <3>1
    <3> QED BY <3>2
  <2> QED BY <2>1
<1> QED BY <1>3, <1>4, <1>5 DEF DirOK, Whole, HalfWritten

LEMMA DirOther ==
  ASSUME NEW h \in Handlers, NEW n, Moves(h, n), NEW d \in Dirs, DirOK(d), teamDirs'[d] = teamDirs[d],
         ~WritingTo(h, d), ~WritingTo(h, d)'
  PROVE  DirOK(d)'
BY DirLike

LEMMA DirNew ==
  ASSUME NEW h \in Handlers, NEW n, Moves(h, n), NEW d \in Dirs, \A o \in Handlers : o # h => ~WritingTo(o, d),
         WritingTo(h, d)' => HalfWritten(n, teamDirs'[d]), ~WritingTo(h, d)' => Whole(teamDirs'[d])
  PROVE  DirOK(d)'
<1>1. ASSUME NEW o \in Handlers, o # h PROVE ~WritingTo(o, d)'
  <2>1. Like(teamOps'[o], teamOps[o])
    BY <1>1, MovesIs
  <2> QED BY <1>1, <2>1 DEF WritingTo, Like
<1>2. n = teamOps'[h]
  BY MovesIs
<1>3. \A o, g \in Handlers : WritingTo(o, d)' /\ WritingTo(g, d)' => o = g
  BY <1>1
<1>4. (\A o \in Handlers : ~WritingTo(o, d)') => Whole(teamDirs'[d])
  OBVIOUS
<1>5. \A o \in Handlers : WritingTo(o, d)' => HalfWritten(teamOps'[o], teamDirs'[d])
  BY <1>1, <1>2
<1> QED BY <1>3, <1>4, <1>5 DEF DirOK, Whole, HalfWritten

CopyOK(c) ==
  c.at = "copy" /\ c.alone /\ <<c.project, c.name>> \notin torn => c.from.yaml = "full" /\ Whole(c.from)

LEMMA DirsStep ==
  ASSUME AloneIsAlone, NEW h \in Handlers, NEW n, Moves(h, n), \A d \in Dirs \ torn' : DirOK(d)',
         CopyOK(n)', Machine \in torn' \/ Uniform(defaultTeam')
  PROVE  DirsOK'
<1>1. n = teamOps'[h] /\ \A o \in Handlers : o # h => ~teamOps'[o].alone
  BY MovesIs, AloneStays
<1>2. ASSUME NEW o \in Handlers, teamOps'[o].at = "copy", teamOps'[o].alone,
             <<teamOps'[o].project, teamOps'[o].name>> \notin torn'
      PROVE  teamOps'[o].from.yaml = "full" /\ Whole(teamOps'[o].from)
  BY <1>1, <1>2 DEF CopyOK
<1>3. \A d \in (Dirs \ torn)' : DirOK(d)'
  BY DEF Dirs
<1>4. (Machine \in torn \/ Uniform(defaultTeam))'
  BY DEF Machine, Uniform
<1>5. \A o \in Handlers : (teamOps[o].at = "copy" /\ teamOps[o].alone /\ <<teamOps[o].project, teamOps[o].name>> \notin torn =>
       teamOps[o].from.yaml = "full" /\ Whole(teamOps[o].from))'
  BY <1>2 DEF Whole
<1> QED BY <1>3, <1>4, <1>5 DEF DirsOK

LEMMA DirsStay ==
  ASSUME AloneIsAlone, DirsOK, NEW h \in Handlers, NEW n, Moves(h, n), UNCHANGED <<teamDirs, torn, defaultTeam>>,
         teamOps[h].at \notin WritePlaces, n.at \notin WritePlaces \cup {"copy"}
  PROVE  DirsOK'
<1>1. n = teamOps'[h]
  BY MovesIs
<1>2. ASSUME NEW d \in Dirs \ torn' PROVE DirOK(d)'
  <2>1. DirOK(d)
    BY <1>2 DEF DirsOK
  <2>2. ~WritingTo(h, d) /\ ~WritingTo(h, d)'
    BY <1>1 DEF WritingTo, WritePlaces
  <2> QED BY <1>2, <2>1, <2>2, DirOther
<1>3. CopyOK(n)'
  BY DEF CopyOK
<1>4. Machine \in torn' \/ Uniform(defaultTeam')
  BY DEF DirsOK
<1> QED BY <1>2, <1>3, <1>4, DirsStep

-----------------------------------------------------------------------------
(* The profiles.                                                           *)

LEMMA ProfileStays ==
  ASSUME NEW h \in Handlers, NEW n, Moves(h, n), NEW d \in Dirs, ProfileOK(d), teamDirs'[d] = teamDirs[d],
         d \in torn => d \in torn', WritingTo(h, d) => WritingTo(h, d)' \/ d \in torn'
  PROVE  ProfileOK(d)'
<1>1. ASSUME NEW o \in Handlers, WritingTo(o, d) PROVE WritingTo(o, d)' \/ d \in torn'
  <2>1. CASE o = h
    BY <1>1, <2>1
  <2>2. CASE o # h
    <3>1. Like(teamOps'[o], teamOps[o])
      BY <2>2, MovesIs
    <3> QED BY <1>1, <3>1 DEF WritingTo, Like
  <2> QED BY <2>1, <2>2
<1>2. Readable(d)' = Readable(d)
  BY DEF Readable
<1> QED BY <1>1, <1>2 DEF ProfileOK

LEMMA ProfilesAre ==
  ASSUME raced' \/ \A p \in 1..MaxProjects : \A d : d = <<p, profileOf'[p]>> => ProfileOK(d)',
         raced' \/ \A i, j \in 1..Len(projectPaths') : projectPaths'[i] = projectPaths'[j] => i = j
  PROVE  ProfilesOK'
<1>1. CASE raced'
  BY <1>1 DEF ProfilesOK
<1>2. CASE ~raced'
  <2>1. ASSUME NEW p \in 1..MaxProjects PROVE ProfileOK(<<p, profileOf[p]>>)'
    <3>1. PICK d : d = <<p, profileOf'[p]>>
      OBVIOUS
    <3>2. ProfileOK(d)'
      BY <1>2, <3>1
    <3> QED BY <3>1, <3>2 DEF ProfileOK, Readable, WritingTo
  <2> QED BY <1>2, <2>1 DEF ProfilesOK
<1> QED BY <1>1, <1>2

LEMMA ProfilesStep ==
  ASSUME UNCHANGED <<projectPaths, profileOf>>, ProfilesOK, raced => raced',
         ~raced' => \A p \in 1..MaxProjects : ProfileOK(<<p, profileOf[p]>>) => \A d : d = <<p, profileOf[p]>> => ProfileOK(d)'
  PROVE  ProfilesOK'
<1>1. raced' \/ \A p \in 1..MaxProjects : \A d : d = <<p, profileOf'[p]>> => ProfileOK(d)'
  BY DEF ProfilesOK
<1>2. raced' \/ \A i, j \in 1..Len(projectPaths') : projectPaths'[i] = projectPaths'[j] => i = j
  BY DEF ProfilesOK
<1> QED BY <1>1, <1>2, ProfilesAre

-----------------------------------------------------------------------------
(* The steps that only read.                                               *)

StateOK == TeamsTyped /\ HandlersOK /\ AloneIsAlone /\ QuietIsQuiet /\ DirsOK /\ AloneIsRight /\ ProfilesOK

\* A step that only reads.
Reads(h, n) ==
  /\ Moves(h, n) /\ HandlerOK(n, Len(projectPaths)) /\ teamCalls' \in 0..MaxTeamCalls
  /\ UNCHANGED <<projectPaths, activeProject, profileOf, torn, raced, teamDirs, defaultTeam>>
  /\ teamOps[h].at \notin WritePlaces /\ n.at \notin WritePlaces \cup {"copy"}
  /\ (n.quiet => CallAgrees(n)) /\ (n.alone => SeenRight(n))

LEMMA ReadsKeep ==
  ASSUME StateOK, NEW h \in Handlers, NEW n, Reads(h, n)
  PROVE  StateOK'
<1>a. /\ TeamsTyped /\ HandlersOK /\ AloneIsAlone /\ QuietIsQuiet /\ DirsOK /\ AloneIsRight /\ ProfilesOK
      /\ Moves(h, n) /\ HandlerOK(n, Len(projectPaths)) /\ teamCalls' \in 0..MaxTeamCalls
      /\ UNCHANGED <<projectPaths, activeProject, profileOf, torn, raced, teamDirs, defaultTeam>>
      /\ teamOps[h].at \notin WritePlaces /\ n.at \notin WritePlaces \cup {"copy"}
  BY DEF StateOK, Reads
<1>1. Keeps
  BY <1>a DEF Keeps, TeamsTyped
<1>2. TeamsTyped' /\ HandlersOK'
  BY <1>a, <1>1, TypesStay
<1>3. AloneIsAlone'
  BY <1>a, AloneStays
<1>4. QuietIsQuiet'
  BY <1>a, QuietReading DEF Reads
<1>5. DirsOK'
  BY <1>a, DirsStay
<1>6. AloneIsRight'
  <2>1. n.alone => SeenRight(n)'
    BY <1>a DEF Reads, SeenRight
  <2> QED BY <1>a, <2>1, RightStays
<1>7. ProfilesOK'
  <2>1. ASSUME NEW p \in 1..MaxProjects, ProfileOK(<<p, profileOf[p]>>), NEW d, d = <<p, profileOf[p]>> PROVE ProfileOK(d)'
    <3>1. d \in Dirs /\ ProfileOK(d)
      BY <1>a, <2>1, PathsAre DEF Dirs
    <3>2. ~WritingTo(h, d)
      BY <1>a DEF WritingTo, WritePlaces
    <3>3. teamDirs'[d] = teamDirs[d] /\ (d \in torn => d \in torn')
      BY <1>a
    <3> QED BY <1>a, <3>1, <3>2, <3>3, ProfileStays
  <2> QED BY <1>a, <2>1, ProfilesStep
<1> QED BY <1>2, <1>3, <1>4, <1>5, <1>6, <1>7 DEF StateOK

\* A call that only goes on.
ReadsOn(h, n) ==
  /\ Continues(h, teamOps[h], n) /\ HandlerOK(n, Len(projectPaths)) /\ teamCalls' = teamCalls
  /\ UNCHANGED <<projectPaths, activeProject, profileOf, torn, raced, teamDirs, defaultTeam>>
  /\ teamOps[h].at \notin WritePlaces /\ n.at \notin WritePlaces \cup {"copy"}
  /\ (n.quiet => CallAgrees(n)) /\ (n.alone => SeenRight(n))

LEMMA ReadsOnKeeps ==
  ASSUME StateOK, NEW h \in Handlers, NEW n, ReadsOn(h, n)
  PROVE  StateOK'
<1>1. Reads(h, n)
  BY DEF ReadsOn, Reads, Moves, StateOK, TeamsTyped
<1> QED BY <1>1, ReadsKeep

LEMMA DullReads ==
  ASSUME NEW n, n.at \in Dull
  PROVE  n.at \notin WritePlaces \cup {"copy"} /\ CallAgrees(n) /\ SeenRight(n)
BY DEF Dull, WritePlaces, CallAgrees, SeenRight

LEMMA StartsKeep ==
  ASSUME StateOK, NEW h \in Handlers, ActivateProjectPath(h) \/ StartRun(h) \/ UpdateTeam(h) \/ SelectTeamProfile(h) \/ DeleteTeamProfile(h)
  PROVE  StateOK' /\ UNCHANGED teamRuns
<1>1. TeamsTyped /\ HandlersOK
  BY DEF StateOK
<1>2. UNCHANGED <<projectPaths, activeProject, profileOf, torn, raced, teamDirs, defaultTeam, teamRuns>>
  BY DEF ActivateProjectPath, StartRun, UpdateTeam, SelectTeamProfile, DeleteTeamProfile, settingsOfTeams, ghostsOfTeams
<1>3. ASSUME NEW n \in Calls, Starts(h, teamOps[h], n), HandlerOK(n, Len(projectPaths)), n.at \notin WritePlaces \cup {"copy"},
             CallAgrees(n), SeenRight(n)
      PROVE  StateOK'
  <2>1. teamOps[h].at \notin WritePlaces /\ teamCalls' \in 0..MaxTeamCalls
    BY <1>3 DEF Starts, WritePlaces
  <2>2. Reads(h, n)
    BY <1>2, <1>3, <2>1 DEF Reads, Moves
  <2> QED BY <2>2, ReadsKeep
<1>4. CASE ActivateProjectPath(h) \/ StartRun(h)
  <2>1. PICK n \in Calls : Starts(h, teamOps[h], n) /\ n.at \in Dull /\ HandlerOK(n, Len(projectPaths))
    BY <1>1, <1>4, ActivateIs
  <2> QED BY <1>2, <1>3, <2>1, DullReads
<1>5. CASE UpdateTeam(h)
  <2>1. PICK n \in Calls : Starts(h, teamOps[h], n) /\ n.at \in Dull /\ HandlerOK(n, Len(projectPaths))
    BY <1>1, <1>5, UpdateTeamIs
  <2> QED BY <1>2, <1>3, <2>1, DullReads
<1>6. CASE SelectTeamProfile(h)
  <2>1. PICK n \in Calls : Starts(h, teamOps[h], n) /\ n.at = "source" /\ n.project = activeProject /\ HandlerOK(n, Len(projectPaths))
    BY <1>1, <1>6, SelectIs
  <2>2. n.at \notin WritePlaces \cup {"copy"} /\ CallAgrees(n) /\ SeenRight(n)
    BY <2>1 DEF WritePlaces, CallAgrees, SeenRight
  <2> QED BY <1>2, <1>3, <2>1, <2>2
<1>7. CASE DeleteTeamProfile(h)
  <2>1. PICK n \in Calls : Starts(h, teamOps[h], n) /\ n.at = "delete" /\ n.name # profileOf[activeProject] /\ HandlerOK(n, Len(projectPaths))
    BY <1>1, <1>7, DeleteTeamIs
  <2>2. n.at \notin WritePlaces \cup {"copy"} /\ CallAgrees(n) /\ SeenRight(n)
    BY <2>1 DEF WritePlaces, CallAgrees, SeenRight
  <2> QED BY <1>2, <1>3, <2>1, <2>2
<1> QED BY <1>4, <1>5, <1>6, <1>7

\* What a load has read is a team as the files have it.
LEMMA LoadedAgrees ==
  ASSUME StateOK, NEW h \in Handlers, LoadSoul(h), NEW n \in Calls, Continues(h, teamOps[h], n), n.quiet,
         n.at = "loaded", n.team = teamOps[h].team, DOMAIN n.team.souls = n.team.spec.members,
         n.dir = teamOps[h].dir, teamOps[h].at = "souls"
  PROVE  n.team = TeamIn(Readable(n.dir))
<1>1. PICK c \in Calls : c = teamOps[h] /\ c.quiet /\ CallAgrees(c)
  BY DEF Continues, Steps, StateOK, QuietIsQuiet
<1>2. PICK f : f = Readable(n.dir)
  OBVIOUS
<1>3. /\ f.yaml = "full" /\ n.team.spec = f.spec
      /\ \A a \in DOMAIN n.team.souls : a \in DOMAIN f.souls /\ n.team.souls[a] = f.souls[a]
  BY <1>1, <1>2 DEF CallAgrees
<1>4. Loadable(f)
  BY <1>3 DEF Loadable
<1>5. PICK s, m : s = n.team.souls /\ m = n.team.spec.members
  OBVIOUS
<1>6. s \in SoulFiles /\ DOMAIN s = m /\ n.team = [spec |-> n.team.spec, souls |-> s]
  BY <1>5, CallsAre
<1>7. s = [a \in m |-> s[a]]
  BY <1>6, SoulFilesAre
<1>8. [a \in m |-> s[a]] = [a \in m |-> f.souls[a]]
  BY <1>3, <1>5, <1>6
<1>9. n.team = TeamOf(f)
  BY <1>3, <1>5, <1>6, <1>7, <1>8 DEF TeamOf
<1> QED BY <1>2, <1>4, <1>9 DEF TeamIn

LEMMA ReadersKeep ==
  ASSUME StateOK, NEW h \in Handlers,
         RegisterProjectPath(h) \/ resolveTeamDir(h) \/ LoadSpec(h) \/ LoadSoul(h) \/ resolveProfileSourceDir(h)
  PROVE  StateOK' /\ UNCHANGED teamRuns
<1>1. TeamsTyped /\ HandlersOK /\ QuietIsQuiet /\ AloneIsRight
  BY DEF StateOK
<1>2. UNCHANGED <<projectPaths, activeProject, profileOf, torn, raced, teamDirs, defaultTeam, teamRuns>>
  BY DEF RegisterProjectPath, resolveTeamDir, LoadSpec, LoadSoul, resolveProfileSourceDir, settingsOfTeams, ghostsOfTeams
<1>3. PICK c \in Calls : c = teamOps[h] /\ (c.quiet => CallAgrees(c)) /\ (c.alone => SeenRight(c))
  BY <1>1, PathsAre DEF QuietIsQuiet, AloneIsRight
<1>4. c.at \notin WritePlaces
  BY <1>3 DEF RegisterProjectPath, resolveTeamDir, LoadSpec, LoadSoul, resolveProfileSourceDir, WritePlaces
<1>5. ASSUME NEW n \in Calls, Continues(h, teamOps[h], n), HandlerOK(n, Len(projectPaths)), teamCalls' = teamCalls,
             n.at \notin WritePlaces \cup {"copy"}, n.quiet => CallAgrees(n), n.alone => SeenRight(n)
      PROVE  StateOK'
  <2>1. ReadsOn(h, n)
    BY <1>2, <1>3, <1>4, <1>5 DEF ReadsOn
  <2> QED BY <2>1, ReadsOnKeeps
<1>6. CASE RegisterProjectPath(h)
  <2>1. PICK n \in Calls : Continues(h, teamOps[h], n) /\ n.at \in Dull /\ HandlerOK(n, Len(projectPaths)) /\ teamCalls' = teamCalls
    BY <1>1, <1>6, RegisterIs
  <2> QED BY <1>2, <1>5, <2>1, DullReads
<1>7. CASE resolveTeamDir(h)
  <2>1. PICK n \in Calls :
           /\ Continues(h, teamOps[h], n) /\ HandlerOK(n, Len(projectPaths)) /\ teamCalls' = teamCalls /\ n.kind = c.kind
           /\ \/ n.at = "profile" /\ n.project = activeProject
              \/ n.at = "old"
              \/ /\ c.at = "profile" /\ n.at = "readable"
                 /\ n.dir = <<c.project, profileOf[activeProject]>>
    BY <1>1, <1>3, <1>7, ResolveIs
  <2>2. n.at \notin WritePlaces \cup {"copy"} /\ SeenRight(n)
    BY <2>1 DEF WritePlaces, SeenRight
  <2>3. n.quiet => c.quiet
    BY <1>3, <2>1 DEF Continues
  <2>4. n.quiet => CallAgrees(n)
    BY <1>3, <2>1, <2>3 DEF CallAgrees
  <2> QED BY <1>2, <1>5, <2>1, <2>2, <2>4
<1>8. CASE LoadSpec(h)
  <2>1. PICK n \in Calls :
           /\ Continues(h, teamOps[h], n) /\ HandlerOK(n, Len(projectPaths)) /\ teamCalls' = teamCalls
           /\ n.kind = c.kind /\ n.dir = c.dir /\ c.at = "readable" /\ n.dir \in Dirs
           /\ \/ /\ n.at = "souls" /\ Readable(n.dir).yaml = "full" /\ n.team.spec = Readable(n.dir).spec
                 /\ DOMAIN n.team.souls = {}
              \/ n.at = "loaded" /\ Readable(n.dir).yaml # "full" /\ n.team = defaultTeam
    BY <1>1, <1>3, <1>8, LoadSpecIs
  <2>2. n.at \notin WritePlaces \cup {"copy"} /\ SeenRight(n)
    BY <2>1 DEF WritePlaces, SeenRight
  <2>3. n.quiet => c.quiet
    BY <1>3, <2>1 DEF Continues
  <2>4. n.quiet => CallAgrees(n)
    BY <1>3, <2>1, <2>3 DEF CallAgrees, TeamIn, Loadable
  <2> QED BY <1>2, <1>5, <2>1, <2>2, <2>4
<1>9. CASE LoadSoul(h)
  <2>1. PICK n \in Calls :
           /\ Continues(h, teamOps[h], n) /\ HandlerOK(n, Len(projectPaths)) /\ teamCalls' = teamCalls
           /\ n.kind = c.kind /\ n.dir = c.dir /\ c.at = "souls" /\ n.dir \in Dirs
           /\ \/ /\ n.at = "loaded" /\ n.team = c.team /\ DOMAIN n.team.souls = n.team.spec.members
              \/ /\ n.at = "loaded" /\ n.team = defaultTeam
                 /\ \E a \in c.team.spec.members : a \notin DOMAIN Readable(n.dir).souls
              \/ /\ n.at = "souls" /\ n.team.spec = c.team.spec
                 /\ \A b \in DOMAIN n.team.souls :
                      \/ b \in DOMAIN c.team.souls /\ n.team.souls[b] = c.team.souls[b]
                      \/ b \in DOMAIN Readable(n.dir).souls /\ n.team.souls[b] = Readable(n.dir).souls[b]
    BY <1>1, <1>3, <1>9, LoadSoulIs
  <2>2. n.at \notin WritePlaces \cup {"copy"} /\ SeenRight(n)
    BY <2>1 DEF WritePlaces, SeenRight
  <2>3. n.quiet => CallAgrees(c)
    BY <1>3, <2>1 DEF Continues
  <2>4. n.quiet /\ n.kind = "run" => n.dir = <<activeProject, profileOf[activeProject]>>
    BY <2>1, <2>3 DEF CallAgrees
  <2>5. CASE n.at = "loaded" /\ n.team = c.team /\ DOMAIN n.team.souls = n.team.spec.members
    <3>1. n.quiet => n.team = TeamIn(Readable(n.dir))
      BY <1>3, <1>9, <2>1, <2>5, LoadedAgrees
    <3>2. n.quiet => CallAgrees(n)
      BY <2>1, <2>4, <2>5, <3>1 DEF CallAgrees
    <3> QED BY <1>2, <1>5, <2>1, <2>2, <3>2
  <2>6. CASE n.at = "loaded" /\ n.team = defaultTeam /\ \E a \in c.team.spec.members : a \notin DOMAIN Readable(n.dir).souls
    <3>1. n.quiet => ~Loadable(Readable(n.dir))
      BY <2>1, <2>3, <2>6 DEF CallAgrees, Loadable
    <3>2. n.quiet => CallAgrees(n)
      BY <2>1, <2>4, <2>6, <3>1 DEF CallAgrees, TeamIn
    <3> QED BY <1>2, <1>5, <2>1, <2>2, <3>2
  <2>7. CASE /\ n.at = "souls" /\ n.team.spec = c.team.spec
             /\ \A b \in DOMAIN n.team.souls :
                  \/ b \in DOMAIN c.team.souls /\ n.team.souls[b] = c.team.souls[b]
                  \/ b \in DOMAIN Readable(n.dir).souls /\ n.team.souls[b] = Readable(n.dir).souls[b]
    <3>1. PICK f : f = Readable(n.dir)
      OBVIOUS
    <3>2. n.quiet => /\ f.yaml = "full" /\ n.team.spec = f.spec
                     /\ \A b \in DOMAIN n.team.souls : b \in DOMAIN f.souls /\ n.team.souls[b] = f.souls[b]
      BY <2>1, <2>3, <2>7, <3>1 DEF CallAgrees
    <3>3. n.quiet => CallAgrees(n)
      BY <2>1, <2>4, <2>7, <3>1, <3>2 DEF CallAgrees
    <3> QED BY <1>2, <1>5, <2>1, <2>2, <3>3
  <2> QED BY <2>1, <2>5, <2>6, <2>7
<1>10. CASE resolveProfileSourceDir(h)
  <2>1. PICK n \in Calls :
           /\ Continues(h, teamOps[h], n) /\ HandlerOK(n, Len(projectPaths)) /\ teamCalls' = teamCalls
           /\ c.at = "source"
           /\ \/ n.at = "idle" /\ n = Free
              \/ /\ n.at = "select" /\ n.project = c.project /\ n.alone = c.alone
                 /\ n.name = "default" \/ HasSpec(teamDirs[<<activeProject, n.name>>])
    BY <1>1, <1>3, <1>10, SourceIs
  <2>2. n.at \notin WritePlaces \cup {"copy"} /\ CallAgrees(n)
    BY <2>1 DEF WritePlaces, CallAgrees
  <2>3. n.alone => c.alone
    BY <1>3, <2>1 DEF Continues
  <2>4. n.alone => SeenRight(n)
    BY <1>3, <2>1, <2>3 DEF SeenRight
  <2> QED BY <1>2, <1>5, <2>1, <2>2, <2>4
<1> QED BY <1>6, <1>7, <1>8, <1>9, <1>10

-----------------------------------------------------------------------------
(* The steps of a save.                                                    *)

\* A step of a save, where what it leaves of its files is as it should be.
Saves(h, n, f) ==
  /\ Written(h, teamOps[h], n, f) /\ n.at \in WritePlaces \cup {"readable"}
  /\ UNCHANGED <<projectPaths, activeProject, profileOf, raced, defaultTeam>>
  /\ torn \subseteq torn' /\ torn' \subseteq Dirs \cup {Machine}
  /\ HalfWritten(teamOps[h], teamDirs[n.dir]) => IF n.at = "readable" THEN Whole(f) /\ f.yaml = "full" ELSE HalfWritten(n, f)

LEMMA SavesKeep ==
  ASSUME StateOK, NEW h \in Handlers, NEW n, NEW f, Saves(h, n, f)
  PROVE  StateOK'
<1>a. TeamsTyped /\ HandlersOK /\ AloneIsAlone /\ QuietIsQuiet /\ DirsOK /\ AloneIsRight /\ ProfilesOK
  BY DEF StateOK
<1>b. /\ UNCHANGED <<projectPaths, activeProject, profileOf, raced, defaultTeam>>
      /\ torn \subseteq torn' /\ torn' \subseteq Dirs \cup {Machine} /\ n.at \in WritePlaces \cup {"readable"}
  BY DEF Saves
<1>c. PICK c : c = teamOps[h]
  OBVIOUS
<1>d. /\ Moves(h, n) /\ HandlerOK(n, Len(projectPaths)) /\ teamCalls' = teamCalls
      /\ Becomes(c.dir, f) /\ n.dir = c.dir /\ n.kind = "save"
      /\ c.at \in WritePlaces /\ \A o \in Handlers : o # h => ~teamOps'[o].quiet
  BY <1>c DEF Saves, Written, Moves
<1>e. HalfWritten(c, teamDirs[n.dir]) => IF n.at = "readable" THEN Whole(f) /\ f.yaml = "full" ELSE HalfWritten(n, f)
  BY <1>c DEF Saves
<1>f. n = teamOps'[h]
  BY <1>d, MovesIs
<1>g. PICK dir \in Dirs : dir = c.dir /\ teamDirs'[dir] = f /\ \A e \in Dirs : e # dir => teamDirs'[e] = teamDirs[e]
  BY <1>d DEF Becomes
<1>h. WritingTo(h, dir) /\ (WritingTo(h, dir)' <=> n.at # "readable") /\ \A e \in Dirs : e # dir => ~WritingTo(h, e) /\ ~WritingTo(h, e)'
  BY <1>b, <1>c, <1>d, <1>f, <1>g DEF WritingTo, WritePlaces
<1>1. Keeps
  BY <1>a, <1>b, <1>d DEF Keeps, TeamsTyped
<1>2. TeamsTyped' /\ HandlersOK'
  BY <1>a, <1>d, <1>1, TypesStay
<1>3. AloneIsAlone'
  BY <1>a, <1>d, AloneStays
<1>4. QuietIsQuiet'
  <2>1. CallAgrees(n)'
    BY <1>b, <1>d DEF CallAgrees, WritePlaces
  <2> QED BY <1>d, <1>f, <2>1, QuietWriting
<1>5. DirsOK'
  <2>1. ASSUME NEW d \in Dirs \ torn' PROVE DirOK(d)'
    <3>1. DirOK(d)
      BY <1>a, <1>b, <2>1 DEF DirsOK
    <3>2. CASE d # dir
      BY <1>d, <1>g, <1>h, <3>1, <3>2, DirOther
    <3>3. CASE d = dir
      <4>1. \A o \in Handlers : o # h => ~WritingTo(o, d)
        BY <1>h, <3>1, <3>3 DEF DirOK
      <4>2. HalfWritten(c, teamDirs[d])
        BY <1>c, <1>h, <3>1, <3>3 DEF DirOK
      <4>3. IF n.at = "readable" THEN Whole(f) /\ f.yaml = "full" ELSE HalfWritten(n, f)
        BY <1>d, <1>e, <1>g, <3>3, <4>2
      <4>4. WritingTo(h, d)' => HalfWritten(n, teamDirs'[d])
        BY <1>g, <1>h, <3>3, <4>3
      <4>5. ~WritingTo(h, d)' => Whole(teamDirs'[d])
        BY <1>g, <1>h, <3>3, <4>3
      <4> QED BY <1>d, <4>1, <4>4, <4>5, DirNew
    <3> QED BY <3>2, <3>3
  <2>2. CopyOK(n)'
    BY <1>b DEF CopyOK, WritePlaces
  <2>3. Machine \in torn' \/ Uniform(defaultTeam')
    BY <1>a, <1>b DEF DirsOK
  <2> QED BY <1>a, <1>d, <2>1, <2>2, <2>3, DirsStep
<1>6. AloneIsRight'
  <2>1. SeenRight(n)'
    BY <1>b DEF SeenRight, WritePlaces
  <2> QED BY <1>a, <1>d, <2>1, RightStays
<1>7. ProfilesOK'
  <2>1. ASSUME NEW p \in 1..MaxProjects, ProfileOK(<<p, profileOf[p]>>), NEW d, d = <<p, profileOf[p]>> PROVE ProfileOK(d)'
    <3>1. d \in Dirs /\ ProfileOK(d)
      BY <1>a, <2>1, PathsAre DEF Dirs
    <3>2. CASE d # dir
      BY <1>b, <1>d, <1>g, <1>h, <3>1, <3>2, ProfileStays
    <3>3. CASE d = dir /\ n.at # "readable"
      BY <1>h, <3>3 DEF ProfileOK
    <3>4. CASE d = dir /\ d \in torn
      BY <1>b, <3>4 DEF ProfileOK
    <3>5. CASE d = dir /\ d \notin torn /\ n.at = "readable"
      <4>1. HalfWritten(c, teamDirs[d])
        BY <1>a, <1>c, <1>h, <3>1, <3>5 DEF DirsOK, DirOK
      <4>2. teamDirs'[d].yaml = "full"
        BY <1>d, <1>e, <1>g, <3>5, <4>1
      <4>3. Readable(d)' = teamDirs'[d]
        BY <4>2 DEF Readable, HasSpec
      <4> QED BY <4>2, <4>3 DEF ProfileOK
    <3> QED BY <3>2, <3>3, <3>4, <3>5
  <2> QED BY <1>a, <1>b, <2>1, ProfilesStep
<1> QED BY <1>2, <1>3, <1>4, <1>5, <1>6, <1>7 DEF StateOK

LEMMA OverlapsIs ==
  ASSUME TeamsTyped, NEW h, NEW dir \in Dirs, Overlaps(h, dir)
  PROVE  /\ torn \subseteq torn' /\ torn' \subseteq Dirs \cup {Machine}
         /\ dir \notin torn' => \A o \in Handlers : o # h => ~WritingTo(o, dir)
BY DEF TeamsTyped, Overlaps

LEMMA SaversKeep ==
  ASSUME StateOK, NEW h \in Handlers, OpenSpec(h) \/ WriteSpec(h) \/ writeSoulSpec(h) \/ RemoveOrphans(h)
  PROVE  StateOK' /\ UNCHANGED teamRuns
<1>1. TeamsTyped /\ HandlersOK
  BY DEF StateOK
<1>2. UNCHANGED <<projectPaths, activeProject, profileOf, raced, defaultTeam, teamRuns>>
  BY DEF OpenSpec, WriteSpec, writeSoulSpec, RemoveOrphans, settingsOfTeams, ghostsOfTeams
<1>3. PICK c \in Calls : c = teamOps[h]
  BY <1>1, PathsAre
<1>4. torn \subseteq Dirs \cup {Machine}
  BY <1>1 DEF TeamsTyped
<1>5. ASSUME NEW n \in Calls, NEW f \in Files, Written(h, c, n, f)
      PROVE  n.dir = c.dir /\ n.dir \in Dirs /\ n.cfg = c.cfg /\ n.old = c.old /\ c.left \subseteq TeamAgents
  BY <1>3, <1>5, CallsAre DEF Written, Becomes
<1>6. CASE OpenSpec(h)
  <2>1. PICK n \in Calls, f \in Files :
           /\ Written(h, c, n, f) /\ c.at = "cut" /\ n.at = "spec"
           /\ f.yaml = "cut" /\ f.souls = teamDirs[n.dir].souls
    BY <1>1, <1>3, <1>6, OpenSpecIs
  <2>2. n.dir = c.dir /\ n.dir \in Dirs /\ n.old = c.old
    BY <1>5, <2>1
  <2>3. Overlaps(h, n.dir)
    BY <1>3, <1>6, <2>2 DEF OpenSpec
  <2>4. torn \subseteq torn' /\ torn' \subseteq Dirs \cup {Machine}
    BY <1>1, <2>2, <2>3, OverlapsIs
  <2>5. HalfWritten(c, teamDirs[n.dir]) => HalfWritten(n, f)
    BY <2>1, <2>2 DEF HalfWritten
  <2>6. Saves(h, n, f)
    BY <1>2, <1>3, <2>1, <2>4, <2>5 DEF Saves, WritePlaces
  <2> QED BY <1>2, <2>6, SavesKeep
<1>7. CASE WriteSpec(h)
  <2>1. PICK n \in Calls, f \in Files :
           /\ Written(h, c, n, f) /\ c.at = "spec" /\ n.at = "soul" /\ n.left = n.cfg.members
           /\ f.yaml = "full" /\ f.spec = n.cfg /\ f.souls = teamDirs[n.dir].souls
    BY <1>1, <1>3, <1>7, WriteSpecIs
  <2>2. n.dir = c.dir /\ n.dir \in Dirs /\ n.old = c.old /\ n.cfg = c.cfg
    BY <1>5, <2>1
  <2>3. torn' = torn
    BY <1>7 DEF WriteSpec, ghostsOfTeams
  <2>4. HalfWritten(c, teamDirs[n.dir]) => HalfWritten(n, f)
    BY <2>1, <2>2 DEF HalfWritten
  <2>5. Saves(h, n, f)
    BY <1>2, <1>3, <1>4, <2>1, <2>3, <2>4 DEF Saves, WritePlaces
  <2> QED BY <1>2, <2>5, SavesKeep
<1>8. CASE writeSoulSpec(h)
  <2>1. PICK n \in Calls, f \in Files, a \in c.left :
           /\ Written(h, c, n, f)
           /\ \/ c.at = "soul" /\ n.at = "write" /\ n.left = c.left /\ Soul(f, teamDirs[n.dir], a, 0)
              \/ /\ c.at = "write" /\ n.at = "soul" /\ n.left = c.left \ {a}
                 /\ Soul(f, teamDirs[n.dir], a, n.cfg.nr)
    BY <1>1, <1>3, <1>8, WriteSoulIs
  <2>2. n.dir = c.dir /\ n.dir \in Dirs /\ n.old = c.old /\ n.cfg = c.cfg
    BY <1>5, <2>1
  <2>3. torn' = torn
    BY <1>8 DEF writeSoulSpec, ghostsOfTeams
  <2>4. c.left \subseteq c.cfg.members
    BY <1>1, <1>3, <2>1 DEF HandlersOK, HandlerOK
  <2>5. PICK g : g = teamDirs[n.dir]
    OBVIOUS
  <2>6. ASSUME HalfWritten(c, g) PROVE HalfWritten(n, f)
    <3>1. /\ g.yaml = "full" /\ g.spec = c.cfg /\ DOMAIN g.souls \subseteq c.old \cup c.cfg.members
          /\ \A b \in c.cfg.members \ c.left : b \in DOMAIN g.souls /\ g.souls[b] = c.cfg.nr
      BY <2>1, <2>6 DEF HalfWritten
    <3>2. f.yaml = "full" /\ f.spec = n.cfg /\ DOMAIN f.souls \subseteq n.old \cup n.cfg.members
      BY <2>1, <2>2, <2>4, <2>5, <3>1 DEF Soul
    <3>3. \A b \in n.cfg.members \ n.left : b \in DOMAIN f.souls /\ f.souls[b] = n.cfg.nr
      BY <2>1, <2>2, <2>4, <2>5, <3>1 DEF Soul
    <3> QED BY <2>1, <3>2, <3>3 DEF HalfWritten
  <2>7. Saves(h, n, f)
    BY <1>2, <1>3, <1>4, <2>1, <2>3, <2>5, <2>6 DEF Saves, WritePlaces
  <2> QED BY <1>2, <2>7, SavesKeep
<1>9. CASE RemoveOrphans(h)
  <2>1. PICK n \in Calls, f \in Files :
           /\ Written(h, c, n, f) /\ c.at = "soul" /\ c.left = {} /\ n.at = "readable"
           /\ f.yaml = teamDirs[n.dir].yaml /\ f.spec = teamDirs[n.dir].spec
           /\ DOMAIN f.souls = DOMAIN teamDirs[n.dir].souls \ (n.old \ n.cfg.members)
           /\ \A a \in DOMAIN f.souls : f.souls[a] = teamDirs[n.dir].souls[a]
    BY <1>1, <1>3, <1>9, OrphansAre
  <2>2. n.dir = c.dir /\ n.dir \in Dirs /\ n.old = c.old /\ n.cfg = c.cfg
    BY <1>5, <2>1
  <2>3. torn' = torn
    BY <1>9 DEF RemoveOrphans, ghostsOfTeams
  <2>4. PICK g : g = teamDirs[n.dir]
    OBVIOUS
  <2>5. ASSUME HalfWritten(c, g) PROVE Whole(f) /\ f.yaml = "full"
    <3>1. /\ g.yaml = "full" /\ g.spec = c.cfg /\ DOMAIN g.souls \subseteq c.old \cup c.cfg.members
          /\ \A b \in c.cfg.members : b \in DOMAIN g.souls /\ g.souls[b] = c.cfg.nr
      BY <2>1, <2>5 DEF HalfWritten
    <3>2. f.yaml = "full" /\ f.spec = c.cfg
      BY <2>1, <2>4, <3>1
    <3>3. DOMAIN f.souls = c.cfg.members
      BY <2>1, <2>2, <2>4, <3>1
    <3>4. \A a \in c.cfg.members : f.souls[a] = c.cfg.nr
      BY <2>1, <2>4, <3>1, <3>3
    <3> QED BY <3>2, <3>3, <3>4 DEF Whole
  <2>6. Saves(h, n, f)
    BY <1>2, <1>3, <1>4, <2>1, <2>3, <2>4, <2>5 DEF Saves
  <2> QED BY <1>2, <2>6, SavesKeep
<1> QED BY <1>6, <1>7, <1>8, <1>9

\* A save begins to write: nobody else does, or its directory is torn.
LEMMA OldKeeps ==
  ASSUME StateOK, NEW h \in Handlers, referencedSoulFiles(h)
  PROVE  StateOK' /\ UNCHANGED teamRuns
<1>a. TeamsTyped /\ HandlersOK /\ AloneIsAlone /\ QuietIsQuiet /\ DirsOK /\ AloneIsRight /\ ProfilesOK
  BY DEF StateOK
<1>b. UNCHANGED <<projectPaths, activeProject, profileOf, raced, teamDirs, defaultTeam, teamRuns>>
  BY DEF referencedSoulFiles, settingsOfTeams, ghostsOfTeams
<1>c. PICK c : c = teamOps[h]
  OBVIOUS
<1>d. PICK n \in Calls :
           /\ Continues(h, c, n) /\ HandlerOK(n, Len(projectPaths)) /\ teamCalls' = teamCalls
           /\ c.at = "old" /\ c.dir \in Dirs
           /\ \/ n.at = "idle" /\ n = Free
              \/ /\ n.at = "cut" /\ n.dir = c.dir
                 /\ n.old = IF teamDirs[n.dir].yaml = "full" THEN teamDirs[n.dir].spec.members ELSE {}
  BY <1>a, <1>c, OldIs
<1>e. PICK dir \in Dirs : dir = c.dir
  BY <1>d
<1>f. Overlaps(h, dir)
  BY <1>c, <1>e DEF referencedSoulFiles
<1>g. /\ torn \subseteq torn' /\ torn' \subseteq Dirs \cup {Machine}
      /\ dir \notin torn' => \A o \in Handlers : o # h => ~WritingTo(o, dir)
  BY <1>a, <1>f, OverlapsIs
<1>h. Moves(h, n) /\ n = teamOps'[h]
  BY <1>c, <1>d, MovesIs DEF Moves
<1>i. \A e \in Dirs : ~WritingTo(h, e) /\ (e # dir => ~WritingTo(h, e)')
  BY <1>c, <1>d, <1>e, <1>h DEF WritingTo
<1>1. Keeps
  BY <1>a, <1>b, <1>d, <1>g DEF Keeps, TeamsTyped
<1>2. TeamsTyped' /\ HandlersOK'
  BY <1>a, <1>b, <1>d, <1>h, <1>1, TypesStay
<1>3. AloneIsAlone'
  BY <1>a, <1>h, AloneStays
<1>4. QuietIsQuiet'
  <2>1. CallAgrees(n)
    BY <1>d DEF CallAgrees
  <2> QED BY <1>a, <1>b, <1>h, <2>1, QuietReading
<1>5. DirsOK'
  <2>1. ASSUME NEW d \in Dirs \ torn' PROVE DirOK(d)'
    <3>1. DirOK(d)
      BY <1>a, <1>g, <2>1 DEF DirsOK
    <3>2. CASE d # dir
      BY <1>b, <1>h, <1>i, <3>1, <3>2, DirOther
    <3>3. CASE d = dir
      <4>1. \A o \in Handlers : o # h => ~WritingTo(o, d)
        BY <1>g, <2>1, <3>3
      <4>2. Whole(teamDirs[d])
        BY <1>i, <3>1, <4>1 DEF DirOK
      <4>3. teamDirs[d] \in Files
        BY <1>a, PathsAre
      <4>4. WritingTo(h, d)' => HalfWritten(n, teamDirs'[d])
        <5>1. ASSUME WritingTo(h, d)' PROVE n.at = "cut" /\ n.dir = d
          BY <1>d, <1>h, <5>1 DEF WritingTo
        <5>2. n.at = "cut" /\ n.dir = d => HalfWritten(n, teamDirs[d])
          BY <1>d, <4>2, <4>3, FilesAre DEF HalfWritten, Whole
        <5> QED BY <1>b, <5>1, <5>2
      <4>5. Whole(teamDirs'[d])
        BY <1>b, <4>2
      <4> QED BY <1>h, <4>1, <4>4, <4>5, DirNew
    <3> QED BY <3>2, <3>3
  <2>2. CopyOK(n)'
    BY <1>d DEF CopyOK
  <2>3. Machine \in torn' \/ Uniform(defaultTeam')
    BY <1>a, <1>b, <1>g DEF DirsOK
  <2> QED BY <1>a, <1>h, <2>1, <2>2, <2>3, DirsStep
<1>6. AloneIsRight'
  <2>1. SeenRight(n)'
    BY <1>d DEF SeenRight
  <2> QED BY <1>a, <1>h, <2>1, RightStays
<1>7. ProfilesOK'
  <2>1. ASSUME NEW p \in 1..MaxProjects, ProfileOK(<<p, profileOf[p]>>), NEW d, d = <<p, profileOf[p]>> PROVE ProfileOK(d)'
    <3>1. d \in Dirs /\ ProfileOK(d)
      BY <1>a, <2>1, PathsAre DEF Dirs
    <3>2. teamDirs'[d] = teamDirs[d] /\ (d \in torn => d \in torn') /\ ~WritingTo(h, d)
      BY <1>b, <1>g, <1>i, <3>1
    <3> QED BY <1>h, <3>1, <3>2, ProfileStays
  <2> QED BY <1>a, <1>b, <2>1, ProfilesStep
<1> QED BY <1>b, <1>2, <1>3, <1>4, <1>5, <1>6, <1>7 DEF StateOK

-----------------------------------------------------------------------------
(* The steps of a profile.                                                 *)

LEMMA CreateKeeps ==
  ASSUME StateOK, NEW h \in Handlers, CreateProfile(h)
  PROVE  StateOK' /\ UNCHANGED teamRuns
<1>a. TeamsTyped /\ HandlersOK /\ AloneIsAlone /\ QuietIsQuiet /\ DirsOK /\ AloneIsRight /\ ProfilesOK
  BY DEF StateOK
<1>b. UNCHANGED <<projectPaths, activeProject, profileOf, raced, defaultTeam, teamRuns>>
  BY DEF CreateProfile, settingsOfTeams
<1>c. PICK n \in Calls : \E p, q \in TeamProfiles : Created(h, n, p, q)
  BY <1>a, CreateIs
<1>d. PICK p, q \in TeamProfiles : Created(h, n, p, q)
  BY <1>c
<1>e. PICK dir, src : dir = <<activeProject, p>> /\ src = <<activeProject, q>>
  OBVIOUS
<1>f. /\ Starts(h, teamOps[h], n) /\ HandlerOK(n, Len(projectPaths))
      /\ n.at = "copy" /\ n.project = activeProject /\ n.name = p /\ n.from = Readable(src)
      /\ src \in Dirs /\ teamDirs[dir].yaml = "gone" /\ HasSpec(n.from)
      /\ Becomes(dir, WithoutTeam("none"))
      /\ torn' = IF src \in torn THEN torn \cup {dir} ELSE torn
  BY <1>d, <1>e DEF Created
<1>g. /\ dir \in Dirs /\ teamDirs'[dir] = WithoutTeam("none") /\ \A e \in Dirs : e # dir => teamDirs'[e] = teamDirs[e]
      /\ torn \subseteq torn' /\ torn' \subseteq Dirs \cup {Machine}
  BY <1>a, <1>f DEF Becomes, TeamsTyped
<1>h. Moves(h, n) /\ n = teamOps'[h] /\ teamCalls' \in 0..MaxTeamCalls /\ teamOps[h].at = "idle"
  BY <1>f, MovesIs DEF Moves, Starts
<1>i. \A e \in Dirs : ~WritingTo(h, e) /\ ~WritingTo(h, e)'
  BY <1>f, <1>h DEF WritingTo
<1>j. WithoutTeam("none").yaml = "none" /\ DOMAIN WithoutTeam("none").souls = {} /\ Whole(WithoutTeam("none"))
  BY NoTeamIs
<1>1. Keeps
  BY <1>a, <1>b, <1>g, <1>h DEF Keeps, TeamsTyped
<1>2. TeamsTyped' /\ HandlersOK'
  BY <1>a, <1>f, <1>h, <1>1, TypesStay
<1>3. AloneIsAlone'
  BY <1>a, <1>h, AloneStays
<1>k. \A e \in Dirs : \/ Readable(e)' = Readable(e)
                      \/ Readable(e)'.yaml = "none" /\ Readable(e).yaml = "gone" /\ e = dir
  BY <1>f, <1>g, <1>j DEF Readable, HasSpec
<1>4. QuietIsQuiet'
  <2>1. CallAgrees(n)'
    BY <1>f DEF CallAgrees
  <2>2. ASSUME NEW o \in Handlers, o # h, teamOps'[o].quiet PROVE CallAgrees(teamOps[o])'
    <3>1. PICK c, b : c = teamOps'[o] /\ b = teamOps[o]
      OBVIOUS
    <3>2. Like(c, b) /\ c.quiet /\ b.quiet
      BY <1>h, <2>2, <3>1, MovesIs DEF Like
    <3>3. CallAgrees(b) /\ HandlerOK(b, Len(projectPaths))
      BY <1>a, <3>1, <3>2 DEF QuietIsQuiet, HandlersOK
    <3>4. c.at = b.at /\ c.kind = b.kind /\ c.project = b.project /\ c.dir = b.dir /\ c.team = b.team
      BY <3>2 DEF Like
    <3>5. c.at \in {"souls", "loaded"} => c.dir \in Dirs
      BY <3>3, <3>4 DEF HandlerOK
    <3>6. PICK f, g : f = Readable(c.dir) /\ g = Readable(c.dir)'
      OBVIOUS
    <3>7. c.at = "souls" => f.yaml = "full" /\ f = g
      BY <1>k, <3>3, <3>4, <3>5, <3>6 DEF CallAgrees
    <3>8. c.at = "loaded" => TeamIn(f) = TeamIn(g)
      <4>1. c.at = "loaded" => f = g \/ (~Loadable(f) /\ ~Loadable(g))
        BY <1>k, <3>5, <3>6 DEF Loadable
      <4> QED BY <4>1 DEF TeamIn
    <3>9. TeamIn(g)' = TeamIn(g) /\ UNCHANGED <<activeProject, profileOf>>
      BY <1>b DEF TeamIn
    <3>10. c.at = "loaded" => c.team = TeamIn(f)
      BY <3>3, <3>4, <3>6 DEF CallAgrees
    <3>11. CallAgrees(c)'
      <4>1. (c.kind = "run" /\ c.at = "profile" => c.project = activeProject)'
        BY <3>3, <3>4, <3>9 DEF CallAgrees
      <4>2. (c.kind = "run" /\ c.at \in {"readable", "souls", "loaded"} => c.dir = <<activeProject, profileOf[activeProject]>>)'
        BY <3>3, <3>4, <3>9 DEF CallAgrees
      <4>3. (c.at = "souls" => /\ Readable(c.dir).yaml = "full" /\ c.team.spec = Readable(c.dir).spec
                       /\ \A a \in DOMAIN c.team.souls :
                            a \in DOMAIN Readable(c.dir).souls /\ c.team.souls[a] = Readable(c.dir).souls[a])'
        BY <3>3, <3>4, <3>6, <3>7 DEF CallAgrees
      <4>4. (c.at = "loaded" => c.team = TeamIn(Readable(c.dir)))'
        BY <3>6, <3>8, <3>9, <3>10
      <4> QED BY <4>1, <4>2, <4>3, <4>4 DEF CallAgrees
    <3> QED BY <3>1, <3>11 DEF CallAgrees, Readable, TeamIn
  <2>3. CallAgrees(teamOps[h])'
    BY <1>h, <2>1 DEF CallAgrees, Readable, TeamIn
  <2>4. ASSUME NEW o \in Handlers, teamOps'[o].quiet PROVE CallAgrees(teamOps[o])'
    BY <2>2, <2>3, <2>4
  <2> QED BY <2>4 DEF QuietIsQuiet
<1>5. DirsOK'
  <2>1. ASSUME NEW d \in Dirs \ torn' PROVE DirOK(d)'
    <3>1. DirOK(d)
      BY <1>a, <1>g, <2>1 DEF DirsOK
    <3>2. CASE d # dir
      BY <1>g, <1>h, <1>i, <3>1, <3>2, DirOther
    <3>3. CASE d = dir
      <4>1. \A c : HalfWritten(c, teamDirs[d]) => HalfWritten(c, teamDirs'[d])
        BY <1>f, <1>g, <1>j, <3>3 DEF HalfWritten
      <4>2. Whole(teamDirs'[d])
        BY <1>g, <1>j, <3>3
      <4> QED BY <1>h, <1>i, <3>1, <4>1, <4>2, DirLike
    <3> QED BY <3>2, <3>3
  <2>2. ASSUME n.alone, <<n.project, n.name>> \notin torn' PROVE n.from.yaml = "full" /\ Whole(n.from)
    <3>1. src \notin torn
      BY <1>e, <1>f, <2>2
    <3>2. DirOK(src)
      BY <1>a, <1>f, <3>1 DEF DirsOK
    <3>3. \A o \in Handlers : teamOps[o].at = "idle"
      BY <1>f, <2>2 DEF Starts
    <3>4. \A o \in Handlers : ~WritingTo(o, src)
      BY <3>3 DEF WritingTo
    <3>5. Whole(teamDirs[src])
      BY <3>2, <3>4 DEF DirOK
    <3>6. Whole(n.from)
      BY <1>a, <1>f, <3>5, ReadableIs, ShippedIs
    <3> QED BY <1>f, <3>6 DEF HasSpec, Whole
  <2>3. CopyOK(n)'
    BY <2>2 DEF CopyOK, Whole
  <2>4. Machine \in torn' \/ Uniform(defaultTeam')
    BY <1>a, <1>b, <1>g DEF DirsOK
  <2> QED BY <1>a, <1>h, <2>1, <2>3, <2>4, DirsStep
<1>6. AloneIsRight'
  <2>1. SeenRight(n)'
    BY <1>f DEF SeenRight
  <2> QED BY <1>a, <1>h, <2>1, RightStays
<1>7. ProfilesOK'
  <2>1. ASSUME NEW i \in 1..MaxProjects, ProfileOK(<<i, profileOf[i]>>), NEW d, d = <<i, profileOf[i]>> PROVE ProfileOK(d)'
    <3>1. d \in Dirs /\ ProfileOK(d)
      BY <1>a, <2>1, PathsAre DEF Dirs
    <3>2. CASE d # dir
      BY <1>g, <1>h, <1>i, <3>1, <3>2, ProfileStays
    <3>3. CASE d = dir /\ d \in torn
      BY <1>g, <3>3 DEF ProfileOK
    <3>4. CASE d = dir /\ \E o \in Handlers : WritingTo(o, d)
      <4>1. PICK o \in Handlers : WritingTo(o, d)
        BY <3>4
      <4>2. o # h
        BY <1>i, <3>1, <4>1
      <4>3. WritingTo(o, d)'
        BY <1>h, <4>1, <4>2, MovesIs DEF WritingTo, Like
      <4> QED BY <4>3 DEF ProfileOK
    <3>5. CASE d = dir /\ Readable(d).yaml = "full"
      <4>1. Readable(d)' = Readable(d)
        BY <1>k, <3>1, <3>5
      <4> QED BY <3>5, <4>1 DEF ProfileOK
    <3> QED BY <3>1, <3>2, <3>3, <3>4, <3>5 DEF ProfileOK
  <2> QED BY <1>a, <1>b, <2>1, ProfilesStep
<1> QED BY <1>b, <1>2, <1>3, <1>4, <1>5, <1>6, <1>7 DEF StateOK

LEMMA CopyKeeps ==
  ASSUME StateOK, NEW h \in Handlers, copyFS(h)
  PROVE  StateOK' /\ UNCHANGED teamRuns
<1>a. TeamsTyped /\ HandlersOK /\ AloneIsAlone /\ QuietIsQuiet /\ DirsOK /\ AloneIsRight /\ ProfilesOK
  BY DEF StateOK
<1>b. UNCHANGED <<projectPaths, activeProject, profileOf, raced, defaultTeam, teamRuns>>
  BY DEF copyFS, settingsOfTeams
<1>c. PICK c : c = teamOps[h]
  OBVIOUS
<1>d. PICK n \in Calls :
           /\ Continues(h, c, n) /\ HandlerOK(n, Len(projectPaths)) /\ teamCalls' = teamCalls
           /\ c.at = "copy" /\ Becomes(<<c.project, c.name>>, c.from)
           /\ n.at = "source" /\ n.project = activeProject /\ \A o \in Handlers : o # h => ~teamOps'[o].quiet
  BY <1>a, <1>c, CopyIs
<1>e. PICK dir \in Dirs : dir = <<c.project, c.name>>
  BY <1>d DEF Becomes
<1>f. torn' = IF c.alone /\ Loadable(c.from) THEN torn ELSE torn \cup {dir}
  BY <1>c, <1>e DEF copyFS
<1>g. /\ teamDirs'[dir] = c.from /\ \A e \in Dirs : e # dir => teamDirs'[e] = teamDirs[e]
      /\ torn \subseteq torn' /\ torn' \subseteq Dirs \cup {Machine}
  BY <1>a, <1>d, <1>e, <1>f DEF Becomes, TeamsTyped
<1>h. Moves(h, n) /\ n = teamOps'[h]
  BY <1>c, <1>d, MovesIs DEF Moves
<1>i. \A e \in Dirs : ~WritingTo(h, e) /\ ~WritingTo(h, e)'
  BY <1>c, <1>d, <1>h DEF WritingTo
<1>1. Keeps
  BY <1>a, <1>b, <1>d, <1>g DEF Keeps, TeamsTyped
<1>2. TeamsTyped' /\ HandlersOK'
  BY <1>a, <1>d, <1>h, <1>1, TypesStay
<1>3. AloneIsAlone'
  BY <1>a, <1>h, AloneStays
<1>4. QuietIsQuiet'
  <2>1. CallAgrees(n)'
    BY <1>d DEF CallAgrees
  <2> QED BY <1>d, <1>h, <2>1, QuietWriting
<1>5. DirsOK'
  <2>1. ASSUME NEW d \in Dirs \ torn' PROVE DirOK(d)'
    <3>1. DirOK(d) /\ d \notin torn
      BY <1>a, <1>g, <2>1 DEF DirsOK
    <3>2. CASE d # dir
      BY <1>g, <1>h, <1>i, <3>1, <3>2, DirOther
    <3>3. CASE d = dir
      <4>1. c.alone
        BY <1>f, <2>1, <3>3
      <4>2. \A o \in Handlers : o # h => teamOps[o].at = "idle"
        BY <1>a, <1>c, <4>1 DEF AloneIsAlone
      <4>3. \A o \in Handlers : o # h => ~WritingTo(o, d)
        BY <4>2 DEF WritingTo
      <4>4. Whole(c.from)
        BY <1>a, <1>c, <1>d, <1>e, <3>1, <3>3, <4>1 DEF DirsOK
      <4>5. Whole(teamDirs'[d]) /\ ~WritingTo(h, d)'
        BY <1>g, <1>i, <3>3, <4>4
      <4> QED BY <1>h, <4>3, <4>5, DirNew
    <3> QED BY <3>2, <3>3
  <2>2. CopyOK(n)'
    BY <1>d DEF CopyOK
  <2>3. Machine \in torn' \/ Uniform(defaultTeam')
    BY <1>a, <1>b, <1>g DEF DirsOK
  <2> QED BY <1>a, <1>h, <2>1, <2>2, <2>3, DirsStep
<1>6. AloneIsRight'
  <2>1. SeenRight(n)'
    BY <1>b, <1>d DEF SeenRight
  <2> QED BY <1>a, <1>h, <2>1, RightStays
<1>7. ProfilesOK'
  <2>1. ASSUME NEW p \in 1..MaxProjects, ProfileOK(<<p, profileOf[p]>>), NEW d, d = <<p, profileOf[p]>> PROVE ProfileOK(d)'
    <3>1. d \in Dirs /\ ProfileOK(d)
      BY <1>a, <2>1, PathsAre DEF Dirs
    <3>2. CASE d # dir
      BY <1>g, <1>h, <1>i, <3>1, <3>2, ProfileStays
    <3>3. CASE d = dir /\ d \in torn'
      BY <3>3 DEF ProfileOK
    <3>4. CASE d = dir /\ d \notin torn'
      <4>1. teamDirs'[d].yaml = "full"
        BY <1>f, <1>g, <3>4 DEF Loadable
      <4>2. Readable(d)' = teamDirs'[d]
        BY <4>1 DEF Readable, HasSpec
      <4> QED BY <4>1, <4>2 DEF ProfileOK
    <3> QED BY <3>2, <3>3, <3>4
  <2> QED BY <1>a, <1>b, <2>1, ProfilesStep
<1> QED BY <1>b, <1>2, <1>3, <1>4, <1>5, <1>6, <1>7 DEF StateOK

LEMMA DeleteKeeps ==
  ASSUME StateOK, NEW h \in Handlers, DeleteProfile(h)
  PROVE  StateOK' /\ UNCHANGED teamRuns
<1>a. TeamsTyped /\ HandlersOK /\ AloneIsAlone /\ QuietIsQuiet /\ DirsOK /\ AloneIsRight /\ ProfilesOK
  BY DEF StateOK
<1>b. UNCHANGED <<projectPaths, activeProject, profileOf, defaultTeam, teamRuns>>
  BY DEF DeleteProfile, settingsOfTeams
<1>c. PICK c : c = teamOps[h]
  OBVIOUS
<1>d. /\ Continues(h, c, Free) /\ HandlerOK(Free, Len(projectPaths)) /\ teamCalls' = teamCalls
      /\ \A o \in Handlers : o # h => ~teamOps'[o].quiet
      /\ c.at = "delete" /\ Becomes(<<activeProject, c.name>>, WithoutTeam("gone"))
  BY <1>a, <1>c, DeleteIs DEF Ends
<1>e. PICK dir \in Dirs : dir = <<activeProject, c.name>>
  BY <1>d DEF Becomes
<1>f. Overlaps(h, dir) /\ raced' = (raced \/ ~c.alone)
  BY <1>c, <1>e DEF DeleteProfile
<1>g. /\ teamDirs'[dir] = WithoutTeam("gone") /\ \A e \in Dirs : e # dir => teamDirs'[e] = teamDirs[e]
      /\ torn \subseteq torn' /\ torn' \subseteq Dirs \cup {Machine}
      /\ dir \notin torn' => \A o \in Handlers : o # h => ~WritingTo(o, dir)
  BY <1>a, <1>d, <1>e, <1>f, OverlapsIs DEF Becomes
<1>n. PICK n : n = Free /\ n.at = "idle" /\ ~n.quiet /\ ~n.alone
  BY FreeIs
<1>h. Moves(h, n) /\ n = teamOps'[h]
  BY <1>c, <1>d, <1>n, MovesIs DEF Moves
<1>i. \A e \in Dirs : ~WritingTo(h, e) /\ ~WritingTo(h, e)'
  BY <1>c, <1>d, <1>h, <1>n DEF WritingTo
<1>1. Keeps
  BY <1>a, <1>b, <1>d, <1>f, <1>g DEF Keeps, TeamsTyped
<1>2. TeamsTyped' /\ HandlersOK'
  BY <1>a, <1>d, <1>h, <1>n, <1>1, TypesStay
<1>3. AloneIsAlone'
  BY <1>a, <1>h, AloneStays
<1>4. QuietIsQuiet'
  BY <1>d, <1>h, <1>n, QuietWriting
<1>5. DirsOK'
  <2>1. ASSUME NEW d \in Dirs \ torn' PROVE DirOK(d)'
    <3>1. DirOK(d)
      BY <1>a, <1>g, <2>1 DEF DirsOK
    <3>2. CASE d # dir
      BY <1>g, <1>h, <1>i, <3>1, <3>2, DirOther
    <3>3. CASE d = dir
      <4>1. Whole(teamDirs'[d]) /\ ~WritingTo(h, d)'
        BY <1>g, <1>i, <3>3, NoTeamIs
      <4>2. \A o \in Handlers : o # h => ~WritingTo(o, d)
        BY <1>g, <2>1, <3>3
      <4> QED BY <1>h, <4>1, <4>2, DirNew
    <3> QED BY <3>2, <3>3
  <2>2. CopyOK(n)'
    BY <1>n DEF CopyOK
  <2>3. Machine \in torn' \/ Uniform(defaultTeam')
    BY <1>a, <1>b, <1>g DEF DirsOK
  <2> QED BY <1>a, <1>h, <2>1, <2>2, <2>3, DirsStep
<1>6. AloneIsRight'
  BY <1>a, <1>h, <1>n, RightStays
<1>7. ProfilesOK'
  <2>1. ASSUME ~raced', NEW p \in 1..MaxProjects, ProfileOK(<<p, profileOf[p]>>), NEW d, d = <<p, profileOf[p]>> PROVE ProfileOK(d)'
    <3>1. d \in Dirs /\ ProfileOK(d)
      BY <1>a, <2>1, PathsAre DEF Dirs
    <3>2. c.name # profileOf[activeProject]
      BY <1>a, <1>c, <1>d, <1>f, <2>1 DEF AloneIsRight, SeenRight
    <3>3. d # dir
      BY <1>e, <2>1, <3>2
    <3> QED BY <1>g, <1>h, <1>i, <3>1, <3>3, ProfileStays
  <2>2. raced => raced'
    BY <1>f
  <2> QED BY <1>a, <1>b, <2>1, <2>2, ProfilesStep
<1> QED BY <1>b, <1>2, <1>3, <1>4, <1>5, <1>6, <1>7 DEF StateOK

-----------------------------------------------------------------------------
(* The steps that change a setting or the default team.                    *)

LEMMA InsertKeeps ==
  ASSUME StateOK, NEW h \in Handlers, InsertProject(h)
  PROVE  StateOK' /\ UNCHANGED teamRuns
<1>a. TeamsTyped /\ HandlersOK /\ AloneIsAlone /\ QuietIsQuiet /\ DirsOK /\ AloneIsRight /\ ProfilesOK
  BY DEF StateOK
<1>b. UNCHANGED <<activeProject, profileOf, torn, teamDirs, defaultTeam, teamRuns>>
  BY DEF InsertProject
<1>c. PICK c : c = teamOps[h]
  OBVIOUS
<1>d. PICK n \in Calls : /\ Continues(h, c, n) /\ n.at \in Dull /\ HandlerOK(n, Len(projectPaths) + 1)
                         /\ teamCalls' = teamCalls /\ c.path \in ProjectPaths
  BY <1>a, <1>c, InsertIs
<1>e. /\ c.at = "insert" /\ Len(projectPaths) < MaxProjects /\ projectPaths' = Append(projectPaths, c.path)
      /\ raced' = (raced \/ RowsOf(c.path) # {})
  BY <1>c DEF InsertProject
<1>f. /\ Moves(h, n) /\ n = teamOps'[h] /\ n.at \notin WritePlaces \cup {"copy"} /\ CallAgrees(n) /\ SeenRight(n)
      /\ teamOps' \in [Handlers -> Calls] /\ OthersStay(h)
  BY <1>c, <1>d, MovesIs, DullReads DEF Moves, OthersStay
<1>g. /\ Len(projectPaths) \in Nat \ {0} /\ projectPaths \in Seq(ProjectPaths) /\ MaxProjects \in Nat
      /\ projectPaths' \in Seq(ProjectPaths) /\ Len(projectPaths') = Len(projectPaths) + 1
      /\ \A i \in 1..Len(projectPaths) : projectPaths'[i] = projectPaths[i]
      /\ projectPaths'[Len(projectPaths) + 1] = c.path
  BY <1>a, <1>d, <1>e, PathsAre, AppendProperties DEF TeamsTyped
<1>2. TeamsTyped' /\ HandlersOK'
  <2>1. Len(projectPaths') \in 1..MaxProjects /\ activeProject' \in 1..Len(projectPaths')
    BY <1>a, <1>b, <1>e, <1>g DEF TeamsTyped
  <2>2. TeamsTyped'
    BY <1>a, <1>b, <1>d, <1>e, <1>f, <1>g, <2>1 DEF TeamsTyped
  <2>3. PICK m \in Nat : m = Len(projectPaths) + 1 /\ Len(projectPaths) <= m /\ m = Len(projectPaths')
    BY <1>g
  <2>4. HandlerOK(teamOps'[h], m)
    BY <1>d, <1>f, <2>3
  <2>5. \A o \in Handlers : HandlerOK(teamOps'[o], m)
    BY <1>a, <1>f, <2>3, <2>4, HandlersStay
  <2>6. HandlersOK'
    <3>1. \A o \in Handlers : HandlerOK(teamOps[o], Len(projectPaths))'
      BY <2>3, <2>5 DEF HandlerOK
    <3> QED BY <1>a, <1>b, <3>1 DEF HandlersOK
  <2> QED BY <2>2, <2>6
<1>3. AloneIsAlone'
  BY <1>a, <1>f, AloneStays
<1>4. QuietIsQuiet'
  BY <1>a, <1>b, <1>f, QuietReading
<1>5. DirsOK'
  <2>1. c.at \notin WritePlaces
    BY <1>e DEF WritePlaces
  <2> QED BY <1>a, <1>b, <1>c, <1>f, <2>1, DirsStay
<1>6. AloneIsRight'
  <2>1. SeenRight(n)'
    BY <1>b, <1>f DEF SeenRight
  <2> QED BY <1>a, <1>f, <2>1, RightStays
<1>7. ProfilesOK'
  <2>1. ASSUME ~raced', NEW p \in 1..MaxProjects, NEW d, d = <<p, profileOf'[p]>> PROVE ProfileOK(d)'
    <3>1. d \in Dirs /\ ProfileOK(d)
      BY <1>a, <1>b, <1>e, <2>1, PathsAre DEF Dirs, ProfilesOK
    <3>2. ~WritingTo(h, d)
      BY <1>c, <1>e DEF WritingTo
    <3> QED BY <1>b, <1>f, <3>1, <3>2, ProfileStays
  <2>2. ASSUME ~raced' PROVE \A i, j \in 1..Len(projectPaths') : projectPaths'[i] = projectPaths'[j] => i = j
    <3>1. \A i, j \in 1..Len(projectPaths) : projectPaths[i] = projectPaths[j] => i = j
      BY <1>a, <1>e, <2>2 DEF ProfilesOK
    <3>2. \A i \in 1..Len(projectPaths) : projectPaths[i] # c.path
      BY <1>a, <1>e, <2>2, PathsAre DEF RowsOf
    <3>3. PICK m \in Nat : m = Len(projectPaths)
      BY <1>g
    <3>4. \A i \in 1..(m + 1) : i \in 1..m \/ i = m + 1
      OBVIOUS
    <3> QED BY <1>g, <3>1, <3>2, <3>3, <3>4
  <2> QED BY <2>1, <2>2, ProfilesAre
<1> QED BY <1>b, <1>2, <1>3, <1>4, <1>5, <1>6, <1>7 DEF StateOK

\* A setting or the default team is changed, and the call is over.
LEMMA EndsKeep ==
  ASSUME StateOK, NEW h \in Handlers, Ends(h), teamOps[h].at \notin WritePlaces, UNCHANGED teamDirs,
         torn' \ {Machine} = torn \ {Machine}, Machine \in torn' \/ Uniform(defaultTeam')
  PROVE  AloneIsAlone' /\ QuietIsQuiet' /\ DirsOK' /\ AloneIsRight' /\ \A d \in Dirs : ProfileOK(d) => ProfileOK(d)'
<1>a. TeamsTyped /\ HandlersOK /\ AloneIsAlone /\ DirsOK /\ Machine \notin Dirs
  BY TeamsAssumption DEF StateOK, Machine, Dirs
<1>b. PICK n : n = Free /\ n.at = "idle" /\ ~n.quiet /\ ~n.alone
  BY FreeIs
<1>c. Moves(h, n) /\ n = teamOps'[h] /\ \A o \in Handlers : o # h => ~teamOps'[o].quiet
  BY <1>b, MovesIs DEF Ends, Moves
<1>d. \A e \in Dirs : ~WritingTo(h, e) /\ ~WritingTo(h, e)' /\ (e \in torn <=> e \in torn')
  BY <1>a, <1>b, <1>c DEF WritingTo, WritePlaces
<1>1. AloneIsAlone'
  BY <1>a, <1>c, AloneStays
<1>2. QuietIsQuiet'
  BY <1>b, <1>c, QuietWriting
<1>3. DirsOK'
  <2>1. ASSUME NEW d \in Dirs \ torn' PROVE DirOK(d)'
    <3>1. DirOK(d)
      BY <1>a, <1>d, <2>1 DEF DirsOK
    <3> QED BY <1>c, <1>d, <3>1, DirOther
  <2>2. CopyOK(n)'
    BY <1>b DEF CopyOK
  <2> QED BY <1>a, <1>c, <2>1, <2>2, DirsStep
<1>4. AloneIsRight'
  BY <1>a, <1>b, <1>c, RightStays
<1>5. ASSUME NEW d \in Dirs, ProfileOK(d) PROVE ProfileOK(d)'
  BY <1>c, <1>d, <1>5, ProfileStays
<1> QED BY <1>1, <1>2, <1>3, <1>4, <1>5

\* The types, of a step that changes one setting.
LEMMA EndsTyped ==
  ASSUME TeamsTyped, HandlersOK, NEW h \in Handlers, Ends(h), UNCHANGED <<projectPaths, teamDirs>>,
         activeProject' \in 1..Len(projectPaths), profileOf' \in [1..MaxProjects -> TeamProfiles],
         defaultTeam' \in Team, Closed(defaultTeam'), torn' \subseteq Dirs \cup {Machine}, raced' \in BOOLEAN
  PROVE  TeamsTyped' /\ HandlersOK'
<1>1. PICK n : n = Free
  OBVIOUS
<1>2. Moves(h, n) /\ HandlerOK(n, Len(projectPaths)) /\ teamCalls' = teamCalls
  BY <1>1 DEF Ends, Moves
<1>3. n = teamOps'[h] /\ teamOps' \in [Handlers -> Calls] /\ OthersStay(h)
  BY <1>2, MovesIs DEF OthersStay
<1>4. \A o \in Handlers : HandlerOK(teamOps'[o], Len(projectPaths))
  BY <1>2, <1>3, PathsAre, HandlersStay
<1>5. TeamsTyped'
  BY <1>2, <1>3 DEF TeamsTyped
<1>6. HandlersOK'
  BY <1>4 DEF HandlersOK
<1> QED BY <1>5, <1>6

LEMMA SetActiveKeeps ==
  ASSUME StateOK, NEW h \in Handlers, SetActiveProject(h)
  PROVE  StateOK' /\ UNCHANGED teamRuns
<1>a. TeamsTyped /\ HandlersOK /\ DirsOK /\ ProfilesOK
  BY DEF StateOK
<1>b. /\ UNCHANGED <<projectPaths, profileOf, torn, raced, teamDirs, defaultTeam, teamRuns>>
      /\ teamOps[h].at = "activate" /\ activeProject' = teamOps[h].project
  BY DEF SetActiveProject, ghostsOfTeams
<1>c. Ends(h)
  BY <1>a, SettingIs
<1>d. activeProject' \in 1..Len(projectPaths)
  BY <1>a, <1>b DEF HandlersOK, HandlerOK
<1>1. TeamsTyped' /\ HandlersOK'
  BY <1>a, <1>b, <1>c, <1>d, EndsTyped DEF TeamsTyped, HandlersOK
<1>e. teamOps[h].at \notin WritePlaces /\ torn' \ {Machine} = torn \ {Machine} /\ (Machine \in torn' \/ Uniform(defaultTeam'))
  BY <1>a, <1>b DEF DirsOK, WritePlaces
<1>2. AloneIsAlone' /\ QuietIsQuiet' /\ DirsOK' /\ AloneIsRight' /\ \A d \in Dirs : ProfileOK(d) => ProfileOK(d)'
  BY <1>b, <1>c, <1>e, EndsKeep
<1>3. ProfilesOK'
  <2>1. ASSUME ~raced', NEW p \in 1..MaxProjects, NEW d, d = <<p, profileOf'[p]>> PROVE ProfileOK(d)'
    <3>1. d \in Dirs /\ ProfileOK(d)
      BY <1>a, <1>b, <2>1, PathsAre DEF Dirs, ProfilesOK
    <3> QED BY <1>2, <3>1
  <2>2. raced' \/ \A i, j \in 1..Len(projectPaths') : projectPaths'[i] = projectPaths'[j] => i = j
    BY <1>a, <1>b DEF ProfilesOK
  <2> QED BY <2>1, <2>2, ProfilesAre
<1> QED BY <1>b, <1>1, <1>2, <1>3 DEF StateOK

\* A profile that is selected by a call that is alone can be read.
LEMMA SetProfileKeeps ==
  ASSUME StateOK, NEW h \in Handlers, SetActiveProjectTeamProfile(h)
  PROVE  StateOK' /\ UNCHANGED teamRuns
<1>a. TeamsTyped /\ HandlersOK /\ DirsOK /\ ProfilesOK /\ AloneIsAlone /\ AloneIsRight
  BY DEF StateOK
<1>b. PICK c \in Calls : c = teamOps[h]
  BY <1>a, PathsAre
<1>c. /\ UNCHANGED <<projectPaths, activeProject, torn, teamDirs, defaultTeam, teamRuns>>
      /\ c.at = "select" /\ profileOf' = [profileOf EXCEPT ![c.project] = c.name] /\ raced' = (raced \/ ~c.alone)
  BY <1>b DEF SetActiveProjectTeamProfile
<1>d. Ends(h)
  BY <1>a, SettingIs
<1>e. c.project \in 1..MaxProjects /\ c.name \in TeamProfiles
  BY <1>a, <1>b, <1>c, CallsAre DEF HandlersOK, HandlerOK
<1>f. /\ profileOf' \in [1..MaxProjects -> TeamProfiles] /\ profileOf'[c.project] = c.name
      /\ \A p \in 1..MaxProjects : p # c.project => profileOf'[p] = profileOf[p]
  BY <1>a, <1>c, <1>e DEF TeamsTyped
<1>1. TeamsTyped' /\ HandlersOK'
  BY <1>a, <1>c, <1>d, <1>f, EndsTyped DEF TeamsTyped, HandlersOK
<1>g. teamOps[h].at \notin WritePlaces /\ torn' \ {Machine} = torn \ {Machine} /\ (Machine \in torn' \/ Uniform(defaultTeam'))
  BY <1>a, <1>b, <1>c DEF DirsOK, WritePlaces
<1>2. AloneIsAlone' /\ QuietIsQuiet' /\ DirsOK' /\ AloneIsRight' /\ \A d \in Dirs : ProfileOK(d) => ProfileOK(d)'
  BY <1>c, <1>d, <1>g, EndsKeep
<1>3. ProfilesOK'
  <2>1. ASSUME ~raced', NEW p \in 1..MaxProjects, NEW d, d = <<p, profileOf'[p]>> PROVE ProfileOK(d)'
    <3>1. d \in Dirs
      BY <1>f, <2>1 DEF Dirs
    <3>2. CASE p # c.project
      <4>1. ProfileOK(d)
        BY <1>a, <1>c, <1>f, <2>1, <3>2 DEF ProfilesOK
      <4> QED BY <1>2, <3>1, <4>1
    <3>3. CASE p = c.project
      <4>1. c.alone
        BY <1>c, <2>1
      <4>2. d = <<c.project, c.name>> /\ (c.name = "default" \/ HasSpec(teamDirs[d]))
        BY <1>a, <1>b, <1>c, <1>f, <2>1, <3>3, <4>1 DEF AloneIsRight, SeenRight
      <4>3. \A o \in Handlers : ~WritingTo(o, d)
        BY <1>a, <1>b, <1>c, <4>1 DEF AloneIsAlone, WritingTo
      <4>4. d \in torn \/ teamDirs[d].yaml # "cut"
        BY <1>a, <3>1, <4>3 DEF DirsOK, DirOK, Whole
      <4>5. d \in torn \/ Readable(d).yaml = "full"
        <5>1. d[2] = c.name
          BY <4>2
        <5> QED BY <4>2, <4>4, <5>1, ShippedIs DEF Readable, HasSpec
      <4>6. ProfileOK(d)
        BY <4>5 DEF ProfileOK
      <4> QED BY <1>2, <3>1, <4>6
    <3> QED BY <3>2, <3>3
  <2>2. raced' \/ \A i, j \in 1..Len(projectPaths') : projectPaths'[i] = projectPaths'[j] => i = j
    BY <1>a, <1>c DEF ProfilesOK
  <2> QED BY <2>1, <2>2, ProfilesAre
<1> QED BY <1>c, <1>1, <1>2, <1>3 DEF StateOK

\* What a call that nobody disturbed has loaded is of one save, but for IsTorn.
LEMMA LoadedIsRight ==
  ASSUME StateOK, NEW h \in Handlers, teamOps[h].at = "loaded", teamOps[h].quiet, ~IsTorn(teamOps[h])
  PROVE  Uniform(teamOps[h].team)
<1>a. TeamsTyped /\ HandlersOK /\ DirsOK /\ QuietIsQuiet
  BY DEF StateOK
<1>b. PICK c : c = teamOps[h] /\ c.dir \in Dirs /\ c.team = TeamIn(Readable(c.dir))
  BY <1>a DEF HandlersOK, HandlerOK, QuietIsQuiet, CallAgrees
<1>c. PICK f \in Files : f = Readable(c.dir) /\ (f = teamDirs[c.dir] \/ f = Shipped)
  BY <1>a, <1>b, ReadableIs
<1>1. CASE Loadable(f)
  <2>1. c.dir \notin torn /\ \A o \in Handlers : ~WritingTo(o, c.dir)
    BY <1>b, <1>c, <1>1 DEF IsTorn
  <2>2. Whole(teamDirs[c.dir])
    BY <1>a, <1>b, <2>1 DEF DirsOK, DirOK
  <2>3. Whole(f) /\ f.yaml = "full"
    BY <1>c, <1>1, <2>2, ShippedIs DEF Loadable
  <2>4. \A a \in f.spec.members : f.souls[a] = f.spec.nr
    BY <2>3 DEF Whole
  <2>5. c.team = TeamOf(f)
    BY <1>b, <1>c, <1>1 DEF TeamIn
  <2>6. c.team.spec = f.spec /\ \A a \in f.spec.members : c.team.souls[a] = f.souls[a]
    BY <2>5 DEF TeamOf
  <2> QED BY <1>b, <2>4, <2>6 DEF Uniform
<1>2. CASE ~Loadable(f)
  BY <1>a, <1>b, <1>c, <1>2 DEF IsTorn, TeamIn, DirsOK
<1> QED BY <1>1, <1>2

LEMMA SetDefaultKeeps ==
  ASSUME StateOK, NEW h \in Handlers, SetDefaultExecutionSnapshot(h)
  PROVE  StateOK' /\ UNCHANGED teamRuns
<1>a. TeamsTyped /\ HandlersOK /\ DirsOK /\ ProfilesOK
  BY DEF StateOK
<1>b. PICK c \in Calls : c = teamOps[h]
  BY <1>a, PathsAre
<1>c. /\ UNCHANGED <<projectPaths, activeProject, profileOf, raced, teamDirs, teamRuns>>
      /\ c.at = "loaded" /\ defaultTeam' = c.team
      /\ torn' = IF c.quiet /\ ~IsTorn(c) THEN torn \ {Machine} ELSE torn \cup {Machine}
  BY <1>b DEF SetDefaultExecutionSnapshot, settingsOfTeams
<1>d. Ends(h)
  BY <1>a, SettingIs
<1>e. defaultTeam' \in Team /\ Closed(defaultTeam')
  BY <1>a, <1>b, <1>c, CallsAre DEF HandlersOK, HandlerOK
<1>f. torn' \subseteq Dirs \cup {Machine} /\ torn' \ {Machine} = torn \ {Machine}
  BY <1>a, <1>c DEF TeamsTyped
<1>g. Machine \in torn' \/ Uniform(defaultTeam')
  BY <1>b, <1>c, LoadedIsRight
<1>1. TeamsTyped' /\ HandlersOK'
  BY <1>a, <1>c, <1>d, <1>e, <1>f, EndsTyped DEF TeamsTyped
<1>h. teamOps[h].at \notin WritePlaces
  BY <1>b, <1>c DEF WritePlaces
<1>2. AloneIsAlone' /\ QuietIsQuiet' /\ DirsOK' /\ AloneIsRight' /\ \A d \in Dirs : ProfileOK(d) => ProfileOK(d)'
  BY <1>c, <1>d, <1>f, <1>g, <1>h, EndsKeep
<1>3. ProfilesOK'
  <2>1. ASSUME ~raced', NEW p \in 1..MaxProjects, NEW d, d = <<p, profileOf'[p]>> PROVE ProfileOK(d)'
    <3>1. d \in Dirs /\ ProfileOK(d)
      BY <1>a, <1>c, <2>1, PathsAre DEF Dirs, ProfilesOK
    <3> QED BY <1>2, <3>1
  <2>2. raced' \/ \A i, j \in 1..Len(projectPaths') : projectPaths'[i] = projectPaths'[j] => i = j
    BY <1>a, <1>c DEF ProfilesOK
  <2> QED BY <2>1, <2>2, ProfilesAre
<1> QED BY <1>c, <1>1, <1>2, <1>3 DEF StateOK

-----------------------------------------------------------------------------
(* The runs, a restart, and the theorem.                                   *)

LEMMA TeamOfIs ==
  ASSUME NEW f \in Files, Loadable(f)
  PROVE  TeamOf(f) \in Team
<1>1. PICK m, s : m = f.spec.members /\ s = f.souls
  OBVIOUS
<1>2. m \subseteq DOMAIN s /\ m \subseteq TeamAgents /\ \A a \in DOMAIN s : s[a] \in Nat
  BY <1>1, FilesAre DEF Loadable
<1>3. [a \in m |-> s[a]] \in [m -> Nat]
  BY <1>2
<1>4. [a \in m |-> s[a]] \in SoulFiles
  BY <1>2, <1>3, SoulFilesAre
<1>5. TeamOf(f) = [spec |-> f.spec, souls |-> [a \in m |-> s[a]]] /\ f.spec \in TeamSpec
  BY <1>1, FilesAre DEF TeamOf
<1> QED BY <1>4, <1>5 DEF Team

LEMMA RunsStay ==
  ASSUME RunsOK, UNCHANGED teamRuns
  PROVE  RunsOK'
BY DEF RunsOK, RunOK, Closed, Uniform

\* One more run.
LEMMA RunsGrow ==
  ASSUME RunsOK, NEW r \in Run, RunOK(r), teamRuns' = Append(teamRuns, r),
         r.parent # 0 => r.parent \in 1..Len(teamRuns) /\ r.team = teamRuns[r.parent].team
  PROVE  RunsOK'
<1>1. PICK m \in Nat : m = Len(teamRuns)
  BY LenProperties DEF RunsOK
<1>2. /\ teamRuns' \in Seq(Run) /\ Len(teamRuns') = m + 1 /\ \A i \in 1..m : teamRuns'[i] = teamRuns[i]
      /\ teamRuns'[m + 1] = r
  BY <1>1, AppendProperties DEF RunsOK
<1>3. ASSUME NEW i \in 1..(m + 1)
      PROVE  RunOK(teamRuns'[i]) /\ (teamRuns'[i].parent # 0 => teamRuns'[i].parent \in 1..(i - 1) /\ teamRuns'[i].team = teamRuns'[teamRuns'[i].parent].team)
  <2>1. CASE i = m + 1
    <3>1. teamRuns'[i] = r
      BY <1>2, <2>1
    <3>2. r.parent # 0 => r.parent \in 1..m /\ r.parent \in 1..(i - 1) /\ r.team = teamRuns[r.parent].team
      BY <1>1, <2>1
    <3>3. r.parent # 0 => r.team = teamRuns'[r.parent].team
      BY <1>2, <3>2
    <3> QED BY <3>1, <3>2, <3>3
  <2>2. CASE i \in 1..m
    <3>1. teamRuns'[i] = teamRuns[i] /\ RunOK(teamRuns[i])
      BY <1>1, <1>2, <2>2 DEF RunsOK
    <3>2. teamRuns[i].parent # 0 => teamRuns[i].parent \in 1..(i - 1) /\ teamRuns[i].team = teamRuns[teamRuns[i].parent].team
      BY <1>1, <2>2 DEF RunsOK
    <3>3. teamRuns[i].parent # 0 => teamRuns[i].parent \in 1..m
      BY <2>2, <3>2
    <3>4. teamRuns[i].parent # 0 => teamRuns'[teamRuns[i].parent] = teamRuns[teamRuns[i].parent]
      BY <1>2, <3>3
    <3> QED BY <3>1, <3>2, <3>4
  <2> QED BY <1>1, <2>1, <2>2
<1>4. \A i \in 1..Len(teamRuns') :
        RunOK(teamRuns'[i]) /\ (teamRuns'[i].parent # 0 => teamRuns'[i].parent \in 1..(i - 1) /\ teamRuns'[i].team = teamRuns'[teamRuns'[i].parent].team)
  BY <1>2, <1>3
<1> QED BY <1>2, <1>4 DEF RunsOK, RunOK, Closed, Uniform

LEMMA RunStarts ==
  ASSUME TeamsInv, NEW h \in Handlers, executionSnapshotForContext(h)
  PROVE  TeamsInv'
<1>a. StateOK /\ RunsOK /\ TeamsTyped /\ HandlersOK /\ QuietIsQuiet
  BY DEF TeamsInv, StateOK
<1>b. PICK c \in Calls : c = teamOps[h]
  BY <1>a, PathsAre
<1>c. /\ UNCHANGED <<projectPaths, activeProject, profileOf, torn, raced, teamDirs, defaultTeam>>
      /\ c.at = "loaded" /\ c.kind = "run" /\ Goes(h, Free)
      /\ teamRuns' = Append(teamRuns, [team |-> c.team, now |-> ActiveTeam, quiet |-> c.quiet, torn |-> IsTorn(c), parent |-> 0])
  BY <1>b DEF executionSnapshotForContext, settingsOfTeams, ghostsOfTeams
<1>1. StateOK'
  <2>1. Continues(h, teamOps[h], Free) /\ HandlerOK(Free, Len(projectPaths)) /\ teamCalls' = teamCalls
    BY <1>a, <1>b, <1>c, EndsIs
  <2>2. teamOps[h].at \notin WritePlaces /\ Free.at \notin WritePlaces \cup {"copy"} /\ ~Free.quiet /\ ~Free.alone
    BY <1>b, <1>c, FreeIs DEF WritePlaces
  <2>3. ReadsOn(h, Free)
    BY <1>c, <2>1, <2>2 DEF ReadsOn
  <2> QED BY <1>a, <2>3, ReadsOnKeeps
<1>d. PICK now, tornNow : now = ActiveTeam /\ tornNow = IsTorn(c) /\ tornNow \in BOOLEAN
  <2>1. IsTorn(c) \in BOOLEAN
    <3>1. CASE Loadable(Readable(c.dir))
      <4>1. IsTorn(c) = (c.dir \in torn \/ \E o \in Handlers : WritingTo(o, c.dir))
        BY <3>1, Zenon DEF IsTorn
      <4>2. (c.dir \in torn \/ \E o \in Handlers : WritingTo(o, c.dir)) \in BOOLEAN
        OBVIOUS
      <4> QED BY <4>1, <4>2
    <3>2. CASE ~Loadable(Readable(c.dir))
      <4>1. IsTorn(c) = (Machine \in torn)
        BY <3>2, Zenon DEF IsTorn
      <4>2. (Machine \in torn) \in BOOLEAN
        OBVIOUS
      <4> QED BY <4>1, <4>2
    <3> QED BY <3>1, <3>2
  <2> QED BY <2>1
<1>e. PICK here : here = <<activeProject, profileOf[activeProject]>>
  OBVIOUS
<1>f. here \in Dirs
  BY <1>a, <1>e, PathsAre DEF Dirs
<1>g. now = TeamIn(Readable(here))
  BY <1>d, <1>e DEF ActiveTeam, TeamIn
<1>h. now \in Team
  <2>1. Readable(here) \in Files
    BY <1>a, <1>f, ReadableIs
  <2> QED BY <1>a, <1>g, <2>1, TeamOfIs DEF TeamIn, TeamsTyped
<1>i. tornNow \in BOOLEAN
  BY <1>d
<1>j. PICK r : r = [team |-> c.team, now |-> now, quiet |-> c.quiet, torn |-> tornNow, parent |-> 0]
  OBVIOUS
<1>k. r \in Run /\ r.team = c.team /\ r.now = now /\ r.quiet = c.quiet /\ r.torn = tornNow /\ r.parent = 0
  BY <1>h, <1>i, <1>j, CallsAre DEF Run, Calls
<1>2. Closed(c.team)
  BY <1>a, <1>b, <1>c DEF HandlersOK, HandlerOK
<1>3. c.quiet => c.team = now
  <2>1. c.quiet => c.dir = here /\ c.team = TeamIn(Readable(c.dir))
    BY <1>a, <1>b, <1>c, <1>e DEF QuietIsQuiet, CallAgrees
  <2> QED BY <1>g, <2>1
<1>4. c.quiet /\ ~tornNow => Uniform(c.team)
  BY <1>a, <1>b, <1>c, <1>d, LoadedIsRight
<1>5. RunOK(r)
  BY <1>k, <1>2, <1>3, <1>4 DEF RunOK
<1>6. teamRuns' = Append(teamRuns, r)
  BY <1>c, <1>d, <1>j
<1>7. RunsOK'
  BY <1>a, <1>k, <1>5, <1>6, RunsGrow
<1> QED BY <1>1, <1>7 DEF TeamsInv, StateOK

LEMMA StateStays ==
  ASSUME StateOK, UNCHANGED <<projectPaths, activeProject, profileOf, teamDirs, defaultTeam, teamOps, torn, raced, teamCalls>>
  PROVE  StateOK'
<1>1. TeamsTyped' /\ HandlersOK'
  BY DEF StateOK, TeamsTyped, HandlersOK, HandlerOK, HasFront, Closed
<1>2. AloneIsAlone' /\ AloneIsRight'
  BY DEF StateOK, AloneIsAlone, AloneIsRight, SeenRight, HasSpec
<1>3. QuietIsQuiet'
  BY DEF StateOK, QuietIsQuiet, CallAgrees, Readable, TeamIn
<1>4. DirsOK'
  BY DEF StateOK, DirsOK, DirOK, WritingTo, Whole, HalfWritten, Uniform, Dirs, Machine
<1>5. ProfilesOK'
  BY DEF StateOK, ProfilesOK, ProfileOK, Readable, WritingTo
<1> QED BY <1>1, <1>2, <1>3, <1>4, <1>5 DEF StateOK

LEMMA RunSpawns ==
  ASSUME TeamsInv, SpawnRun
  PROVE  TeamsInv'
<1>a. StateOK /\ RunsOK
  BY DEF TeamsInv, StateOK
<1>b. UNCHANGED <<projectPaths, activeProject, profileOf, teamDirs, defaultTeam, teamOps, torn, raced, teamCalls>>
  BY DEF SpawnRun, settingsOfTeams, ghostsOfTeams
<1>1. PICK i \in DOMAIN teamRuns : teamRuns' = Append(teamRuns, [teamRuns[i] EXCEPT !.parent = i])
  BY DEF SpawnRun
<1>2. i \in 1..Len(teamRuns) /\ i \in Nat /\ i # 0 /\ teamRuns[i] \in Run /\ Closed(teamRuns[i].team)
  <2>1. DOMAIN teamRuns = 1..Len(teamRuns) /\ \A j \in 1..Len(teamRuns) : teamRuns[j] \in Run
    BY <1>a, LenProperties, ElementOfSeq DEF RunsOK
  <2> QED BY <1>a, <1>1, <2>1 DEF RunsOK, RunOK
<1>3. PICK b, r : b = teamRuns[i] /\ r = [b EXCEPT !.parent = i]
  OBVIOUS
<1>4. r \in Run /\ r.parent = i /\ r.team = b.team
  BY <1>2, <1>3 DEF Run
<1>5. RunOK(r)
  BY <1>2, <1>3, <1>4 DEF RunOK
<1>6. RunsOK'
  BY <1>a, <1>1, <1>2, <1>3, <1>4, <1>5, RunsGrow
<1>7. StateOK'
  BY <1>a, <1>b, StateStays
<1> QED BY <1>6, <1>7 DEF TeamsInv, StateOK

LEMMA RestartKeeps ==
  ASSUME TeamsInv, RestartTeams
  PROVE  TeamsInv'
<1>a. TeamsTyped /\ HandlersOK /\ DirsOK /\ ProfilesOK /\ RunsOK
  BY DEF TeamsInv
<1>b. /\ UNCHANGED <<projectPaths, activeProject, profileOf, raced, teamDirs, teamRuns, teamCalls>>
      /\ torn' = (torn \ {Machine}) \cup {d \in Dirs : \E o \in Handlers : WritingTo(o, d)}
      /\ teamOps' = [h \in Handlers |-> Free] /\ defaultTeam' = TeamOf(Shipped)
  BY DEF RestartTeams, settingsOfTeams
<1>c. PICK free : free = Free /\ free \in Calls /\ free.at = "idle" /\ ~free.quiet /\ ~free.alone /\ \A nr : HandlerOK(free, nr)
  BY FreeIs
<1>d. teamOps' = [h \in Handlers |-> free]
  BY <1>b, <1>c
<1>e. \A h \in Handlers : teamOps'[h] = free
  BY <1>d
<1>f. defaultTeam' \in Team /\ Closed(defaultTeam') /\ Uniform(defaultTeam')
  BY <1>b, ShippedIs
<1>1. TeamsTyped'
  BY <1>a, <1>b, <1>c, <1>d, <1>f DEF TeamsTyped
<1>2. HandlersOK'
  <2>1. \A h \in Handlers : HandlerOK(teamOps'[h], Len(projectPaths'))
    BY <1>c, <1>e
  <2> QED BY <1>a, <1>b, <1>f, <2>1 DEF HandlersOK
<1>3. AloneIsAlone' /\ AloneIsRight'
  BY <1>c, <1>e DEF AloneIsAlone, AloneIsRight
<1>4. QuietIsQuiet'
  BY <1>c, <1>e DEF QuietIsQuiet
<1>g. Machine \notin Dirs
  BY TeamsAssumption DEF Machine, Dirs
<1>h. \A d, o : o \in Handlers => ~WritingTo(o, d)'
  BY <1>c, <1>e DEF WritingTo
<1>5. DirsOK'
  <2>1. ASSUME NEW d \in Dirs \ torn' PROVE DirOK(d)'
    <3>1. d \notin torn /\ \A o \in Handlers : ~WritingTo(o, d)
      BY <1>b, <1>g, <2>1
    <3>2. Whole(teamDirs[d])
      BY <1>a, <2>1, <3>1 DEF DirsOK, DirOK
    <3>3. Whole(teamDirs'[d])
      BY <1>b, <3>2
    <3> QED BY <1>h, <3>3 DEF DirOK, Whole
  <2>2. \A o \in Handlers : teamOps'[o].at # "copy"
    BY <1>c, <1>e
  <2>3. \A d \in (Dirs \ torn)' : DirOK(d)'
    BY <2>1 DEF Dirs
  <2>4. Uniform(defaultTeam)'
    BY <1>f DEF Uniform
  <2> QED BY <2>2, <2>3, <2>4 DEF DirsOK
<1>6. ProfilesOK'
  <2>1. ASSUME ~raced', NEW p \in 1..MaxProjects, NEW d, d = <<p, profileOf'[p]>> PROVE ProfileOK(d)'
    <3>1. d \in Dirs /\ ProfileOK(d)
      BY <1>a, <1>b, <2>1, PathsAre DEF Dirs, ProfilesOK
    <3>2. Readable(d)' = Readable(d)
      BY <1>b DEF Readable
    <3>3. d \in torn => d \in torn'
      BY <1>b, <1>g, <3>1
    <3>4. (\E o \in Handlers : WritingTo(o, d)) => d \in torn'
      BY <1>b, <3>1
    <3> QED BY <3>1, <3>2, <3>3, <3>4 DEF ProfileOK
  <2>2. raced' \/ \A i, j \in 1..Len(projectPaths') : projectPaths'[i] = projectPaths'[j] => i = j
    BY <1>a, <1>b DEF ProfilesOK
  <2> QED BY <2>1, <2>2, ProfilesAre
<1>7. RunsOK'
  BY <1>a, <1>b, RunsStay
<1> QED BY <1>1, <1>2, <1>3, <1>4, <1>5, <1>6, <1>7 DEF TeamsInv

LEMMA TeamsStep ==
  ASSUME TeamsInv, TeamsNext
  PROVE  TeamsInv'
<1>a. StateOK /\ RunsOK
  BY DEF TeamsInv, StateOK
<1>b. ASSUME StateOK' /\ UNCHANGED teamRuns PROVE TeamsInv'
  <2>1. RunsOK'
    BY <1>a, <1>b, RunsStay
  <2> QED BY <1>b, <2>1 DEF TeamsInv, StateOK
<1>1. ASSUME NEW h \in Handlers,
             ActivateProjectPath(h) \/ StartRun(h) \/ UpdateTeam(h) \/ SelectTeamProfile(h) \/ DeleteTeamProfile(h)
      PROVE  TeamsInv'
  BY <1>a, <1>b, <1>1, StartsKeep
<1>2. ASSUME NEW h \in Handlers,
             RegisterProjectPath(h) \/ resolveTeamDir(h) \/ LoadSpec(h) \/ LoadSoul(h) \/ resolveProfileSourceDir(h)
      PROVE  TeamsInv'
  BY <1>a, <1>b, <1>2, ReadersKeep
<1>3. ASSUME NEW h \in Handlers, OpenSpec(h) \/ WriteSpec(h) \/ writeSoulSpec(h) \/ RemoveOrphans(h) \/ referencedSoulFiles(h)
      PROVE  TeamsInv'
  BY <1>a, <1>b, <1>3, SaversKeep, OldKeeps
<1>4. ASSUME NEW h \in Handlers, InsertProject(h) \/ SetActiveProject(h) \/ SetActiveProjectTeamProfile(h) \/ SetDefaultExecutionSnapshot(h)
      PROVE  TeamsInv'
  BY <1>a, <1>b, <1>4, InsertKeeps, SetActiveKeeps, SetProfileKeeps, SetDefaultKeeps
<1>5. ASSUME NEW h \in Handlers, CreateProfile(h) \/ copyFS(h) \/ DeleteProfile(h)
      PROVE  TeamsInv'
  BY <1>a, <1>b, <1>5, CreateKeeps, CopyKeeps, DeleteKeeps
<1>6. ASSUME NEW h \in Handlers, executionSnapshotForContext(h)
      PROVE  TeamsInv'
  BY <1>6, RunStarts
<1>7. ASSUME SpawnRun \/ RestartTeams
      PROVE  TeamsInv'
  BY <1>7, RunSpawns, RestartKeeps
<1> QED BY <1>1, <1>2, <1>3, <1>4, <1>5, <1>6, <1>7 DEF TeamsNext

LEMMA TeamsStart ==
  ASSUME TeamsInit
  PROVE  TeamsInv
<1>a. /\ activeProject = 1 /\ profileOf = [p \in 1..MaxProjects |-> "default"]
      /\ teamDirs = [d \in Dirs |-> WithoutTeam("gone")] /\ defaultTeam = TeamOf(Shipped)
      /\ teamOps = [h \in Handlers |-> Free] /\ teamRuns = <<>> /\ torn = {} /\ raced = FALSE /\ teamCalls = 0
  BY DEF TeamsInit
<1>b. PICK path \in ProjectPaths : projectPaths = <<path>>
  <2>1. PICK path : path = CHOOSE p \in ProjectPaths : TRUE
    OBVIOUS
  <2>2. path \in ProjectPaths
    BY <2>1, TeamsAssumption
  <2> QED BY <2>1, <2>2 DEF TeamsInit
<1>c. projectPaths \in Seq(ProjectPaths) /\ Len(projectPaths) = 1 /\ MaxProjects \in Nat \ {0}
  BY <1>b, TeamsAssumption
<1>d. PICK free : free = Free /\ free \in Calls /\ free.at = "idle" /\ ~free.quiet /\ ~free.alone /\ \A nr : HandlerOK(free, nr)
  BY FreeIs
<1>e. teamOps = [h \in Handlers |-> free]
  BY <1>a, <1>d
<1>f. \A h \in Handlers : teamOps[h] = free
  BY <1>e
<1>g. defaultTeam \in Team /\ Closed(defaultTeam) /\ Uniform(defaultTeam)
  BY <1>a, ShippedIs
<1>h. PICK gone \in Files : gone = WithoutTeam("gone") /\ gone.yaml = "gone" /\ Whole(gone)
  BY NoTeamIs
<1>i. teamDirs = [d \in Dirs |-> gone]
  BY <1>a, <1>h
<1>1. TeamsTyped
  <2>1. projectPaths \in Seq(ProjectPaths) /\ Len(projectPaths) \in 1..MaxProjects /\ activeProject \in 1..Len(projectPaths)
    BY <1>a, <1>c
  <2>2. profileOf \in [1..MaxProjects -> TeamProfiles] /\ teamDirs \in [Dirs -> Files]
    BY <1>a, <1>h, <1>i, TeamsAssumption
  <2>3. teamOps \in [Handlers -> Calls] /\ defaultTeam \in Team
    BY <1>d, <1>e, <1>g
  <2>4. torn \subseteq Dirs \cup {Machine} /\ raced \in BOOLEAN /\ teamCalls \in 0..MaxTeamCalls
    <3>1. torn \subseteq Dirs \cup {Machine}
      BY <1>a
    <3>2. teamCalls \in 0..MaxTeamCalls
      BY <1>a, TeamsAssumption
    <3> QED BY <1>a, <3>1, <3>2
  <2> QED BY <2>1, <2>2, <2>3, <2>4 DEF TeamsTyped
<1>2. HandlersOK
  BY <1>d, <1>f, <1>g, <1>h, <1>i DEF HandlersOK, HasFront
<1>3. AloneIsAlone /\ AloneIsRight /\ QuietIsQuiet
  BY <1>d, <1>f DEF AloneIsAlone, AloneIsRight, QuietIsQuiet
<1>4. \A d, o : o \in Handlers => ~WritingTo(o, d)
  BY <1>d, <1>f DEF WritingTo
<1>5. DirsOK
  <2>1. ASSUME NEW d \in Dirs PROVE DirOK(d)
    BY <1>4, <1>h, <1>i, <2>1 DEF DirOK
  <2>2. \A o \in Handlers : teamOps[o].at # "copy"
    BY <1>d, <1>f
  <2> QED BY <1>g, <2>1, <2>2 DEF DirsOK
<1>6. ProfilesOK
  <2>1. ASSUME NEW p \in 1..MaxProjects PROVE ProfileOK(<<p, profileOf[p]>>)
    <3>1. PICK d : d = <<p, "default">>
      OBVIOUS
    <3>2. d = <<p, profileOf[p]>> /\ d \in Dirs /\ d[2] = "default"
      BY <1>a, <3>1, TeamsAssumption DEF Dirs
    <3>3. Readable(d) = Shipped
      BY <1>h, <1>i, <3>2 DEF Readable, HasSpec
    <3> QED BY <3>2, <3>3, ShippedIs DEF ProfileOK
  <2>2. \A i, j \in 1..Len(projectPaths) : projectPaths[i] = projectPaths[j] => i = j
    BY <1>c
  <2> QED BY <2>1, <2>2 DEF ProfilesOK
<1>7. RunsOK
  BY <1>a DEF RunsOK
<1> QED BY <1>1, <1>2, <1>3, <1>5, <1>6, <1>7 DEF TeamsInv

LEMMA TeamsAre ==
  ASSUME TeamsInv
  PROVE  TeamsTypeOK /\ TeamsAreClosed /\ TeamsAreAsSaved /\ TreesHaveOneTeam /\ NoSoulIsLeft /\ ProfilesAreThere
<1>a. TeamsTyped /\ HandlersOK /\ DirsOK /\ ProfilesOK /\ RunsOK
  BY DEF TeamsInv
<1>b. DOMAIN teamRuns = 1..Len(teamRuns)
  BY <1>a, LenProperties DEF RunsOK
<1>1. TeamsTypeOK
  <2>1. DOMAIN projectPaths = 1..Len(projectPaths) /\ Len(projectPaths) <= MaxProjects
    BY <1>a, PathsAre
  <2> QED BY <1>a, <2>1 DEF TeamsTypeOK, TeamsTyped
<1>2. TeamsAreClosed
  BY <1>a, <1>b DEF TeamsAreClosed, RunsOK, RunOK, Closed
<1>3. TeamsAreAsSaved
  BY <1>a, <1>b DEF TeamsAreAsSaved, RunsOK, RunOK, Uniform
<1>4. TreesHaveOneTeam
  BY <1>a, <1>b DEF TreesHaveOneTeam, RunsOK
<1>c. (\A h \in Handlers : teamOps[h] = Free) => \A d : \A h \in Handlers : ~WritingTo(h, d)
  BY FreeIs DEF WritingTo
<1>5. NoSoulIsLeft
  BY <1>a, <1>c DEF NoSoulIsLeft, DirsOK, DirOK, Whole
<1>6. ProfilesAreThere
  <2>1. DOMAIN projectPaths = 1..Len(projectPaths) /\ DOMAIN projectPaths \subseteq 1..MaxProjects
    BY <1>a, PathsAre
  <2>2. ASSUME ~raced, \A h \in Handlers : teamOps[h] = Free, NEW p \in DOMAIN projectPaths
        PROVE  Readable(<<p, profileOf[p]>>).yaml = "full" \/ <<p, profileOf[p]>> \in torn
    <3>1. ProfileOK(<<p, profileOf[p]>>)
      BY <1>a, <2>1, <2>2 DEF ProfilesOK
    <3> QED BY <1>c, <2>2, <3>1 DEF ProfileOK
  <2>3. ~raced => \A i, j \in DOMAIN projectPaths : projectPaths[i] = projectPaths[j] => i = j
    BY <1>a, <2>1 DEF ProfilesOK
  <2> QED BY <2>2, <2>3 DEF ProfilesAreThere
<1> QED BY <1>1, <1>2, <1>3, <1>4, <1>5, <1>6

LEMMA TeamsStutter ==
  ASSUME TeamsInv, UNCHANGED teamsVars
  PROVE  TeamsInv'
<1>a. StateOK /\ RunsOK
  BY DEF TeamsInv, StateOK
<1>b. UNCHANGED <<projectPaths, activeProject, profileOf, teamDirs, defaultTeam, teamOps, torn, raced, teamCalls, teamRuns>>
  BY DEF teamsVars
<1>1. StateOK' /\ RunsOK'
  BY <1>a, <1>b, StateStays, RunsStay
<1> QED BY <1>1 DEF TeamsInv, StateOK

\* The settings name what there is, the team that a run starts with is closed,
\* as saved and that of its tree (executionSnapshotForContext), no soul of a
\* former member stays in a directory (RemoveOrphans), and a project's profile
\* can be read (resolveProfileSourceDir): whatever the handlers do beside each
\* other and wherever the daemon stops.
THEOREM TeamsAreRight ==
  TeamsSpec => [](TeamsTypeOK /\ TeamsAreClosed /\ TeamsAreAsSaved /\ TreesHaveOneTeam /\ NoSoulIsLeft /\ ProfilesAreThere)
<1>1. TeamsInit => TeamsInv
  BY TeamsStart
<1>2. TeamsInv /\ [TeamsNext]_teamsVars => TeamsInv'
  BY TeamsStep, TeamsStutter
<1>3. TeamsInv => TeamsTypeOK /\ TeamsAreClosed /\ TeamsAreAsSaved /\ TreesHaveOneTeam /\ NoSoulIsLeft /\ ProfilesAreThere
  BY TeamsAre
<1> QED BY <1>1, <1>2, <1>3, PTL DEF TeamsSpec

\* What a model is told and whose team it belongs to: the composed services
\* keep both.
THEOREM PromptsAndTeams == TurnsSpec /\ TeamsSpec => []TurnsAreTrue
<1>1. TurnsSpec => [](ContextIsTheJournal /\ CallsAreAnswered /\ NoCallIsSkipped /\ TurnsAreShown)
  BY ModelsAreToldTheJournal, PTL
<1>2. TeamsSpec => [](TeamsAreClosed /\ TeamsAreAsSaved /\ TreesHaveOneTeam /\ NoSoulIsLeft /\ ProfilesAreThere)
  BY TeamsAreRight, PTL
<1>3. /\ ContextIsTheJournal /\ CallsAreAnswered /\ NoCallIsSkipped /\ TurnsAreShown
      /\ TeamsAreClosed /\ TeamsAreAsSaved /\ TreesHaveOneTeam /\ NoSoulIsLeft /\ ProfilesAreThere
      => TurnsAreTrue
  BY DEF TurnsAreTrue
<1> QED BY <1>1, <1>2, <1>3, PTL
=============================================================================

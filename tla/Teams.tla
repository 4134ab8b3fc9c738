------------------------------- MODULE Teams -------------------------------
(***************************************************************************)
(* Projects and their teams (internal/runtime/projects.go, team.go,          *)
(* team_profiles.go, internal/teams, and the handlers of internal/web):      *)
(* which project is active, which team profile it has, the files that a team *)
(* is read from and written to, and the team that a run starts with. Every   *)
(* handler reads settings and files one at a time, beside the others.        *)
(*                                                                         *)
(* A file is written in two steps: it is empty in between. An empty          *)
(* team.yaml cannot be loaded, an empty soul file can. A directory is copied *)
(* or removed in one step. What a file says is the number of the save that   *)
(* wrote it, 0 for an empty soul, and of team.yaml also its members and      *)
(* front agent. The machine's own team, the fallback of the profile          *)
(* "default", is never written: there always is an active project.           *)
(* Assumed: each member has a soul file of its own. SuggestedSoulFile        *)
(* (config.go:319) may give one file to two ids, which validateSpec does not *)
(* refuse; of the two souls a save writes there the second is left.          *)
(* Bounds: MaxProjects, MaxTeamCalls.                                        *)
(***************************************************************************)
EXTENDS Naturals, Sequences, FiniteSets

CONSTANTS Handlers, TeamProfiles, ProjectPaths, TeamAgents, TeamEdits, FirstTeam, MaxProjects, MaxTeamCalls

ASSUME TeamsAssumption ==
  /\ "default" \in TeamProfiles /\ ProjectPaths # {} /\ MaxProjects \in Nat \ {0} /\ MaxTeamCalls \in Nat
  /\ TeamEdits \subseteq [members : SUBSET TeamAgents, front : TeamAgents]
  /\ FirstTeam \in [members : SUBSET TeamAgents, front : TeamAgents, nr : Nat]
  /\ FirstTeam.front \in FirstTeam.members

VARIABLES
  projectPaths, \* projects: the path of each row
  activeProject,\* settings: active_project_id
  profileOf,    \* settings: project.<id>.team_profile
  teamDirs,     \* storage_root/projects/<id>/teams/<profile>
  defaultTeam,  \* defaultSnapshot
  teamOps,      \* what each handler is at
  teamRuns,     \* the runs that were started
  torn,         \* directories whose saves were cut off by a stop or overlapped,
                \* and Machine while the default team is of such a save
  raced,        \* profiles were deleted beside other calls
  teamCalls

teamsVars == <<projectPaths, activeProject, profileOf, teamDirs, defaultTeam, teamOps, teamRuns,
               torn, raced, teamCalls>>
settingsOfTeams == <<projectPaths, activeProject, profileOf>>
ghostsOfTeams == <<torn, raced>>

\* The files of a directory: team.yaml ("gone": with its directory, "none": not
\* there, "cut": empty) and the souls, 0 for an empty one.
NoSpec == [members |-> {}, front |-> "none", nr |-> 0]
NoSouls == [a \in {} |-> 0]
WithoutTeam(yaml) == [yaml |-> yaml, spec |-> NoSpec, souls |-> NoSouls]
Shipped == [yaml |-> "full", spec |-> FirstTeam, souls |-> [a \in FirstTeam.members |-> FirstTeam.nr]]
Dirs == (1..MaxProjects) \X TeamProfiles
Machine == <<0, "default">>

\* A call: where it is, what it is for and what it has read.
Free ==
  [at |-> "idle", kind |-> "none", path |-> "", project |-> 0, name |-> "default", dir |-> Machine,
   team |-> [spec |-> NoSpec, souls |-> NoSouls], cfg |-> NoSpec, old |-> {}, left |-> {},
   from |-> WithoutTeam("none"), quiet |-> FALSE, alone |-> FALSE]

HasSpec(files) == files.yaml \in {"cut", "full"}

\* A team that can be loaded.
Loadable(files) == files.yaml = "full" /\ files.spec.members \subseteq DOMAIN files.souls
TeamOf(files) == [spec |-> files.spec, souls |-> [a \in files.spec.members |-> files.souls[a]]]

TeamsInit ==
  /\ projectPaths = <<CHOOSE p \in ProjectPaths : TRUE>> /\ activeProject = 1
  /\ profileOf = [p \in 1..MaxProjects |-> "default"]
  /\ teamDirs = [d \in Dirs |-> WithoutTeam("gone")] /\ defaultTeam = TeamOf(Shipped)
  /\ teamOps = [h \in Handlers |-> Free] /\ teamRuns = <<>> /\ torn = {} /\ raced = FALSE /\ teamCalls = 0

\* A call begins: no call is alone from then on that has company.
HandlerBegins(h, op) ==
  /\ teamOps[h] = Free /\ teamCalls < MaxTeamCalls /\ teamCalls' = teamCalls + 1
  /\ teamOps' = [o \in Handlers |->
       IF o = h THEN [op EXCEPT !.quiet = TRUE, !.alone = \A x \in Handlers : teamOps[x] = Free]
       ELSE [teamOps[o] EXCEPT !.alone = FALSE]]

Goes(h, op) == teamOps' = [teamOps EXCEPT ![h] = op] /\ UNCHANGED teamCalls

\* A setting or a file is changed: what the others read is not what they would read now.
Writes(h, op) ==
  /\ teamOps' = [o \in Handlers |->
       IF o = h THEN op ELSE [teamOps[o] EXCEPT !.quiet = FALSE]]
  /\ UNCHANGED teamCalls

-----------------------------------------------------------------------------
(* Projects.                                                               *)

RowsOf(path) == {i \in DOMAIN projectPaths : projectPaths[i] = path}

\* The operator activates a path, or a run starts in it.
ActivateProjectPath(h) ==
  /\ \E path \in ProjectPaths :
       HandlerBegins(h, [Free EXCEPT !.at = "lookup", !.kind = "activate", !.path = path])
  /\ UNCHANGED <<settingsOfTeams, ghostsOfTeams, teamDirs, defaultTeam, teamRuns>>

StartRun(h) ==
  /\ \/ \E path \in ProjectPaths :
          HandlerBegins(h, [Free EXCEPT !.at = "lookup", !.kind = "run", !.path = path])
     \/ HandlerBegins(h, [Free EXCEPT !.at = "project", !.kind = "run"])
  /\ UNCHANGED <<settingsOfTeams, ghostsOfTeams, teamDirs, defaultTeam, teamRuns>>

AfterRegister(op, row) ==
  IF op.kind = "run" THEN [op EXCEPT !.at = "project"] ELSE [op EXCEPT !.at = "activate", !.project = row]

RegisterProjectPath(h) ==
  LET op == teamOps[h]
  IN  /\ op.at = "lookup"
      /\ IF RowsOf(op.path) # {} THEN \E i \in RowsOf(op.path) : Goes(h, AfterRegister(op, i))
         ELSE Goes(h, [op EXCEPT !.at = "insert"])
      /\ UNCHANGED <<settingsOfTeams, ghostsOfTeams, teamDirs, defaultTeam, teamRuns>>

\* No index keeps a path from having two rows.
InsertProject(h) ==
  LET op == teamOps[h]
  IN  /\ op.at = "insert" /\ Len(projectPaths) < MaxProjects
      /\ projectPaths' = Append(projectPaths, op.path)
      /\ raced' = (raced \/ RowsOf(op.path) # {})
      /\ Goes(h, AfterRegister(op, Len(projectPaths) + 1))
      /\ UNCHANGED <<activeProject, profileOf, torn, teamDirs, defaultTeam, teamRuns>>

SetActiveProject(h) ==
  /\ teamOps[h].at = "activate"
  /\ activeProject' = teamOps[h].project /\ Writes(h, Free)
  /\ UNCHANGED <<projectPaths, profileOf, ghostsOfTeams, teamDirs, defaultTeam, teamRuns>>

-----------------------------------------------------------------------------
(* Where the team of the active project is.                                *)

\* The project is read, then its profile: that of the project that is active by then.
resolveTeamDir(h) ==
  LET op == teamOps[h]
  IN  /\ \/ /\ op.at = "project"
            /\ Goes(h, [op EXCEPT !.at = "profile", !.project = activeProject])
         \/ /\ op.at = "profile"
            /\ Goes(h, [op EXCEPT !.at = IF op.kind = "save" THEN "old" ELSE "readable",
                                  !.dir = <<op.project, profileOf[activeProject]>>])
      /\ UNCHANGED <<settingsOfTeams, ghostsOfTeams, teamDirs, defaultTeam, teamRuns>>

\* The profile "default" that has no file is the machine's.
Readable(dir) ==
  IF ~HasSpec(teamDirs[dir]) /\ dir[2] = "default" THEN Shipped ELSE teamDirs[dir]

-----------------------------------------------------------------------------
(* Loading a team: team.yaml, then each soul.                              *)

Loaded(op, team) == [op EXCEPT !.at = "loaded", !.team = team]
WithSoul(souls, a, nr) == [b \in DOMAIN souls \cup {a} |-> IF b = a THEN nr ELSE souls[b]]

LoadSpec(h) ==
  LET op == teamOps[h]
      files == Readable(op.dir)
  IN  /\ op.at = "readable"
      /\ Goes(h, IF files.yaml = "full"
                 THEN [op EXCEPT !.at = "souls", !.team = [spec |-> files.spec, souls |-> NoSouls]]
                 ELSE Loaded(op, defaultTeam))
      /\ UNCHANGED <<settingsOfTeams, ghostsOfTeams, teamDirs, defaultTeam, teamRuns>>

LoadSoul(h) ==
  LET op == teamOps[h]
      files == Readable(op.dir).souls
      left == op.team.spec.members \ DOMAIN op.team.souls
  IN  /\ op.at = "souls"
      /\ IF left = {} THEN Goes(h, Loaded(op, op.team))
         ELSE LET a == CHOOSE x \in left : TRUE
              IN  Goes(h, IF a \in DOMAIN files
                          THEN [op EXCEPT !.team = [spec |-> op.team.spec, souls |-> WithSoul(op.team.souls, a, files[a])]]
                          ELSE Loaded(op, defaultTeam))
      /\ UNCHANGED <<settingsOfTeams, ghostsOfTeams, teamDirs, defaultTeam, teamRuns>>

\* What a load in one step would give.
ActiveTeam ==
  LET files == Readable(<<activeProject, profileOf[activeProject]>>)
  IN  IF Loadable(files) THEN TeamOf(files) ELSE defaultTeam

WritingTo(o, dir) == teamOps[o].at \in {"cut", "spec", "write", "soul"} /\ teamOps[o].dir = dir
Overlaps(h, dir) ==
  torn' = IF \E o \in Handlers \ {h} : WritingTo(o, dir) THEN torn \cup {dir} ELSE torn

\* What was read is not as one save wrote it, or may not be.
IsTorn(op) ==
  IF Loadable(Readable(op.dir)) THEN op.dir \in torn \/ \E o \in Handlers : WritingTo(o, op.dir)
  ELSE Machine \in torn

\* The run gets the team, or the default one when it cannot be loaded.
executionSnapshotForContext(h) ==
  LET op == teamOps[h]
  IN  /\ op.at = "loaded" /\ op.kind = "run"
      /\ teamRuns' = Append(teamRuns,
           [team |-> op.team, now |-> ActiveTeam, quiet |-> op.quiet, torn |-> IsTorn(op), parent |-> 0])
      /\ Goes(h, Free)
      /\ UNCHANGED <<settingsOfTeams, ghostsOfTeams, teamDirs, defaultTeam>>

Childless(i) == teamRuns[i].parent = 0 /\ \A j \in DOMAIN teamRuns : teamRuns[j].parent # i

\* Mutant: a child gets the team of the project as it is now.
SpawnAfresh ==
  /\ \E i \in DOMAIN teamRuns :
       /\ Childless(i)
       /\ teamRuns' = Append(teamRuns, [teamRuns[i] EXCEPT !.parent = i, !.team = ActiveTeam])
  /\ UNCHANGED <<settingsOfTeams, ghostsOfTeams, teamDirs, defaultTeam, teamOps, teamCalls>>

\* A child has the team of its parent. One child is enough.
SpawnRun ==
  /\ \E i \in DOMAIN teamRuns :
       Childless(i) /\ teamRuns' = Append(teamRuns, [teamRuns[i] EXCEPT !.parent = i])
  /\ UNCHANGED <<settingsOfTeams, ghostsOfTeams, teamDirs, defaultTeam, teamOps, teamCalls>>

-----------------------------------------------------------------------------
(* Saving a team.                                                          *)

\* The team as the form of the page has it.
UpdateTeam(h) ==
  /\ \E e \in TeamEdits :
       HandlerBegins(h, [Free EXCEPT !.at = "project", !.kind = "save",
                 !.cfg = [members |-> e.members, front |-> e.front, nr |-> teamCalls + 2]])
  /\ UNCHANGED <<settingsOfTeams, ghostsOfTeams, teamDirs, defaultTeam, teamRuns>>

\* Mutant: whatever the front agent is.
ValidMembers(spec) == spec.members # {}

validateSpec(spec) == spec.members # {} /\ spec.front \in spec.members

\* The files of the old team are noted; a team that is not valid is not written.
referencedSoulFiles(h) ==
  LET op == teamOps[h]
      files == teamDirs[op.dir]
  IN  /\ op.at = "old"
      /\ Goes(h, IF ~validateSpec(op.cfg) THEN Free
                 ELSE [op EXCEPT !.at = "cut", !.old = IF files.yaml = "full" THEN files.spec.members ELSE {}])
      /\ Overlaps(h, op.dir)
      /\ UNCHANGED <<settingsOfTeams, raced, teamDirs, defaultTeam, teamRuns>>

OpenSpec(h) ==
  LET op == teamOps[h]
  IN  /\ op.at = "cut"
      /\ teamDirs' = [teamDirs EXCEPT ![op.dir].yaml = "cut"]
      /\ Overlaps(h, op.dir)
      /\ Writes(h, [op EXCEPT !.at = "spec"])
      /\ UNCHANGED <<settingsOfTeams, raced, defaultTeam, teamRuns>>

WriteSpec(h) ==
  LET op == teamOps[h]
  IN  /\ op.at = "spec"
      /\ teamDirs' = [teamDirs EXCEPT ![op.dir].yaml = "full", ![op.dir].spec = op.cfg]
      /\ Writes(h, [op EXCEPT !.at = "soul", !.left = op.cfg.members])
      /\ UNCHANGED <<settingsOfTeams, ghostsOfTeams, defaultTeam, teamRuns>>

SoulWritten(dir, a, nr) ==
  teamDirs' = [teamDirs EXCEPT ![dir].souls = WithSoul(@, a, nr)]

\* A member after the other, each to the member's own file.
writeSoulSpec(h) ==
  LET op == teamOps[h]
      a == CHOOSE x \in op.left : TRUE
  IN  /\ \/ /\ op.at = "soul" /\ op.left # {}
            /\ SoulWritten(op.dir, a, 0) /\ Writes(h, [op EXCEPT !.at = "write"])
         \/ /\ op.at = "write"
            /\ SoulWritten(op.dir, a, op.cfg.nr) /\ Writes(h, [op EXCEPT !.at = "soul", !.left = @ \ {a}])
      /\ UNCHANGED <<settingsOfTeams, ghostsOfTeams, defaultTeam, teamRuns>>

\* Mutant: nobody looks whether a file of the old team is also one of the new.
RemoveOldSouls(h) ==
  LET op == teamOps[h]
  IN  /\ op.at = "soul" /\ op.left = {}
      /\ teamDirs' = [teamDirs EXCEPT ![op.dir].souls = [a \in DOMAIN @ \ op.old |-> @[a]]]
      /\ Writes(h, [op EXCEPT !.at = "readable"])
      /\ UNCHANGED <<settingsOfTeams, ghostsOfTeams, defaultTeam, teamRuns>>

RemoveOrphans(h) ==
  LET op == teamOps[h]
  IN  /\ op.at = "soul" /\ op.left = {}
      /\ teamDirs' = [teamDirs EXCEPT ![op.dir].souls =
                        [a \in DOMAIN @ \ (op.old \ op.cfg.members) |-> @[a]]]
      /\ Writes(h, [op EXCEPT !.at = "readable"])
      /\ UNCHANGED <<settingsOfTeams, ghostsOfTeams, defaultTeam, teamRuns>>

\* The team is read back, and is the default of the runs from then on.
SetDefaultExecutionSnapshot(h) ==
  LET op == teamOps[h]
  IN  /\ op.at = "loaded" /\ op.kind = "save"
      /\ defaultTeam' = op.team
      /\ torn' = IF op.quiet /\ ~IsTorn(op) THEN torn \ {Machine} ELSE torn \cup {Machine}
      /\ Writes(h, Free)
      /\ UNCHANGED <<settingsOfTeams, raced, teamDirs, teamRuns>>

-----------------------------------------------------------------------------
(* Profiles.                                                               *)

SelectTeamProfile(h) ==
  /\ \E p \in TeamProfiles :
       HandlerBegins(h, [Free EXCEPT !.at = "source", !.kind = "select", !.name = p, !.project = activeProject])
  /\ UNCHANGED <<settingsOfTeams, ghostsOfTeams, teamDirs, defaultTeam, teamRuns>>

\* The profile is looked for below the project that is active by then.
resolveProfileSourceDir(h) ==
  LET op == teamOps[h]
      found == op.name = "default" \/ HasSpec(teamDirs[<<activeProject, op.name>>])
  IN  /\ op.at = "source"
      /\ Goes(h, IF found THEN [op EXCEPT !.at = "select"] ELSE Free)
      /\ UNCHANGED <<settingsOfTeams, ghostsOfTeams, teamDirs, defaultTeam, teamRuns>>

SetActiveProjectTeamProfile(h) ==
  LET op == teamOps[h]
  IN  /\ op.at = "select"
      /\ profileOf' = [profileOf EXCEPT ![op.project] = op.name]
      /\ raced' = (raced \/ ~op.alone) /\ Writes(h, Free)
      /\ UNCHANGED <<projectPaths, activeProject, torn, teamDirs, defaultTeam, teamRuns>>

\* CreateProfile and CloneProfileFromDir: an empty directory, then the files;
\* then the profile is selected.
CreateProfile(h) ==
  /\ \E p, q \in TeamProfiles :
       LET dir == <<activeProject, p>>
           from == Readable(<<activeProject, q>>)
       IN  /\ teamDirs[dir].yaml = "gone" /\ HasSpec(from)
           /\ teamDirs' = [teamDirs EXCEPT ![dir] = WithoutTeam("none")]
           /\ torn' = IF <<activeProject, q>> \in torn THEN torn \cup {dir} ELSE torn
           /\ HandlerBegins(h, [Free EXCEPT !.at = "copy", !.kind = "select", !.name = p,
                                            !.project = activeProject, !.from = from])
  /\ UNCHANGED <<settingsOfTeams, raced, defaultTeam, teamRuns>>

copyFS(h) ==
  LET op == teamOps[h]
      dir == <<op.project, op.name>>
  IN  /\ op.at = "copy"
      /\ teamDirs' = [teamDirs EXCEPT ![dir] = op.from]
      /\ torn' = IF op.alone /\ Loadable(op.from) THEN torn ELSE torn \cup {dir}
      /\ Writes(h, [op EXCEPT !.at = "source", !.project = activeProject])
      /\ UNCHANGED <<settingsOfTeams, raced, defaultTeam, teamRuns>>

\* Mutant: nobody asks which profile is active.
DeleteAnyTeamProfile(h) ==
  /\ \E p \in TeamProfiles : HandlerBegins(h, [Free EXCEPT !.at = "delete", !.kind = "delete", !.name = p])
  /\ UNCHANGED <<settingsOfTeams, ghostsOfTeams, teamDirs, defaultTeam, teamRuns>>

DeleteTeamProfile(h) ==
  /\ \E p \in TeamProfiles \ {profileOf[activeProject]} :
       HandlerBegins(h, [Free EXCEPT !.at = "delete", !.kind = "delete", !.name = p])
  /\ UNCHANGED <<settingsOfTeams, ghostsOfTeams, teamDirs, defaultTeam, teamRuns>>

DeleteProfile(h) ==
  LET op == teamOps[h]
      dir == <<activeProject, op.name>>
  IN  /\ op.at = "delete"
      /\ teamDirs' = [teamDirs EXCEPT ![dir] = WithoutTeam("gone")]
      /\ raced' = (raced \/ ~op.alone)
      /\ Overlaps(h, dir)
      /\ Writes(h, Free)
      /\ UNCHANGED <<settingsOfTeams, defaultTeam, teamRuns>>

\* The daemon stops, wherever its handlers are, and starts again.
RestartTeams ==
  /\ torn' = (torn \ {Machine}) \cup {d \in Dirs : \E o \in Handlers : WritingTo(o, d)}
  /\ teamOps' = [h \in Handlers |-> Free] /\ defaultTeam' = TeamOf(Shipped)
  /\ UNCHANGED <<settingsOfTeams, raced, teamDirs, teamRuns, teamCalls>>

TeamsNext ==
  \/ \E h \in Handlers :
       \/ ActivateProjectPath(h) \/ StartRun(h) \/ RegisterProjectPath(h) \/ InsertProject(h)
       \/ SetActiveProject(h) \/ resolveTeamDir(h) \/ LoadSpec(h) \/ LoadSoul(h)
       \/ executionSnapshotForContext(h)
       \/ UpdateTeam(h) \/ referencedSoulFiles(h) \/ OpenSpec(h) \/ WriteSpec(h) \/ writeSoulSpec(h)
       \/ RemoveOrphans(h) \/ SetDefaultExecutionSnapshot(h)
       \/ SelectTeamProfile(h) \/ resolveProfileSourceDir(h) \/ SetActiveProjectTeamProfile(h)
       \/ CreateProfile(h) \/ copyFS(h) \/ DeleteTeamProfile(h) \/ DeleteProfile(h)
  \/ SpawnRun \/ RestartTeams

TeamsSpec == TeamsInit /\ [][TeamsNext]_teamsVars

-----------------------------------------------------------------------------

\* The settings name rows that there are.
TeamsTypeOK ==
  /\ activeProject \in DOMAIN projectPaths /\ Len(projectPaths) <= MaxProjects
  /\ profileOf \in [1..MaxProjects -> TeamProfiles] /\ DOMAIN teamDirs = Dirs
  /\ torn \subseteq Dirs \cup {Machine} /\ teamCalls \in 0..MaxTeamCalls

\* Whatever is written meanwhile, the team a run starts with is closed: its
\* front agent is a member, and each member has a soul (executionSnapshotForContext).
TeamsAreClosed ==
  \A i \in DOMAIN teamRuns :
    LET team == teamRuns[i].team
    IN  team.spec.front \in team.spec.members /\ DOMAIN team.souls = team.spec.members

\* A run that starts while nothing is changed has the team of the active
\* project's profile as the files have it; and they have a team as one save
\* wrote it, unless a stop or another save came between.
TeamsAreAsSaved ==
  \A i \in DOMAIN teamRuns :
    LET r == teamRuns[i]
    IN  r.quiet /\ r.parent = 0 =>
          /\ r.team = r.now
          /\ ~r.torn => \A a \in r.team.spec.members : r.team.souls[a] = r.team.spec.nr

\* Every run of a tree has the team of its root.
TreesHaveOneTeam ==
  \A i \in DOMAIN teamRuns : teamRuns[i].parent # 0 => teamRuns[i].team = teamRuns[teamRuns[i].parent].team

\* A directory that no save was cut off in keeps no soul of a former member.
NoSoulIsLeft ==
  \A d \in Dirs \ torn :
    (\A h \in Handlers : teamOps[h] = Free) /\ teamDirs[d].yaml = "full"
      => DOMAIN teamDirs[d].souls = teamDirs[d].spec.members

\* While nobody deletes or selects beside another call, the profile of a
\* project can be read, and a path is one project.
ProfilesAreThere ==
  ~raced =>
    /\ (\A h \in Handlers : teamOps[h] = Free) =>
         \A p \in DOMAIN projectPaths :
           Readable(<<p, profileOf[p]>>).yaml = "full" \/ <<p, profileOf[p]>> \in torn
    /\ \A i, j \in DOMAIN projectPaths : projectPaths[i] = projectPaths[j] => i = j
=============================================================================

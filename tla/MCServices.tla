----------------------------- MODULE MCServices -----------------------------
(***************************************************************************)
(* The parts of a daemon that share no variable, checked in one run: the   *)
(* initial state chooses one of them, and only that one takes steps.       *)
(***************************************************************************)
EXTENDS RunStream, LogTail, Devices, Memory, Inbound, Paging, RunViews, Routes,
        Commands, RepoFiles, Turns, ZaloAccount, Teams, ScheduleTime

VARIABLE part

vars == <<runStreamVars, logTailVars, devicesVars, memoryVars, inboundVars,
          pagingVars, runViewsVars, routesVars, commandsVars, repoFilesVars, turnsVars, zaloAccountVars,
          teamsVars, scheduleTimeVars, part>>

Agents == <<"lead", "rev", "lead">>
Profiles == [lead |-> "operator", rev |-> "review"]

CallsOfTwo ==
  [k1 |-> {"bind", "deactivate", "start"}, k2 |-> {"start", "note", "send", "spawn", "route"}]

OutputTexts == {<<>>, <<"c">>, <<"c", "n">>, <<"c", "n", "n", "c">>}

Checkout ==
  LET dirs == {<<>>, <<1>>}
      files == {<<1, 2>>, <<2>>}
  IN  [p \in dirs \cup files |-> IF p \in dirs THEN Dir ELSE File(0)]
Checkouts == {Checkout}
AskedOf == {<<>>, <<1>>, <<2>>, <<2, 1>>}

SavedTeams ==
  {[members |-> {"a"}, front |-> "a"], [members |-> {"a", "b"}, front |-> "b"],
   [members |-> {"b"}, front |-> "a"]}
ShippedTeam == [members |-> {"a", "b"}, front |-> "a", nr |-> 1]

StoredThreads == [t \in {1, 2} |-> t]

AnsweredCalls == {<<>>, <<"plain">>, <<"ask", "plain">>, <<"delegate", "malformed">>, <<"delegate", "delegate">>}

Parts == {"stream", "logs", "devices", "memory", "inbound", "lists", "views", "routes",
          "commands", "files", "turns", "account", "teams", "times"}

\* The parts that are not chosen start in one way only.
Init ==
  /\ part \in Parts
  /\ part # "turns" => api = "chat"
  /\ part # "account" => stored = NoAccount
  /\ part # "times" => spec = (CHOOSE s \in Specs : s.kind = "at") /\ enabled = FALSE
  /\ part # "inbound" => transport = "poll"
  /\ part # "lists" => list = "routes" /\ filter = "all" /\ size = 1 /\ rows = [i \in RowIds |-> NoRow]
  /\ LogTailInit /\ (part # "logs" => viewer.query = "all")
  /\ RunStreamInit /\ DevicesInit /\ MemoryInit /\ InboundInit
  /\ PagingInit /\ RunViewsInit /\ RoutesInit /\ CommandsInit /\ RepoFilesInit /\ TurnsInit
  /\ ZaloAccountInit /\ TeamsInit /\ ScheduleTimeInit

Next ==
  /\ UNCHANGED part
  /\ part # "stream" => UNCHANGED runStreamVars
  /\ part # "logs" => UNCHANGED logTailVars
  /\ part # "devices" => UNCHANGED devicesVars
  /\ part # "memory" => UNCHANGED memoryVars
  /\ part # "inbound" => UNCHANGED inboundVars
  /\ part # "lists" => UNCHANGED pagingVars
  /\ part # "views" => UNCHANGED runViewsVars
  /\ part # "routes" => UNCHANGED routesVars
  /\ part # "commands" => UNCHANGED commandsVars
  /\ part # "files" => UNCHANGED repoFilesVars
  /\ part # "turns" => UNCHANGED turnsVars
  /\ part # "account" => UNCHANGED zaloAccountVars
  /\ part # "teams" => UNCHANGED teamsVars
  /\ part # "times" => UNCHANGED scheduleTimeVars
  /\ \/ part = "stream" /\ RunStreamNext
     \/ part = "logs" /\ LogTailNext
     \/ part = "devices" /\ DevicesNext
     \/ part = "memory" /\ MemoryNext
     \/ part = "inbound" /\ InboundNext
     \/ part = "lists" /\ PagingNext
     \/ part = "views" /\ RunViewsNext
     \/ part = "routes" /\ RoutesNext
     \/ part = "commands" /\ CommandsNext
     \/ part = "files" /\ RepoFilesNext
     \/ part = "turns" /\ TurnsNext
     \/ part = "account" /\ ZaloAccountNext
     \/ part = "teams" /\ TeamsNext
     \/ part = "times" /\ ScheduleTimeNext

Spec == Init /\ [][Next]_vars

-----------------------------------------------------------------------------

\* Every variable of the part that runs has its type; the sizes and bounds that
\* the code sets are kept.
ServicesTypeOK ==
  /\ part = "stream" => RunStreamTypeOK
  /\ part = "logs" => LogTailTypeOK
  /\ part = "devices" => DevicesTypeOK
  /\ part = "memory" => MemoryTypeOK
  /\ part = "inbound" => InboundTypeOK
  /\ part = "lists" => PagingTypeOK
  /\ part = "views" => RunViewsTypeOK
  /\ part = "routes" => RoutesTypeOK
  /\ part = "commands" => CommandsTypeOK
  /\ part = "files" => RepoFilesTypeOK
  /\ part = "turns" => TurnsTypeOK
  /\ part = "account" => ZaloAccountTypeOK
  /\ part = "teams" => TeamsTypeOK
  /\ part = "times" => ScheduleTimeTypeOK

\* What a page that follows a run shows is the journal beyond its cursor: each
\* event once, each goroutine's events in order, none lost on the way. What a
\* page that follows the log shows has no line twice, none out of order and none
\* missing but those that had no room.
FollowersAreFaithful ==
  /\ part = "stream" => NothingTwice /\ WritersInOrder /\ NothingMissed
  /\ part = "logs" => TailInOrder /\ TailHasNoHoles

\* A reader who goes through a list page by page sees each row that stays, a
\* session or a route only once, and exact pages while nothing changes. The
\* views of a run show the tree of its runs, and what waits for somebody.
PagesAreTrue ==
  /\ part = "lists" => PagesAreExact /\ NothingSkipped /\ NoRowTwice
  /\ part = "views" => GraphIsTheTree /\ NothingPressingIsHidden

\* The result of a tool and its records in the journal are what the program
\* printed and the directory held, however they end and whoever works beside.
\* What it finds in a Zalo account and sends from it is of one account, in
\* order, each piece and each file whole.
ToolsKeepTheirWord ==
  /\ part = "commands" => LogIsTheOutput /\ SuccessIsComplete /\ ResultIsTheOutput /\ NoCaptureIsLeft
  /\ part = "files" => ReadsAreExact /\ RangesAreExact
  /\ part = "account" => InboxIsExact /\ UnreadComesFirst /\ TextsGoOutWhole /\ FilesHaveTheirAddress

\* Nothing that a person has not agreed to: a file is lost only by a call that
\* was approved for it, and an account logged in only once its owner confirmed.
NothingWithoutConsent == FilesAreLostAsApproved /\ LoginsAreConfirmed

\* What a model is told is the run's journal, each call with its result; what
\* it answers is recorded, shown and done. The team that it belongs to is one
\* that was saved for the active project, whole, and that of all of its tree.
TurnsAreTrue ==
  /\ part = "turns" => ContextIsTheJournal /\ CallsAreAnswered /\ NoCallIsSkipped /\ TurnsAreShown
  /\ part = "teams" => TeamsAreClosed /\ TeamsAreAsSaved /\ TreesHaveOneTeam
                         /\ NoSoulIsLeft /\ ProfilesAreThere
=============================================================================

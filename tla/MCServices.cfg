SPECIFICATION Spec
CONSTANTS
  StreamWriters = {g1, g2}
  MaxEvents = 3
  ChannelSize = 1
  MaxConnections = 2
  MaxLines = 5
  MaxEntries = 3
  Limit = 2
  TailSize = 2
  Browsers = {b1, b2}
  MaxLogins = 2
  MaxClock = 4
  TTL = 1
  Retention = 1
  StaleAge = 2
  Promoters = {r1, r2}
  MaxFacts = 2
  MaxEdits = 2
  Messages = {1, 2}
  Writers = {w1, w2}
  Poller = w1
  Senders = {s}
  Transports = {"poll", "webhook"}
  MaxTries = 2
  MaxIncidents = 1
  Lists = {"sessions", "routes", "deliveries", "work", "facts"}
  RowIds = {1, 2, 3}
  PageSizes = {1, 2}
  MaxTime = 2
  TimesPerDay = 2
  MaxChanges = 2
  MaxRuns = 3
  MaxTickets = 1
  AgentOf <- Agents
  ProfileOf <- Profiles
  Conversations = {c1, c2}
  Threads = {t1}
  Workers = {w}
  Callers = {"k1", "k2"}
  CallsOf <- CallsOfTwo
  MaxRoutes = 2
  MaxSessionRuns = 2
  MaxMail = 2
  Texts <- OutputTexts
  MaxCommands = 1
  MaxOutput = 3
  Runners = {f1, f2}
  Names = {1, 2}
  FirstTrees <- Checkouts
  AskedPaths <- AskedOf
  MaxCalls = 2
  MaxMatches = 1
  LineCapacity = 2
  Apis = {"chat", "responses", "messages"}
  CallLists <- AnsweredCalls
  MailLimit = 2
  MaxTurns = 2
  MaxNotes = 1
  MaxPieces = 2
  Accounts = {x, y}
  NoAccount = none
  ChatThreads = {1, 2}
  GroupThreads = {2}
  InboxLimits = {0, 1}
  FirstThreads <- StoredThreads
  MaxAccountCalls = 2
  MaxMarks = 1
  Pieces = 2
  Handlers = {h1, h2}
  TeamProfiles = {"default", "p"}
  ProjectPaths = {"/r", "/s"}
  TeamAgents = {"a", "b"}
  TeamEdits <- SavedTeams
  FirstTeam <- ShippedTeam
  MaxProjects = 2
  MaxTeamCalls = 2
  Second = 2
  Year = 1
  MaxDuration = 7
  Anchors = {1, 4, 9}
  CronTables = {{}, {10}, {2, 8, 10}}
  LastInstant = 12
INVARIANTS ServicesTypeOK FollowersAreFaithful BlockedMeansRevoked MessagesAreTakenOnce OneActiveRoot PagesAreTrue NextRunIsEarliest RoutesAreKept ToolsKeepTheirWord TurnsAreTrue
PROPERTIES SettledEditsArePermanent EndedRoutesStay NothingWithoutConsent
CHECK_DEADLOCK FALSE

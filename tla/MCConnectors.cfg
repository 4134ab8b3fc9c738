SPECIFICATION FairSpec
CONSTANTS
  RunIntents = {i1}
  Replies = {c1}
  Drainers = {loop}
  Handlers = {h}
  Kinds = {"telegram", "whatsapp", "zalo"}
  NoIntent = none
  MaxAttempts = 2
  MaxStops = 1
  MaxRedrives = 1
  DraftRuns = {r1, r2}
  MaxTexts = 2
  Connectors = {k}
  ConnectorKinds = {"telegram", "whatsapp", "zalo"}
  MaxRestartsPerHour = 2
  Hour = 4
  StartupGrace = 1
  RestartCooldown = 1
  PersistInterval = 2
  StaleAfter = 1
  MaxMessages = 2
  BufferSize = 1
  MaxRetries = 1
  Endpoints = 2
  MaxFailures = 2
  Loops = {p1, p2}
  Controllers = {t1, t2}
  NoController = none
  MaxConsecutiveFailures = 2
  Messages = {1, 2}
  Writers = {w}
  Poller = w
  Senders = {s}
  Transports = {"poll"}
  MaxTries = 1
  MaxIncidents = 2
INVARIANTS ConnectorsTypeOK WordsGoOutOnce OneStartAtATime SessionsAreHonest OnlyTheCurrentTypes
PROPERTIES ImplementsOutbox MessagesSettle StopsComplete UpdatesAreHandled
CHECK_DEADLOCK FALSE

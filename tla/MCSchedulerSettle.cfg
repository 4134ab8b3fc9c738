SPECIFICATION FairSpec
CONSTANTS
    Loop = loop
    NoProc = noProc
    Schedules = {1}
    WebClients = {w1}
    CliClients = {}
    Specs <- TicksTwoAndThree
    Ops = {"runNow", "delete"}
    Faults = TRUE
    PromptDispatch = TRUE
    Grace = 1
    DueLimit = 1
    Outcomes = {"completed"}
    MaxNow = 3
    MaxStops = 1
INVARIANTS
    HistoryIsTrue
    DispatchesOnce
PROPERTIES
    OccurrencesSettle

SPECIFICATION Spec
CONSTANTS
    Loop = loop
    NoProc = noProc
    Schedules = {1}
    WebClients = {}
    CliClients = {c1}
    Specs <- OnceOrTwice
    Ops = {"setEnabled", "update", "runNow"}
    Faults = TRUE
    PromptDispatch = FALSE
    Grace = 1
    DueLimit = 1
    Outcomes = {"completed"}
    MaxNow = 3
    MaxStops = 0
INVARIANTS
    LoopSurvives
    RowsMatchReceipts
PROPERTIES
    SlotsAreClaimedOnce

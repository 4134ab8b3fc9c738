SPECIFICATION Spec
CONSTANTS
    Loop = loop
    NoProc = noProc
    Schedules = {1}
    WebClients = {}
    CliClients = {}
    Specs <- EveryTick
    Ops = {"delete"}
    Faults = TRUE
    PromptDispatch = FALSE
    Grace = 1
    DueLimit = 1
    Outcomes = {"completed", "failed", "needs_approval"}
    MaxNow = 4
    MaxStops = 2
INVARIANTS
    TypeOK
    AtMostOneOpen
    FailuresAreDistinct
PROPERTIES
    ImplementsScheduledTask

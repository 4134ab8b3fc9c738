SPECIFICATION RunsReturnSpec
CONSTANTS
    Loop = loop
    NoProc = noProc
    Schedules = {1}
    WebClients = {}
    CliClients = {c1}
    Specs <- TicksTwoAndThree
    Ops = {"runNow"}
    Faults = FALSE
    PromptDispatch = TRUE
    Grace = 1
    DueLimit = 1
    Outcomes = {"completed"}
    MaxNow = 3
    MaxStops = 0
PROPERTIES
    StartedRunsEnd

SPECIFICATION Spec
CONSTANTS
    Loop = loop
    NoProc = noProc
    Schedules = {1}
    WebClients = {w1}
    CliClients = {}
    Specs <- TicksTwoAndThree
    Ops = {"runNow"}
    Faults = FALSE
    PromptDispatch = TRUE
    Grace = 1
    DueLimit = 1
    Outcomes = {"completed"}
    MaxNow = 3
    MaxStops = 0
INVARIANTS
    AtMostOneOpen

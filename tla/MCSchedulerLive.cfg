SPECIFICATION FairSpec
CONSTANTS
    Loop = loop
    NoProc = noProc
    Schedules = {1, 2}
    WebClients = {}
    CliClients = {}
    Specs <- TicksTwoAndFour
    Ops = {}
    Faults = TRUE
    PromptDispatch = FALSE
    Grace = 1
    DueLimit = 1
    Outcomes = {"completed"}
    MaxNow = 3
    MaxStops = 1
PROPERTIES
    DueSlotsAreTaken

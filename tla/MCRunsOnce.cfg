SPECIFICATION Spec
CONSTANTS
  r1 = r1
  r2 = r2
  r3 = r3
  t1 = t1
  t2 = t2
  g1 = g1
  g2 = g2
  g3 = g3
  NoRun = NoRun
  NoTicket = NoTicket
  Runs = {r1, r2, r3}
  Tickets = {t1}
  Procs = {g1, g2}
  Outcomes = {"end", "more", "budget", "fail", "empty"}
  ToolTurns <- WorkTurns
  WorkersDelegate = FALSE
  Answers = "ticket"
  Nudges = TRUE
  Cli = TRUE
  Faults = TRUE
  MaxTurns = 1
  MaxCrashes = 1
SYMMETRY Symmetry
CHECK_DEADLOCK FALSE
INVARIANT ApprovedToolsRunOnce

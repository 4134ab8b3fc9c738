SPECIFICATION Spec
CONSTANTS
  r1 = r1
  r2 = r2
  r3 = r3
  t1 = t1
  t2 = t2
  g1 = g1
  g2 = g2
  g3 = g3
  NoRun = NoRun
  NoTicket = NoTicket
  Runs = {r1, r2, r3}
  Tickets = {t1, t2}
  Procs = {g1, g2}
  Outcomes = {"end", "more", "budget", "fail"}
  ToolTurns <- WorkTurns
  WorkersDelegate = FALSE
  Answers = "rest"
  Nudges = FALSE
  Cli = TRUE
  Faults = FALSE
  MaxTurns = 2
  MaxCrashes = 0
SYMMETRY Symmetry
CHECK_DEADLOCK FALSE
INVARIANT OneRootAtATime

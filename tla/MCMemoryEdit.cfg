SPECIFICATION MemorySpec
CONSTANTS
  Promoters = {r1, r2}
  MaxFacts = 3
  MaxEdits = 3
PROPERTIES HumanEditsArePermanent
CHECK_DEADLOCK FALSE

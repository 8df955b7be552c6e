SPECIFICATION FairSpec
CONSTANTS
  P1 = p1
  P2 = p2
  Procs = {p1, p2}
  Keys = {1, 2, 3}
  None = none
  MaxSession = 2
  MaxGeneration = 4
  MaxFaults = 2
  LateErrors = {FALSE, TRUE}
INVARIANTS FilesAgree GenerationNamesOneState
PROPERTIES CommandsAreAtomic Settles
CHECK_DEADLOCK FALSE

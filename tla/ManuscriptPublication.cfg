SPECIFICATION FairSpec
CONSTANTS
  S1 = s1
  S2 = s2
  Stores = {s1, s2}
  Files = {"prose", "summary"}
  Prose = "prose"
  MaxStamp = 4
  Settings <- Troubles
INVARIANTS PublishedStands
PROPERTIES PublishesAtomically Settles
CHECK_DEADLOCK FALSE

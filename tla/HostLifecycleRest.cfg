SPECIFICATION FairSpec
CONSTANTS
  u1 = u1
  u2 = u2
  Users = {u1}
  Watchers = {w1, w2, w3}
  Nobody = Nobody
  Chapters = 1
  Uses <- Rests
CHECK_DEADLOCK FALSE
PROPERTIES ComesToRest

SPECIFICATION Spec
CONSTANTS
  u1 = u1
  u2 = u2
  Users = {u1, u2}
  Watchers = {w1, w2}
  Nobody = Nobody
  Chapters = 1
  Uses <- AllUses
SYMMETRY Symmetry
CHECK_DEADLOCK FALSE
INVARIANTS LeaseHasOwner LeaseIsCurrent RunKeepsLease
PROPERTIES PauseIsKept

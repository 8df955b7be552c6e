\* Two processes race commands on a session with two approval stages, and
\* adaptation commands, leases, manuscript revisions and two sessions compete
\* for the book.
CONSTANTS
  p1 = p1
  p2 = p2
  Procs = {p1, p2}
  k1 = k1
  k2 = k2
  StartKeys = {k1, k2}
  c1 = c1
  CommandKeys = {c1}
  e1 = e1
  EditTexts = {e1}
  None = None
  StageCount = 2
  MaxSession = 2
  MaxVersion = 2
  MaxRevision = 8
  MaxGen = 4
SPECIFICATION Spec
INVARIANTS AcceptedMatchesApprovals ExclusiveOwnership StartOnce
PROPERTIES CommandsSerialized TerminalSessionsAreFinal
SYMMETRY Symmetry
CONSTRAINT LongOrMany
\* Everybody may have died.
CHECK_DEADLOCK FALSE

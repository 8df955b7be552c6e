\* A normal project: one session up to its publication, with crashes, write
\* failures and recoveries by the other process; no adaptation command.
\* No symmetry: two of the properties are liveness.
CONSTANTS
  p1 = p1
  p2 = p2
  Procs = {p1, p2}
  k1 = k1
  k2 = k2
  StartKeys = {k1}
  CommandKeys = {}
  e1 = e1
  EditTexts = {e1}
  None = None
  StageCount = 1
  MaxSession = 1
  MaxVersion = 1
  MaxRevision = 6
  MaxGen = 7
SPECIFICATION FairSpec
INVARIANTS TypeOK StateLoads
PROPERTIES GenerationAdvances ImplementsBookOwnership PublicationSettles StaleLeaseIsDropped
\* All processes may have died.
CHECK_DEADLOCK FALSE

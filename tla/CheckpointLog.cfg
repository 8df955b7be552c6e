SPECIFICATION Spec
CONSTANTS
  Steps = {"draft", "consistency_check"}
  Digests = {d1, d2}
  NoDigest = NoDigest
  MaxLines = 4
  Disks = {{}, {"sync"}, {"sync", "torn"}}
  MaxFaults = 2
INVARIANTS LossIsBounded
PROPERTIES ImplementsCheckpointBook

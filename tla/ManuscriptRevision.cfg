SPECIFICATION Spec
CONSTANTS
  P1 = p1
  P2 = p2
  Clients = {p1, p2}
  Chapters = {1, 2}
  Target = 1
  MaxRevisions = 2
  MaxText = 2
  Books <- TheBooks
CHECK_DEADLOCK FALSE
INVARIANTS OpenIsActive PublishedWasApproved
PROPERTIES NewerProseStands

SPECIFICATION GatesSpec
CONSTANTS
  t1 = t1
  t2 = t2
  None = None
  Texts <- TwoTexts
  Segments = 2
  Projects <- SomeProjects
CHECK_DEADLOCK FALSE
PROPERTIES CommittedTextPassed UnrevisedReworkIsRefused

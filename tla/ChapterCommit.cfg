SPECIFICATION Spec
CONSTANTS
  TotalChapters = 2
  MaxChapter = 2
  ReviewInterval = 3
  Many = 1
  Texts = {t1, t2}
  NoText = NoText
  Routings = {TRUE, FALSE}
  Failures = TRUE
SYMMETRY TextSymmetry
INVARIANTS CompletedIsRecorded InterruptedIsRemembered NeverLockedOut Settled
PROPERTY ImplementsBook

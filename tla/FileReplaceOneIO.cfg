SPECIFICATION FileSpec
CONSTANTS
  Threads = {t1, t2, t3}
  Values = {v1, v2}
  Absent = Absent
  SharedIO = TRUE
SYMMETRY Symmetry
PROPERTY ImplementsAtomicFile

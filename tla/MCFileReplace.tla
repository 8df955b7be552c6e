----------------------------- MODULE MCFileReplace -----------------------------
EXTENDS FileReplace, TLC

Symmetry == Permutations(Threads) \cup Permutations(Values)
===============================================================================

-------------------------- MODULE MCChapterCommit ----------------------------
EXTENDS ChapterCommit, TLC

(* No property names a text.                                               *)
TextSymmetry == Permutations(Texts)
=============================================================================

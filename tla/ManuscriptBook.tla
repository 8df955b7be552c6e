--------------------------- MODULE ManuscriptBook ----------------------------
(***************************************************************************)
(* What a reader of a book may rely on, whatever the tools go through to   *)
(* get there: chapters appear in order, a chapter that is in the book      *)
(* changes only while it is open for rework, a book is complete only with  *)
(* all its chapters and none of them open, and a complete book stays as it *)
(* is until chapters of it are opened.                                     *)
(***************************************************************************)
EXTENDS Naturals

CONSTANTS Chapters, TotalChapters, Texts, NoText

VARIABLES
  text,        \* what the book holds of each chapter
  open,        \* the chapters to be reworked
  complete

vars == <<text, open, complete>>

Written == {c \in Chapters : text[c] # NoText}

Init ==
  /\ text = [c \in Chapters |-> NoText]
  /\ open = {}
  /\ complete = FALSE

(* The next chapter enters the book; nothing may be open.                  *)
Commit(c, t) ==
  /\ ~complete
  /\ open = {}
  /\ c \notin Written
  /\ \A d \in Chapters : d < c => d \in Written
  /\ text' = [text EXCEPT ![c] = t]
  /\ UNCHANGED <<open, complete>>

Rework(c, t) ==
  /\ ~complete
  /\ c \in open
  /\ text' = [text EXCEPT ![c] = t]
  /\ UNCHANGED <<open, complete>>

(* A review or a user opens chapters, a finished rework closes one.        *)
SetOpen(chapters) ==
  /\ ~complete
  /\ chapters \subseteq Written
  /\ open' = chapters
  /\ UNCHANGED <<text, complete>>

Finish ==
  /\ ~complete
  /\ open = {}
  /\ 1..TotalChapters \subseteq Written
  /\ complete' = TRUE
  /\ UNCHANGED <<text, open>>

Reopen(chapters) ==
  /\ complete
  /\ chapters # {}
  /\ chapters \subseteq Written
  /\ complete' = FALSE
  /\ open' = chapters
  /\ UNCHANGED text

Next ==
  \/ \E c \in Chapters, t \in Texts : Commit(c, t) \/ Rework(c, t)
  \/ \E chapters \in SUBSET Chapters : SetOpen(chapters) \/ Reopen(chapters)
  \/ Finish

Spec == Init /\ [][Next]_vars
=============================================================================

--------------------------- MODULE BookOwnership -----------------------------
(***************************************************************************)
(* What the revision store promises to everyone who writes a book: at any  *)
(* time one owner, and formal content that changes in two ways only.  An   *)
(* ordinary edit changes it while nobody revises the book, and a           *)
(* publication replaces it, in one step, by the version a revision settled *)
(* on and ends that revision.  Neither a crash nor a failed or a rolled    *)
(* back publication is visible here: those are stuttering steps.           *)
(***************************************************************************)
EXTENDS Naturals

CONSTANT Edits           \* contents an ordinary edit can write

VARIABLES
  owner,
  book,                  \* content of the formal files
  current                \* version the last completed revision settled on

vars == <<owner, book, current>>

Owners == {"free", "normal", "command", "revision", "manuscript"}

TypeOK ==
  /\ owner \in Owners
  /\ book \in Edits \cup Nat
  /\ current \in Nat

Init == owner = "free" /\ book \in Edits /\ current = 0

Take(o) ==
  /\ owner = "free"
  /\ owner' = o
  /\ UNCHANGED <<book, current>>

(* Gives up, is cancelled, or is found dead.                               *)
Release ==
  /\ owner # "free"
  /\ owner' = "free"
  /\ UNCHANGED <<book, current>>

(* An adaptation command starts, or ends, a revision under its own fence.  *)
BeginUnderCommand ==
  /\ owner = "command"
  /\ owner' = "revision"
  /\ UNCHANGED <<book, current>>

EndUnderCommand ==
  /\ owner = "revision"
  /\ owner' = "command"
  /\ UNCHANGED <<book, current>>

Edit ==
  /\ owner \in {"free", "normal"}
  /\ book' \in Edits
  /\ UNCHANGED <<owner, current>>

Publish ==
  /\ owner = "revision"
  /\ owner' = "free"
  /\ book' \in Nat
  /\ book' > current
  /\ current' = book'

Next ==
  \/ \E o \in Owners \ {"free"} : Take(o)
  \/ Release
  \/ BeginUnderCommand
  \/ EndUnderCommand
  \/ Edit
  \/ Publish

Spec == Init /\ [][Next]_vars
=============================================================================

---------------------------- MODULE PublishedBook ----------------------------
(***************************************************************************)
(* What publishing a manuscript revision promises: the revision's text     *)
(* replaces every formal file in one step, on the prose it was written     *)
(* for, or the revision is cancelled and the book never sees it; the       *)
(* writing flow writes between revisions only, and nothing else changes    *)
(* the book.                                                               *)
(***************************************************************************)
EXTENDS Naturals

CONSTANTS Files, Prose, MaxStamp

VARIABLES
  text,    \* the stamp of the last change each formal file holds
  fate,    \* what became of the revision with each stamp
  owner    \* the open revision, 0 when there is none

vars == <<text, fate, owner>>

Init ==
  /\ text = [f \in Files |-> 0]
  /\ fate = [k \in 1..MaxStamp |-> "none"]
  /\ owner = 0

Start(k) ==
  /\ owner = 0
  /\ fate[k] = "none"
  /\ fate' = [fate EXCEPT ![k] = "open"]
  /\ owner' = k
  /\ UNCHANGED text

Publish(k) ==
  /\ owner = k
  /\ text[Prose] < k
  /\ text' = [f \in Files |-> k]
  /\ fate' = [fate EXCEPT ![k] = "published"]
  /\ owner' = 0

Cancel(k) ==
  /\ owner = k
  /\ fate' = [fate EXCEPT ![k] = "cancelled"]
  /\ owner' = 0
  /\ UNCHANGED text

Write(k) ==
  /\ owner = 0
  /\ fate[k] = "none"
  /\ text[Prose] < k
  /\ text' = [text EXCEPT ![Prose] = k]
  /\ UNCHANGED <<fate, owner>>

Next == \E k \in 1..MaxStamp : Start(k) \/ Publish(k) \/ Cancel(k) \/ Write(k)

Spec == Init /\ [][Next]_vars
=============================================================================

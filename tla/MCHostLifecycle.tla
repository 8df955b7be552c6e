---------------------------- MODULE MCHostLifecycle ----------------------------
(* HostLifecycle for TLC. *)
EXTENDS HostLifecycle, TLC
CONSTANTS u1, u2

\* Two callers start, resume and pause the book.
Calls == [calls |-> {"start", "resume", "abort"}, users |-> {u1, u2}, starts |-> 2, repairs |-> 0, attempts |-> 1]

\* One run, with everything that may happen around it.
OneRun == [calls |-> {"resume", "abort", "mutate", "act", "revise", "review"}, users |-> {u1, u2},
           starts |-> 1, repairs |-> 1, attempts |-> 1]

\* An adaptation is confirmed while the book is resumed and paused.
Confirms == [calls |-> {"confirm", "resume", "abort"}, users |-> {u1, u2}, starts |-> 2, repairs |-> 0, attempts |-> 1]

\* A co-create is entered, left and cancelled.
Talks == [calls |-> {"continue", "enter", "leave", "cancel"}, users |-> {u1, u2},
          starts |-> 2, repairs |-> 0, attempts |-> 0]

Symmetry == Permutations({u1, u2}) \cup Permutations(Watchers)

AllUses == {Calls, OneRun, Confirms, Talks}

\* One caller, and room for every goroutine that is left behind.
Rests == {[calls |-> {"start", "confirm", "abort"}, users |-> {u1}, starts |-> 2, repairs |-> 0, attempts |-> 1]}
================================================================================

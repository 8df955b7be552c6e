----------------------- MODULE MCManuscriptPublication -----------------------
EXTENDS ManuscriptPublication, TLC

CONSTANTS S1, S2

(* One Store that dies; one whose writes fail as well, also when they were *)
(* done; two of them; one opened in the middle of the other's publication. *)
Troubles ==
  {[stores |-> {S1}, crashes |-> 3, late |-> FALSE, faults |-> {}],
   [stores |-> {S1}, crashes |-> 3, late |-> FALSE,
    faults |-> {"apply", "mark", "index", "restore", "clear"}],
   [stores |-> {S1}, crashes |-> 1, late |-> FALSE, faults |-> {"marked"}],
   [stores |-> {S1, S2}, crashes |-> 0, late |-> FALSE, faults |-> {"apply", "mark"}],
   [stores |-> {S1, S2}, crashes |-> 0, late |-> TRUE, faults |-> {}]}
=============================================================================

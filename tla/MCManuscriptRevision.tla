------------------------ MODULE MCManuscriptRevision -------------------------
(* ManuscriptRevision for TLC. *)
EXTENDS ManuscriptRevision, TLC

CONSTANTS P1, P2

(* One revision of two chapters, two clients.                              *)
Stagewise == [clients |-> {P1, P2}, chapters |-> {1, 2}, complete |-> FALSE,
              late |-> {}, revisions |-> 1, number |-> 9]

(* A complete book, two revisions of a chapter, one of them asked for a    *)
(* candidate after it was cancelled.                                       *)
Late == [clients |-> {P1}, chapters |-> {1}, complete |-> TRUE,
         late |-> {"generate"}, revisions |-> 2, number |-> 7]

(* Two revisions of a chapter, one after the other, two clients, nothing   *)
(* asked of a cancelled one.                                               *)
Twice == [clients |-> {P1, P2}, chapters |-> {1}, complete |-> FALSE,
          late |-> {}, revisions |-> 2, number |-> 5]

TheBooks == {Stagewise, Late, Twice}
=============================================================================

------------------------------ MODULE MCDraftGates ------------------------------
(* DraftGates for TLC: two texts, inside or outside the budget. *)
EXTENDS DraftGates, TLC
CONSTANTS t1, t2
TwoTexts == {t1, t2}

\* An adaptation whose de-AI stage is on: all gates, one text with a finding.
Adaptation == [clean |-> {t2}, distance |-> [t \in TwoTexts |-> 0],
               adapting |-> TRUE, deAI |-> TRUE, publishing |-> FALSE]

\* A book of the author's own, one text outside the budget, revisions published.
Published == [clean |-> TwoTexts, distance |-> (t1 :> 1) @@ (t2 :> 0),
              adapting |-> FALSE, deAI |-> FALSE, publishing |-> TRUE]

\* Both texts outside, one of them nearer: segments are edited in turn.
Distant == [clean |-> TwoTexts, distance |-> (t1 :> 2) @@ (t2 :> 1),
            adapting |-> FALSE, deAI |-> FALSE, publishing |-> FALSE]

SomeProjects == {Adaptation, Published, Distant}
=================================================================================

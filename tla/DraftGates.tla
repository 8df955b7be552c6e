------------------------------- MODULE DraftGates -------------------------------
(* From the draft of one chapter to its final text: the writer's tools that    *)
(* change the draft and check it (internal/tools), and the gates that let      *)
(* commit_chapter take it. A check is bound to the text it saw by a digest,    *)
(* the consistency check by nothing but the checkpoint log (CheckpointBook).   *)
(* An adaptation's fourth gate, check_simulation, is bound like the third.     *)
EXTENDS Integers

CONSTANTS
  Texts, None,
  Segments,    \* segments of the text that the host has shortened or extended in turn
  Projects     \* the projects to look at

(* clean: the texts without a finding of deai.Analyze; distance: of a text to  *)
(* the word budget of the chapter, 0 inside; adapting: the project is an       *)
(* adaptation; deAI: the de-AI stage is on from the start; publishing:         *)
(* manuscript revisions are published between commits and rework.              *)
Project == [clean : SUBSET Texts, distance : [Texts -> Nat],
            adapting : BOOLEAN, deAI : BOOLEAN, publishing : BOOLEAN]

ASSUME GatesAssumption ==
  /\ None \notin Texts /\ Segments \in Nat \ {0}
  /\ Projects \subseteq Project

VARIABLES
  project,                    \* one of Projects; it does not change
  draft, final,               \* drafts/NN.draft.md and chapters/NN.md
  status,                     \* of the chapter: open, done (completed), queued (completed, to be reworked)
  known, latestBy, latest,    \* its checkpoints
  enabled,                    \* meta/deai/policy.json
  deAI,                       \* the text of the de-AI audit
  adaptation,                 \* AdaptationCheck: of which text, and whether it passed
  everPassed,                 \* history: the texts that passed one
  revised                     \* history: the draft was worked on since it was committed

bookvars == <<known, latestBy, latest>>
draftvars == <<draft, revised>>
auditvars == <<enabled, deAI, adaptation, everPassed>>
gatesvars == <<project, draft, final, status, known, latestBy, latest, enabled, deAI, adaptation, everPassed, revised>>

\* A segment step (word_budget_edit_segment_<k>) is the step "segment" here and
\* its number a part of the digest.
ToolSteps == {"draft", "edit", "segment", "consistency_check", "de_ai_check", "de_ai_batch_repair", "commit"}
TextDigests == Texts \cup (Texts \X (0..(Segments - 1)))

Log == INSTANCE CheckpointBook WITH Steps <- ToolSteps, Digests <- TextDigests, NoDigest <- None

GatesTypeOK ==
  /\ project \in Projects
  /\ draft \in Texts \cup {None} /\ final \in Texts \cup {None}
  /\ status \in {"open", "done", "queued"} /\ (status # "open" => final # None)
  /\ known \subseteq ToolSteps \X (TextDigests \cup {None})
  /\ latestBy \in [ToolSteps -> TextDigests \cup {None}]
  /\ enabled \in BOOLEAN /\ deAI \in Texts \cup {None}
  /\ adaptation \in [text : Texts \cup {None}, passed : BOOLEAN]
  /\ everPassed \subseteq Texts
  /\ revised \in BOOLEAN

GatesInit ==
  /\ project \in Projects
  /\ draft = None /\ final = None /\ status = "open"
  /\ Log!BookInit
  /\ enabled = project.deAI /\ deAI = None
  /\ adaptation = [text |-> None, passed |-> FALSE]
  /\ everPassed = {}
  /\ revised = FALSE
--------------------------------------------------------------------------------
\* The budget binds chapters that are not reworked (currentWriterBudgetWindow).
OutsideBudget == draft # None /\ status = "open" /\ project.distance[draft] # 0

\* A tool saves the draft and then appends a checkpoint, which may fail.
Saved(t, step) ==
  /\ draft' = t /\ revised' = TRUE
  /\ Log!Record(step, t) \/ UNCHANGED bookvars
  /\ UNCHANGED <<final, status, auditvars>>

\* draft_chapter, write and append: a text outside the budget is replaced by one inside.
DraftChapter(t) ==
  /\ status # "done"
  /\ OutsideBudget => project.distance[t] = 0
  /\ Saved(t, "draft")

\* edit_chapter works on the draft, and on the final text when there is none.
Base == IF draft # None THEN draft ELSE final

EditChapter(t) ==
  /\ status # "done" /\ Base # None /\ ~OutsideBudget
  /\ t # Base
  /\ Saved(t, "edit")

EditRefused ==   \* after ensureDraft
  /\ status # "done" /\ Base # None /\ ~OutsideBudget
  /\ draft' = Base
  /\ UNCHANGED <<final, status, bookvars, auditvars, revised>>

\* The segment the host asks for, from the last to the first and around again.
Segment ==
  IF latestBy["segment"] # None /\ latestBy["segment"][2] > 0
  THEN latestBy["segment"][2] - 1 ELSE Segments - 1

\* edit_chapter with a budget segment; t is the draft when all is applied already.
SegmentAnswered(t) ==
  /\ OutsideBudget
  /\ t = draft \/ project.distance[t] < project.distance[draft]
  /\ draft' = t /\ revised' = TRUE
  /\ Log!Record("segment", <<t, Segment>>)
  /\ UNCHANGED <<final, status, auditvars>>

SegmentFails(t) ==
  /\ OutsideBudget
  /\ project.distance[t] < project.distance[draft]
  /\ draft' = t /\ revised' = TRUE
  /\ UNCHANGED <<final, status, bookvars, auditvars>>

\* repair_de_ai_batch: for the draft that was audited, whatever the chapter's status.
RepairBatch(t) ==
  /\ enabled
  /\ deAI # None /\ deAI \notin project.clean /\ deAI = draft
  /\ ~OutsideBudget
  /\ t # draft
  /\ Saved(t, "de_ai_batch_repair")
--------------------------------------------------------------------------------
\* check_consistency saves its verdict as an audit the gate does not read; only one
\* that passes is a checkpoint.
Judged(v) ==
  /\ everPassed' = IF v = "pass" THEN everPassed \cup {draft} ELSE everPassed
  /\ UNCHANGED <<draftvars, final, status, enabled, deAI, adaptation>>

ConsistencyPassed ==
  /\ draft # None
  /\ Judged("pass")
  /\ Log!Record("consistency_check", draft)

ConsistencyBlocked ==
  /\ draft # None
  /\ Judged("block")
  /\ UNCHANGED bookvars

\* check_de_ai turns the stage on even when it refuses.
Reviewed ==
  \/ latestBy["consistency_check"] = draft
  \/ latest = [step |-> "de_ai_batch_repair", digest |-> draft]

DeAIRefused ==
  /\ draft = None \/ ~Reviewed
  /\ enabled' = TRUE
  /\ UNCHANGED <<draftvars, final, status, bookvars, deAI, adaptation, everPassed>>

CheckDeAI ==
  /\ draft # None /\ Reviewed
  /\ enabled' = TRUE
  /\ deAI' = draft
  /\ Log!Record("de_ai_check", None) \/ UNCHANGED bookvars
  /\ UNCHANGED <<draftvars, final, status, adaptation, everPassed>>

CheckAdaptation ==
  /\ project.adapting /\ draft # None
  /\ \E passed \in BOOLEAN : adaptation' = [text |-> draft, passed |-> passed]
  /\ UNCHANGED <<draftvars, final, status, bookvars, enabled, deAI, everPassed>>
--------------------------------------------------------------------------------
Mut_DeAIGate == enabled => deAI = draft /\ draft \in project.clean   \* trusts check_de_ai to have asked
DeAIGate ==
  enabled => /\ latestBy["consistency_check"] = draft
             /\ deAI = draft /\ draft \in project.clean

AdaptationGate == project.adapting => adaptation = [text |-> draft, passed |-> TRUE]

BudgetGate == status = "open" => project.distance[draft] = 0

\* A rework that changes nothing is refused.
Mut_Unrevised == status = "queued" /\ latest = [step |-> "commit", digest |-> draft]   \* asks the log
Unrevised == status = "queued" /\ final = draft

\* commit_chapter, of a chapter that is open (Execute) or queued (executeRewriteCommit).
MayCommit ==
  /\ status # "done" /\ draft # None
  /\ DeAIGate /\ ~Unrevised /\ AdaptationGate /\ BudgetGate

Commit ==
  /\ MayCommit
  /\ final' = draft /\ status' = "done" /\ revised' = FALSE
  /\ Log!Record("commit", draft) \/ UNCHANGED bookvars
  /\ UNCHANGED <<draft, auditvars>>

CommitInterrupted ==   \* after SaveFinalChapter
  /\ MayCommit
  /\ final' = draft
  /\ UNCHANGED <<draftvars, status, bookvars, auditvars>>

\* A review or the user sends the chapter back (QueuePendingRewrites).
Queue ==
  /\ status = "done"
  /\ status' = "queued"
  /\ UNCHANGED <<draftvars, final, bookvars, auditvars>>

\* A manuscript revision of the author's is published: it writes the final text.
Publish(t) ==
  /\ project.publishing
  /\ status = "done" /\ t # final
  /\ final' = t
  /\ UNCHANGED <<draftvars, status, bookvars, auditvars>>

GatesNext ==
  /\ UNCHANGED project
  /\ \/ \E t \in Texts : \/ DraftChapter(t) \/ EditChapter(t) \/ RepairBatch(t)
                         \/ SegmentAnswered(t) \/ SegmentFails(t) \/ Publish(t)
     \/ EditRefused
     \/ ConsistencyPassed \/ ConsistencyBlocked \/ DeAIRefused \/ CheckDeAI \/ CheckAdaptation
     \/ Commit \/ CommitInterrupted \/ Queue

GatesSpec == GatesInit /\ [][GatesNext]_gatesvars
--------------------------------------------------------------------------------
\* A draft becomes the final text only after that very text passed a consistency
\* check, whatever happened to draft and checks in between (commit_chapter.go:488,
\* "binds commit to the exact draft version").
CommittedTextPassed ==
  [][(Commit \/ CommitInterrupted) /\ enabled => draft \in everPassed]_gatesvars

\* A chapter that was sent back is committed again only when its draft was worked
\* on since the last time: "drafts and chapters are identical, no rewrite was detected"
\* (commit_chapter.go:682). A published revision of the author's changes the final
\* text alone, so that this is not so where revisions are published.
UnrevisedReworkIsRefused ==
  [][Commit /\ status = "queued" /\ ~project.publishing => revised]_gatesvars
===============================================================================

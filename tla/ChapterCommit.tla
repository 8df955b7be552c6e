--------------------------- MODULE ChapterCommit -----------------------------
(***************************************************************************)
(* How a chapter gets from a draft into the book: the tools of the writer  *)
(* (draft_chapter, edit_chapter, commit_chapter) and of the editor         *)
(* (save_review), reopening a completed book, and the host that starts,    *)
(* stops and resumes the run.  A flat book, not an adaptation.             *)
(*                                                                         *)
(* commit_chapter writes a dozen files one after another with no journal   *)
(* that undoes them: each write is a step here, the process may die or the *)
(* write may fail between any two, and the next call starts from what is   *)
(* on disk.  Tool calls are sequential (the write tools declare            *)
(* ConcurrencySafe = false, and one process holds the writing-flow lease). *)
(***************************************************************************)
EXTENDS Naturals, FiniteSets

CONSTANTS
  TotalChapters,    \* Progress.TotalChapters
  MaxChapter,       \* bound: chapters an agent may name
  ReviewInterval,   \* domain.ReviewInterval (5 in the code)
  Many,             \* bound: facts of a chapter are counted up to this
  Texts,            \* chapter texts a model can write
  NoText,           \* the empty string: no such file
  Routings,         \* whether the models do what the host's router tells them
  Failures          \* processes die and writes fail in the middle of a call

Chapters == 1..MaxChapter

ASSUME ChapterAssumption ==
  /\ TotalChapters \in Nat \ {0}
  /\ MaxChapter \in Nat
  /\ MaxChapter >= TotalChapters
  /\ ReviewInterval \in Nat \ {0}
  /\ Many \in Nat \ {0}
ASSUME TextAssumption == NoText \notin Texts
ASSUME ModeAssumption == Routings \subseteq BOOLEAN /\ Failures \in BOOLEAN

VARIABLES
  routed,                                   \* one of Routings; does not change
  phase, flow, completed, queue, counted,   \* meta/progress.json
  draft, final,                             \* drafts/NN, chapters/NN
  provenance, summary,
  timeline, stateChanges, upserted,         \* world facts of each chapter
  pending,                                  \* meta/pending_commit.json
  running,                                  \* the host's lifecycle
  agent,                                    \* the subagent at work
  call                                      \* the tool call in progress

progress == <<phase, flow, completed, queue, counted>>
texts == <<draft, final, provenance, summary>>
world == <<timeline, stateChanges, upserted>>
vars == <<routed, progress, texts, world, pending, running, agent, call>>

Reworking == {"rewriting", "polishing"}
Flows == {"writing"} \cup Reworking
Text == Texts \cup {NoText}

(* Facts are appended, without a look at what is there.                    *)
OneMore(n) == IF n < Many THEN n + 1 ELSE Many

Stages == {"started", "state_applied", "progress_marked"}
NoPending == [chapter |-> 0, stage |-> "started"]
Pending == [chapter : Chapters, stage : Stages] \cup {NoPending}

NoAgent == [role |-> "none", chapter |-> 0]
Agent == {NoAgent} \cup [role : {"writer"}, chapter : Chapters]
                   \cup {[role |-> "editor", chapter |-> 0]}

Steps == {"final", "provenance", "summary", "timeline", "upserts", "states",
          "applied", "mark", "completion", "marked", "clear", "drain",
          "checkpoint", "recomplete"}
Idle == [at |-> "idle"]
Call == {Idle} \cup [at : Steps, chapter : Chapters, text : Texts,
                     rewrite : BOOLEAN]
               \cup [at : {"set_flow"}, flow : Reworking]

(* Planning is over and the first chapter may be written.                  *)
Init ==
  /\ routed \in Routings
  /\ phase = "writing"
  /\ flow = "writing"
  /\ completed = {}
  /\ queue = {}
  /\ counted = [c \in Chapters |-> NoText]
  /\ draft = [c \in Chapters |-> NoText]
  /\ final = [c \in Chapters |-> NoText]
  /\ provenance = [c \in Chapters |-> NoText]
  /\ summary = [c \in Chapters |-> NoText]
  /\ timeline = [c \in Chapters |-> 0]
  /\ stateChanges = [c \in Chapters |-> 0]
  /\ upserted = {}
  /\ pending = NoPending
  /\ running = TRUE
  /\ agent = NoAgent
  /\ call = Idle
-----------------------------------------------------------------------------
(* The coordinator and its subagents.                                      *)

Awaiting == running /\ agent = NoAgent /\ call = Idle

(* Progress.NextChapter: one after the last completed chapter.             *)
IsNext(c) ==
  /\ \A d \in completed : d < c
  /\ c = 1 \/ c - 1 \in completed

(* flow.Route: the queue first (its order is left open here), then the     *)
(* next chapter, nothing after the book is complete.                       *)
RouterSends(c) ==
  /\ phase # "complete"
  /\ IF queue # {} THEN c \in queue ELSE IsNext(c)

(* ValidateChapterWork.                                                    *)
ChapterWorkAllowed(c) == flow \in Reworking => queue \subseteq completed
                                               /\ c \in queue

(* The gate refuses every subagent once the book is complete.  The router  *)
(* validates the chapter it sends.                                         *)
DispatchWriter(c) ==
  /\ Awaiting
  /\ phase # "complete"
  /\ routed => RouterSends(c) /\ ChapterWorkAllowed(c)
  /\ agent' = [role |-> "writer", chapter |-> c]
  /\ UNCHANGED <<progress, texts, world, pending, running, call>>

(* Reviews of a flat book are the coordinator's idea; it is told to finish *)
(* the queue first.                                                        *)
DispatchEditor ==
  /\ Awaiting
  /\ phase # "complete"
  /\ completed # {}
  /\ routed => queue = {}
  /\ agent' = [role |-> "editor", chapter |-> 0]
  /\ UNCHANGED <<progress, texts, world, pending, running, call>>

(* Its model ends the turn, or its stop guard gives up on it.              *)
SubagentReturns ==
  /\ agent # NoAgent
  /\ call = Idle
  /\ agent' = NoAgent
  /\ UNCHANGED <<progress, texts, world, pending, running, call>>

(* The writer is free to call a tool on c.                                 *)
WriterMayCall(c) ==
  /\ agent.role = "writer"
  /\ call = Idle
  /\ routed => c = agent.chapter
-----------------------------------------------------------------------------
(* draft_chapter and edit_chapter.                                         *)

Protected(c) == c \in completed /\ c \notin queue

(* StartChapter puts the phase back to writing whatever it was; a flow     *)
(* that reworks chapters stays.  The draft is written after that.          *)
DraftChapter(c, t) ==
  /\ WriterMayCall(c)
  /\ ChapterWorkAllowed(c)
  /\ ~Protected(c)
  /\ phase' = "writing"
  /\ \/ draft' = [draft EXCEPT ![c] = t]
     \/ Failures /\ UNCHANGED draft
  /\ UNCHANGED <<flow, completed, queue, counted, final, provenance, summary,
                 world, pending, running, agent, call>>

(* ensureDraft seeds the draft from the final text.  An edit that does not *)
(* match leaves it at that.                                                *)
EditChapter(c, t) ==
  LET current == IF draft[c] # NoText THEN draft[c] ELSE final[c]
  IN /\ WriterMayCall(c)
     /\ ~Protected(c)
     /\ current # NoText
     /\ draft' = [draft EXCEPT ![c] = t]
     /\ UNCHANGED <<progress, final, provenance, summary, world, pending, running, agent, call>>
-----------------------------------------------------------------------------
(* commit_chapter: which way a call goes.                                  *)

(* A completed chapter whose commit did not get to remove its own pending  *)
(* record: the next call on it does.  That it fails to goes unnoticed.     *)
ForgetResidue(c) ==
  \/ pending' = IF pending.chapter = c THEN NoPending ELSE pending
  \/ Failures /\ UNCHANGED pending

(* buildSkipResult: a success, and the writer stops after it.              *)
SkipCommit(c) ==
  /\ WriterMayCall(c)
  /\ Protected(c)
  /\ ForgetResidue(c)
  /\ agent' = NoAgent
  /\ UNCHANGED <<progress, texts, world, running, call>>

(* A rework that is refused: no text, an unchanged text, or a gate.  Some  *)
(* refusals are results, and end the writer's turn; others are errors.     *)
RefuseRewrite(c) ==
  /\ WriterMayCall(c)
  /\ c \in completed
  /\ c \in queue
  /\ ForgetResidue(c)
  /\ agent' \in {agent, NoAgent}
  /\ UNCHANGED <<progress, texts, world, running, call>>

(* executeRewriteCommit wants a text that differs from the final one.      *)
BeginRewrite(c) ==
  /\ WriterMayCall(c)
  /\ c \in completed
  /\ c \in queue
  /\ draft[c] # NoText
  /\ draft[c] # final[c]
  /\ ForgetResidue(c)
  /\ call' = [at |-> "final", chapter |-> c, text |-> draft[c],
              rewrite |-> TRUE]
  /\ UNCHANGED <<progress, texts, world, running, agent>>

Mut_BeginCommit(c) ==         \* takes over the record of another chapter
  /\ WriterMayCall(c)
  /\ c \notin completed
  /\ ChapterWorkAllowed(c)
  /\ draft[c] # NoText
  /\ pending' = [chapter |-> c, stage |-> "started"]
  /\ call' = [at |-> "final", chapter |-> c, text |-> draft[c],
              rewrite |-> FALSE]
  /\ UNCHANGED <<progress, texts, world, running, agent>>

(* The main path: all checks, then the first write, the pending record.    *)
BeginCommit(c) ==
  /\ WriterMayCall(c)
  /\ c \notin completed
  /\ pending.chapter \in {0, c}
  /\ ChapterWorkAllowed(c)
  /\ draft[c] # NoText
  /\ pending' = [chapter |-> c, stage |-> "started"]
  /\ call' = [at |-> "final", chapter |-> c, text |-> draft[c],
              rewrite |-> FALSE]
  /\ UNCHANGED <<progress, texts, world, running, agent>>
-----------------------------------------------------------------------------
(* commit_chapter: its writes, in order.                                   *)

At(step) == call.at = step
Continue(step) == call' = [call EXCEPT !.at = step]

SaveFinalChapter ==
  /\ At("final")
  /\ final' = [final EXCEPT ![call.chapter] = call.text]
  /\ Continue("provenance")
  /\ UNCHANGED <<progress, draft, provenance, summary, world, pending, running, agent>>

SaveProvenance ==
  /\ At("provenance")
  /\ provenance' = [provenance EXCEPT ![call.chapter] = call.text]
  /\ Continue("summary")
  /\ UNCHANGED <<progress, draft, final, summary, world, pending,
                 running, agent>>

Mut_SaveSummary ==            \* takes the facts of a retry for written
  /\ At("summary")
  /\ summary' = [summary EXCEPT ![call.chapter] = call.text]
  /\ Continue(IF call.rewrite \/ summary[call.chapter] # NoText THEN "mark"
              ELSE "timeline")
  /\ UNCHANGED <<progress, draft, final, provenance, world, pending, running, agent>>

(* A rework leaves the facts of the chapter as its first commit put them.  *)
SaveSummary ==
  /\ At("summary")
  /\ summary' = [summary EXCEPT ![call.chapter] = call.text]
  /\ Continue(IF call.rewrite THEN "mark" ELSE "timeline")
  /\ UNCHANGED <<progress, draft, final, provenance, world, pending, running, agent>>

AppendTimeline ==
  /\ At("timeline")
  /\ timeline' = [timeline EXCEPT ![call.chapter] = OneMore(@)]
  /\ Continue("upserts")
  /\ UNCHANGED <<progress, texts, stateChanges, upserted, pending, running, agent>>

(* Foreshadowing and relationships are keyed: writing them again changes   *)
(* nothing.                                                                *)
UpdateKeyedFacts ==
  /\ At("upserts")
  /\ upserted' = upserted \cup {call.chapter}
  /\ Continue("states")
  /\ UNCHANGED <<progress, texts, timeline, stateChanges, pending, running, agent>>

AppendStateChanges ==
  /\ At("states")
  /\ stateChanges' = [stateChanges EXCEPT ![call.chapter] = OneMore(@)]
  /\ Continue("applied")
  /\ UNCHANGED <<progress, texts, timeline, upserted, pending,
                 running, agent>>

MarkStateApplied ==
  /\ At("applied")
  /\ pending' = [chapter |-> call.chapter, stage |-> "state_applied"]
  /\ Continue("mark")
  /\ UNCHANGED <<progress, texts, world, running, agent>>

(* Refused when the book is complete: a phase never moves back here.       *)
MarkChapterComplete ==
  /\ At("mark")
  /\ phase = "writing"
  /\ completed' = completed \cup {call.chapter}
  /\ counted' = [counted EXCEPT ![call.chapter] = call.text]
  /\ Continue(IF call.rewrite THEN "drain" ELSE "completion")
  /\ UNCHANGED <<phase, flow, queue, texts, world, pending,
                 running, agent>>

MarkChapterRefused ==
  /\ At("mark")
  /\ phase = "complete"
  /\ call' = Idle
  /\ UNCHANGED <<progress, texts, world, pending, running, agent>>

(* ShouldReview.                                                           *)
ReviewRequired == Cardinality(completed) % ReviewInterval = 0

(* MarkComplete; a failure to write it is logged and swallowed.            *)
MarkComplete == phase' \in {"complete"} \cup (IF Failures THEN {phase} ELSE {})

Mut_ApplyCompletion ==        \* completes one chapter early
  /\ At("completion")
  /\ IF ~ReviewRequired /\ call.chapter + 1 >= TotalChapters
     THEN MarkComplete
     ELSE UNCHANGED phase
  /\ Continue("marked")
  /\ UNCHANGED <<flow, completed, queue, counted, texts, world, pending, running, agent>>

(* applyCompletion: a chapter that asks for a review does not complete the *)
(* book, otherwise the last chapter does.                                  *)
ApplyCompletion ==
  /\ At("completion")
  /\ IF ~ReviewRequired /\ call.chapter + 1 > TotalChapters
     THEN MarkComplete
     ELSE UNCHANGED phase
  /\ Continue("marked")
  /\ UNCHANGED <<flow, completed, queue, counted, texts, world, pending, running, agent>>

MarkProgressMarked ==
  /\ At("marked")
  /\ pending' = [chapter |-> call.chapter, stage |-> "progress_marked"]
  /\ Continue("clear")
  /\ UNCHANGED <<progress, texts, world, running, agent>>

ClearPendingCommit ==
  /\ At("clear")
  /\ pending' = NoPending
  /\ Continue("checkpoint")
  /\ UNCHANGED <<progress, texts, world, running, agent>>

Mut_CompleteRewrite ==        \* leaves the flow as it was
  /\ At("drain")
  /\ queue' = queue \ {call.chapter}
  /\ Continue("checkpoint")
  /\ UNCHANGED <<phase, flow, completed, counted, texts, world, pending, running, agent>>

(* The flow goes back to writing with the last chapter of the queue.       *)
CompleteRewrite ==
  /\ At("drain")
  /\ queue' = queue \ {call.chapter}
  /\ flow' = IF queue' = {} THEN "writing" ELSE flow
  /\ Continue("checkpoint")
  /\ UNCHANGED <<phase, completed, counted, texts, world, pending, running, agent>>

(* A line of the log, which is module CheckpointLog.  The main path ends   *)
(* here, and with it the writer's turn.                                    *)
AppendCheckpoint ==
  /\ At("checkpoint")
  /\ IF call.rewrite
     THEN Continue("recomplete") /\ UNCHANGED agent
     ELSE call' = Idle /\ agent' = NoAgent
  /\ UNCHANGED <<progress, texts, world, pending, running>>

(* The rewrite path completes the book again once the queue is empty.      *)
Recomplete ==
  /\ At("recomplete")
  /\ IF queue = {} /\ Cardinality(completed) >= TotalChapters
     THEN MarkComplete
     ELSE UNCHANGED phase
  /\ call' = Idle
  /\ agent' = NoAgent
  /\ UNCHANGED <<flow, completed, queue, counted, texts, world, pending, running>>

CommitStep ==
  \/ SaveFinalChapter
  \/ SaveProvenance
  \/ SaveSummary
  \/ AppendTimeline
  \/ UpdateKeyedFacts
  \/ AppendStateChanges
  \/ MarkStateApplied
  \/ MarkChapterComplete
  \/ MarkChapterRefused
  \/ ApplyCompletion
  \/ MarkProgressMarked
  \/ ClearPendingCommit
  \/ CompleteRewrite
  \/ AppendCheckpoint
  \/ Recomplete
-----------------------------------------------------------------------------
(* save_review of the editor.                                              *)

EditorMayCall == agent.role = "editor" /\ call = Idle

(* SetPendingRewrites replaces the queue; the flow is a second write.      *)
QueueReview(affected, to) ==
  /\ EditorMayCall
  /\ affected # {}
  /\ affected \subseteq completed
  /\ queue' = affected
  /\ call' = [at |-> "set_flow", flow |-> to]
  /\ UNCHANGED <<phase, flow, completed, counted, texts, world, pending, running, agent>>

(* CanTransitionFlow refuses to go from rewriting to polishing.            *)
SetReviewFlow ==
  /\ At("set_flow")
  /\ flow' = IF flow = "rewriting" /\ call.flow = "polishing" THEN flow
             ELSE call.flow
  /\ call' = Idle
  /\ UNCHANGED <<phase, completed, queue, counted, texts, world, pending, running, agent>>

AcceptReview ==
  /\ EditorMayCall
  /\ flow' = "writing"
  /\ UNCHANGED <<phase, completed, queue, counted, texts, world, pending, running, agent, call>>
-----------------------------------------------------------------------------
(* The book is opened again; the run stops and goes on.                    *)

(* reopen_book, a tool of the coordinator.                                 *)
ReopenBook(chapters) ==
  /\ Awaiting
  /\ phase = "complete"
  /\ chapters # {}
  /\ chapters \subseteq completed
  /\ phase' = "writing"
  /\ queue' = chapters
  /\ flow' = "rewriting"
  /\ UNCHANGED <<completed, counted, texts, world, pending,
                 running, agent, call>>

Mut_ReviseChapter(c, to) ==   \* forgets what was queued before
  /\ ~running
  /\ c \in completed
  /\ phase' = "writing"
  /\ queue' = {c}
  /\ flow' = to
  /\ running' \in BOOLEAN
  /\ UNCHANGED <<completed, counted, texts, world, pending,
                 agent, call>>

(* Host.ReviseChapter adds to the queue of a stopped run and resumes it,   *)
(* which may fail.                                                         *)
ReviseChapter(c, to) ==
  /\ ~running
  /\ c \in completed
  /\ phase' = "writing"
  /\ queue' = queue \cup {c}
  /\ flow' = to
  /\ running' \in BOOLEAN
  /\ UNCHANGED <<completed, counted, texts, world, pending,
                 agent, call>>

(* A written book that is not marked complete needs an independent audit   *)
(* before it may go on.  The audit binds to the layered outline, which a   *)
(* flat book does not have, so it refuses.                                 *)
AwaitsCompletionAudit ==
  /\ Cardinality(completed) = TotalChapters
  /\ queue = {}

Resume ==
  /\ ~running
  /\ phase = "writing"
  /\ ~AwaitsCompletionAudit
  /\ running' = TRUE
  /\ UNCHANGED <<progress, texts, world, pending, agent, call>>

(* Host.Continue: a message of the user starts the run as it is.           *)
ContinueRun ==
  /\ ~running
  /\ running' = TRUE
  /\ UNCHANGED <<progress, texts, world, pending, agent, call>>

(* The run ends or is paused between two calls, or the process dies.       *)
Stop ==
  /\ running
  /\ call = Idle \/ Failures
  /\ running' = FALSE
  /\ agent' = NoAgent
  /\ call' = Idle
  /\ UNCHANGED <<progress, texts, world, pending>>

(* A write fails: the call returns the error to the model.                 *)
ToolFails ==
  /\ Failures
  /\ call # Idle
  /\ call' = Idle
  /\ UNCHANGED <<progress, texts, world, pending, running, agent>>

Next ==
  /\ UNCHANGED routed
  /\ \/ \E c \in Chapters : DispatchWriter(c)
     \/ DispatchEditor
     \/ SubagentReturns
     \/ \E c \in Chapters, t \in Texts : DraftChapter(c, t)
     \/ \E c \in Chapters, t \in Texts : EditChapter(c, t)
     \/ \E c \in Chapters : SkipCommit(c)
     \/ \E c \in Chapters : RefuseRewrite(c)
     \/ \E c \in Chapters : BeginRewrite(c)
     \/ \E c \in Chapters : BeginCommit(c)
     \/ CommitStep
     \/ \E s \in SUBSET Chapters, f \in Reworking : QueueReview(s, f)
     \/ SetReviewFlow
     \/ AcceptReview
     \/ \E s \in SUBSET Chapters : ReopenBook(s)
     \/ \E c \in Chapters, f \in Reworking : ReviseChapter(c, f)
     \/ Resume
     \/ ContinueRun
     \/ Stop
     \/ ToolFails

Spec == Init /\ [][Next]_vars

-----------------------------------------------------------------------------
(* The values the files may hold; a tool call is made by a subagent of a   *)
(* run that is going on.                                                   *)
TypeOK ==
  /\ routed \in Routings
  /\ phase \in {"writing", "complete"}
  /\ flow \in Flows
  /\ completed \subseteq Chapters
  /\ queue \subseteq Chapters
  /\ {counted, draft, final, provenance, summary} \subseteq [Chapters -> Text]
  /\ {timeline, stateChanges} \subseteq [Chapters -> 0..Many]
  /\ upserted \subseteq Chapters
  /\ pending \in Pending
  /\ running \in BOOLEAN
  /\ agent \in Agent
  /\ call \in Call
  /\ call # Idle => agent # NoAgent
  /\ agent # NoAgent => running

(* A chapter counts as written only when every file the later chapters are *)
(* written from is there: no order of failures, crashes and retries of     *)
(* commit_chapter reaches MarkChapterComplete past a write that was missed.*)
CompletedIsRecorded ==
  \A c \in completed :
    /\ NoText \notin {final[c], provenance[c], summary[c], counted[c]}
    /\ timeline[c] > 0
    /\ stateChanges[c] > 0
    /\ c \in upserted

(* A chapter that has a final text and is not in the progress yet is the   *)
(* one the pending record names: at most one commit is ever half done, and *)
(* the record survives until the commit is finished, so that no other      *)
(* chapter is committed past it.                                           *)
InterruptedIsRemembered ==
  \A c \in Chapters \ completed : final[c] # NoText => pending.chapter = c

(* The chapters to be reworked are chapters of the book, and while no call *)
(* is in progress a flow that admits only queued chapters has some.        *)
(* Otherwise ValidateChapterWork refuses every chapter, for ever.          *)
NeverLockedOut ==
  /\ queue \subseteq completed
  /\ flow \in Reworking => queue # {}

(* What the book says of a chapter nobody is reworking is of one version:  *)
(* the text, its provenance, its summary and its word count.  A commit or  *)
(* a rework that was interrupted is finished before the run moves on.  It  *)
(* is the router that sees to this: a model that works on another chapter  *)
(* than it was sent to can leave one behind.                               *)
Settled ==
  routed => \A c \in completed \ queue :
    final[c] = provenance[c] /\ final[c] = summary[c] /\ final[c] = counted[c]

(* Where the models follow the router, the tools implement the book a      *)
(* reader relies on; of other runs nothing is said here.                   *)
Book == INSTANCE ManuscriptBook WITH
  text <- [c \in Chapters |-> IF routed /\ c \in completed THEN final[c] ELSE NoText],
  open <- IF routed THEN queue ELSE {},
  complete <- (routed /\ phase = "complete")
ImplementsBook == Book!Spec
=============================================================================

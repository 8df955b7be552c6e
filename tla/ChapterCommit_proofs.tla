------------------------- MODULE ChapterCommit_proofs ------------------------
(***************************************************************************)
(* Proofs about ChapterCommit, for any number of chapters and any texts,   *)
(* with routed and free models, with and without failures.  What a commit  *)
(* in progress already wrote (CallWrote), and what kind of call it is      *)
(* (CallKind), is what makes the invariants inductive: a call that stops   *)
(* half-way leaves them because they held in the middle of it.             *)
(***************************************************************************)
EXTENDS ChapterCommit, FiniteSetTheorems, TLAPS

Writing == call.at \in Steps

OnlyMain == {"timeline", "upserts", "states", "applied", "completion",
             "marked", "clear"}
OnlyRewrite == {"drain", "recomplete"}
PastMark == {"completion", "marked", "clear", "drain", "checkpoint",
             "recomplete"}
PastStates == {"applied", "mark"} \cup PastMark
PastUpserts == {"states"} \cup PastStates
PastTimeline == {"upserts"} \cup PastUpserts
PastSummary == {"timeline"} \cup PastTimeline
PastProvenance == {"summary"} \cup PastSummary
PastFinal == {"provenance"} \cup PastProvenance

(* Who makes a call, and for which chapter: a rework is of a chapter of    *)
(* the book, anything else of the one the pending record names.            *)
CallKind ==
  /\ Writing => agent.role = "writer"
  /\ call.at = "set_flow" => agent.role = "editor" /\ queue # {}
  /\ Writing /\ call.rewrite =>
       call.at \notin OnlyMain /\ call.chapter \in completed
  /\ Writing /\ ~call.rewrite =>
       /\ call.at \notin OnlyRewrite
       /\ call.at \in PastMark <=> call.chapter \in completed
       /\ call.at # "checkpoint" => pending.chapter = call.chapter

(* Every step of a commit finds what the steps before it wrote.            *)
CallWrote ==
  Writing =>
    /\ call.at \in PastFinal => final[call.chapter] = call.text
    /\ call.at \in PastProvenance => provenance[call.chapter] = call.text
    /\ call.at \in PastSummary => summary[call.chapter] = call.text
    /\ call.at \in PastMark => counted[call.chapter] = call.text
    /\ ~call.rewrite =>
         /\ call.at \in PastTimeline => timeline[call.chapter] > 0
         /\ call.at \in PastUpserts => call.chapter \in upserted
         /\ call.at \in PastStates => stateChanges[call.chapter] > 0

(* The invariant of every run.                                             *)
CommitInv ==
  /\ TypeOK
  /\ CallKind
  /\ CallWrote
  /\ CompletedIsRecorded
  /\ InterruptedIsRemembered
  /\ NeverLockedOut

OfOneVersion(c) ==
  final[c] = provenance[c] /\ final[c] = summary[c] /\ final[c] = counted[c]

(* The writer works on the chapter it was sent to, which stays open until  *)
(* its rework is drained.                                                  *)
WriterInTurn ==
  Writing =>
    /\ call.chapter = agent.chapter
    /\ call.rewrite /\ call.at \notin {"checkpoint", "recomplete"} =>
         call.chapter \in queue

(* Nothing is open while a chapter is new.                                 *)
NewIsNext ==
  agent.role = "writer" =>
    /\ agent.chapter \notin completed => queue = {} /\ IsNext(agent.chapter)
    /\ Writing /\ ~call.rewrite => queue = {}
    /\ phase = "complete" => agent.chapter \in completed

(* An editor finds no chapter half reworked, and may close any.            *)
EditorFindsSettled ==
  agent.role = "editor" =>
    phase # "complete" /\ \A c \in completed : OfOneVersion(c)

CompleteIsClosed == phase = "complete" => queue = {}

InOrder == \A c \in completed, d \in Chapters : d < c => d \in completed

(* What holds in addition where the models follow the router.              *)
RoutedInv ==
  routed =>
    /\ WriterInTurn
    /\ NewIsNext
    /\ EditorFindsSettled
    /\ CompleteIsClosed
    /\ InOrder
    /\ \A c \in completed \ queue : OfOneVersion(c)
-----------------------------------------------------------------------------
(* Types.                                                                  *)

(* The call in progress is idle, a commit, or the second write of a review.*)
LEMMA CallFields ==
  ASSUME TypeOK
  PROVE  /\ Writing => /\ call \in [at : Steps, chapter : Chapters,
                                    text : Texts, rewrite : BOOLEAN]
                       /\ call # Idle
         /\ call.at = "set_flow" => /\ call \in [at : {"set_flow"}, flow : Reworking]
                                    /\ call # Idle
         /\ call.at = "idle" <=> call = Idle
         /\ call.at \in Steps \cup {"idle", "set_flow"}
PROOF
  <1>1. CASE call = Idle
    BY <1>1 DEF Idle, Writing, Steps
  <1>2. CASE call \in [at : Steps, chapter : Chapters, text : Texts,
                       rewrite : BOOLEAN]
    BY <1>2 DEF Idle, Writing, Steps
  <1>3. CASE call \in [at : {"set_flow"}, flow : Reworking]
    BY <1>3 DEF Idle, Writing, Steps
  <1> QED BY <1>1, <1>2, <1>3 DEF TypeOK, Call

(* A commit goes on as a commit.                                           *)
LEMMA ContinueType ==
  ASSUME TypeOK, Writing, NEW step \in Steps, Continue(step)
  PROVE  /\ call' \in [at : Steps, chapter : Chapters, text : Texts,
                       rewrite : BOOLEAN]
         /\ call'.at = step
         /\ call'.chapter = call.chapter
         /\ call'.text = call.text
         /\ call'.rewrite = call.rewrite
         /\ call' \in Call
  BY CallFields DEF Continue, Call

LEMMA TypeInit == Init => TypeOK
  BY ChapterAssumption DEF Init, TypeOK, Text, Flows, Pending, NoPending, Agent, NoAgent, Call, Idle

(* Dispatches, drafts, and calls that begin no commit.                     *)
LEMMA TypeAgents ==
  ASSUME TypeOK, UNCHANGED routed,
         \/ \E c \in Chapters : DispatchWriter(c) \/ SkipCommit(c) \/ RefuseRewrite(c)
         \/ DispatchEditor \/ SubagentReturns
         \/ \E c \in Chapters, t \in Texts : DraftChapter(c, t) \/ EditChapter(c, t)
  PROVE  TypeOK'
PROOF
  <1> USE DEF TypeOK, progress, texts, world
  <1>1. ASSUME NEW c \in Chapters, DispatchWriter(c) PROVE TypeOK'
    BY <1>1 DEF DispatchWriter, Awaiting, Agent, NoAgent
  <1>2. ASSUME NEW c \in Chapters, SkipCommit(c) \/ RefuseRewrite(c) PROVE TypeOK'
    BY <1>2 DEF SkipCommit, RefuseRewrite, WriterMayCall, ForgetResidue, Agent, Pending
  <1>3. CASE DispatchEditor
    BY <1>3 DEF DispatchEditor, Awaiting, Agent, NoAgent
  <1>4. CASE SubagentReturns
    BY <1>4 DEF SubagentReturns, Agent
  <1>5. ASSUME NEW c \in Chapters, NEW t \in Texts, DraftChapter(c, t) \/ EditChapter(c, t)
        PROVE  TypeOK'
    BY <1>5 DEF DraftChapter, EditChapter, WriterMayCall, Text
  <1> QED BY <1>1, <1>2, <1>3, <1>4, <1>5

(* The call that a commit begins with.                                     *)
LEMMA BeginType ==
  ASSUME TypeOK, NEW c \in Chapters, BeginRewrite(c) \/ BeginCommit(c)
  PROVE  /\ call' \in [at : Steps, chapter : Chapters, text : Texts,
                       rewrite : BOOLEAN]
         /\ call'.at = "final" /\ call'.chapter = c /\ call'.text = draft[c]
         /\ call'.rewrite <=> c \in completed
         /\ call' # Idle
         /\ agent.role = "writer" /\ agent # NoAgent
         /\ call = Idle
         /\ pending' \in Pending
PROOF
  <1>1. draft[c] \in Texts
    BY DEF TypeOK, Text, BeginRewrite, BeginCommit
  <1>2. pending' \in Pending
    BY DEF TypeOK, BeginRewrite, BeginCommit, ForgetResidue, Pending, Stages
  <1>3. agent.role = "writer" /\ agent # NoAgent /\ call = Idle
    BY DEF BeginRewrite, BeginCommit, WriterMayCall, NoAgent
  <1>4. CASE BeginRewrite(c)
    <2>1. c \in completed /\ call' = [at |-> "final", chapter |-> c, text |-> draft[c],
                                      rewrite |-> TRUE]
      BY <1>4 DEF BeginRewrite
    <2> QED BY <1>1, <1>2, <1>3, <2>1 DEF Steps, Idle
  <1>5. CASE BeginCommit(c)
    <2>1. c \notin completed /\ call' = [at |-> "final", chapter |-> c, text |-> draft[c],
                                         rewrite |-> FALSE]
      BY <1>5 DEF BeginCommit
    <2> QED BY <1>1, <1>2, <1>3, <2>1 DEF Steps, Idle
  <1> QED
    BY <1>4, <1>5

LEMMA TypeBegin ==
  ASSUME TypeOK, UNCHANGED routed, NEW c \in Chapters, BeginRewrite(c) \/ BeginCommit(c)
  PROVE  TypeOK'
PROOF
  <1>1. call' \in Call
    BY BeginType DEF Call
  <1> QED
    BY <1>1, BeginType
       DEF TypeOK, BeginRewrite, BeginCommit, progress, texts, world

(* The writes of a commit.                                                 *)
LEMMA TypeCommitStep ==
  ASSUME TypeOK, UNCHANGED routed, CommitStep PROVE TypeOK'
PROOF
  <1> USE CallFields, ContinueType
      DEF TypeOK, progress, texts, world, At, Writing, Steps
  <1>1. CASE SaveFinalChapter \/ SaveProvenance \/ SaveSummary
    BY <1>1 DEF SaveFinalChapter, SaveProvenance, SaveSummary, Text
  <1>2. CASE AppendTimeline \/ AppendStateChanges
    <2>1. \A n \in 0..Many : OneMore(n) \in 0..Many
      BY ChapterAssumption DEF OneMore
    <2> QED BY <1>2, <2>1 DEF AppendTimeline, AppendStateChanges
  <1>3. CASE UpdateKeyedFacts
    BY <1>3 DEF UpdateKeyedFacts
  <1>4. CASE MarkStateApplied \/ MarkProgressMarked \/ ClearPendingCommit
    BY <1>4 DEF MarkStateApplied, MarkProgressMarked, ClearPendingCommit, Pending, Stages
  <1>5. CASE MarkChapterComplete
    BY <1>5 DEF MarkChapterComplete, Text
  <1>6. CASE MarkChapterRefused
    BY <1>6 DEF MarkChapterRefused, Call
  <1>7. CASE ApplyCompletion
    BY <1>7 DEF ApplyCompletion, MarkComplete
  <1>8. CASE CompleteRewrite
    BY <1>8 DEF CompleteRewrite, Flows
  <1>9. CASE AppendCheckpoint
    BY <1>9 DEF AppendCheckpoint, Call, Agent
  <1>10. CASE Recomplete
    BY <1>10 DEF Recomplete, MarkComplete, Call, Agent
  <1> QED
    BY <1>1, <1>2, <1>3, <1>4, <1>5, <1>6, <1>7, <1>8, <1>9, <1>10 DEF CommitStep

(* Reviews, and the run around the calls.                                  *)
LEMMA TypeRun ==
  ASSUME TypeOK, UNCHANGED routed,
         \/ \E s \in SUBSET Chapters, f \in Reworking : QueueReview(s, f)
         \/ SetReviewFlow \/ AcceptReview
         \/ \E s \in SUBSET Chapters : ReopenBook(s)
         \/ \E c \in Chapters, f \in Reworking : ReviseChapter(c, f)
         \/ Resume \/ ContinueRun \/ Stop \/ ToolFails
  PROVE  TypeOK'
PROOF
  <1> USE CallFields DEF TypeOK, progress, texts, world, At, Flows, Reworking
  <1>1. ASSUME NEW s \in SUBSET Chapters, NEW f \in Reworking, QueueReview(s, f)
        PROVE  TypeOK'
    BY <1>1 DEF QueueReview, EditorMayCall, Call, NoAgent
  <1>2. CASE SetReviewFlow \/ AcceptReview
    BY <1>2 DEF SetReviewFlow, AcceptReview, Call
  <1>3. ASSUME NEW s \in SUBSET Chapters, ReopenBook(s) PROVE TypeOK'
    BY <1>3 DEF ReopenBook
  <1>4. ASSUME NEW c \in Chapters, NEW f \in Reworking, ReviseChapter(c, f)
        PROVE  TypeOK'
    BY <1>4 DEF ReviseChapter
  <1>5. CASE Resume \/ ContinueRun \/ Stop \/ ToolFails
    BY <1>5 DEF Resume, ContinueRun, Stop, ToolFails, Call, Agent
  <1> QED BY <1>1, <1>2, <1>3, <1>4, <1>5

LEMMA TypeNext == TypeOK /\ [Next]_vars => TypeOK'
PROOF
  <1>1. ASSUME TypeOK, UNCHANGED vars PROVE TypeOK'
    BY <1>1 DEF TypeOK, vars, progress, texts, world
  <1> QED
    BY <1>1, TypeAgents, TypeBegin, TypeCommitStep, TypeRun DEF Next

(* Every file and every call in progress has the values TypeOK says; a     *)
(* tool call is only ever made by a subagent of a run that is going on.    *)
THEOREM TypeCorrect == Spec => []TypeOK
  BY TypeInit, TypeNext, PTL DEF Spec
-----------------------------------------------------------------------------
(* The invariant.                                                          *)

LEMMA CommitInit == Init => CommitInv
PROOF
  <1>1. Init => CallKind /\ CallWrote
    BY DEF Init, CallKind, CallWrote, Writing, Steps, Idle
  <1>2. Init => CompletedIsRecorded /\ InterruptedIsRemembered /\ NeverLockedOut
    BY DEF Init, CompletedIsRecorded, InterruptedIsRemembered, NeverLockedOut,
           Reworking
  <1> QED BY <1>1, <1>2, TypeInit DEF CommitInv

(* Steps between two calls, and those that end one: what is recorded stays *)
(* recorded.                                                               *)
LEMMA CommitAtRest ==
  ASSUME CommitInv, TypeOK', call' = Idle,
         UNCHANGED <<completed, counted, final, provenance, summary, world>>,
         \/ UNCHANGED pending
         \/ pending.chapter \in completed,
         NeverLockedOut'
  PROVE  CommitInv'
PROOF
  <1>1. CallKind' /\ CallWrote'
    BY DEF CallKind, CallWrote, Writing, Steps, Idle
  <1>2. CompletedIsRecorded'
    BY DEF CommitInv, CompletedIsRecorded, world
  <1>3. InterruptedIsRemembered'
    BY DEF CommitInv, InterruptedIsRemembered, world
  <1> QED BY <1>1, <1>2, <1>3 DEF CommitInv

(* Nobody calls anything while the run is stopped.                         *)
LEMMA StoppedIsIdle ==
  ASSUME TypeOK, ~running \/ agent = NoAgent PROVE call = Idle
  BY DEF TypeOK

LEMMA ForgetsOwn ==
  ASSUME CommitInv, NEW c \in completed, ForgetResidue(c)
  PROVE  UNCHANGED pending \/ pending.chapter \in completed
  BY DEF ForgetResidue

LEMMA CommitAgents ==
  ASSUME CommitInv, TypeOK',
         \/ \E c \in Chapters : DispatchWriter(c) \/ SkipCommit(c) \/ RefuseRewrite(c)
         \/ DispatchEditor \/ SubagentReturns
         \/ \E c \in Chapters, t \in Texts : DraftChapter(c, t) \/ EditChapter(c, t)
  PROVE  CommitInv'
PROOF
  <1>1. call' = Idle
    BY DEF DispatchWriter, SkipCommit, RefuseRewrite, DispatchEditor, SubagentReturns,
           DraftChapter, EditChapter, Awaiting, WriterMayCall
  <1>2. UNCHANGED <<completed, counted, final, provenance, summary, world>>
    BY DEF DispatchWriter, SkipCommit, RefuseRewrite, DispatchEditor, SubagentReturns,
           DraftChapter, EditChapter, progress, texts
  <1>3. UNCHANGED pending \/ pending.chapter \in completed
    <2>1. ASSUME NEW c \in Chapters, SkipCommit(c) \/ RefuseRewrite(c)
          PROVE  UNCHANGED pending \/ pending.chapter \in completed
      BY <2>1, ForgetsOwn DEF SkipCommit, RefuseRewrite, Protected
    <2> QED
      BY <2>1 DEF DispatchWriter, DispatchEditor, SubagentReturns, DraftChapter, EditChapter
  <1>4. UNCHANGED <<flow, completed, queue>>
    BY DEF DispatchWriter, SkipCommit, RefuseRewrite, DispatchEditor, SubagentReturns,
           DraftChapter, EditChapter, progress, texts
  <1>5. NeverLockedOut'
    BY <1>4 DEF CommitInv, NeverLockedOut
  <1> QED BY <1>1, <1>2, <1>3, <1>5, CommitAtRest

LEMMA CommitBegin ==
  ASSUME CommitInv, TypeOK', NEW c \in Chapters, BeginRewrite(c) \/ BeginCommit(c)
  PROVE  CommitInv'
PROOF
  <1> USE DEF CommitInv
  <1>1. UNCHANGED <<completed, counted, final, provenance, summary, world, flow,
                    queue, agent>>
    BY DEF BeginRewrite, BeginCommit, progress, texts
  <1>2. CallKind'
    <2>1. c \notin completed => pending'.chapter = c
      BY DEF BeginRewrite, BeginCommit
    <2> QED
      BY <1>1, <2>1, BeginType
         DEF CallKind, Writing, Steps, OnlyMain, OnlyRewrite, PastMark
  <1>3. CallWrote'
    BY <1>1, BeginType
       DEF CallWrote, Writing, PastFinal, PastProvenance, PastSummary, PastTimeline,
           PastUpserts, PastStates, PastMark
  <1>4. CompletedIsRecorded' /\ NeverLockedOut'
    BY <1>1 DEF CompletedIsRecorded, NeverLockedOut, world
  <1>5. InterruptedIsRemembered'
    <2>1. CASE BeginRewrite(c)
      <3>1. UNCHANGED pending \/ pending.chapter \in completed
        BY <2>1, ForgetsOwn DEF BeginRewrite
      <3> QED BY <1>1, <3>1 DEF InterruptedIsRemembered
    <2>2. CASE BeginCommit(c)
      <3>1. pending.chapter \in {0, c} /\ pending'.chapter = c
        BY <2>2 DEF BeginCommit
      <3>2. 0 \notin Chapters
        BY DEF Chapters
      <3> QED BY <1>1, <3>1, <3>2 DEF InterruptedIsRemembered
    <2> QED BY <2>1, <2>2
  <1> QED BY <1>2, <1>3, <1>4, <1>5

(* The writes of a commit, one after the other.                            *)
LEMMA CommitContinues ==
  ASSUME CommitInv, TypeOK', UNCHANGED routed, CommitStep, call'.at # "idle"
  PROVE  CommitInv'
PROOF
  <1> USE CallFields, ContinueType
      DEF CommitInv, At, Writing, Steps
  <1>0. Writing /\ Writing' /\ UNCHANGED agent
        /\ \E step \in Steps : Continue(step)
    BY DEF CommitStep, SaveFinalChapter, SaveProvenance, SaveSummary, AppendTimeline,
           UpdateKeyedFacts, AppendStateChanges, MarkStateApplied, MarkChapterComplete,
           MarkChapterRefused, ApplyCompletion, MarkProgressMarked, ClearPendingCommit,
           CompleteRewrite, AppendCheckpoint, Recomplete, Idle
  <1>1. call.chapter \in Chapters /\ call.text \in Texts /\ call.rewrite \in BOOLEAN
    BY <1>0
  <1>2. call.text # NoText /\ 0 \notin Chapters
    BY <1>1, TextAssumption DEF Chapters
  <1>3. UNCHANGED call.chapter /\ UNCHANGED call.text /\ UNCHANGED call.rewrite
    BY <1>0
  <1>4. CASE SaveFinalChapter
    <2> USE <1>4 DEF SaveFinalChapter, progress, texts, world
    <2>1. CallKind'
      BY <1>0, <1>1, <1>3 DEF CallKind, OnlyMain, OnlyRewrite, PastMark
    <2>2. CallWrote'
      BY <1>0, <1>1, <1>3
         DEF CallWrote, CallKind, TypeOK, OnlyMain, OnlyRewrite, PastFinal, PastProvenance,
             PastSummary, PastTimeline, PastUpserts, PastStates, PastMark
    <2>3. CompletedIsRecorded'
      BY <1>1, <1>2 DEF CompletedIsRecorded, CallKind, CallWrote, TypeOK
    <2>4. InterruptedIsRemembered'
      BY <1>1, <1>2 DEF InterruptedIsRemembered, CallKind, TypeOK
    <2>5. NeverLockedOut'
      BY <1>1 DEF NeverLockedOut, CallKind, TypeOK
    <2> QED BY <2>1, <2>2, <2>3, <2>4, <2>5
  <1>5. CASE SaveProvenance
    <2> USE <1>5 DEF SaveProvenance, progress, texts, world
    <2>1. CallKind'
      BY <1>0, <1>1, <1>3 DEF CallKind, OnlyMain, OnlyRewrite, PastMark
    <2>2. CallWrote'
      BY <1>0, <1>1, <1>3
         DEF CallWrote, CallKind, TypeOK, OnlyMain, OnlyRewrite, PastFinal, PastProvenance,
             PastSummary, PastTimeline, PastUpserts, PastStates, PastMark
    <2>3. CompletedIsRecorded'
      BY <1>1, <1>2 DEF CompletedIsRecorded, CallKind, CallWrote, TypeOK
    <2>4. InterruptedIsRemembered'
      BY <1>1, <1>2 DEF InterruptedIsRemembered, CallKind, TypeOK
    <2>5. NeverLockedOut'
      BY <1>1 DEF NeverLockedOut, CallKind, TypeOK
    <2> QED BY <2>1, <2>2, <2>3, <2>4, <2>5
  <1>6. CASE SaveSummary
    <2> USE <1>6 DEF SaveSummary, progress, texts, world
    <2>1. CallKind'
      BY <1>0, <1>1, <1>3 DEF CallKind, OnlyMain, OnlyRewrite, PastMark
    <2>2. CallWrote'
      BY <1>0, <1>1, <1>3
         DEF CallWrote, CallKind, TypeOK, OnlyMain, OnlyRewrite, PastFinal, PastProvenance,
             PastSummary, PastTimeline, PastUpserts, PastStates, PastMark
    <2>3. CompletedIsRecorded'
      BY <1>1, <1>2 DEF CompletedIsRecorded, CallKind, CallWrote, TypeOK
    <2>4. InterruptedIsRemembered'
      BY <1>1, <1>2 DEF InterruptedIsRemembered, CallKind, TypeOK
    <2>5. NeverLockedOut'
      BY <1>1 DEF NeverLockedOut, CallKind, TypeOK
    <2> QED BY <2>1, <2>2, <2>3, <2>4, <2>5
  <1>7. CASE AppendTimeline
    <2> USE <1>7 DEF AppendTimeline, progress, texts, world
    <2>1. CallKind'
      BY <1>0, <1>1, <1>3 DEF CallKind, OnlyMain, OnlyRewrite, PastMark
    <2>2. CallWrote'
      BY <1>0, <1>1, <1>3, ChapterAssumption
         DEF CallWrote, CallKind, TypeOK, OnlyMain, OnlyRewrite, PastFinal, PastProvenance,
             PastSummary, PastTimeline, PastUpserts, PastStates, PastMark, OneMore
    <2>3. CompletedIsRecorded'
      <3>1. \A n \in 0..Many : OneMore(n) > 0
        BY ChapterAssumption DEF OneMore
      <3>2. \A c \in Chapters : timeline[c] > 0 => timeline'[c] > 0
        BY <1>1, <3>1 DEF TypeOK
      <3> QED BY <3>2 DEF CompletedIsRecorded, TypeOK
    <2>4. InterruptedIsRemembered'
      BY <1>1, <1>2 DEF InterruptedIsRemembered, CallKind, TypeOK
    <2>5. NeverLockedOut'
      BY <1>1 DEF NeverLockedOut, CallKind, TypeOK
    <2> QED BY <2>1, <2>2, <2>3, <2>4, <2>5
  <1>8. CASE UpdateKeyedFacts
    <2> USE <1>8 DEF UpdateKeyedFacts, progress, texts, world
    <2>1. CallKind'
      BY <1>0, <1>1, <1>3 DEF CallKind, OnlyMain, OnlyRewrite, PastMark
    <2>2. CallWrote'
      BY <1>0, <1>1, <1>3
         DEF CallWrote, CallKind, TypeOK, OnlyMain, OnlyRewrite, PastFinal, PastProvenance,
             PastSummary, PastTimeline, PastUpserts, PastStates, PastMark
    <2>3. CompletedIsRecorded'
      BY <1>1, <1>2 DEF CompletedIsRecorded, CallKind, CallWrote, TypeOK
    <2>4. InterruptedIsRemembered'
      BY <1>1, <1>2 DEF InterruptedIsRemembered, CallKind, TypeOK
    <2>5. NeverLockedOut'
      BY <1>1 DEF NeverLockedOut, CallKind, TypeOK
    <2> QED BY <2>1, <2>2, <2>3, <2>4, <2>5
  <1>9. CASE AppendStateChanges
    <2> USE <1>9 DEF AppendStateChanges, progress, texts, world
    <2>1. CallKind'
      BY <1>0, <1>1, <1>3 DEF CallKind, OnlyMain, OnlyRewrite, PastMark
    <2>2. CallWrote'
      BY <1>0, <1>1, <1>3, ChapterAssumption
         DEF CallWrote, CallKind, TypeOK, OnlyMain, OnlyRewrite, PastFinal, PastProvenance,
             PastSummary, PastTimeline, PastUpserts, PastStates, PastMark, OneMore
    <2>3. CompletedIsRecorded'
      <3>1. \A n \in 0..Many : OneMore(n) > 0
        BY ChapterAssumption DEF OneMore
      <3>2. \A c \in Chapters : stateChanges[c] > 0 => stateChanges'[c] > 0
        BY <1>1, <3>1 DEF TypeOK
      <3> QED BY <3>2 DEF CompletedIsRecorded, TypeOK
    <2>4. InterruptedIsRemembered'
      BY <1>1, <1>2 DEF InterruptedIsRemembered, CallKind, TypeOK
    <2>5. NeverLockedOut'
      BY <1>1 DEF NeverLockedOut, CallKind, TypeOK
    <2> QED BY <2>1, <2>2, <2>3, <2>4, <2>5
  <1>10. CASE MarkStateApplied
    <2> USE <1>10 DEF MarkStateApplied, progress, texts, world
    <2>1. CallKind'
      BY <1>0, <1>1, <1>3 DEF CallKind, OnlyMain, OnlyRewrite, PastMark
    <2>2. CallWrote'
      BY <1>0, <1>1, <1>3
         DEF CallWrote, CallKind, TypeOK, OnlyMain, OnlyRewrite, PastFinal, PastProvenance,
             PastSummary, PastTimeline, PastUpserts, PastStates, PastMark
    <2>3. CompletedIsRecorded'
      BY <1>1, <1>2 DEF CompletedIsRecorded, CallKind, CallWrote, TypeOK
    <2>4. InterruptedIsRemembered'
      BY <1>1, <1>2 DEF InterruptedIsRemembered, CallKind, TypeOK, OnlyMain, PastMark
    <2>5. NeverLockedOut'
      BY <1>1 DEF NeverLockedOut, CallKind, TypeOK
    <2> QED BY <2>1, <2>2, <2>3, <2>4, <2>5
  <1>11. CASE MarkChapterComplete
    <2> USE <1>11 DEF MarkChapterComplete, progress, texts, world
    <2>1. CallKind'
      BY <1>0, <1>1, <1>3 DEF CallKind, OnlyMain, OnlyRewrite, PastMark
    <2>2. CallWrote'
      BY <1>0, <1>1, <1>3
         DEF CallWrote, CallKind, TypeOK, OnlyMain, OnlyRewrite, PastFinal, PastProvenance,
             PastSummary, PastTimeline, PastUpserts, PastStates, PastMark
    <2>3. CompletedIsRecorded'
      <3>1. \A c \in completed :
              counted'[c] # NoText /\ UNCHANGED <<final, provenance, summary, world>>
        BY <1>1, <1>2 DEF CompletedIsRecorded, TypeOK
      <3>2. call.chapter \notin completed =>
              /\ final[call.chapter] = call.text /\ provenance[call.chapter] = call.text
              /\ summary[call.chapter] = call.text
              /\ timeline[call.chapter] > 0 /\ stateChanges[call.chapter] > 0
              /\ call.chapter \in upserted
        BY <1>0, <1>1
           DEF CallKind, CallWrote, PastFinal, PastProvenance, PastSummary, PastTimeline,
               PastUpserts, PastStates
      <3>3. counted'[call.chapter] = call.text
        BY <1>1 DEF TypeOK
      <3> QED BY <1>2, <3>1, <3>2, <3>3 DEF CompletedIsRecorded
    <2>4. InterruptedIsRemembered'
      BY <1>1, <1>2 DEF InterruptedIsRemembered, CallKind, TypeOK
    <2>5. NeverLockedOut'
      BY <1>1 DEF NeverLockedOut, CallKind, TypeOK
    <2> QED BY <2>1, <2>2, <2>3, <2>4, <2>5
  <1>12. CASE ApplyCompletion
    <2> USE <1>12 DEF ApplyCompletion, progress, texts, world
    <2>1. CallKind'
      BY <1>0, <1>1, <1>3 DEF CallKind, OnlyMain, OnlyRewrite, PastMark
    <2>2. CallWrote'
      BY <1>0, <1>1, <1>3
         DEF CallWrote, CallKind, TypeOK, OnlyMain, OnlyRewrite, PastFinal, PastProvenance,
             PastSummary, PastTimeline, PastUpserts, PastStates, PastMark
    <2>3. CompletedIsRecorded'
      BY <1>1, <1>2 DEF CompletedIsRecorded, CallKind, CallWrote, TypeOK
    <2>4. InterruptedIsRemembered'
      BY <1>1, <1>2 DEF InterruptedIsRemembered, CallKind, TypeOK
    <2>5. NeverLockedOut'
      BY <1>1 DEF NeverLockedOut, CallKind, TypeOK
    <2> QED BY <2>1, <2>2, <2>3, <2>4, <2>5
  <1>13. CASE MarkProgressMarked
    <2> USE <1>13 DEF MarkProgressMarked, progress, texts, world
    <2>1. CallKind'
      BY <1>0, <1>1, <1>3 DEF CallKind, OnlyMain, OnlyRewrite, PastMark
    <2>2. CallWrote'
      BY <1>0, <1>1, <1>3
         DEF CallWrote, CallKind, TypeOK, OnlyMain, OnlyRewrite, PastFinal, PastProvenance,
             PastSummary, PastTimeline, PastUpserts, PastStates, PastMark
    <2>3. CompletedIsRecorded'
      BY <1>1, <1>2 DEF CompletedIsRecorded, CallKind, CallWrote, TypeOK
    <2>4. InterruptedIsRemembered'
      BY <1>1, <1>2 DEF InterruptedIsRemembered, CallKind, TypeOK, OnlyMain, PastMark
    <2>5. NeverLockedOut'
      BY <1>1 DEF NeverLockedOut, CallKind, TypeOK
    <2> QED BY <2>1, <2>2, <2>3, <2>4, <2>5
  <1>14. CASE ClearPendingCommit
    <2> USE <1>14 DEF ClearPendingCommit, progress, texts, world
    <2>1. CallKind'
      BY <1>0, <1>1, <1>3 DEF CallKind, OnlyMain, OnlyRewrite, PastMark
    <2>2. CallWrote'
      BY <1>0, <1>1, <1>3
         DEF CallWrote, CallKind, TypeOK, OnlyMain, OnlyRewrite, PastFinal, PastProvenance,
             PastSummary, PastTimeline, PastUpserts, PastStates, PastMark
    <2>3. CompletedIsRecorded'
      BY <1>1, <1>2 DEF CompletedIsRecorded, CallKind, CallWrote, TypeOK
    <2>4. InterruptedIsRemembered'
      BY <1>1, <1>2 DEF InterruptedIsRemembered, CallKind, TypeOK, OnlyMain, PastMark
    <2>5. NeverLockedOut'
      BY <1>1 DEF NeverLockedOut, CallKind, TypeOK
    <2> QED BY <2>1, <2>2, <2>3, <2>4, <2>5
  <1>15. CASE CompleteRewrite
    <2> USE <1>15 DEF CompleteRewrite, progress, texts, world
    <2>1. CallKind'
      BY <1>0, <1>1, <1>3 DEF CallKind, OnlyMain, OnlyRewrite, PastMark
    <2>2. CallWrote'
      BY <1>0, <1>1, <1>3
         DEF CallWrote, CallKind, TypeOK, OnlyMain, OnlyRewrite, PastFinal, PastProvenance,
             PastSummary, PastTimeline, PastUpserts, PastStates, PastMark
    <2>3. CompletedIsRecorded'
      BY <1>1, <1>2 DEF CompletedIsRecorded, CallKind, CallWrote, TypeOK
    <2>4. InterruptedIsRemembered'
      BY <1>1, <1>2 DEF InterruptedIsRemembered, CallKind, TypeOK
    <2>5. NeverLockedOut'
      BY <1>1 DEF NeverLockedOut, CallKind, TypeOK, Reworking
    <2> QED BY <2>1, <2>2, <2>3, <2>4, <2>5
  <1>16. CASE AppendCheckpoint
    <2> USE <1>16 DEF AppendCheckpoint, progress, texts, world
    <2>1. CallKind'
      <3>1. call.rewrite /\ call'.at = "recomplete"
        BY <1>0 DEF Idle
      <3> QED BY <1>0, <1>1, <1>3, <3>1 DEF CallKind, OnlyMain, OnlyRewrite, PastMark
    <2>2. CallWrote'
      BY <1>0, <1>1, <1>3
         DEF CallWrote, CallKind, TypeOK, OnlyMain, OnlyRewrite, PastFinal, PastProvenance,
             PastSummary, PastTimeline, PastUpserts, PastStates, PastMark
    <2>3. CompletedIsRecorded'
      BY <1>1, <1>2 DEF CompletedIsRecorded, CallKind, CallWrote, TypeOK
    <2>4. InterruptedIsRemembered'
      BY <1>1, <1>2 DEF InterruptedIsRemembered, CallKind, TypeOK
    <2>5. NeverLockedOut'
      BY <1>1 DEF NeverLockedOut, CallKind, TypeOK
    <2> QED BY <2>1, <2>2, <2>3, <2>4, <2>5
  <1>17. CASE MarkChapterRefused \/ Recomplete
    BY <1>17 DEF MarkChapterRefused, Recomplete, Idle
  <1> QED
    BY <1>4, <1>5, <1>6, <1>7, <1>8, <1>9, <1>10, <1>11, <1>12, <1>13, <1>14, <1>15,
       <1>16, <1>17 DEF CommitStep

(* The last write of a commit, or its refusal.                             *)
LEMMA CommitEnds ==
  ASSUME CommitInv, TypeOK', CommitStep, call'.at = "idle"
  PROVE  CommitInv'
PROOF
  <1>1. call' = Idle
    BY CallFields DEF TypeOK, Call, Idle, Steps
  <1>2. MarkChapterRefused \/ AppendCheckpoint \/ Recomplete
    BY CallFields, ContinueType
       DEF CommitInv, CommitStep, SaveFinalChapter, SaveProvenance, SaveSummary,
           AppendTimeline, UpdateKeyedFacts, AppendStateChanges, MarkStateApplied,
           MarkChapterComplete, ApplyCompletion, MarkProgressMarked, ClearPendingCommit,
           CompleteRewrite, At, Writing, Steps
  <1>3. UNCHANGED <<completed, counted, final, provenance, summary, world, pending, flow,
                    queue>>
    BY <1>2 DEF MarkChapterRefused, AppendCheckpoint, Recomplete, progress, texts
  <1>4. NeverLockedOut'
    BY <1>3 DEF CommitInv, NeverLockedOut
  <1> QED BY <1>1, <1>3, <1>4, CommitAtRest

(* Reviews queue chapters first and set the flow in a second write; the    *)
(* run stops in between.                                                   *)
LEMMA CommitRun ==
  ASSUME CommitInv, TypeOK',
         \/ \E s \in SUBSET Chapters, f \in Reworking : QueueReview(s, f)
         \/ SetReviewFlow \/ AcceptReview
         \/ \E s \in SUBSET Chapters : ReopenBook(s)
         \/ \E c \in Chapters, f \in Reworking : ReviseChapter(c, f)
         \/ Resume \/ ContinueRun \/ Stop \/ ToolFails
  PROVE  CommitInv'
PROOF
  <1> USE DEF CommitInv
  <1>1. ASSUME NEW s \in SUBSET Chapters, NEW f \in Reworking, QueueReview(s, f)
        PROVE  CommitInv'
    <2> USE <1>1 DEF QueueReview, EditorMayCall, texts, world
    <2>1. CallKind' /\ CallWrote'
      BY DEF CallKind, CallWrote, Writing, Steps
    <2>2. CompletedIsRecorded' /\ InterruptedIsRemembered'
      BY DEF CompletedIsRecorded, InterruptedIsRemembered
    <2>3. NeverLockedOut'
      BY DEF NeverLockedOut
    <2> QED BY <2>1, <2>2, <2>3
  <1>2. CASE SetReviewFlow
    <2>1. NeverLockedOut'
      BY <1>2 DEF SetReviewFlow, At, NeverLockedOut, CallKind
    <2> QED
      BY <1>2, <2>1, CommitAtRest DEF SetReviewFlow, texts
  <1>3. CASE AcceptReview
    <2>1. NeverLockedOut'
      BY <1>3 DEF AcceptReview, NeverLockedOut, Reworking
    <2> QED
      BY <1>3, <2>1, CommitAtRest DEF AcceptReview, EditorMayCall, texts
  <1>4. ASSUME NEW s \in SUBSET Chapters, ReopenBook(s) PROVE CommitInv'
    <2>1. NeverLockedOut'
      BY <1>4 DEF ReopenBook, NeverLockedOut
    <2> QED
      BY <1>4, <2>1, CommitAtRest DEF ReopenBook, Awaiting, texts
  <1>5. ASSUME NEW c \in Chapters, NEW f \in Reworking, ReviseChapter(c, f)
        PROVE  CommitInv'
    <2>1. NeverLockedOut'
      BY <1>5 DEF ReviseChapter, NeverLockedOut
    <2> QED
      BY <1>5, <2>1, CommitAtRest, StoppedIsIdle DEF ReviseChapter, texts
  <1>6. CASE Resume \/ ContinueRun \/ Stop \/ ToolFails
    <2>1. call' = Idle
      BY <1>6, StoppedIsIdle DEF Resume, ContinueRun, Stop, ToolFails
    <2>2. UNCHANGED <<completed, counted, final, provenance, summary, world, pending,
                      flow, queue>>
      BY <1>6 DEF Resume, ContinueRun, Stop, ToolFails, progress, texts
    <2>3. NeverLockedOut'
      BY <2>2 DEF NeverLockedOut
    <2> QED BY <2>1, <2>2, <2>3, CommitAtRest
  <1> QED BY <1>1, <1>2, <1>3, <1>4, <1>5, <1>6

LEMMA CommitNext == CommitInv /\ [Next]_vars => CommitInv'
PROOF
  <1> SUFFICES ASSUME CommitInv, [Next]_vars PROVE CommitInv'
    OBVIOUS
  <1>1. TypeOK'
    BY TypeNext DEF CommitInv
  <1>2. CASE UNCHANGED vars
    <2>1. UNCHANGED <<flow, completed, queue, counted, final, provenance, summary,
                      timeline, stateChanges, upserted, pending, agent, call>>
      BY <1>2 DEF vars, progress, texts, world
    <2>2. CallKind' /\ CallWrote'
      BY <2>1 DEF CommitInv, CallKind, CallWrote, Writing
    <2>3. CompletedIsRecorded' /\ InterruptedIsRemembered' /\ NeverLockedOut'
      BY <2>1 DEF CommitInv, CompletedIsRecorded, InterruptedIsRemembered,
                  NeverLockedOut
    <2> QED BY <1>1, <2>2, <2>3 DEF CommitInv
  <1>3. CASE Next
    BY <1>1, <1>3, CommitAgents, CommitBegin, CommitContinues, CommitEnds, CommitRun
       DEF Next
  <1> QED BY <1>2, <1>3

LEMMA CommitCorrect == Spec => []CommitInv
  BY CommitInit, CommitNext, PTL DEF Spec

(* No order of failures, crashes and retries of commit_chapter marks a     *)
(* chapter as written past a write that was missed (commit_chapter.go).    *)
THEOREM RecordedCorrect == Spec => []CompletedIsRecorded
PROOF
  <1>1. CommitInv => CompletedIsRecorded
    BY DEF CommitInv
  <1> QED BY <1>1, CommitCorrect, PTL

(* A commit that is half done is the one the pending record names.         *)
THEOREM RememberedCorrect == Spec => []InterruptedIsRemembered
PROOF
  <1>1. CommitInv => InterruptedIsRemembered
    BY DEF CommitInv
  <1> QED BY <1>1, CommitCorrect, PTL

(* The queue and the flow never refuse every chapter.                      *)
THEOREM NotLockedOutCorrect == Spec => []NeverLockedOut
PROOF
  <1>1. CommitInv => NeverLockedOut
    BY DEF CommitInv
  <1> QED BY <1>1, CommitCorrect, PTL
-----------------------------------------------------------------------------
(* Where the models follow the router.                                     *)

(* All the chapters before the next one are there.                         *)
LEMMA UpToNext ==
  ASSUME TypeOK, InOrder
  PROVE  \A c \in Chapters : IsNext(c) => \A d \in Chapters : d < c => d \in completed
PROOF
  <1> SUFFICES ASSUME NEW c \in Chapters, IsNext(c), NEW d \in Chapters, d < c
               PROVE  d \in completed
    OBVIOUS
  <1>1. c \in Nat /\ d \in Nat /\ d >= 1
    BY ChapterAssumption DEF Chapters
  <1>2. c - 1 \in completed /\ (d = c - 1 \/ d < c - 1)
    BY <1>1 DEF IsNext
  <1> QED BY <1>2 DEF InOrder

LEMMA RoutedInit == Init => RoutedInv
  BY DEF Init, RoutedInv, WriterInTurn, NewIsNext, EditorFindsSettled, CompleteIsClosed,
         InOrder, Writing, Steps, Idle, NoAgent

(* A dispatch, and the steps that leave the call, the queue, the phase and *)
(* the book as they are.                                                   *)
LEMMA RoutedAgents ==
  ASSUME CommitInv, RoutedInv, routed, UNCHANGED routed, CommitInv',
         \/ \E c \in Chapters : DispatchWriter(c) \/ SkipCommit(c) \/ RefuseRewrite(c)
         \/ DispatchEditor \/ SubagentReturns
  PROVE  RoutedInv'
PROOF
  <1> USE DEF RoutedInv, WriterInTurn, CompleteIsClosed, InOrder, OfOneVersion,
              progress, texts, Writing, Steps, IsNext
  <1>1. ASSUME NEW c \in Chapters, DispatchWriter(c) PROVE RoutedInv'
    <2> USE <1>1 DEF DispatchWriter, Awaiting, Idle
    <2>1. NewIsNext'
      BY DEF NewIsNext, RouterSends, CommitInv, NeverLockedOut
    <2> QED BY <2>1 DEF EditorFindsSettled
  <1>2. CASE DispatchEditor
    BY <1>2 DEF DispatchEditor, Awaiting, Idle, NewIsNext, EditorFindsSettled
  <1>3. ASSUME NEW c \in Chapters, SkipCommit(c) \/ RefuseRewrite(c) PROVE RoutedInv'
    BY <1>3 DEF SkipCommit, RefuseRewrite, WriterMayCall, NoAgent, NewIsNext,
                EditorFindsSettled, Idle
  <1>4. CASE SubagentReturns
    BY <1>4 DEF SubagentReturns, NoAgent, NewIsNext, EditorFindsSettled, Idle
  <1> QED BY <1>1, <1>2, <1>3, <1>4

LEMMA RoutedDraft ==
  ASSUME CommitInv, RoutedInv, routed, UNCHANGED routed,
         NEW c \in Chapters, NEW t \in Texts, DraftChapter(c, t) \/ EditChapter(c, t)
  PROVE  RoutedInv'
  BY DEF DraftChapter, EditChapter, WriterMayCall, RoutedInv, WriterInTurn, NewIsNext,
         EditorFindsSettled, CompleteIsClosed, InOrder, OfOneVersion, progress, Writing,
         IsNext

LEMMA RoutedBegin ==
  ASSUME CommitInv, RoutedInv, routed, UNCHANGED routed,
         NEW c \in Chapters, BeginRewrite(c) \/ BeginCommit(c)
  PROVE  RoutedInv'
PROOF
  <1>1. UNCHANGED <<completed, counted, final, provenance, summary, queue, phase, agent>>
    BY DEF BeginRewrite, BeginCommit, progress, texts
  <1>2. c = agent.chapter
    BY DEF BeginRewrite, BeginCommit, WriterMayCall
  <1>3. c \in completed => c \in queue
    BY DEF BeginRewrite, BeginCommit
  <1> QED
    BY <1>1, <1>2, <1>3, BeginType
       DEF CommitInv, RoutedInv, WriterInTurn, NewIsNext, EditorFindsSettled,
           CompleteIsClosed, InOrder, OfOneVersion, Writing, IsNext

LEMMA RoutedCommitStep ==
  ASSUME CommitInv, RoutedInv, routed, UNCHANGED routed, CommitStep
  PROVE  RoutedInv'
PROOF
  <1> USE CallFields, ContinueType
      DEF CommitInv, RoutedInv, At, Writing, Steps, progress, texts, world
  <1>0. Writing /\ agent.role = "writer"
    BY DEF CallKind, CommitStep, SaveFinalChapter, SaveProvenance, SaveSummary,
           AppendTimeline, UpdateKeyedFacts, AppendStateChanges, MarkStateApplied,
           MarkChapterComplete, MarkChapterRefused, ApplyCompletion, MarkProgressMarked,
           ClearPendingCommit, CompleteRewrite, AppendCheckpoint, Recomplete
  <1>1. call.chapter \in Chapters /\ call.rewrite \in BOOLEAN /\ call.chapter = agent.chapter
    BY <1>0 DEF WriterInTurn
  <1>2. call.chapter \in completed =>
          call.rewrite \/ call.at \in {"completion", "marked", "clear", "checkpoint"}
    BY <1>0 DEF CallKind, PastMark, OnlyRewrite
  <1>3. CASE SaveFinalChapter \/ SaveProvenance \/ SaveSummary
    <2> USE <1>3 DEF SaveFinalChapter, SaveProvenance, SaveSummary
    <2>1. call.chapter \notin completed \ queue
      BY <1>0, <1>1, <1>2 DEF WriterInTurn
    <2>2. UNCHANGED <<phase, completed, queue, counted, agent>>
      OBVIOUS
    <2>3. \A c \in completed \ queue :
            UNCHANGED <<final[c], provenance[c], summary[c]>>
      BY <2>1 DEF TypeOK
    <2>4. \A c \in completed' \ queue' : OfOneVersion(c)'
      BY <2>2, <2>3 DEF OfOneVersion
    <2>5. WriterInTurn' /\ NewIsNext'
      BY <1>0, <1>1, <2>2 DEF WriterInTurn, NewIsNext, IsNext
    <2>6. EditorFindsSettled' /\ CompleteIsClosed' /\ InOrder'
      BY <1>0, <2>2 DEF EditorFindsSettled, CompleteIsClosed, InOrder
    <2> QED BY <2>4, <2>5, <2>6
  <1>4. CASE \/ AppendTimeline \/ UpdateKeyedFacts \/ AppendStateChanges
             \/ MarkStateApplied \/ MarkProgressMarked \/ ClearPendingCommit
             \/ MarkChapterRefused \/ AppendCheckpoint
    <2> USE <1>4 DEF AppendTimeline, UpdateKeyedFacts, AppendStateChanges,
              MarkStateApplied, MarkProgressMarked, ClearPendingCommit,
              MarkChapterRefused, AppendCheckpoint
    <2>1. UNCHANGED <<phase, completed, queue, counted, final, provenance, summary>>
      OBVIOUS
    <2>2. agent' = agent \/ (agent' = NoAgent /\ call' = Idle)
      OBVIOUS
    <2>3. WriterInTurn' /\ NewIsNext'
      BY <1>0, <1>1, <2>1, <2>2 DEF WriterInTurn, NewIsNext, IsNext, NoAgent, Idle
    <2>4. EditorFindsSettled' /\ CompleteIsClosed' /\ InOrder'
      BY <1>0, <2>1, <2>2 DEF EditorFindsSettled, CompleteIsClosed, InOrder, NoAgent
    <2> QED BY <2>1, <2>3, <2>4 DEF OfOneVersion
  <1>5. CASE MarkChapterComplete
    <2> USE <1>5 DEF MarkChapterComplete
    <2>1. \A c \in completed' \ queue' : OfOneVersion(c)'
      <3>1. OfOneVersion(call.chapter)'
        BY <1>0, <1>1 DEF CallWrote, PastFinal, PastProvenance, PastSummary, PastTimeline,
               PastUpserts, PastStates, OfOneVersion, TypeOK
      <3>2. ASSUME NEW c \in completed \ queue, c # call.chapter
            PROVE  OfOneVersion(c)'
        <4>1. UNCHANGED <<final[c], provenance[c], summary[c], counted[c]>>
          BY <1>1, <3>2 DEF TypeOK
        <4>2. OfOneVersion(c)
          OBVIOUS
        <4> QED BY <4>1, <4>2 DEF OfOneVersion
      <3> QED BY <3>1, <3>2
    <2>2. WriterInTurn' /\ NewIsNext'
      BY <1>0, <1>1 DEF WriterInTurn, NewIsNext
    <2>3. InOrder'
      <3>1. call.chapter \notin completed => IsNext(call.chapter)
        BY <1>0, <1>1 DEF NewIsNext
      <3>2. \A d \in Chapters : d < call.chapter => d \in completed
        BY <1>1, <3>1, UpToNext DEF InOrder
      <3>3. completed' = completed \cup {call.chapter}
        OBVIOUS
      <3> QED BY <3>2, <3>3 DEF InOrder
    <2>4. EditorFindsSettled' /\ CompleteIsClosed'
      BY <1>0 DEF EditorFindsSettled, CompleteIsClosed
    <2> QED BY <2>1, <2>2, <2>3, <2>4
  <1>6. CASE ApplyCompletion
    <2> USE <1>6 DEF ApplyCompletion
    <2>1. queue = {} /\ ~call.rewrite /\ call.chapter \in completed
      BY <1>0, <1>1 DEF CallKind, OnlyMain, PastMark, NewIsNext
    <2>2. WriterInTurn' /\ NewIsNext'
      BY <1>0, <1>1, <2>1 DEF WriterInTurn, NewIsNext, IsNext
    <2>3. EditorFindsSettled' /\ CompleteIsClosed' /\ InOrder'
      BY <1>0, <2>1 DEF EditorFindsSettled, CompleteIsClosed, InOrder
    <2> QED BY <2>2, <2>3 DEF OfOneVersion
  <1>7. CASE CompleteRewrite
    <2> USE <1>7 DEF CompleteRewrite
    <2>1. OfOneVersion(call.chapter) /\ call.chapter \in completed
      BY <1>0 DEF CallKind, OnlyRewrite, CallWrote, PastFinal, PastProvenance, PastSummary,
                  PastTimeline, PastUpserts, PastStates, PastMark, OfOneVersion
    <2>2. \A c \in completed' \ queue' : OfOneVersion(c)'
      BY <2>1 DEF OfOneVersion
    <2>3. WriterInTurn' /\ NewIsNext'
      BY <1>0, <1>1, <2>1 DEF WriterInTurn, NewIsNext
    <2>4. EditorFindsSettled' /\ CompleteIsClosed' /\ InOrder'
      BY <1>0 DEF EditorFindsSettled, CompleteIsClosed, InOrder
    <2> QED BY <2>2, <2>3, <2>4
  <1>8. CASE Recomplete
    <2> USE <1>8 DEF Recomplete, MarkComplete
    <2>1. WriterInTurn' /\ NewIsNext'
      BY DEF WriterInTurn, NewIsNext, NoAgent, Idle
    <2>2. EditorFindsSettled' /\ CompleteIsClosed' /\ InOrder'
      BY DEF EditorFindsSettled, CompleteIsClosed, InOrder, NoAgent
    <2> QED BY <2>1, <2>2 DEF OfOneVersion
  <1> QED BY <1>3, <1>4, <1>5, <1>6, <1>7, <1>8 DEF CommitStep

LEMMA RoutedRun ==
  ASSUME CommitInv, RoutedInv, routed, UNCHANGED routed,
         \/ \E s \in SUBSET Chapters, f \in Reworking : QueueReview(s, f)
         \/ SetReviewFlow \/ AcceptReview
         \/ \E s \in SUBSET Chapters : ReopenBook(s)
         \/ \E c \in Chapters, f \in Reworking : ReviseChapter(c, f)
         \/ Resume \/ ContinueRun \/ Stop \/ ToolFails
  PROVE  RoutedInv'
PROOF
  <1> USE DEF CommitInv, RoutedInv, CompleteIsClosed, InOrder, OfOneVersion, progress, texts,
              Writing, Steps
  <1>1. ASSUME NEW s \in SUBSET Chapters, NEW f \in Reworking, QueueReview(s, f)
        PROVE  RoutedInv'
    BY <1>1 DEF QueueReview, EditorMayCall, WriterInTurn, NewIsNext, EditorFindsSettled
  <1>2. CASE SetReviewFlow \/ AcceptReview
    <2>1. agent.role = "editor" /\ call' = Idle
      BY <1>2 DEF SetReviewFlow, AcceptReview, At, CallKind, EditorMayCall
    <2> QED
      BY <1>2, <2>1 DEF SetReviewFlow, AcceptReview, WriterInTurn, NewIsNext,
                        EditorFindsSettled, Idle
  <1>3. ASSUME NEW s \in SUBSET Chapters, ReopenBook(s) PROVE RoutedInv'
    BY <1>3 DEF ReopenBook, Awaiting, WriterInTurn, NewIsNext, EditorFindsSettled, Idle, NoAgent
  <1>4. ASSUME NEW c \in Chapters, NEW f \in Reworking, ReviseChapter(c, f)
        PROVE  RoutedInv'
    <2>1. agent = NoAgent /\ call = Idle
      BY <1>4 DEF ReviseChapter, TypeOK
    <2> QED
      BY <1>4, <2>1 DEF ReviseChapter, WriterInTurn, NewIsNext, EditorFindsSettled, Idle,
                        NoAgent
  <1>5. CASE Resume \/ ContinueRun \/ Stop \/ ToolFails
    <2>1. call' = Idle /\ agent' \in {agent, NoAgent}
      BY <1>5, StoppedIsIdle DEF Resume, ContinueRun, Stop, ToolFails
    <2> QED
      BY <1>5, <2>1 DEF Resume, ContinueRun, Stop, ToolFails, WriterInTurn, NewIsNext,
                        EditorFindsSettled, Idle, NoAgent, IsNext
  <1> QED BY <1>1, <1>2, <1>3, <1>4, <1>5

LEMMA RoutedNext == CommitInv /\ RoutedInv /\ [Next]_vars => RoutedInv'
PROOF
  <1> SUFFICES ASSUME CommitInv, RoutedInv, [Next]_vars, routed, UNCHANGED routed
               PROVE  RoutedInv'
    BY DEF RoutedInv, Next, vars
  <1>1. CommitInv'
    BY CommitNext
  <1>2. CASE UNCHANGED vars
    BY <1>2 DEF vars, progress, texts, world, RoutedInv, WriterInTurn, NewIsNext,
                EditorFindsSettled, CompleteIsClosed, InOrder, OfOneVersion, Writing, IsNext
  <1>3. CASE Next
    BY <1>1, <1>3, RoutedAgents, RoutedDraft, RoutedBegin, RoutedCommitStep, RoutedRun DEF Next
  <1> QED BY <1>2, <1>3

LEMMA RoutedCorrect == Spec => [](CommitInv /\ RoutedInv)
  BY CommitInit, CommitNext, RoutedInit, RoutedNext, PTL DEF Spec

(* What the book says of a chapter nobody reworks is of one version,       *)
(* whatever was interrupted: the router sends nobody on before it is.      *)
THEOREM SettledCorrect == Spec => []Settled
PROOF
  <1>1. RoutedInv => Settled
    BY DEF RoutedInv, Settled, OfOneVersion
  <1> QED BY <1>1, RoutedCorrect, PTL
-----------------------------------------------------------------------------
(* The tools implement the book of ManuscriptBook.                         *)

BookText == [c \in Chapters |-> IF routed /\ c \in completed THEN final[c] ELSE NoText]
BookOpen == IF routed THEN queue ELSE {}
BookComplete == routed /\ phase = "complete"

(* A book whose chapters are in order has all of them when it has enough.  *)
LEMMA EnoughIsAll ==
  ASSUME TypeOK, InOrder, Cardinality(completed) >= TotalChapters
  PROVE  1..TotalChapters \subseteq completed
PROOF
  <1> SUFFICES ASSUME NEW m \in 1..TotalChapters, m \notin completed PROVE FALSE
    OBVIOUS
  <1>1. m \in Chapters /\ m \in Nat /\ m - 1 \in Nat
    BY ChapterAssumption DEF Chapters
  <1>2. completed \subseteq 1..(m - 1)
    <2> SUFFICES ASSUME NEW c \in completed PROVE c \in 1..(m - 1)
      OBVIOUS
    <2>1. c \in Chapters /\ c # m /\ ~(m < c)
      BY <1>1 DEF TypeOK, InOrder
    <2> QED BY <1>1, <2>1, ChapterAssumption DEF Chapters
  <1>3. IsFiniteSet(1..(m - 1)) /\ Cardinality(1..(m - 1)) = m - 1
    <2>1. Cardinality(1..(m - 1)) = IF 1 > m - 1 THEN 0 ELSE (m - 1) - 1 + 1
      BY <1>1, FS_Interval
    <2> QED BY <1>1, <2>1, FS_Interval
  <1>4. Cardinality(completed) <= m - 1 /\ Cardinality(completed) \in Nat
    BY <1>2, <1>3, FS_Subset, FS_CardinalityType
  <1> QED BY <1>1, <1>4, ChapterAssumption

(* In a routed run, what the book holds is what is completed.              *)
LEMMA WrittenIsCompleted ==
  ASSUME CommitInv, routed PROVE Book!Written = completed
  BY DEF Book!Written, CommitInv, CompletedIsRecorded, TypeOK

(* A step that leaves all of it alone, or that is not routed.              *)
LEMMA BookUnchanged ==
  ASSUME UNCHANGED routed,
         routed => UNCHANGED <<BookText, BookOpen, BookComplete>>
  PROVE  UNCHANGED Book!vars
PROOF
  <1>1. CASE routed
    BY <1>1, Zenon DEF Book!vars, BookText, BookOpen, BookComplete
  <1>2. CASE ~routed
    BY <1>2 DEF Book!vars
  <1> QED BY <1>1, <1>2

LEMMA BookNext ==
  ASSUME NEW c \in Chapters, NEW t \in Texts, Book!Commit(c, t) \/ Book!Rework(c, t)
  PROVE  Book!Next
  BY DEF Book!Next

LEMMA BookCommitStep ==
  ASSUME CommitInv, RoutedInv, CommitInv', routed, UNCHANGED routed, CommitStep
  PROVE  Book!Next \/ UNCHANGED Book!vars
PROOF
  <1> USE CallFields DEF CommitInv, RoutedInv, At, Writing, Steps, progress, texts, world
  <1>0. Writing /\ agent.role = "writer"
    BY DEF CallKind, CommitStep, SaveFinalChapter, SaveProvenance, SaveSummary,
           AppendTimeline, UpdateKeyedFacts, AppendStateChanges, MarkStateApplied,
           MarkChapterComplete, MarkChapterRefused, ApplyCompletion, MarkProgressMarked,
           ClearPendingCommit, CompleteRewrite, AppendCheckpoint, Recomplete
  <1>1. /\ call.chapter \in Chapters /\ call.rewrite \in BOOLEAN
        /\ call.chapter = agent.chapter /\ call.text \in Texts
    BY <1>0 DEF WriterInTurn
  <1>2. CASE SaveFinalChapter
    <2> USE <1>2 DEF SaveFinalChapter
    <2>1. CASE call.chapter \in completed
      <3>1. call.chapter \in queue /\ phase # "complete"
        BY <1>0, <1>1, <2>1 DEF CallKind, PastMark, WriterInTurn, CompleteIsClosed
      <3>2. BookText' = [BookText EXCEPT ![call.chapter] = call.text]
        BY <1>1, <2>1 DEF BookText, TypeOK
      <3>3. PICK c \in Chapters, t \in Texts : c = call.chapter /\ t = call.text
        BY <1>1
      <3>4. Book!Rework(c, t)
        BY <3>1, <3>2, <3>3 DEF Book!Rework, BookText
      <3> QED BY <3>4, BookNext
    <2>2. CASE call.chapter \notin completed
      <3>1. UNCHANGED BookText
        BY <1>1, <2>2 DEF BookText, TypeOK
      <3> QED BY <3>1, BookUnchanged DEF BookOpen, BookComplete
    <2> QED BY <2>1, <2>2
  <1>3. CASE \/ SaveProvenance \/ SaveSummary \/ AppendTimeline \/ UpdateKeyedFacts
             \/ AppendStateChanges \/ MarkStateApplied \/ MarkProgressMarked
             \/ ClearPendingCommit \/ MarkChapterRefused \/ AppendCheckpoint
    <2>1. UNCHANGED <<phase, completed, queue, final>>
      BY <1>3 DEF SaveProvenance, SaveSummary, AppendTimeline, UpdateKeyedFacts,
             AppendStateChanges, MarkStateApplied, MarkProgressMarked, ClearPendingCommit,
             MarkChapterRefused, AppendCheckpoint
    <2> QED BY <2>1, BookUnchanged DEF BookText, BookOpen, BookComplete
  <1>4. CASE MarkChapterComplete
    <2> USE <1>4 DEF MarkChapterComplete
    <2>1. CASE call.chapter \in completed
      <3>1. UNCHANGED completed
        BY <2>1
      <3> QED BY <3>1, BookUnchanged DEF BookText, BookOpen, BookComplete
    <2>2. CASE call.chapter \notin completed
      <3>1. queue = {} /\ IsNext(call.chapter)
        BY <1>0, <1>1, <2>2 DEF NewIsNext
      <3>2. final[call.chapter] = call.text
        BY <1>0 DEF CallWrote, PastFinal, PastProvenance, PastSummary, PastTimeline,
               PastUpserts, PastStates
      <3>3. BookText' = [BookText EXCEPT ![call.chapter] = call.text]
        BY <1>1, <2>2, <3>2 DEF BookText, TypeOK
      <3>4. \A d \in Chapters : d < call.chapter => d \in completed
        BY <1>1, <3>1, UpToNext
      <3>5. PICK c \in Chapters, t \in Texts : c = call.chapter /\ t = call.text
        BY <1>1
      <3>6. Book!Commit(c, t)
        BY <2>2, <3>1, <3>3, <3>4, <3>5, WrittenIsCompleted DEF Book!Commit, BookText
      <3> QED BY <3>6, BookNext
    <2> QED BY <2>1, <2>2
  <1>5. ASSUME MarkComplete, UNCHANGED <<completed, queue, final>>, queue = {},
               1..TotalChapters \subseteq completed
        PROVE  Book!Next \/ UNCHANGED Book!vars
    <2>1. UNCHANGED <<BookText, BookOpen>>
      BY <1>5 DEF BookText, BookOpen
    <2>2. CASE UNCHANGED phase
      BY <2>1, <2>2, BookUnchanged DEF BookComplete
    <2>3. CASE phase' # phase
      <3>1. phase' = "complete" /\ phase # "complete"
        BY <1>5, <2>3 DEF MarkComplete
      <3>2. Book!Finish
        BY <1>5, <2>1, <3>1, WrittenIsCompleted DEF Book!Finish, BookText, BookOpen
      <3> QED BY <3>2 DEF Book!Next
    <2> QED BY <2>2, <2>3
  <1>6. CASE ApplyCompletion
    <2> USE <1>6 DEF ApplyCompletion
    <2>1. queue = {} /\ call.chapter \in completed
      BY <1>0, <1>1 DEF CallKind, OnlyMain, PastMark, NewIsNext
    <2>2. CASE ~ReviewRequired /\ call.chapter + 1 > TotalChapters
      <3>1. 1..TotalChapters \subseteq completed
        BY <1>1, <2>1, <2>2, ChapterAssumption DEF InOrder, Chapters
      <3> QED BY <1>5, <2>1, <2>2, <3>1
    <2>3. CASE ~(~ReviewRequired /\ call.chapter + 1 > TotalChapters)
      BY <2>3, BookUnchanged DEF BookText, BookOpen, BookComplete
    <2> QED BY <2>2, <2>3
  <1>7. CASE CompleteRewrite
    <2> USE <1>7 DEF CompleteRewrite
    <2>1. call.chapter \in queue /\ phase # "complete"
      BY <1>0, <1>1 DEF CallKind, OnlyRewrite, WriterInTurn, CompleteIsClosed
    <2>2. queue \subseteq completed /\ queue \subseteq Chapters
      BY DEF NeverLockedOut, TypeOK
    <2>3. Book!SetOpen(queue \ {call.chapter})
      BY <2>1, <2>2, WrittenIsCompleted DEF Book!SetOpen
    <2> QED BY <2>2, <2>3 DEF Book!Next
  <1>8. CASE Recomplete
    <2> USE <1>8 DEF Recomplete
    <2>1. CASE queue = {} /\ Cardinality(completed) >= TotalChapters
      BY <1>5, <2>1, EnoughIsAll
    <2>2. CASE ~(queue = {} /\ Cardinality(completed) >= TotalChapters)
      BY <2>2, BookUnchanged DEF BookText, BookOpen, BookComplete
    <2> QED BY <2>1, <2>2
  <1> QED BY <1>2, <1>3, <1>4, <1>6, <1>7, <1>8 DEF CommitStep

(* Only a tool call of the editor, of the coordinator or of the user opens *)
(* a chapter; a draft reopens no book, for there the writer is refused.    *)
LEMMA BookAgents ==
  ASSUME CommitInv, RoutedInv, routed, UNCHANGED routed,
         \/ \E c \in Chapters :
              \/ DispatchWriter(c) \/ SkipCommit(c) \/ RefuseRewrite(c)
              \/ BeginRewrite(c) \/ BeginCommit(c)
         \/ DispatchEditor \/ SubagentReturns
         \/ \E c \in Chapters, t \in Texts : DraftChapter(c, t) \/ EditChapter(c, t)
         \/ SetReviewFlow \/ AcceptReview \/ Resume \/ ContinueRun \/ Stop \/ ToolFails
  PROVE  UNCHANGED Book!vars
PROOF
  <1>1. ASSUME NEW c \in Chapters, NEW t \in Texts, DraftChapter(c, t)
        PROVE  phase # "complete"
    BY <1>1 DEF DraftChapter, WriterMayCall, Protected, RoutedInv, NewIsNext, CompleteIsClosed
  <1>2. UNCHANGED <<phase, completed, queue, final>>
    BY <1>1 DEF CommitInv, TypeOK, progress, texts, DispatchWriter, DispatchEditor,
                SubagentReturns, DraftChapter, EditChapter, SkipCommit, RefuseRewrite,
                BeginRewrite, BeginCommit, SetReviewFlow, AcceptReview, Resume, ContinueRun,
                Stop, ToolFails
  <1> QED BY <1>2, BookUnchanged DEF BookText, BookOpen, BookComplete

LEMMA BookOpens ==
  ASSUME NEW s \in SUBSET Chapters, Book!SetOpen(s) \/ Book!Reopen(s)
  PROVE  Book!Next
  BY DEF Book!Next

(* The queue of a review or of a user is a set of chapters of the book.    *)
LEMMA BookRun ==
  ASSUME CommitInv, RoutedInv, routed, UNCHANGED routed,
         \/ \E s \in SUBSET Chapters, f \in Reworking : QueueReview(s, f)
         \/ \E s \in SUBSET Chapters : ReopenBook(s)
         \/ \E c \in Chapters, f \in Reworking : ReviseChapter(c, f)
  PROVE  Book!Next
PROOF
  <1> USE WrittenIsCompleted DEF CommitInv, RoutedInv, progress, texts
  <1>1. ASSUME NEW s \in SUBSET Chapters, NEW f \in Reworking, QueueReview(s, f)
        PROVE  Book!Next
    <2>1. phase # "complete"
      BY <1>1 DEF QueueReview, EditorMayCall, EditorFindsSettled
    <2>2. Book!SetOpen(s)
      BY <1>1, <2>1 DEF QueueReview, Book!SetOpen
    <2> QED BY <2>2, BookOpens
  <1>2. ASSUME NEW s \in SUBSET Chapters, ReopenBook(s)
        PROVE  Book!Next
    <2>1. Book!Reopen(s)
      BY <1>2 DEF ReopenBook, Book!Reopen
    <2> QED BY <2>1, BookOpens
  <1>3. ASSUME NEW c \in Chapters, NEW f \in Reworking, ReviseChapter(c, f)
        PROVE  Book!Next
    <2>1. PICK s \in SUBSET Chapters : s = queue \cup {c}
      BY DEF TypeOK
    <2>2. CASE phase = "complete"
      <3>1. Book!Reopen(s)
        BY <1>3, <2>1, <2>2 DEF ReviseChapter, CompleteIsClosed, Book!Reopen
      <3> QED BY <3>1, BookOpens
    <2>3. CASE phase # "complete"
      <3>1. Book!SetOpen(s)
        BY <1>3, <2>1, <2>3 DEF ReviseChapter, NeverLockedOut, Book!SetOpen
      <3> QED BY <3>1, BookOpens
    <2> QED BY <2>2, <2>3
  <1> QED BY <1>1, <1>2, <1>3

LEMMA BookInit == Init => Book!Init
  BY DEF Init, Book!Init

LEMMA BookStep ==
  CommitInv /\ RoutedInv /\ CommitInv' /\ [Next]_vars => [Book!Next]_(Book!vars)
PROOF
  <1> SUFFICES ASSUME CommitInv, RoutedInv, CommitInv', [Next]_vars
               PROVE  Book!Next \/ UNCHANGED Book!vars
    OBVIOUS
  <1>1. UNCHANGED routed
    BY DEF Next, vars
  <1>2. CASE UNCHANGED vars
    BY <1>2, BookUnchanged DEF vars, progress, texts, BookText, BookOpen, BookComplete
  <1>3. CASE ~routed
    BY <1>1, <1>3, BookUnchanged
  <1>4. CASE routed /\ Next
    BY <1>4, BookAgents, BookCommitStep, BookRun DEF Next
  <1> QED BY <1>2, <1>3, <1>4

(* Where the models follow the router, the tools of the writer and of the  *)
(* editor, reopening and revising implement the book of ManuscriptBook:    *)
(* chapters enter it in order, change only while they are open, and a      *)
(* complete book has all of its chapters, with none of them open.          *)
THEOREM BookImplemented == Spec => ImplementsBook
  BY BookInit, BookStep, RoutedCorrect, PTL DEF Spec, ImplementsBook, Book!Spec
=============================================================================

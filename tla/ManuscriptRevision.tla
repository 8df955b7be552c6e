------------------------- MODULE ManuscriptRevision --------------------------
(***************************************************************************)
(* The life of a manuscript revision, host/manuscript_revision_service.go  *)
(* on the index of store/manuscript_revision_runtime.go: preview, confirm  *)
(* the other chapters it touches, generate a candidate for each, audit,    *)
(* approve, publish, revalidate a complete book, or cancel.  Every command *)
(* loads the revision, works on that copy, possibly for minutes with a     *)
(* model, and then changes the index in one transaction that compares the  *)
(* revision's number.  Several clients do so at the same time; the writing *)
(* flow has the book while no revision is active.                          *)
(*                                                                         *)
(* A text is known by a stamp drawn when it is written.  How a publication *)
(* gets through its several files is module ManuscriptPublication; here it *)
(* is one step.                                                            *)
(***************************************************************************)
EXTENDS Naturals

CONSTANTS
  Clients,
  Chapters,
  Target,        \* the chapter a revision is asked for
  MaxRevisions,  \* bound: revisions ever started
  MaxText,       \* bound: texts written
  Books          \* the books to look at

(* Who works on which chapters of a book, whether it is complete (it is      *)
(* revalidated then), what clients ask of a revision that is cancelled, and  *)
(* the bounds: revisions ever started, commands on one of them.              *)
Book == [clients : SUBSET Clients, chapters : SUBSET Chapters, complete : BOOLEAN,
         late : SUBSET {"cancel", "generate"}, revisions : Nat, number : Nat \ {0}]

ASSUME ConstantsAssumption ==
  /\ MaxRevisions \in Nat /\ MaxText \in Nat
  /\ Books \subseteq Book
  /\ \A b \in Books : Target \in b.chapters /\ b.revisions <= MaxRevisions

Revisions == 1..MaxRevisions
Stages == {"none", "approval_pending", "candidate_generating", "audit_pending",
           "failed", "final_approval_pending", "ready_to_publish",
           "completion_revalidation_pending", "completed", "cancelled"}
Over == {"none", "completed", "cancelled"}

VARIABLES
  book,      \* one of Books; it does not change
  index,     \* the revisions
  active,    \* the index's active revision, 0 when there is none
  lease,     \* the writing flow has the book
  formal,    \* the text of each chapter
  client,    \* what each client's call is doing
  save,      \* the manual save each client has asked for, to be able to ask again
  texts,     \* texts written so far
  audited,   \* what auditors passed, or authors answered for
  approved,  \* what people approved for publication
  mistaken   \* what a repeated save certified without being its author's text

vars == <<book, index, active, lease, formal, client, save, texts, audited,
          approved, mistaken>>

NoRevision ==
  [number |-> 0, stage |-> "none", since |-> 0, confirmed |-> FALSE,
   queue |-> [c \in Chapters |-> "no"], base |-> [c \in Chapters |-> 0],
   candidate |-> [c \in Chapters |-> 0], passed |-> {}, deferred |-> FALSE,
   published |-> FALSE]

Idle == [pc |-> "idle"]
NoSave == [revision |-> 0, base |-> 0, text |-> 0, submitted |-> FALSE]

Init ==
  /\ book \in Books
  /\ index = [k \in Revisions |-> NoRevision]
  /\ active = 0
  /\ lease = FALSE
  /\ formal = [c \in Chapters |-> 0]
  /\ client = [p \in Clients |-> Idle]
  /\ save = [p \in Clients |-> NoSave]
  /\ texts = 0
  /\ audited = {}
  /\ approved = {}
  /\ mistaken = {}

Queued(r) == {c \in Chapters : r.queue[c] # "no"}
Candidates(r) == {c \in Chapters : r.candidate[c] # 0}
Waiting(r) == {c \in Chapters : r.queue[c] \in {"pending", "failed"}}
At(p, pc) == client[p].pc = pc

(* Mutate: one transaction, refused unless the revision is the one the     *)
(* caller loaded; an end clears the index's active revision, whichever it  *)
(* is.  A key that has its receipt is answered before that, with the       *)
(* revision as it is now, and changes nothing: only a manual save goes on  *)
(* from such an answer (SaveReplay).                                       *)
Change(k, changed) ==
  /\ index[k].number < book.number
  /\ index' = [index EXCEPT ![k] = [changed EXCEPT !.number = index[k].number + 1]]
  /\ active' = IF changed.stage \in {"completed", "cancelled"} THEN 0 ELSE active

Current(p) == index[client[p].revision].number = client[p].number

Done(p) == client' = [client EXCEPT ![p] = Idle]

Mut_BookIsFree == active = 0    \* the writing flow's lease is overlooked
BookIsFree == active = 0 /\ ~lease

(* The next revision is r.                                                 *)
Begin(r) ==
  \E k \in 1..book.revisions :
    /\ BookIsFree
    /\ index[k] = NoRevision /\ \A i \in 1..(k - 1) : index[i] # NoRevision
    /\ index' = [index EXCEPT ![k] = r]
    /\ active' = k

Fresh(stage, chapters) ==
  [NoRevision EXCEPT !.number = 1, !.stage = stage, !.since = texts,
     !.queue = [c \in Chapters |-> IF c \in chapters THEN "pending" ELSE "no"],
     !.base = formal]

(* PreviewContext: the planner names the chapters the change reaches.      *)
Preview(p) ==
  /\ At(p, "idle")
  /\ \E others \in SUBSET (book.chapters \ {Target}) :
       Begin(Fresh("approval_pending", {Target} \union others))
  /\ UNCHANGED <<lease, formal, client, save, texts, audited, approved, mistaken>>

(* RestoreVersion: a text of an earlier revision, to be audited again.     *)
Restore(p, k) ==
  /\ At(p, "idle")
  /\ index[k].candidate[Target] # 0
  /\ Begin([Fresh("audit_pending", {Target}) EXCEPT
              !.queue[Target] = "generated",
              !.candidate[Target] = index[k].candidate[Target]])
  /\ UNCHANGED <<lease, formal, client, save, texts, audited, approved, mistaken>>

(* ConfirmAdditionalImpacts, only before anything was generated, and only  *)
(* while the other chapters are what the preview saw.                      *)
Confirm(p, k) ==
  /\ At(p, "idle")
  /\ index[k].stage = "approval_pending"
  /\ \A c \in Queued(index[k]) \ {Target} : formal[c] = index[k].base[c]
  /\ Change(k, [index[k] EXCEPT !.confirmed = TRUE])
  /\ UNCHANGED <<lease, formal, client, save, texts, audited, approved, mistaken>>

(* The queue's first item that is pending or failed: the target comes      *)
(* first.  Another chapter needs the confirmation.                         *)
NextItem(r, c) == c \in Waiting(r) /\ (Target \in Waiting(r) => c = Target)
MayGenerate(r, c) == c = Target \/ r.confirmed

Addressed(k, command) ==
  index[k].stage \notin Over
    \/ (index[k].stage = "cancelled" /\ command \in book.late)

Failed(r, c) == [r EXCEPT !.stage = "failed", !.queue[c] = "failed"]

(* GenerateCandidates asks for an item, not for a stage, and leaves a      *)
(* checkpoint before it calls the writer.                                  *)
GenerateBegin(p, k, c) ==
  /\ At(p, "idle")
  /\ Addressed(k, "generate")
  /\ NextItem(index[k], c)
  /\ MayGenerate(index[k], c)
  /\ Change(k, [index[k] EXCEPT !.stage = "candidate_generating"])
  /\ client' = [client EXCEPT ![p] =
       [pc |-> "generating", revision |-> k, number |-> index[k].number + 1,
        chapter |-> c]]
  /\ UNCHANGED <<lease, formal, save, texts, audited, approved, mistaken>>

(* Every segment is checkpointed.                                          *)
GenerateSegment(p) ==
  /\ At(p, "generating")
  /\ Current(p)
  /\ LET k == client[p].revision IN
     Change(k, [index[k] EXCEPT !.stage = "candidate_generating"])
  /\ client' = [client EXCEPT ![p].number = @ + 1]
  /\ UNCHANGED <<lease, formal, save, texts, audited, approved, mistaken>>

(* SubmitCandidate: a new text, so far neither audited nor approved.  What  *)
(* its chapter has to be when it is published stays what the preview saw.  *)
Submitted(r, c, text) ==
  LET queue == [r.queue EXCEPT ![c] = "generated"] IN
  [r EXCEPT !.candidate[c] = text, !.passed = @ \ {c}, !.queue = queue,
            !.deferred = FALSE,
            !.stage = IF \A d \in Queued(r) : queue[d] = "generated"
                        THEN "audit_pending" ELSE "candidate_generating"]

Submittable(k) ==
  index[k].stage \in {"approval_pending", "candidate_generating", "failed"}

GenerateDone(p) ==
  LET k == client[p].revision IN
  /\ At(p, "generating")
  /\ Current(p)
  /\ Submittable(k)
  /\ texts < MaxText
  /\ texts' = texts + 1
  /\ Change(k, Submitted(index[k], client[p].chapter, texts + 1))
  /\ client' = [client EXCEPT ![p] =
       [pc |-> "recording", revision |-> k, number |-> index[k].number + 1]]
  /\ UNCHANGED <<lease, formal, save, audited, approved, mistaken>>

(* The chapter's context, the plan of its segments or the segments kept    *)
(* from before are found unusable: no checkpoint, the failure at once.     *)
GenerateRefused(p, k, c) ==
  /\ At(p, "idle")
  /\ Addressed(k, "generate")
  /\ NextItem(index[k], c)
  /\ MayGenerate(index[k], c)
  /\ Change(k, Failed(index[k], c))
  /\ UNCHANGED <<lease, formal, client, save, texts, audited, approved, mistaken>>

(* The receipts follow in a transaction of their own.                      *)
GenerateRecord(p) ==
  /\ At(p, "recording")
  /\ Current(p)
  /\ Change(client[p].revision, index[client[p].revision])
  /\ Done(p)
  /\ UNCHANGED <<lease, formal, save, texts, audited, approved, mistaken>>

(* recordGenerationFailure: a model error, a bad segment, a candidate that *)
(* does not keep the chapter's contract.                                   *)
GenerateFails(p) ==
  /\ At(p, "generating")
  /\ Current(p)
  /\ Change(client[p].revision,
            Failed(index[client[p].revision], client[p].chapter))
  /\ Done(p)
  /\ UNCHANGED <<lease, formal, save, texts, audited, approved, mistaken>>

(* Another command came first: a revision conflict, nothing is written.    *)
Conflict(p) ==
  /\ \/ client[p].pc \in {"generating", "recording", "auditing", "answering"}
     \/ At(p, "submitting") /\ ~save[p].submitted
  /\ ~Current(p)
  /\ Done(p)
  /\ UNCHANGED <<index, active, lease, formal, save, texts, audited, approved, mistaken>>

(* RunAudit works on the candidates it loaded.                             *)
AuditBegin(p, k) ==
  /\ At(p, "idle")
  /\ index[k].stage = "audit_pending"
  /\ client' = [client EXCEPT ![p] =
       [pc |-> "auditing", revision |-> k, number |-> index[k].number,
        candidate |-> index[k].candidate]]
  /\ UNCHANGED <<index, active, lease, formal, save, texts, audited, approved, mistaken>>

Mut_StillJudged(p) ==    \* the audit's answer goes to whatever is there now
  index[client[p].revision].stage = "audit_pending"

StillJudged(p) ==
  /\ Current(p)
  /\ index[client[p].revision].stage = "audit_pending"
  /\ index[client[p].revision].candidate = client[p].candidate

(* resolvePendingManualContractEvidence: an author's text left in the      *)
(* audit gets the contract evidence its submission put off, in a           *)
(* transaction of its own.                                                 *)
AuditBind(p) ==
  LET k == client[p].revision IN
  /\ At(p, "auditing")
  /\ StillJudged(p)
  /\ index[k].deferred
  /\ Change(k, [index[k] EXCEPT !.deferred = FALSE])
  /\ client' = [client EXCEPT ![p].number = @ + 1]
  /\ UNCHANGED <<lease, formal, save, texts, audited, approved, mistaken>>

Seen(p, chapters) ==
  {<<client[p].revision, c, client[p].candidate[c]>> : c \in chapters}

(* record_audit: all candidates passed, or the first that did not sends    *)
(* its chapter back.                                                       *)
AuditPasses(p) ==
  LET k == client[p].revision
      judged == {c \in Chapters : client[p].candidate[c] # 0} IN
  /\ At(p, "auditing")
  /\ StillJudged(p)
  /\ ~index[k].deferred
  /\ Change(k, [index[k] EXCEPT !.passed = Candidates(index[k]),
                                !.stage = "final_approval_pending"])
  /\ audited' = audited \union Seen(p, judged)
  /\ Done(p)
  /\ UNCHANGED <<lease, formal, save, texts, approved, mistaken>>

AuditRejects(p, c) ==
  LET k == client[p].revision IN
  /\ At(p, "auditing")
  /\ StillJudged(p)
  /\ ~index[k].deferred
  /\ c \in Candidates(index[k])
  /\ \E before \in SUBSET (Candidates(index[k]) \ {c}) :
       /\ Change(k, [Failed(index[k], c) EXCEPT !.passed = @ \union before])
       /\ audited' = audited \union Seen(p, before)
  /\ Done(p)
  /\ UNCHANGED <<lease, formal, save, texts, approved, mistaken>>

(* recordAuditFailure: no answer from the auditor, or its evidence fails.  *)
AuditFails(p, c) ==
  LET k == client[p].revision IN
  /\ At(p, "auditing")
  /\ Current(p)
  /\ ~index[k].deferred
  /\ c \in Candidates(index[k])
  /\ Change(k, Failed(index[k], c))
  /\ Done(p)
  /\ UNCHANGED <<lease, formal, save, texts, audited, approved, mistaken>>

(* validateAuditArtifact of every candidate.                               *)
AllPassed(r) == Candidates(r) \subseteq r.passed

Own(k) == {<<k, c, index[k].candidate[c]>> : c \in Candidates(index[k])}

Approve(p, k) ==
  /\ At(p, "idle")
  /\ index[k].stage = "final_approval_pending"
  /\ AllPassed(index[k])
  /\ Change(k, [index[k] EXCEPT !.stage = "ready_to_publish"])
  /\ approved' = approved \union Own(k)
  /\ UNCHANGED <<lease, formal, client, save, texts, audited, mistaken>>

Mut_BaselineHolds(r) == TRUE    \* the formal prose is not compared again
BaselineHolds(r) == \A c \in Candidates(r) : formal[c] = r.base[c]

Published(r) ==
  [r EXCEPT !.published = TRUE,
            !.stage = IF book.complete THEN "completion_revalidation_pending"
                                      ELSE "completed"]

PublishCandidates(k) ==
  /\ index[k].stage = "ready_to_publish"
  /\ AllPassed(index[k])
  /\ BaselineHolds(index[k])
  /\ formal' = [c \in Chapters |->
       IF c \in Candidates(index[k]) THEN index[k].candidate[c] ELSE formal[c]]
  /\ Change(k, Published(index[k]))

Publish(p, k) ==
  /\ At(p, "idle")
  /\ PublishCandidates(k)
  /\ UNCHANGED <<lease, client, save, texts, audited, approved, mistaken>>

(* RevalidateCompletion reads every chapter of the complete book.          *)
Revalidate(p, k) ==
  /\ At(p, "idle")
  /\ index[k].stage = "completion_revalidation_pending"
  /\ Change(k, [index[k] EXCEPT !.stage = "completed"])
  /\ UNCHANGED <<lease, formal, client, save, texts, audited, approved, mistaken>>

Cancel(p, k) ==
  /\ At(p, "idle")
  /\ Addressed(k, "cancel")
  /\ ~index[k].published
  /\ Change(k, [index[k] EXCEPT !.stage = "cancelled"])
  /\ UNCHANGED <<lease, formal, client, save, texts, audited, approved, mistaken>>

(* SubmitManualCandidate: the author's own text goes through preview,      *)
(* submission, the author's approval and publication in one call.          *)
SaveBegin(p) ==
  /\ At(p, "idle")
  /\ save[p].revision = 0
  /\ texts < MaxText
  /\ texts' = texts + 1
  /\ Begin(Fresh("approval_pending", {Target}))
  /\ save' = [save EXCEPT ![p] =
       [revision |-> active', base |-> formal[Target], text |-> texts',
        submitted |-> FALSE]]
  /\ client' = [client EXCEPT ![p] =
       [pc |-> "saving", revision |-> active', number |-> 1, text |-> texts']]
  /\ UNCHANGED <<lease, formal, audited, approved, mistaken>>

(* The same save again, with the key it had: the preview is answered from  *)
(* its receipt, with the revision as it is now.  Once the chapter is not   *)
(* what the save was made for, by the save itself or by anything else, it  *)
(* is refused (signature drift).                                           *)
SaveAgain(p) ==
  LET k == save[p].revision IN
  /\ At(p, "idle")
  /\ k # 0
  /\ formal[Target] = save[p].base
  /\ client' = [client EXCEPT ![p] =
       [pc |-> "saving", revision |-> k, number |-> index[k].number,
        text |-> save[p].text]]
  /\ UNCHANGED <<index, active, lease, formal, save, texts, audited, approved, mistaken>>

(* SubmitCandidate looks at the stage of the revision it loads, and has    *)
(* the candidate's evidence to store before its transaction.               *)
SaveLoad(p) ==
  /\ At(p, "saving")
  /\ Submittable(client[p].revision)
  /\ Target \in Queued(index[client[p].revision])
  /\ client' = [client EXCEPT ![p].pc = "submitting"]
  /\ UNCHANGED <<index, active, lease, formal, save, texts, audited, approved, mistaken>>

SaveRefused(p) ==
  /\ At(p, "saving")
  /\ ~Submittable(client[p].revision)
  /\ Done(p)
  /\ UNCHANGED <<index, active, lease, formal, save, texts, audited, approved, mistaken>>

Answering(p, number, repeated) ==
  [pc |-> "answering", revision |-> client[p].revision, number |-> number,
   text |-> client[p].text, repeated |-> repeated]

SaveSubmit(p) ==
  LET k == client[p].revision IN
  /\ At(p, "submitting")
  /\ ~save[p].submitted
  /\ Current(p)
  /\ Change(k, [Submitted(index[k], Target, client[p].text) EXCEPT !.deferred = TRUE])
  /\ save' = [save EXCEPT ![p].submitted = TRUE]
  /\ client' = [client EXCEPT ![p] = Answering(p, index[k].number + 1, FALSE)]
  /\ UNCHANGED <<lease, formal, texts, audited, approved, mistaken>>

(* The save's text was submitted before: the transaction answers from its  *)
(* receipt, with whatever the revision has become.                         *)
SaveReplay(p) ==
  /\ At(p, "submitting")
  /\ save[p].submitted
  /\ client' = [client EXCEPT ![p] =
       Answering(p, index[client[p].revision].number, TRUE)]
  /\ UNCHANGED <<index, active, lease, formal, save, texts, audited, approved, mistaken>>

(* publishExactAuthorSave: author_exact_save certifies the candidate that  *)
(* is there, then the publication.  What the author answers for is his own *)
(* text.                                                                   *)
SaveApprove(p) ==
  LET k == client[p].revision
      own == {<<k, Target, client[p].text>>} IN
  /\ At(p, "answering")
  /\ Current(p)
  /\ index[k].stage = "audit_pending"
  /\ Candidates(index[k]) = {Target}
  /\ Change(k, [index[k] EXCEPT !.passed = {Target}, !.stage = "ready_to_publish"])
  /\ audited' = audited \union own
  /\ approved' = approved \union own
  /\ mistaken' = IF client[p].repeated THEN mistaken \union (Own(k) \ own) ELSE mistaken
  /\ client' = [client EXCEPT ![p].number = @ + 1]
  /\ UNCHANGED <<lease, formal, save, texts>>

SavePublish(p) ==
  /\ At(p, "answering")
  /\ Current(p)
  /\ PublishCandidates(client[p].revision)
  /\ Done(p)
  /\ UNCHANGED <<lease, save, texts, audited, approved, mistaken>>

(* The revision is completed already, or at a stage a save cannot publish. *)
SaveEnds(p) ==
  /\ At(p, "answering")
  /\ Current(p)
  /\ index[client[p].revision].stage \notin {"audit_pending", "ready_to_publish"}
  /\ Done(p)
  /\ UNCHANGED <<index, active, lease, formal, save, texts, audited, approved, mistaken>>

(* The request is lost, with the process or with the connection.           *)
Interrupt(p) ==
  /\ client[p] # Idle
  /\ Done(p)
  /\ UNCHANGED <<index, active, lease, formal, save, texts, audited, approved, mistaken>>

(* AcquireNormalFlow, a formal write of the flow, and the release.         *)
FlowAcquire ==
  /\ active = 0
  /\ ~lease
  /\ lease' = TRUE
  /\ UNCHANGED <<index, active, formal, client, save, texts, audited, approved, mistaken>>

FlowWrite(c) ==
  /\ lease
  /\ active = 0
  /\ c \in book.chapters
  /\ texts < MaxText
  /\ texts' = texts + 1
  /\ formal' = [formal EXCEPT ![c] = texts + 1]
  /\ UNCHANGED <<index, active, lease, client, save, audited, approved, mistaken>>

FlowRelease ==
  /\ lease
  /\ lease' = FALSE
  /\ UNCHANGED <<index, active, formal, client, save, texts, audited, approved, mistaken>>

Generate(p) ==
  \/ \E k \in Revisions, c \in Chapters :
       GenerateBegin(p, k, c) \/ GenerateRefused(p, k, c)
  \/ GenerateSegment(p) \/ GenerateDone(p) \/ GenerateRecord(p) \/ GenerateFails(p)

Audit(p) ==
  \/ \E k \in Revisions : AuditBegin(p, k)
  \/ AuditBind(p) \/ AuditPasses(p)
  \/ \E c \in Chapters : AuditRejects(p, c) \/ AuditFails(p, c)

Save(p) ==
  \/ SaveBegin(p) \/ SaveAgain(p) \/ SaveLoad(p) \/ SaveRefused(p)
  \/ SaveSubmit(p) \/ SaveReplay(p)
  \/ SaveApprove(p) \/ SavePublish(p) \/ SaveEnds(p)

Command(p) ==
  \/ Preview(p)
  \/ \E k \in Revisions :
       \/ Restore(p, k) \/ Confirm(p, k) \/ Approve(p, k)
       \/ Publish(p, k) \/ Revalidate(p, k) \/ Cancel(p, k)

Flow == FlowAcquire \/ FlowRelease \/ \E c \in Chapters : FlowWrite(c)

Next ==
  /\ UNCHANGED book
  /\ \/ Flow
     \/ \E p \in book.clients :
          Command(p) \/ Generate(p) \/ Audit(p) \/ Save(p) \/ Conflict(p) \/ Interrupt(p)

Spec == Init /\ [][Next]_vars

-----------------------------------------------------------------------------
TypeOK ==
  /\ book \in Books
  /\ \A k \in Revisions :
       /\ index[k].number \in 0..book.number
       /\ index[k].stage \in Stages
       /\ index[k].queue \in [Chapters -> {"no", "pending", "generated", "failed"}]
       /\ index[k].candidate \in [Chapters -> 0..MaxText]
       /\ index[k].passed \subseteq Chapters
  /\ active \in {0} \union Revisions
  /\ lease \in BOOLEAN
  /\ formal \in [Chapters -> 0..MaxText]
  /\ texts \in 0..MaxText

Open(k) == index[k].stage \notin Over

(* Nobody asks anything of a revision that is cancelled.  The service      *)
(* takes generate for one, which opens it again, and cancel, which clears  *)
(* the active revision whichever it is.                                    *)
NothingLate == book.late = {}

(* A revision that is not over is the index's active one: it keeps the     *)
(* writing flow and every other revision off the book.                     *)
OpenIsActive ==
  NothingLate => \A k \in Revisions : Open(k) => active = k /\ ~lease

(* What is in a chapter and came from a revision was audited and approved  *)
(* in exactly this text, or was its author's, whatever the clients did to  *)
(* the revision in the meantime.  One way round remains in the code, and   *)
(* no other: a save that is repeated may certify the text it finds in      *)
(* place of its own.                                                       *)
PublishedWasApproved ==
  \A k \in Revisions : index[k].published =>
    Own(k) \subseteq (audited \intersect approved) \union mistaken

(* A publication replaces no text that was written after its revision      *)
(* began.                                                                  *)
NewerProseStands ==
  [][\A k \in Revisions, c \in Chapters :
       ~index[k].published /\ index'[k].published /\ formal'[c] # formal[c]
         => formal[c] <= index[k].since]_vars

=============================================================================

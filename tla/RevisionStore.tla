---------------------------- MODULE RevisionStore ----------------------------
(***************************************************************************)
(* The project's ownership and publication protocol: RevisionStore         *)
(* (internal/store/revision.go) with the formal publication of             *)
(* internal/store/store.go.  One file, meta/revisions/state.json, decides  *)
(* who may change a book: the normal writing flow (a lease), a revision    *)
(* session, an adaptation service command (a fence), a publication attempt *)
(* or, in a second file, a manuscript revision.                            *)
(*                                                                         *)
(* Every method runs in revision transactions: a process mutex plus a file *)
(* lock around load, check and write.  A transaction that only reads and   *)
(* writes state.json is one step here.  A command that runs policy code    *)
(* between its reading and its writing transaction (mutate, Start) is two  *)
(* steps, and the publication, which writes the formal files inside its    *)
(* transaction, holds the lock over several.  A process may die between    *)
(* any two steps: its locks are freed, what it wrote stays.                *)
(***************************************************************************)
EXTENDS RevisionSession

CONSTANTS
  Procs,        \* operating-system processes; a pid is never reused
  StartKeys,    \* idempotency keys of Start commands
  CommandKeys,  \* identities of adaptation service commands
  EditTexts,    \* contents the formal files get from ordinary writes
  None,
  MaxSession,   \* bound: sessions ever started
  MaxVersion,   \* bound: candidate versions ever submitted
  MaxRevision,  \* bound: revision of a session a command may start from
  MaxGen        \* bound: generation a lease or a publication may start from

VARIABLES
  st,           \* meta/revisions/state.json
  formal,       \* formal files: structure, progress and its revalidation flag
  manuscript,   \* the manuscript revision index has an active revision
  lock,         \* holder of the revision transaction across steps
  pc,           \* where each process is
  job,          \* working copy of a command between its two transactions
  own,          \* RevisionPublicationOwner and the captured formal snapshot
  cmd,          \* commandOwner: the fence of the command the process is in
  journal       \* prepared journal of that command with its snapshot

vars == <<st, formal, manuscript, lock, pc, job, own, cmd, journal>>

ASSUME BoundsAssumption ==
  /\ MaxSession \in Nat /\ MaxVersion \in Nat
  /\ MaxRevision \in Nat /\ MaxGen \in Nat

Sessions == 1..MaxSession
NoSession == 0

Lease   == [pid : Procs, gen : Nat]
Fence   == [key : CommandKeys, owner : Procs]
Text    == EditTexts \cup Nat          \* Nat: the version a publication wrote
Formal  == [text : Text, reval : BOOLEAN]
Attempt == [token : Procs, sid : Nat, revision : Nat, gen : Nat, cand : Nat,
            status : {"prepared", "formal_applied"}, snap : Formal]
Owner   == [token : Procs, sid : Nat, revision : Nat, gen : Nat, cand : Nat]

MutateOps == {"approve_impact", "submit_candidate", "audit_pass", "audit_fail",
              "submit_feedback", "approve_stage", "pause", "fail", "resume",
              "cancel"}

StateRecord ==
  [gen : Nat, lease : Lease \cup {None}, fence : Fence \cup {None},
   pub : Attempt \cup {None}, active : Sessions \cup {NoSession},
   nextSession : Nat, nextVersion : Nat,
   sess : [Sessions -> Session \cup {None}],
   startKey : [Sessions -> StartKeys \cup {None}],
   mode : [Sessions -> {"normal", "adaptation"}],
   current : Nat, receipts : SUBSET (Sessions \X Nat)]

Job == [op : MutateOps \cup {"start"}, key : StartKeys \cup {None},
        base : StateRecord]

Control == {"idle", "policy", "validated", "captured", "prepared", "written",
            "applied", "rollback", "restored", "answered", "undo", "undone",
            "finished", "dead"}

OwnRecord == [owner : Owner, snap : Formal \cup {None}]

(* adaptationRevisionCommandJournal: the files as they were when the       *)
(* command was prepared, and whether its service receipt is on disk.       *)
Journal == [state : StateRecord, formal : Formal, answered : BOOLEAN]

(* None is Go's nil: it is nothing else.                                   *)
ASSUME NoneAssumption ==
  /\ None \notin Procs
  /\ None \notin Session
  /\ None \notin Formal
  /\ None \notin Attempt
  /\ None \notin Lease
  /\ None \notin Fence
  /\ None \notin OwnRecord
  /\ None \notin Journal
ASSUME EditAssumption == EditTexts \cap Nat = {}

Init ==
  /\ st = [gen |-> 1, lease |-> None, fence |-> None, pub |-> None,
           active |-> NoSession, nextSession |-> 0, nextVersion |-> 0,
           sess |-> [i \in Sessions |-> None],
           startKey |-> [i \in Sessions |-> None],
           mode |-> [i \in Sessions |-> "normal"],
           current |-> NoVersion, receipts |-> {}]
  /\ formal \in [text : EditTexts, reval : BOOLEAN]
  /\ manuscript = FALSE
  /\ lock = None
  /\ pc = [p \in Procs |-> "idle"]
  /\ job = [p \in Procs |-> None]
  /\ own = [p \in Procs |-> None]
  /\ cmd = [p \in Procs |-> None]
  /\ journal = None
-----------------------------------------------------------------------------
Alive(p) == pc[p] # "dead"

(* validateRevisionState: a state.json that fails it is refused by every   *)
(* later transaction, recovery included.                                   *)
LoadableState(s) ==
  /\ s.lease # None => /\ s.lease.gen = s.gen
                       /\ s.active = NoSession
                       /\ s.fence = None
  /\ s.pub # None => /\ s.pub.gen = s.gen
                     /\ s.lease = None
                     /\ s.fence = None
                     /\ s.active # NoSession
                     /\ s.active = s.pub.sid
                     /\ s.sess[s.active].revision = s.pub.revision
                     /\ s.sess[s.active].gen = s.pub.gen
                     /\ s.sess[s.active].cand = s.pub.cand
  /\ \A i \in Sessions : s.sess[i] # None =>
       /\ ValidSession(s.sess[i])
       /\ s.sess[i].gen <= s.gen
       /\ Active(s.sess[i]) = (s.active = i)
  /\ s.active # NoSession => s.sess[s.active] # None

StaleLease == st.lease # None /\ ~Alive(st.lease.pid)

(* A revision transaction can start and its load succeeds.                 *)
Transaction(p) ==
  /\ Alive(p)
  /\ lock = None
  /\ ~StaleLease
  /\ LoadableState(st)

Mut_RecoverStaleLease(p) ==        \* drops only a lease of its own pid
  /\ Alive(p)
  /\ lock = None
  /\ StaleLease
  /\ st.lease.pid = p
  /\ st' = [st EXCEPT !.lease = None, !.gen = @ + 1]
  /\ UNCHANGED <<formal, manuscript, lock, pc, job, own, cmd, journal>>

(* loadUnlocked drops a lease whose process is gone and writes that back   *)
(* before anything else reads the state.                                   *)
RecoverStaleLease(p) ==
  /\ Alive(p)
  /\ lock = None
  /\ StaleLease
  /\ st' = [st EXCEPT !.lease = None, !.gen = @ + 1]
  /\ UNCHANGED <<formal, manuscript, lock, pc, job, own, cmd, journal>>

(* allowRevisionCommandMutation for a caller that owns no publication.     *)
AllowCommand(s, owner) == s.pub = None /\ s.fence = owner
-----------------------------------------------------------------------------
(* The normal writing flow.                                                *)

Mut_AcquireNormalFlow(p) ==        \* does not ask for an active session
  /\ pc[p] = "idle"
  /\ Transaction(p)
  /\ st.gen < MaxGen
  /\ ~formal.reval
  /\ ~manuscript
  /\ st.fence = None
  /\ st.lease = None
  /\ st' = [st EXCEPT !.gen = @ + 1,
                      !.lease = [pid |-> p, gen |-> st.gen + 1]]
  /\ UNCHANGED <<formal, manuscript, lock, pc, job, own, cmd, journal>>

AcquireNormalFlow(p) ==
  /\ pc[p] = "idle"
  /\ Transaction(p)
  /\ st.gen < MaxGen
  /\ ~formal.reval
  /\ st.active = NoSession
  /\ ~manuscript
  /\ st.fence = None
  /\ st.lease = None
  /\ st' = [st EXCEPT !.gen = @ + 1,
                      !.lease = [pid |-> p, gen |-> st.gen + 1]]
  /\ UNCHANGED <<formal, manuscript, lock, pc, job, own, cmd, journal>>

Mut_ReleaseNormalFlow(p) ==        \* forgets to move the generation
  /\ pc[p] = "idle"
  /\ Transaction(p)
  /\ st.lease # None
  /\ st.lease.pid = p
  /\ st' = [st EXCEPT !.lease = None]
  /\ UNCHANGED <<formal, manuscript, lock, pc, job, own, cmd, journal>>

ReleaseNormalFlow(p) ==
  /\ pc[p] = "idle"
  /\ Transaction(p)
  /\ st.lease # None
  /\ st.lease.pid = p
  /\ st' = [st EXCEPT !.lease = None, !.gen = @ + 1]
  /\ UNCHANGED <<formal, manuscript, lock, pc, job, own, cmd, journal>>

(* Any ordinary formal write goes through withLegacyMigrationMutation,     *)
(* which asks for no lease: only that no revision owns the book.  It may   *)
(* also settle a pending completion revalidation.  The two ways in for a   *)
(* foundation revision that generates its candidate are closed here: the   *)
(* sessions of this module are adaptations and no command is called        *)
(* foundation-adaptation/..., so that foundationAdaptationCommandAllows is *)
(* false and there is no FoundationPlanningOwner.                          *)
LegacyWrite(p) ==
  /\ pc[p] = "idle"
  /\ Transaction(p)
  /\ st.active = NoSession
  /\ ~manuscript
  /\ st.fence = None
  /\ \E text \in EditTexts, settle \in BOOLEAN :
       formal' = [text |-> text, reval |-> formal.reval /\ ~settle]
  /\ UNCHANGED <<st, manuscript, lock, pc, job, own, cmd, journal>>
-----------------------------------------------------------------------------
(* Manuscript revisions share the transaction but keep their own index.    *)

StartManuscript(p) ==
  /\ pc[p] = "idle"
  /\ Transaction(p)
  /\ st.active = NoSession
  /\ st.lease = None
  /\ st.fence = None
  /\ st.pub = None
  /\ ~manuscript
  /\ manuscript' = TRUE
  /\ UNCHANGED <<st, formal, lock, pc, job, own, cmd, journal>>

FinishManuscript(p) ==
  /\ Alive(p)
  /\ lock = None
  /\ pc[p] = "idle"
  /\ manuscript
  /\ manuscript' = FALSE
  /\ UNCHANGED <<st, formal, lock, pc, job, own, cmd, journal>>
-----------------------------------------------------------------------------
(* An adaptation service command (WithPreparedAdaptationRevisionCommand):  *)
(* claim the fence, write the journal with a snapshot of the files, change *)
(* the session, write the service receipt, remove the journal, release the *)
(* fence.  The command lock is held by the process whose cmd is set; it    *)
(* dies with the process, the fence and the journal do not.                *)

CommandLockFree == \A q \in Procs : Alive(q) => cmd[q] = None

(* A command in the middle of which the process is, and its journal.       *)
InCommand(p) == cmd[p] # None
Prepared == journal # None

ClaimCommandFence(p, key) ==
  /\ pc[p] = "idle"
  /\ Transaction(p)
  /\ CommandLockFree
  /\ ~Prepared
  /\ st.fence = None
  /\ st.lease = None
  /\ ~manuscript
  /\ LET fence == [key |-> key, owner |-> p] IN
     /\ st' = [st EXCEPT !.fence = fence]
     /\ cmd' = [cmd EXCEPT ![p] = fence]
  /\ UNCHANGED <<formal, manuscript, lock, pc, job, own, journal>>

(* prepareAdaptationRevisionCommand                                        *)
PrepareCommand(p) ==
  /\ pc[p] = "idle"
  /\ Transaction(p)
  /\ InCommand(p)
  /\ st.fence = cmd[p]
  /\ ~Prepared
  /\ journal' = [state |-> st, formal |-> formal, answered |-> FALSE]
  /\ UNCHANGED <<st, formal, manuscript, lock, pc, job, own, cmd>>

(* SaveAdaptationRevisionServiceReceipt: from here the command stands.     *)
AnswerCommand(p) ==
  /\ pc[p] = "idle"
  /\ Transaction(p)
  /\ InCommand(p)
  /\ st.fence = cmd[p]
  /\ Prepared
  /\ journal' = [journal EXCEPT !.answered = TRUE]
  /\ pc' = [pc EXCEPT ![p] = "answered"]
  /\ UNCHANGED <<st, formal, manuscript, lock, job, own, cmd>>

(* What the snapshot holds of state.json comes back, the fence stays.      *)
Restored == [journal.state EXCEPT !.fence = st.fence]

(* restoreAdaptationRevisionCommandSnapshot, by the command that failed or *)
(* by the recovery.                                                        *)
UndoCommand(p) ==
  /\ pc[p] \in {"idle", "undo"}
  /\ Transaction(p)
  /\ InCommand(p)
  /\ st.fence = cmd[p]
  /\ Prepared
  /\ st' = Restored
  /\ formal' = journal.formal
  /\ pc' = [pc EXCEPT ![p] = "undone"]
  /\ UNCHANGED <<manuscript, lock, job, own, cmd, journal>>

(* cleanupAdaptationRevisionCommand                                        *)
RemoveJournal(p) ==
  /\ pc[p] \in {"answered", "undone"}
  /\ journal' = None
  /\ pc' = [pc EXCEPT ![p] = "finished"]
  /\ UNCHANGED <<st, formal, manuscript, lock, job, own, cmd>>

(* The command is over (releaseCommandFence), or it was answered from its  *)
(* receipt or refused before it was prepared.                              *)
ReleaseCommandFence(p) ==
  /\ pc[p] \in {"idle", "finished"}
  /\ Transaction(p)
  /\ InCommand(p)
  /\ ~Prepared
  /\ st.fence = cmd[p]
  /\ st' = [st EXCEPT !.fence = None]
  /\ cmd' = [cmd EXCEPT ![p] = None]
  /\ pc' = [pc EXCEPT ![p] = "idle"]
  /\ UNCHANGED <<formal, manuscript, lock, job, own, journal>>

(* The rollback, the clean-up or the release fails: the command returns    *)
(* its error, what is on disk waits for the next recovery.                 *)
LeaveCommand(p) ==
  /\ pc[p] \in {"idle", "answered", "undo", "undone", "finished"}
  /\ InCommand(p)
  /\ cmd' = [cmd EXCEPT ![p] = None]
  /\ pc' = [pc EXCEPT ![p] = "idle"]
  /\ UNCHANGED <<st, formal, manuscript, lock, job, own, journal>>

(* recoverAdaptationRevisionCommand without a prepared journal: the next   *)
(* holder of the command lock releases the fence that was left.            *)
RecoverCommandFence(p) ==
  /\ pc[p] = "idle"
  /\ Transaction(p)
  /\ CommandLockFree
  /\ ~Prepared
  /\ st.fence # None
  /\ st' = [st EXCEPT !.fence = None]
  /\ UNCHANGED <<formal, manuscript, lock, pc, job, own, cmd, journal>>

(* With a journal it claims the fence again, which it gets because it      *)
(* names the same command, and then finishes a command that has its        *)
(* receipt and undoes one that has none.                                   *)
Mut_NextRecovery == "undo"         \* does not look for the receipt

NextRecovery == IF journal.answered THEN "answered" ELSE "undo"

RecoverCommand(p) ==
  /\ pc[p] = "idle"
  /\ Transaction(p)
  /\ CommandLockFree
  /\ Prepared
  /\ st.fence # None
  /\ st.fence.key = journal.state.fence.key
  /\ cmd' = [cmd EXCEPT ![p] = st.fence]
  /\ pc' = [pc EXCEPT ![p] = NextRecovery]
  /\ UNCHANGED <<st, formal, manuscript, lock, job, own, journal>>
-----------------------------------------------------------------------------
(* Sessions: Start and the commands that go through mutate.                *)

Mut_HasStartReceipt(s, key) ==     \* looks at the active session only
  s.active # NoSession /\ s.startKey[s.active] = key

(* lookupRevisionReceipt for the receipt of a Start.                       *)
HasStartReceipt(s, key) == \E i \in Sessions : s.startKey[i] = key

ModeOf(p) == IF InCommand(p) THEN "adaptation" ELSE "normal"

Applies(op, s) ==
  CASE op = "approve_impact"   -> CanApproveImpact(s)
    [] op = "submit_candidate" -> CanSubmitCandidate(s)
    [] op \in {"audit_pass", "audit_fail"} -> CanRecordAudit(s, s.cand)
    [] op = "submit_feedback"  -> CanSubmitFeedback(s)
    [] op = "approve_stage"    -> CanApproveStage(s)
    [] op \in {"pause", "fail"} -> CanInterrupt(s)
    [] op = "resume"           -> CanResume(s)
    [] op = "cancel"           -> CanCancel(s)

AfterCommand(op, s, v) ==
  CASE op = "approve_impact"   -> AfterApproveImpact(s)
    [] op = "submit_candidate" -> AfterSubmitCandidate(s, v)
    [] op = "audit_pass"       -> AfterRecordAudit(s, TRUE)
    [] op = "audit_fail"       -> AfterRecordAudit(s, FALSE)
    [] op = "submit_feedback"  -> AfterSubmitFeedback(s)
    [] op = "approve_stage"    -> AfterApproveStage(s)
    [] op = "pause"            -> AfterInterrupt(s, "paused")
    [] op = "fail"             -> AfterInterrupt(s, "failed")
    [] op = "resume"           -> AfterResume(s)
    [] op = "cancel"           -> AfterCancel(s)

(* The working copy of a command on session t (already transformed): new   *)
(* session revision, new generation and the receipt of the command.        *)
Mutated(b, t) ==
  [b EXCEPT
     !.sess[b.active] = [t EXCEPT !.revision = @ + 1, !.gen = b.gen + 1],
     !.gen = @ + 1,
     !.receipts = @ \cup {<<b.active, t.revision>>},
     !.active = IF Active(t) THEN @ ELSE NoSession]

WorkingCopy(op, b) ==
  LET v == b.nextVersion + 1
      m == Mutated(b, AfterCommand(op, b.sess[b.active], v))
  IN  IF op = "submit_candidate" THEN [m EXCEPT !.nextVersion = v] ELSE m

StartedCopy(key, mode, b) ==
  LET i == b.nextSession + 1 IN
  [b EXCEPT !.nextSession = i,
            !.gen = @ + 1,
            !.sess[i] = NewSession(b.gen + 1, NoVersion),
            !.startKey[i] = key,
            !.mode[i] = mode,
            !.active = i]

(* First transaction of Start: receipt lookup, ownership checks, clone.    *)
BeginStart(p, key) ==
  /\ pc[p] = "idle"
  /\ Transaction(p)
  /\ AllowCommand(st, cmd[p])
  /\ InCommand(p) => Prepared
  /\ ~HasStartReceipt(st, key)
  /\ st.active = NoSession
  /\ ~manuscript
  /\ st.lease = None
  /\ st.nextSession < MaxSession
  /\ job' = [job EXCEPT ![p] = [op |-> "start", key |-> key, base |-> st]]
  /\ pc' = [pc EXCEPT ![p] = "policy"]
  /\ UNCHANGED <<st, formal, manuscript, lock, own, cmd, journal>>

(* First transaction of mutate.  Caller and session agree on the policy,   *)
(* and the caller names the current session revision; a key that has a     *)
(* receipt is answered from it and starts nothing.                         *)
BeginMutate(p, op) ==
  /\ pc[p] = "idle"
  /\ Transaction(p)
  /\ AllowCommand(st, cmd[p])
  /\ InCommand(p) => Prepared
  /\ st.active # NoSession
  /\ st.mode[st.active] = ModeOf(p)
  /\ st.sess[st.active].revision < MaxRevision
  /\ op = "submit_candidate" => st.nextVersion < MaxVersion
  /\ Applies(op, st.sess[st.active])
  /\ job' = [job EXCEPT ![p] = [op |-> op, key |-> None, base |-> st]]
  /\ pc' = [pc EXCEPT ![p] = "policy"]
  /\ UNCHANGED <<st, formal, manuscript, lock, own, cmd, journal>>

(* A Start that somebody else already made.  A session command that was    *)
(* made meanwhile is answered from its receipt when its idempotency key is *)
(* the same and refused by the generation when it is not; it writes        *)
(* nothing in either case (RejectCommand).                                 *)
Replayed(j) == j.op = "start" /\ HasStartReceipt(st, j.key)

Mut_StartAdmitted(j) == TRUE       \* forgets the manuscript index

(* Start reads the manuscript index again when it commits.                 *)
StartAdmitted(j) == j.op = "start" => ~manuscript

Mut_SameGeneration(j) == TRUE      \* the last writer wins

SameGeneration(j) == st.gen = j.base.gen

(* commitOptimistic: the working copy replaces the whole state file if the *)
(* generation has not moved since it was cloned.                           *)
CommitOptimistic(p) ==
  LET j == job[p]
      working == IF j.op = "start" THEN StartedCopy(j.key, ModeOf(p), j.base)
                 ELSE WorkingCopy(j.op, j.base)
  IN
  /\ pc[p] = "policy"
  /\ Transaction(p)
  /\ AllowCommand(st, cmd[p])
  /\ ~Replayed(j)
  /\ StartAdmitted(j)
  /\ SameGeneration(j)
  /\ LoadableState(working)
  /\ st' = working
  /\ job' = [job EXCEPT ![p] = None]
  /\ pc' = [pc EXCEPT ![p] = "idle"]
  /\ UNCHANGED <<formal, manuscript, lock, own, cmd, journal>>

(* The policy rejected the command, or the second transaction did.         *)
RejectCommand(p) ==
  /\ pc[p] = "policy"
  /\ job' = [job EXCEPT ![p] = None]
  /\ pc' = [pc EXCEPT ![p] = "idle"]
  /\ UNCHANGED <<st, formal, manuscript, lock, own, cmd, journal>>
-----------------------------------------------------------------------------
(* Publication of a normal session: NormalRevisionService                  *)
(* .publishAcceptedStructure, step by step.                                *)

(* prepareRevisionPublish on the active session; its version staleness     *)
(* checks hold because only a publication moves CurrentArtifacts.          *)
Publishable(s) ==
  /\ s.active # NoSession
  /\ s.mode[s.active] = "normal"
  /\ CanComplete(s.sess[s.active])

OwnerOf(s, token, gen) ==
  LET t == s.sess[s.active]
  IN  [token |-> token, sid |-> s.active, revision |-> t.revision,
       gen |-> gen, cand |-> t.cand]

AttemptOwner(a) ==
  [token |-> a.token, sid |-> a.sid, revision |-> a.revision, gen |-> a.gen,
   cand |-> a.cand]

(* ValidatePublishWithOwner mints a token, or joins the attempt in flight  *)
(* when the same publish command is repeated.                              *)
ValidatePublish(p) ==
  /\ pc[p] = "idle"
  /\ Transaction(p)
  /\ ~InCommand(p)
  /\ Publishable(st)
  /\ st.sess[st.active].revision < MaxRevision
  /\ st.pub = None => AllowCommand(st, None)
  /\ own' = [own EXCEPT ![p] =
       [owner |-> IF st.pub = None THEN OwnerOf(st, p, st.gen)
                  ELSE AttemptOwner(st.pub),
        snap |-> None]]
  /\ pc' = [pc EXCEPT ![p] = "validated"]
  /\ UNCHANGED <<st, formal, manuscript, lock, job, cmd, journal>>

(* The prepublication snapshot is read before the transaction opens.       *)
CaptureFormalSnapshot(p) ==
  /\ pc[p] = "validated"
  /\ own' = [own EXCEPT ![p].snap = formal]
  /\ pc' = [pc EXCEPT ![p] = "captured"]
  /\ UNCHANGED <<st, formal, manuscript, lock, job, cmd, journal>>

PreparedState(o, snap) ==
  [st EXCEPT !.gen = @ + 1,
             !.sess[st.active].gen = st.gen + 1,
             !.pub = [token |-> o.token, sid |-> o.sid,
                      revision |-> o.revision, gen |-> st.gen + 1,
                      cand |-> o.cand, status |-> "prepared", snap |-> snap]]

(* beginNormalRevisionPublication up to its first write of state.json; the *)
(* transaction stays open.                                                 *)
BeginPublication(p) ==
  LET o == own[p].owner IN
  /\ pc[p] = "captured"
  /\ Transaction(p)
  /\ st.gen < MaxGen
  /\ st.pub = None
  /\ st.lease = None
  /\ st.fence = None
  /\ Publishable(st)
  /\ st.sess[st.active].gen = st.gen
  /\ OwnerOf(st, o.token, st.gen) = o
  /\ LoadableState(PreparedState(o, own[p].snap))
  /\ st' = PreparedState(o, own[p].snap)
  /\ own' = [own EXCEPT ![p].owner.gen = st.gen + 1]
  /\ lock' = p
  /\ pc' = [pc EXCEPT ![p] = "prepared"]
  /\ UNCHANGED <<formal, manuscript, job, cmd, journal>>

(* The begin transaction refuses (stale owner, attempt in flight) or fails *)
(* to write; the caller turns to the rollback.                             *)
BeginPublicationFails(p) ==
  /\ pc[p] = "captured"
  /\ pc' = [pc EXCEPT ![p] = "rollback"]
  /\ UNCHANGED <<st, formal, manuscript, lock, job, own, cmd, journal>>

(* The structure migration replaces outline and progress as one journaled  *)
(* write; publishing onto a completed book asks for its revalidation.      *)
WriteFormal(p) ==
  /\ pc[p] = "prepared"
  /\ \E complete \in BOOLEAN :
       formal' = [text |-> own[p].owner.cand, reval |-> formal.reval \/ complete]
  /\ pc' = [pc EXCEPT ![p] = "written"]
  /\ UNCHANGED <<st, manuscript, lock, job, own, cmd, journal>>

MarkFormalApplied(p) ==
  /\ pc[p] = "written"
  /\ st' = [st EXCEPT !.pub.status = "formal_applied"]
  /\ lock' = None
  /\ pc' = [pc EXCEPT ![p] = "applied"]
  /\ UNCHANGED <<formal, manuscript, job, own, cmd, journal>>

(* The formal write or the second write of state.json fails.               *)
WriteFormalFails(p) ==
  /\ pc[p] \in {"prepared", "written"}
  /\ lock' = None
  /\ pc' = [pc EXCEPT ![p] = "rollback"]
  /\ UNCHANGED <<st, formal, manuscript, job, own, cmd, journal>>

Mut_FormalMatches == TRUE          \* trusts the attempt's status

(* revalidateNormalPublicationBinding: what the formal files hold now is   *)
(* what the attempt wrote.                                                 *)
FormalMatches == formal.text = st.pub.cand

(* PublishWithOwner: the session completes, the attempt is over.           *)
CompletePublication(p) ==
  /\ pc[p] = "applied"
  /\ Transaction(p)
  /\ st.pub # None
  /\ st.pub.status = "formal_applied"
  /\ AttemptOwner(st.pub) = own[p].owner
  /\ Publishable(st)
  /\ FormalMatches
  /\ LET t == st.sess[st.active]
         working == [Mutated(st, AfterComplete(t)) EXCEPT
                       !.current = t.cand, !.pub = None]
     IN  LoadableState(working) /\ st' = working
  /\ own' = [own EXCEPT ![p] = None]
  /\ pc' = [pc EXCEPT ![p] = "idle"]
  /\ UNCHANGED <<formal, manuscript, lock, job, cmd, journal>>

CompletePublicationFails(p) ==
  /\ pc[p] = "applied"
  /\ pc' = [pc EXCEPT ![p] = "rollback"]
  /\ UNCHANGED <<st, formal, manuscript, lock, job, own, cmd, journal>>

(* rollbackNormalRevisionPublication restores the snapshot stored with the *)
(* attempt it owns, then clears the attempt.                               *)
RollbackPublication(p) ==
  /\ pc[p] = "rollback"
  /\ Transaction(p)
  /\ st.pub # None
  /\ AttemptOwner(st.pub) = own[p].owner
  /\ formal' = st.pub.snap
  /\ lock' = p
  /\ pc' = [pc EXCEPT ![p] = "restored"]
  /\ UNCHANGED <<st, manuscript, job, own, cmd, journal>>

Mut_RecoverPublication(p) ==       \* spares an attempt whose process lives
  /\ pc[p] = "idle"
  /\ Transaction(p)
  /\ st.pub # None
  /\ ~Alive(st.pub.token)
  /\ formal' = st.pub.snap
  /\ lock' = p
  /\ pc' = [pc EXCEPT ![p] = "restored"]
  /\ UNCHANGED <<st, manuscript, job, own, cmd, journal>>

(* Opening the store (NewStore) recovers any attempt it finds, also one    *)
(* whose publisher is still alive.                                         *)
RecoverPublication(p) ==
  /\ pc[p] = "idle"
  /\ Transaction(p)
  /\ st.pub # None
  /\ formal' = st.pub.snap
  /\ lock' = p
  /\ pc' = [pc EXCEPT ![p] = "restored"]
  /\ UNCHANGED <<st, manuscript, job, own, cmd, journal>>

ClearAttempt(p) ==
  /\ pc[p] = "restored"
  /\ st' = [st EXCEPT !.pub = None, !.gen = @ + 1,
                      !.sess[st.pub.sid].gen =
                        IF Active(st.sess[st.pub.sid]) THEN st.gen + 1 ELSE @]
  /\ lock' = None
  /\ own' = [own EXCEPT ![p] = None]
  /\ pc' = [pc EXCEPT ![p] = "idle"]
  /\ UNCHANGED <<formal, manuscript, job, cmd, journal>>

(* Nothing to roll back, or the rollback fails to write: an error for the  *)
(* caller, the attempt (if any) stays for the next recovery.               *)
AbandonPublication(p) ==
  /\ pc[p] \in {"validated", "rollback", "restored"}
  /\ lock' = IF lock = p THEN None ELSE lock
  /\ own' = [own EXCEPT ![p] = None]
  /\ pc' = [pc EXCEPT ![p] = "idle"]
  /\ UNCHANGED <<st, formal, manuscript, job, cmd, journal>>
-----------------------------------------------------------------------------
(* The process dies; the operating system frees its locks.                 *)
Crash(p) ==
  /\ Alive(p)
  /\ pc' = [pc EXCEPT ![p] = "dead"]
  /\ lock' = IF lock = p THEN None ELSE lock
  /\ job' = [job EXCEPT ![p] = None]
  /\ own' = [own EXCEPT ![p] = None]
  /\ cmd' = [cmd EXCEPT ![p] = None]
  /\ UNCHANGED <<st, formal, manuscript, journal>>

Publication(p) ==
  \/ ValidatePublish(p)
  \/ CaptureFormalSnapshot(p)
  \/ BeginPublication(p)
  \/ BeginPublicationFails(p)
  \/ WriteFormal(p)
  \/ MarkFormalApplied(p)
  \/ WriteFormalFails(p)
  \/ CompletePublication(p)
  \/ CompletePublicationFails(p)
  \/ RollbackPublication(p)
  \/ RecoverPublication(p)
  \/ ClearAttempt(p)
  \/ AbandonPublication(p)

Command(p) ==
  \/ \E key \in CommandKeys : ClaimCommandFence(p, key)
  \/ PrepareCommand(p)
  \/ AnswerCommand(p)
  \/ UndoCommand(p)
  \/ RemoveJournal(p)
  \/ ReleaseCommandFence(p)
  \/ LeaveCommand(p)
  \/ RecoverCommandFence(p)
  \/ RecoverCommand(p)

Next == \E p \in Procs :
  \/ RecoverStaleLease(p)
  \/ AcquireNormalFlow(p)
  \/ ReleaseNormalFlow(p)
  \/ LegacyWrite(p)
  \/ StartManuscript(p)
  \/ FinishManuscript(p)
  \/ Command(p)
  \/ \E key \in StartKeys : BeginStart(p, key)
  \/ \E op \in MutateOps : BeginMutate(p, op)
  \/ CommitOptimistic(p)
  \/ RejectCommand(p)
  \/ Publication(p)
  \/ Crash(p)

Spec == Init /\ [][Next]_vars

(* The next step of a process that is in the middle of a command or of a   *)
(* publication.                                                            *)
Proceed(p) ==
  \/ RejectCommand(p)
  \/ CommitOptimistic(p)
  \/ CaptureFormalSnapshot(p)
  \/ BeginPublicationFails(p)
  \/ BeginPublication(p)
  \/ WriteFormal(p)
  \/ MarkFormalApplied(p)
  \/ WriteFormalFails(p)
  \/ CompletePublicationFails(p)
  \/ CompletePublication(p)
  \/ AbandonPublication(p)
  \/ RollbackPublication(p)

(* A process that is not killed finishes what it is in; projects are       *)
(* reopened, and the disk does not refuse a write for ever.                *)
Fairness == \A p \in Procs :
  /\ WF_vars(RecoverStaleLease(p))
  /\ WF_vars(Proceed(p))
  /\ SF_vars(RecoverPublication(p))
  /\ SF_vars(ClearAttempt(p))

FairSpec == Spec /\ Fairness
-----------------------------------------------------------------------------
(* Properties.                                                             *)

(* Types of the persisted state and of what each process carries.          *)
TypeOK ==
  /\ st \in StateRecord
  /\ formal \in Formal
  /\ manuscript \in BOOLEAN
  /\ lock \in Procs \cup {None}
  /\ pc \in [Procs -> Control]
  /\ job \in [Procs -> Job \cup {None}]
  /\ own \in [Procs -> OwnRecord \cup {None}]
  /\ cmd \in [Procs -> Fence \cup {None}]
  /\ journal \in Journal \cup {None}

(* No sequence of commands, crashes and recoveries leaves a state.json     *)
(* that loadUnlocked refuses: that would lock the project for good, since  *)
(* recovery and release load it as well.                                   *)
StateLoads == LoadableState(st)

(* The writing flow, a revision session, an adaptation command and a       *)
(* manuscript revision never own the book together, although the           *)
(* manuscript index is a second file and Start decides in two              *)
(* transactions (a command may run on the session it fences).              *)
ExclusiveOwnership ==
  /\ st.lease # None =>
       st.active = NoSession /\ st.fence = None /\ st.pub = None /\ ~manuscript
  /\ manuscript => st.active = NoSession /\ st.fence = None

(* The state of the book once a command that has no receipt yet is undone: *)
(* what the commands of everybody else may rely on.                        *)
Settled ==
  IF Prepared /\ ~journal.answered THEN journal.state ELSE st

(* The step puts state.json back to what it was before such a command.     *)
TakesBack ==
  /\ Prepared /\ ~journal.answered
  /\ st' = Restored

(* Commands are applied one after the other.  A step moves a session by at *)
(* most one revision, unless it takes an unanswered command back; and what *)
(* is settled stands: a session never goes back there, every revision it   *)
(* passed left its receipt, and no receipt is lost, neither to a rival     *)
(* working copy nor to the rollback of somebody else's command.            *)
CommandsSerialized ==
  [][/\ Settled.receipts \subseteq Settled'.receipts
     /\ \A i \in Sessions : Settled.sess[i] # None =>
          LET from == Settled.sess[i].revision
              to == Settled'.sess[i].revision
          IN  /\ Settled'.sess[i] # None
              /\ from <= to
              /\ \A n \in from..(to - 1) :
                   <<i, n>> \in Settled'.receipts \ Settled.receipts
     /\ \/ TakesBack
        \/ \A i \in Sessions : st.sess[i] # None =>
             /\ st'.sess[i] # None
             /\ st'.sess[i].revision \in
                  {st.sess[i].revision, st.sess[i].revision + 1}]_vars

(* A repeated Start command never opens a second session, also when the    *)
(* first one has ended since.                                              *)
StartOnce ==
  \A i, j \in Sessions :
    st.startKey[i] # None /\ st.startKey[i] = st.startKey[j] => i = j

(* Every approval but the last froze the version that was audited in its   *)
(* round; neither feedback, a failed audit nor an interruption gives it up *)
(* or lets an approval stand without its version.                          *)
AcceptedMatchesApprovals ==
  \A i \in Sessions :
    LET s == st.sess[i] IN
    s # None /\ s.stage # "cancelled" =>
      Cardinality(s.accepted) =
        IF EffectiveStage(s) \in {"ready_to_publish", "completed"}
        THEN s.approvals - 1 ELSE s.approvals

(* A session that ended, by a command that has its receipt if it was an    *)
(* adaptation command, stays as it is: no late working copy and no         *)
(* recovery of a command revives it.                                       *)
TerminalSessionsAreFinal ==
  [][\A i \in Sessions :
       Settled.sess[i] # None /\ ~Active(Settled.sess[i]) =>
         Settled'.sess[i] = Settled.sess[i]]_vars

(* Whatever a token, a fence or a router directive was derived from (the   *)
(* lease, the active session and its revision, the attempt), a change of   *)
(* it moves the generation they all carry; only the step that takes an     *)
(* unanswered command back moves the generation back, to where it was      *)
(* when the command was prepared.                                          *)
GenerationAdvances ==
  [][LET Epoch(s) == <<s.lease, s.active, s.pub = None,
                       IF s.active = NoSession THEN 0
                       ELSE s.sess[s.active].revision>>
     IN  /\ Settled'.gen >= Settled.gen
         /\ Epoch(Settled') # Epoch(Settled) => Settled'.gen > Settled.gen
         /\ st'.gen >= st.gen \/ TakesBack]_vars

NobodyAlive == \A p \in Procs : ~Alive(p)

(* A publication attempt does not stay open: whatever fails or dies on the *)
(* way, again and again there is none, as long as anybody is left to close *)
(* it (while it is open, every other owner is refused).                    *)
PublicationSettles == []<>(st.pub = None \/ NobodyAlive)

(* A writing flow that died does not block revisions for good.             *)
StaleLeaseIsDropped == []<>(~StaleLease \/ NobodyAlive)

(* Who owns the book, and what its content is while a publication may      *)
(* still be undone.                                                        *)
OwnerView ==
  IF st.lease # None THEN "normal"
  ELSE IF st.active # NoSession THEN "revision"
  ELSE IF st.fence # None THEN "command"
  ELSE IF manuscript THEN "manuscript"
  ELSE "free"

BookView == IF st.pub = None THEN formal.text ELSE st.pub.snap.text

Book == INSTANCE BookOwnership
          WITH owner <- OwnerView, book <- BookView, current <- st.current,
                 Edits <- EditTexts

(* The multi-step publication with its crashes, failures, rollbacks and    *)
(* concurrent recoveries implements the atomic one.                        *)
ImplementsBookOwnership == Book!Spec
=============================================================================

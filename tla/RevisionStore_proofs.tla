------------------------ MODULE RevisionStore_proofs ------------------------
(***************************************************************************)
(* Proofs about RevisionStore, for any number of processes, keys, sessions *)
(* and stages.  First the types; they need to know what a process carries  *)
(* between two steps (JobInv, OwnInv) and that nobody touches state.json   *)
(* while a publication holds the transaction over several steps (HoldInv). *)
(***************************************************************************)
EXTENDS RevisionStore, FiniteSetTheorems, TLAPS

-----------------------------------------------------------------------------
(* Sessions.                                                               *)

(* Fields used in arithmetic; the provers do better when the additions are *)
(* settled before the records are expanded.                                *)
LEMMA SessionFields ==
  ASSUME NEW s \in Session
  PROVE  /\ s.round \in Nat /\ s.round + 1 \in Nat
         /\ s.revision \in Nat /\ s.revision + 1 \in Nat
         /\ s.approvals \in 0..StageCount
         /\ s.cand \in Nat
         /\ s.stage \in RevisionStage
PROOF
  <1>1. s.round \in Nat /\ s.revision \in Nat /\ s.approvals \in 0..StageCount
        /\ s.cand \in Nat /\ s.stage \in RevisionStage
    BY DEF Session
  <1> QED BY <1>1

LEMMA NextRoundType == ASSUME NEW s \in Session PROVE NextRound(s) \in Session
  BY SessionFields
     DEF Session, NextRound, RevisionStage, Working, NoVersion

LEMMA AfterRecordAuditType ==
  ASSUME NEW s \in Session, NEW passed \in BOOLEAN
  PROVE  AfterRecordAudit(s, passed) \in Session
PROOF
  <1> DEFINE t == [s EXCEPT !.audit = [round |-> s.round, cand |-> s.cand,
                                       passed |-> passed]]
  <1>1. t \in Session
    BY DEF Session
  <1>2. [t EXCEPT !.stage = "approval_pending"] \in Session
    BY <1>1 DEF Session, RevisionStage, Working
  <1> QED BY <1>1, <1>2, NextRoundType DEF AfterRecordAudit

LEMMA AfterApproveStageType ==
  ASSUME NEW s \in Session, CanApproveStage(s)
  PROVE  AfterApproveStage(s) \in Session
PROOF
  <1> DEFINE t == [s EXCEPT !.approvals = @ + 1]
             u == [t EXCEPT !.accepted = @ \cup {s.cand}]
  <1>1. s.approvals + 1 \in 0..StageCount
    BY SessionFields, StageCountAssumption DEF CanApproveStage
  <1>2. t \in Session
    BY <1>1 DEF Session
  <1>3. u \in Session
    BY <1>2, SessionFields DEF Session
  <1>4. [t EXCEPT !.stage = "ready_to_publish"] \in Session
    BY <1>2 DEF Session, RevisionStage, Working
  <1>5. AfterApproveStage(s) = IF t.approvals = StageCount
                               THEN [t EXCEPT !.stage = "ready_to_publish"]
                               ELSE NextRound(u)
    BY DEF AfterApproveStage
  <1> QED BY <1>3, <1>4, <1>5, NextRoundType

LEMMA AfterInterruptType ==
  ASSUME NEW s \in Session, CanInterrupt(s), NEW how \in Interrupted
  PROVE  AfterInterrupt(s, how) \in Session
  BY DEF CanInterrupt, AfterInterrupt, Session, RevisionStage, Interrupted

(* Every command takes a session to a session, wherever it applies.        *)
LEMMA AfterCommandType ==
  ASSUME NEW s \in Session, NEW op \in MutateOps, NEW v \in Nat, Applies(op, s)
  PROVE  AfterCommand(op, s, v) \in Session
PROOF
  <1>1. CASE op = "approve_impact"
    BY <1>1 DEF AfterCommand, AfterApproveImpact, Session, RevisionStage, Working
  <1>2. CASE op = "submit_candidate"
    BY <1>2 DEF AfterCommand, AfterSubmitCandidate, Session, RevisionStage, Working
  <1>3. CASE op \in {"audit_pass", "audit_fail"}
    BY <1>3, AfterRecordAuditType DEF AfterCommand
  <1>4. CASE op = "submit_feedback"
    BY <1>4, NextRoundType DEF AfterCommand, AfterSubmitFeedback
  <1>5. CASE op = "approve_stage"
    BY <1>5, AfterApproveStageType DEF AfterCommand, Applies
  <1>6. CASE op \in {"pause", "fail"}
    BY <1>6, AfterInterruptType DEF AfterCommand, Applies, Interrupted
  <1>7. CASE op = "resume"
    BY <1>7 DEF AfterCommand, AfterResume, Applies, CanResume, Session,
                RevisionStage, Working
  <1>8. CASE op = "cancel"
    BY <1>8 DEF AfterCommand, AfterCancel, Session, RevisionStage, Terminal
  <1> QED BY <1>1, <1>2, <1>3, <1>4, <1>5, <1>6, <1>7, <1>8 DEF MutateOps
-----------------------------------------------------------------------------
(* The state file.                                                         *)

LEMMA StateFields ==
  ASSUME NEW s \in StateRecord
  PROVE  /\ s.gen \in Nat /\ s.gen + 1 \in Nat
         /\ s.active \in Sessions \cup {NoSession}
         /\ s.nextSession \in Nat /\ s.nextSession + 1 \in Nat
         /\ s.nextVersion \in Nat /\ s.nextVersion + 1 \in Nat
         /\ s.pub \in Attempt \cup {None}
         /\ s.lease \in Lease \cup {None}
         /\ s.fence \in Fence \cup {None}
         /\ s.sess \in [Sessions -> Session \cup {None}]
         /\ s.mode \in [Sessions -> {"normal", "adaptation"}]
         /\ s.startKey \in [Sessions -> StartKeys \cup {None}]
         /\ s.receipts \in SUBSET (Sessions \X Nat)
PROOF
  <1>1. s.gen \in Nat /\ s.nextSession \in Nat /\ s.nextVersion \in Nat
    BY DEF StateRecord
  <1> QED BY <1>1 DEF StateRecord

(* In a state that loads, whoever is active is there and works.            *)
LEMMA ActiveSession ==
  ASSUME NEW s \in StateRecord, LoadableState(s), s.active # NoSession
  PROVE  /\ s.active \in Sessions
         /\ s.sess[s.active] \in Session
         /\ Active(s.sess[s.active])
PROOF
  <1>1. s.active \in Sessions
    BY StateFields
  <1>2. s.sess[s.active] # None
    BY DEF LoadableState
  <1>3. s.sess[s.active] \in Session
    BY <1>1, <1>2, StateFields
  <1>4. Active(s.sess[s.active]) = (s.active = s.active)
    BY <1>1, <1>2 DEF LoadableState
  <1> QED BY <1>1, <1>3, <1>4

(* An open attempt belongs to the active session.                          *)
LEMMA AttemptSession ==
  ASSUME NEW s \in StateRecord, LoadableState(s), s.pub # None
  PROVE  /\ s.pub \in Attempt
         /\ s.active # NoSession
         /\ s.pub.sid = s.active
         /\ s.lease = None
         /\ s.fence = None
  BY StateFields DEF LoadableState

LEMMA MutatedType ==
  ASSUME NEW s \in StateRecord, s.active \in Sessions,
         NEW t \in Session
  PROVE  Mutated(s, t) \in StateRecord
PROOF
  <1> DEFINE u  == [t EXCEPT !.revision = @ + 1, !.gen = s.gen + 1]
             ss == [s.sess EXCEPT ![s.active] = u]
             g  == s.gen + 1
             rr == s.receipts \cup {<<s.active, t.revision>>}
             a  == IF Active(t) THEN s.active ELSE NoSession
  <1>1. u \in Session
    BY SessionFields, StateFields DEF Session
  <1>2. ss \in [Sessions -> Session \cup {None}]
    BY <1>1, StateFields
  <1>3. rr \in SUBSET (Sessions \X Nat)
    BY SessionFields, StateFields
  <1>4. a \in Sessions \cup {NoSession} /\ g \in Nat
    BY StateFields
  <1>5. Mutated(s, t) =
          [s EXCEPT !.sess = ss, !.gen = g, !.receipts = rr, !.active = a]
    BY DEF Mutated, StateRecord
  <1> HIDE DEF ss, g, rr, a
  <1>6. [s EXCEPT !.sess = ss, !.gen = g, !.receipts = rr, !.active = a]
          \in StateRecord
    BY <1>2, <1>3, <1>4 DEF StateRecord
  <1> QED BY <1>5, <1>6

LEMMA WorkingCopyType ==
  ASSUME NEW s \in StateRecord, LoadableState(s), s.active # NoSession,
         NEW op \in MutateOps, Applies(op, s.sess[s.active])
  PROVE  WorkingCopy(op, s) \in StateRecord
PROOF
  <1> DEFINE v == s.nextVersion + 1
             t == AfterCommand(op, s.sess[s.active], v)
  <1>1. v \in Nat
    BY StateFields
  <1>2. t \in Session
    BY <1>1, ActiveSession, AfterCommandType
  <1>3. Mutated(s, t) \in StateRecord
    BY <1>2, ActiveSession, MutatedType
  <1>4. [Mutated(s, t) EXCEPT !.nextVersion = v] \in StateRecord
    BY <1>1, <1>3 DEF StateRecord
  <1> QED BY <1>3, <1>4 DEF WorkingCopy

LEMMA StartedCopyType ==
  ASSUME NEW s \in StateRecord, s.nextSession < MaxSession,
         NEW key \in StartKeys, NEW mode \in {"normal", "adaptation"}
  PROVE  StartedCopy(key, mode, s) \in StateRecord
PROOF
  <1> DEFINE i  == s.nextSession + 1
             g  == s.gen + 1
             n  == NewSession(g, NoVersion)
             ss == [s.sess EXCEPT ![i] = n]
             kk == [s.startKey EXCEPT ![i] = key]
             mm == [s.mode EXCEPT ![i] = mode]
  <1>1. i \in Sessions /\ i \in Nat /\ g \in Nat
    BY StateFields, BoundsAssumption DEF Sessions
  <1>2. n \in Session
    <2>1. 0 \in 0..StageCount /\ g \in Nat
      BY StateFields, StageCountAssumption
    <2> QED BY <2>1 DEF NewSession, Session, NoVersion, NoAudit, RevisionStage,
                        Working
  <1>3. /\ ss \in [Sessions -> Session \cup {None}]
        /\ kk \in [Sessions -> StartKeys \cup {None}]
        /\ mm \in [Sessions -> {"normal", "adaptation"}]
    BY <1>1, <1>2, StateFields
  <1>4. StartedCopy(key, mode, s) =
          [s EXCEPT !.nextSession = i, !.gen = g, !.sess = ss, !.startKey = kk,
                    !.mode = mm, !.active = i]
    BY DEF StartedCopy, StateRecord
  <1> HIDE DEF i, g, ss, kk, mm
  <1>5. [s EXCEPT !.nextSession = i, !.gen = g, !.sess = ss, !.startKey = kk,
                  !.mode = mm, !.active = i]
          \in StateRecord
    BY <1>1, <1>3 DEF StateRecord
  <1> QED BY <1>4, <1>5
-----------------------------------------------------------------------------
(* What a process knows between two of its steps.                          *)

(* Between the two transactions of a command: the state it cloned loaded,  *)
(* had no attempt open and allowed the command.                            *)
JobInv == \A p \in Procs : pc[p] = "policy" =>
  /\ job[p] \in Job
  /\ LoadableState(job[p].base)
  /\ job[p].base.pub = None
  /\ job[p].base.fence = cmd[p]
  /\ job[p].op = "start" => /\ job[p].key \in StartKeys
                            /\ job[p].base.nextSession < MaxSession
                            /\ job[p].base.active = NoSession
                            /\ job[p].base.lease = None
  /\ job[p].op # "start" =>
       /\ job[p].base.active # NoSession
       /\ Applies(job[p].op, job[p].base.sess[job[p].base.active])

Publishing == {"validated", "captured", "prepared", "written", "applied",
               "rollback"}

(* A publisher has its owner token, and its snapshot once captured.        *)
OwnInv == \A p \in Procs : pc[p] \in Publishing =>
  /\ own[p] \in OwnRecord
  /\ pc[p] = "captured" => own[p].snap \in Formal

(* Whoever writes formal files inside its transaction holds the lock, has  *)
(* an attempt on record, and the state it loaded is still there.           *)
HoldInv == \A p \in Procs : pc[p] \in {"prepared", "written", "restored"} =>
  /\ lock = p
  /\ st.pub # None
  /\ LoadableState(st)

TypeInv == TypeOK /\ JobInv /\ OwnInv /\ HoldInv

LEMMA TypeInit == Init => TypeInv
PROOF
  <1> SUFFICES ASSUME Init PROVE TypeInv
    OBVIOUS
  <1>1. st \in StateRecord
    BY BoundsAssumption DEF Init, StateRecord, NoSession, NoVersion
  <1>2. formal \in Formal
    BY DEF Init, Formal, Text
  <1>3. TypeOK
    BY <1>1, <1>2 DEF Init, TypeOK, Control
  <1> QED BY <1>3 DEF Init, TypeInv, JobInv, OwnInv, HoldInv, Publishing

(* Steps that leave state.json, the lock and every process where it is.    *)
LEMMA TypeFlow ==
  ASSUME TypeInv, NEW p \in Procs,
         \/ RecoverStaleLease(p) \/ AcquireNormalFlow(p) \/ ReleaseNormalFlow(p)
         \/ LegacyWrite(p) \/ StartManuscript(p) \/ FinishManuscript(p)
  PROVE  TypeInv'
PROOF
  <1>1. st' \in StateRecord
    <2>1. CASE RecoverStaleLease(p)
      BY <2>1, StateFields DEF RecoverStaleLease, TypeInv, TypeOK, StateRecord
    <2>2. CASE AcquireNormalFlow(p)
      <3>1. st.gen + 1 \in Nat
        BY StateFields DEF TypeInv, TypeOK
      <3>2. [pid |-> p, gen |-> st.gen + 1] \in Lease
        BY <3>1 DEF Lease
      <3> QED BY <2>2, <3>1, <3>2 DEF AcquireNormalFlow, TypeInv, TypeOK, StateRecord
    <2>3. CASE ReleaseNormalFlow(p)
      BY <2>3, StateFields DEF ReleaseNormalFlow, TypeInv, TypeOK, StateRecord
    <2>4. CASE LegacyWrite(p) \/ StartManuscript(p) \/ FinishManuscript(p)
      BY <2>4 DEF LegacyWrite, StartManuscript, FinishManuscript, TypeInv, TypeOK
    <2> QED BY <2>1, <2>2, <2>3, <2>4
  <1>2. formal' \in Formal
    <2>1. CASE LegacyWrite(p)
      BY <2>1 DEF LegacyWrite, TypeInv, TypeOK, Formal, Text
    <2> QED BY <2>1 DEF TypeInv, TypeOK, RecoverStaleLease, AcquireNormalFlow,
                        ReleaseNormalFlow, StartManuscript, FinishManuscript
  <1>3. /\ lock = None
        /\ UNCHANGED <<lock, pc, job, own, cmd, journal>>
        /\ manuscript' \in BOOLEAN
    BY DEF TypeInv, TypeOK, RecoverStaleLease, AcquireNormalFlow, Transaction,
           ReleaseNormalFlow, LegacyWrite, StartManuscript, FinishManuscript
  <1>4. TypeOK'
    BY <1>1, <1>2, <1>3 DEF TypeInv, TypeOK
  <1>5. JobInv' /\ OwnInv'
    BY <1>3 DEF TypeInv, JobInv, OwnInv
  <1>6. HoldInv'
    BY <1>3, NoneAssumption DEF TypeInv, HoldInv
  <1> QED BY <1>4, <1>5, <1>6 DEF TypeInv

(* Steps of an adaptation command that leave every process where it is.    *)
LEMMA TypeFence ==
  ASSUME TypeInv, NEW p \in Procs,
         \/ \E key \in CommandKeys : ClaimCommandFence(p, key)
         \/ PrepareCommand(p) \/ RecoverCommandFence(p)
  PROVE  TypeInv'
PROOF
  <1>1. st' \in StateRecord /\ cmd' \in [Procs -> Fence \cup {None}]
    <2>1. ASSUME NEW key \in CommandKeys, ClaimCommandFence(p, key)
          PROVE  st' \in StateRecord /\ cmd' \in [Procs -> Fence \cup {None}]
      <3>1. [key |-> key, owner |-> p] \in Fence
        BY DEF Fence
      <3> QED BY <2>1, <3>1 DEF ClaimCommandFence, TypeInv, TypeOK, StateRecord
    <2>2. CASE PrepareCommand(p)
      BY <2>2 DEF PrepareCommand, TypeInv, TypeOK
    <2>3. CASE RecoverCommandFence(p)
      BY <2>3 DEF RecoverCommandFence, TypeInv, TypeOK, StateRecord
    <2> QED BY <2>1, <2>2, <2>3
  <1>2. journal' \in Journal \cup {None}
    <2>1. CASE PrepareCommand(p)
      <3>1. [state |-> st, formal |-> formal, answered |-> FALSE] \in Journal
        BY DEF Journal, TypeInv, TypeOK
      <3> QED BY <2>1, <3>1 DEF PrepareCommand
    <2>2. CASE ~PrepareCommand(p)
      BY <2>2 DEF ClaimCommandFence, RecoverCommandFence, TypeInv, TypeOK
    <2> QED BY <2>1, <2>2
  <1>3. /\ lock = None /\ pc[p] = "idle"
        /\ UNCHANGED <<formal, manuscript, lock, pc, job, own>>
        /\ \A q \in Procs \ {p} : cmd'[q] = cmd[q]
    BY DEF ClaimCommandFence, PrepareCommand, RecoverCommandFence, Transaction,
           TypeInv, TypeOK
  <1>4. TypeOK'
    BY <1>1, <1>2, <1>3 DEF TypeInv, TypeOK
  <1> QED BY <1>3, <1>4, NoneAssumption DEF TypeInv, JobInv, OwnInv, HoldInv

(* Steps in which the process moves on inside its command, or leaves it.   *)
LEMMA TypeCommandControl ==
  ASSUME TypeInv, NEW p \in Procs,
         \/ AnswerCommand(p) \/ UndoCommand(p) \/ RemoveJournal(p)
         \/ ReleaseCommandFence(p) \/ LeaveCommand(p) \/ RecoverCommand(p)
  PROVE  TypeInv'
PROOF
  <1>0. /\ st \in StateRecord /\ formal \in Formal
        /\ st.fence \in Fence \cup {None}
    BY StateFields DEF TypeInv, TypeOK
  <1>1. st' \in StateRecord /\ formal' \in Formal
    <2>1. CASE UndoCommand(p)
      <3>1. journal \in Journal
        BY <2>1 DEF UndoCommand, Prepared, TypeInv, TypeOK
      <3>2. journal.state \in StateRecord /\ journal.formal \in Formal
        BY <3>1 DEF Journal
      <3>3. Restored \in StateRecord
        BY <1>0, <3>2 DEF Restored, StateRecord
      <3> QED BY <2>1, <3>2, <3>3 DEF UndoCommand
    <2>2. CASE ReleaseCommandFence(p)
      BY <1>0, <2>2 DEF ReleaseCommandFence, StateRecord
    <2>3. CASE ~UndoCommand(p) /\ ~ReleaseCommandFence(p)
      BY <1>0, <2>3 DEF AnswerCommand, RemoveJournal, LeaveCommand, RecoverCommand
    <2> QED BY <2>1, <2>2, <2>3
  <1>2. journal' \in Journal \cup {None}
    <2>1. CASE AnswerCommand(p)
      <3>1. journal \in Journal
        BY <2>1 DEF AnswerCommand, Prepared, TypeInv, TypeOK
      <3>2. [journal EXCEPT !.answered = TRUE] \in Journal
        BY <3>1 DEF Journal
      <3> QED BY <2>1, <3>2 DEF AnswerCommand
    <2>2. CASE ~AnswerCommand(p)
      BY <2>2 DEF UndoCommand, RemoveJournal, ReleaseCommandFence,
         LeaveCommand, RecoverCommand, TypeInv, TypeOK
    <2> QED BY <2>1, <2>2
  <1>3. cmd' \in [Procs -> Fence \cup {None}]
    BY <1>0 DEF AnswerCommand, UndoCommand, RemoveJournal,
       ReleaseCommandFence, LeaveCommand, RecoverCommand, TypeInv, TypeOK
  <1>4. /\ pc[p] \in {"idle", "answered", "undo", "undone", "finished"}
        /\ pc' \in [Procs -> Control]
        /\ pc'[p] \in {"idle", "answered", "undo", "undone", "finished"}
        /\ \A q \in Procs \ {p} : pc'[q] = pc[q] /\ cmd'[q] = cmd[q]
        /\ UNCHANGED <<manuscript, lock, job, own>>
    BY DEF AnswerCommand, UndoCommand, RemoveJournal, ReleaseCommandFence,
       LeaveCommand, RecoverCommand, NextRecovery, Control, TypeInv, TypeOK
  <1>5. TypeOK'
    BY <1>1, <1>2, <1>3, <1>4 DEF TypeInv, TypeOK
  <1>6. JobInv' /\ OwnInv'
    BY <1>4 DEF TypeInv, JobInv, OwnInv, Publishing
  <1>7. UNCHANGED st \/ lock = None
    BY DEF AnswerCommand, UndoCommand, RemoveJournal, ReleaseCommandFence,
       LeaveCommand, RecoverCommand, Transaction
  <1>8. HoldInv'
    BY <1>4, <1>7, NoneAssumption DEF TypeInv, HoldInv
  <1> QED BY <1>5, <1>6, <1>8 DEF TypeInv

LEMMA TypeCommand ==
  ASSUME TypeInv, NEW p \in Procs,
         \/ \E key \in StartKeys : BeginStart(p, key)
         \/ \E op \in MutateOps : BeginMutate(p, op)
         \/ CommitOptimistic(p)
         \/ RejectCommand(p)
  PROVE  TypeInv'
PROOF
  <1>1. ASSUME NEW key \in StartKeys, BeginStart(p, key)
        PROVE  TypeInv'
    <2> DEFINE j == [op |-> "start", key |-> key, base |-> st]
    <2>1. j \in Job
      BY DEF Job, TypeInv, TypeOK
    <2>2. TypeOK'
      BY <1>1, <2>1 DEF BeginStart, TypeInv, TypeOK, Control
    <2>3. JobInv'
      BY <1>1, <2>1 DEF BeginStart, Transaction, AllowCommand, TypeInv, TypeOK,
                        JobInv
    <2>4. OwnInv' /\ HoldInv'
      BY <1>1 DEF BeginStart, TypeInv, TypeOK, OwnInv, HoldInv, Publishing
    <2> QED BY <2>2, <2>3, <2>4 DEF TypeInv
  <1>2. ASSUME NEW op \in MutateOps, BeginMutate(p, op)
        PROVE  TypeInv'
    <2> DEFINE j == [op |-> op, key |-> None, base |-> st]
    <2>1. j \in Job /\ op # "start"
      BY DEF Job, TypeInv, TypeOK, MutateOps
    <2>2. TypeOK'
      BY <1>2, <2>1 DEF BeginMutate, TypeInv, TypeOK, Control
    <2>3. JobInv'
      BY <1>2, <2>1 DEF BeginMutate, Transaction, AllowCommand, TypeInv, TypeOK,
                        JobInv
    <2>4. OwnInv' /\ HoldInv'
      BY <1>2 DEF BeginMutate, TypeInv, TypeOK, OwnInv, HoldInv, Publishing
    <2> QED BY <2>2, <2>3, <2>4 DEF TypeInv
  <1>3. CASE CommitOptimistic(p)
    <2>1. pc[p] = "policy" /\ lock = None
      BY <1>3 DEF CommitOptimistic, Transaction
    <2>2. /\ job[p] \in Job
          /\ LoadableState(job[p].base)
          /\ job[p].op = "start" => /\ job[p].key \in StartKeys
                                    /\ job[p].base.nextSession < MaxSession
          /\ job[p].op # "start" =>
               /\ job[p].base.active # NoSession
               /\ Applies(job[p].op, job[p].base.sess[job[p].base.active])
      BY <2>1 DEF TypeInv, JobInv
    <2>3. job[p].base \in StateRecord /\ job[p].op \in MutateOps \cup {"start"}
      BY <2>2 DEF Job
    <2>4. ModeOf(p) \in {"normal", "adaptation"}
      BY DEF ModeOf
    <2>5. st' \in StateRecord
      <3>1. CASE job[p].op = "start"
        BY <1>3, <2>2, <2>3, <2>4, <3>1, StartedCopyType DEF CommitOptimistic
      <3>2. CASE job[p].op # "start"
        BY <1>3, <2>2, <2>3, <3>2, WorkingCopyType DEF CommitOptimistic
      <3> QED BY <3>1, <3>2
    <2>6. TypeOK'
      BY <1>3, <2>5 DEF CommitOptimistic, TypeInv, TypeOK, Control
    <2> QED BY <1>3, <2>1, <2>6, NoneAssumption
            DEF CommitOptimistic, TypeInv, TypeOK, JobInv, OwnInv, HoldInv,
                Publishing
  <1>4. CASE RejectCommand(p)
    BY <1>4 DEF RejectCommand, TypeInv, TypeOK, JobInv, OwnInv, HoldInv, Control,
                Publishing
  <1> QED BY <1>1, <1>2, <1>3, <1>4

(* Steps of a publication that leave state.json alone.                     *)
LEMMA TypePublicationControl ==
  ASSUME TypeInv, NEW p \in Procs,
         \/ CaptureFormalSnapshot(p) \/ BeginPublicationFails(p)
         \/ WriteFormal(p) \/ WriteFormalFails(p)
         \/ CompletePublicationFails(p)
         \/ RollbackPublication(p) \/ RecoverPublication(p)
         \/ AbandonPublication(p) \/ Crash(p)
  PROVE  TypeInv'
PROOF
  <1> USE DEF TypeInv, TypeOK, Control, Publishing
  <1>1. CASE CaptureFormalSnapshot(p)
    <2>1. own[p] \in OwnRecord
      BY <1>1 DEF CaptureFormalSnapshot, OwnInv
    <2>2. [own[p] EXCEPT !.snap = formal] \in OwnRecord
      BY <2>1 DEF OwnRecord
    <2> QED BY <1>1, <2>1, <2>2 DEF CaptureFormalSnapshot, JobInv, OwnInv, HoldInv,
                                    OwnRecord
  <1>2. CASE BeginPublicationFails(p) \/ CompletePublicationFails(p)
    BY <1>2 DEF BeginPublicationFails, CompletePublicationFails, JobInv, OwnInv,
                HoldInv
  <1>3. CASE WriteFormal(p)
    <2>1. formal' \in Formal
      <3>1. own[p] \in OwnRecord
        BY <1>3 DEF WriteFormal, OwnInv
      <3>2. own[p].owner.cand \in Text
        BY <3>1 DEF OwnRecord, Owner, Text
      <3> QED BY <1>3, <3>2 DEF WriteFormal, Formal
    <2> QED BY <1>3, <2>1 DEF WriteFormal, JobInv, OwnInv, HoldInv
  <1>4. CASE WriteFormalFails(p)
    BY <1>4, NoneAssumption DEF WriteFormalFails, JobInv, OwnInv, HoldInv
  <1>5. CASE RollbackPublication(p) \/ RecoverPublication(p)
    <2>1. /\ st.pub # None /\ LoadableState(st) /\ lock = None
          /\ formal' = st.pub.snap
          /\ lock' = p
          /\ pc' = [pc EXCEPT ![p] = "restored"]
          /\ UNCHANGED <<st, manuscript, job, own, cmd, journal>>
      BY <1>5 DEF RollbackPublication, RecoverPublication, Transaction
    <2>2. formal' \in Formal
      BY <2>1, StateFields DEF Attempt
    <2> QED BY <2>1, <2>2, NoneAssumption DEF JobInv, OwnInv, HoldInv
  <1>6. CASE AbandonPublication(p)
    BY <1>6, NoneAssumption DEF AbandonPublication, JobInv, OwnInv, HoldInv
  <1>7. CASE Crash(p)
    BY <1>7, NoneAssumption DEF Crash, JobInv, OwnInv, HoldInv
  <1> QED BY <1>1, <1>2, <1>3, <1>4, <1>5, <1>6, <1>7

LEMMA OwnerOfType ==
  ASSUME NEW s \in StateRecord, LoadableState(s), s.active # NoSession,
         NEW p \in Procs
  PROVE  OwnerOf(s, p, s.gen) \in Owner
PROOF
  <1>1. s.active \in Nat
    BY StateFields, BoundsAssumption DEF Sessions, NoSession
  <1> QED BY <1>1, ActiveSession, SessionFields, StateFields DEF OwnerOf, Owner

LEMMA AttemptOwnerType ==
  ASSUME NEW a \in Attempt PROVE AttemptOwner(a) \in Owner
  BY DEF Attempt, AttemptOwner, Owner

LEMMA TypeValidatePublish ==
  ASSUME TypeInv, NEW p \in Procs, ValidatePublish(p)
  PROVE  TypeInv'
PROOF
  <1> USE DEF TypeInv, TypeOK, Control, Publishing
  <1>1. /\ LoadableState(st)
        /\ st.active # NoSession
        /\ lock = None
    BY DEF ValidatePublish, Transaction, Publishable
  <1> DEFINE o == IF st.pub = None THEN OwnerOf(st, p, st.gen)
                  ELSE AttemptOwner(st.pub)
  <1>2. o \in Owner
    BY <1>1, OwnerOfType, AttemptOwnerType, StateFields
  <1>3. [owner |-> o, snap |-> None] \in OwnRecord
    BY <1>2 DEF OwnRecord
  <1> QED BY <1>1, <1>3, NoneAssumption DEF ValidatePublish, JobInv, OwnInv, HoldInv

LEMMA TypeBeginPublication ==
  ASSUME TypeInv, NEW p \in Procs, BeginPublication(p)
  PROVE  TypeInv'
PROOF
  <1> DEFINE o == own[p].owner
             snap == own[p].snap
             g == st.gen + 1
             attempt == [token |-> o.token, sid |-> o.sid,
                         revision |-> o.revision, gen |-> g, cand |-> o.cand,
                         status |-> "prepared", snap |-> snap]
  <1>1. /\ pc[p] = "captured" /\ lock = None
        /\ st.active # NoSession /\ LoadableState(st)
        /\ st' = PreparedState(o, snap)
        /\ own' = [own EXCEPT ![p].owner.gen = g]
        /\ LoadableState(st')
        /\ lock' = p
        /\ pc' = [pc EXCEPT ![p] = "prepared"]
        /\ UNCHANGED <<formal, manuscript, job, cmd, journal>>
    BY DEF BeginPublication, Transaction, Publishable
  <1>2. own[p] \in OwnRecord /\ snap \in Formal /\ o \in Owner
    BY <1>1 DEF TypeInv, OwnInv, Publishing, OwnRecord
  <1>3. g \in Nat
    BY StateFields DEF TypeInv, TypeOK
  <1>4. attempt \in Attempt
    BY <1>2, <1>3 DEF Owner, Attempt
  <1>5. [st.sess[st.active] EXCEPT !.gen = g] \in Session
    BY <1>1, <1>3, ActiveSession DEF TypeInv, TypeOK, Session
  <1> DEFINE ss == [st.sess EXCEPT ![st.active] =
                     [st.sess[st.active] EXCEPT !.gen = g]]
  <1>6. ss \in [Sessions -> Session \cup {None}]
    BY <1>1, <1>5, ActiveSession, StateFields DEF TypeInv, TypeOK
  <1>7. st' = [st EXCEPT !.gen = g, !.sess = ss, !.pub = attempt]
    BY <1>1 DEF PreparedState, TypeInv, TypeOK, StateRecord
  <1>8. st' \in StateRecord /\ st'.pub # None
    <2> HIDE DEF g, ss, attempt
    <2> QED BY <1>3, <1>4, <1>6, <1>7, NoneAssumption
            DEF TypeInv, TypeOK, StateRecord
  <1>9. [own[p] EXCEPT !.owner.gen = g] \in OwnRecord
    BY <1>2, <1>3 DEF OwnRecord, Owner
  <1>10. own' \in [Procs -> OwnRecord \cup {None}]
    BY <1>1, <1>9 DEF TypeInv, TypeOK
  <1>11. TypeOK'
    BY <1>1, <1>8, <1>10 DEF TypeInv, TypeOK, Control
  <1>12. OwnInv'
    <2> HIDE DEF g
    <2> QED BY <1>1, <1>9, <1>10 DEF TypeInv, TypeOK, OwnInv, Publishing
  <1>13. JobInv'
    BY <1>1 DEF TypeInv, TypeOK, JobInv
  <1>14. HoldInv'
    BY <1>1, <1>8, NoneAssumption DEF TypeInv, TypeOK, HoldInv
  <1> QED BY <1>11, <1>12, <1>13, <1>14 DEF TypeInv

LEMMA TypeMarkFormalApplied ==
  ASSUME TypeInv, NEW p \in Procs, MarkFormalApplied(p)
  PROVE  TypeInv'
PROOF
  <1>1. /\ pc[p] = "written" /\ lock = p /\ lock' = None
        /\ st.pub \in Attempt
        /\ st' = [st EXCEPT !.pub.status = "formal_applied"]
        /\ pc' = [pc EXCEPT ![p] = "applied"]
        /\ UNCHANGED <<formal, manuscript, job, own, cmd, journal>>
    BY StateFields DEF MarkFormalApplied, TypeInv, TypeOK, HoldInv
  <1>2. [st.pub EXCEPT !.status = "formal_applied"] \in Attempt
    BY <1>1 DEF Attempt
  <1>3. st' \in StateRecord
    BY <1>1, <1>2 DEF TypeInv, TypeOK, StateRecord
  <1>4. TypeOK'
    BY <1>1, <1>3 DEF TypeInv, TypeOK, Control
  <1> QED BY <1>1, <1>4, NoneAssumption
          DEF TypeInv, TypeOK, JobInv, OwnInv, HoldInv, Publishing

LEMMA TypeCompletePublication ==
  ASSUME TypeInv, NEW p \in Procs, CompletePublication(p)
  PROVE  TypeInv'
PROOF
  <1> DEFINE t == AfterComplete(st.sess[st.active])
             m == Mutated(st, t)
  <1>1. /\ lock = None /\ st.active # NoSession /\ LoadableState(st)
        /\ st' = [m EXCEPT !.current = st.sess[st.active].cand, !.pub = None]
        /\ own' = [own EXCEPT ![p] = None]
        /\ pc' = [pc EXCEPT ![p] = "idle"]
        /\ UNCHANGED <<formal, manuscript, lock, job, cmd, journal>>
    BY DEF CompletePublication, Transaction, Publishable
  <1>2. st.active \in Sessions /\ st.sess[st.active] \in Session
    BY <1>1, ActiveSession DEF TypeInv, TypeOK
  <1>3. t \in Session
    BY <1>2 DEF AfterComplete, Session, RevisionStage, Terminal
  <1>4. m \in StateRecord
    BY <1>2, <1>3, MutatedType DEF TypeInv, TypeOK
  <1>5. st' \in StateRecord
    <2>1. st.sess[st.active].cand \in Nat
      BY <1>2, SessionFields
    <2> HIDE DEF m
    <2> QED BY <1>1, <1>4, <2>1 DEF StateRecord
  <1>6. TypeOK'
    BY <1>1, <1>5 DEF TypeInv, TypeOK, Control
  <1> QED BY <1>1, <1>6, NoneAssumption
          DEF TypeInv, TypeOK, JobInv, OwnInv, HoldInv, Publishing

LEMMA TypeClearAttempt ==
  ASSUME TypeInv, NEW p \in Procs, ClearAttempt(p)
  PROVE  TypeInv'
PROOF
  <1> DEFINE g == st.gen + 1
             i == st.pub.sid
             u == [st.sess[i] EXCEPT
                     !.gen = IF Active(st.sess[i]) THEN g ELSE @]
             ss == [st.sess EXCEPT ![i] = u]
  <1>1. /\ pc[p] = "restored" /\ lock = p /\ lock' = None
        /\ st.pub # None /\ LoadableState(st)
        /\ own' = [own EXCEPT ![p] = None]
        /\ pc' = [pc EXCEPT ![p] = "idle"]
        /\ UNCHANGED <<formal, manuscript, job, cmd, journal>>
    BY DEF ClearAttempt, TypeInv, HoldInv
  <1>2. i \in Sessions /\ st.sess[i] \in Session
    BY <1>1, AttemptSession, ActiveSession DEF TypeInv, TypeOK
  <1>3. g \in Nat
    BY StateFields DEF TypeInv, TypeOK
  <1>4. u \in Session
    BY <1>2, <1>3 DEF Session
  <1>5. ss \in [Sessions -> Session \cup {None}]
    BY <1>2, <1>4, StateFields DEF TypeInv, TypeOK
  <1>6. st' = [st EXCEPT !.pub = None, !.gen = g, !.sess = ss]
    BY DEF ClearAttempt, TypeInv, TypeOK, StateRecord
  <1>7. st' \in StateRecord
    <2> HIDE DEF g, ss
    <2> QED BY <1>3, <1>5, <1>6 DEF TypeInv, TypeOK, StateRecord
  <1>8. TypeOK'
    BY <1>1, <1>7 DEF TypeInv, TypeOK, Control
  <1> QED BY <1>1, <1>8, NoneAssumption
          DEF TypeInv, TypeOK, JobInv, OwnInv, HoldInv, Publishing

LEMMA TypeNext == TypeInv /\ [Next]_vars => TypeInv'
PROOF
  <1> SUFFICES ASSUME TypeInv, [Next]_vars PROVE TypeInv'
    OBVIOUS
  <1>1. CASE UNCHANGED vars
    BY <1>1 DEF vars, TypeInv, TypeOK, JobInv, OwnInv, HoldInv
  <1>2. ASSUME NEW p \in Procs, Publication(p)
        PROVE  TypeInv'
    BY <1>2, TypePublicationControl, TypeValidatePublish, TypeBeginPublication,
       TypeMarkFormalApplied, TypeCompletePublication, TypeClearAttempt
       DEF Publication
  <1>3. ASSUME NEW p \in Procs, Command(p)
        PROVE  TypeInv'
    BY <1>3, TypeFence, TypeCommandControl DEF Command
  <1> QED BY <1>1, <1>2, <1>3, TypeFlow, TypeCommand, TypePublicationControl
          DEF Next

(* Every reachable state has its types: whatever processes race, fail and  *)
(* die, a session never holds more approvals than its policy asks for and  *)
(* an interrupted session always knows a working stage to resume.          *)
THEOREM TypeCorrect == Spec => []TypeOK
PROOF
  <1>1. TypeInv => TypeOK
    BY DEF TypeInv
  <1> QED BY TypeInit, TypeNext, <1>1, PTL DEF Spec
-----------------------------------------------------------------------------
(* The generation fence.  A command compares one number; what it needs is  *)
(* that nothing it cloned has changed.  SameGenerationSameState says the   *)
(* number stands for the whole state but the command fence, which          *)
(* AllowCommand compares itself.  It is not inductive: when an adaptation  *)
(* command is undone the generation goes back.  What is, is that the       *)
(* working copy of somebody else is not newer than the state the journal   *)
(* holds (CopiesInv), which is never newer than the current one.           *)

Unfenced(s) == [s EXCEPT !.fence = None]

Succeeds(a, b) ==
  /\ a.gen <= b.gen
  /\ a.gen = b.gen => Unfenced(b) = Unfenced(a)

SameGenerationSameState == \A p \in Procs : pc[p] = "policy" =>
  Succeeds(job[p].base, st)

(* The state the book cannot go behind any more.                           *)
Floor == IF Prepared THEN journal.state ELSE st

CopiesInv == \A p \in Procs : pc[p] = "policy" =>
  Succeeds(job[p].base, IF InCommand(p) THEN st ELSE Floor)

(* One process at a time is in a command; its place in it says what there  *)
(* is of a journal.                                                        *)
CommandInv ==
  /\ \A p, q \in Procs : InCommand(p) /\ InCommand(q) => p = q
  /\ \A p \in Procs :
       /\ pc[p] = "dead" => ~InCommand(p)
       /\ pc[p] \in {"answered", "undo", "undone", "finished"} => InCommand(p)
       /\ pc[p] = "answered" => Prepared /\ journal.answered
       /\ pc[p] = "undone" => Prepared /\ st = journal.state
       /\ InCommand(p) /\ Prepared /\ journal.answered => pc[p] = "answered"

(* While there is a journal the fence is there, nobody publishes and the   *)
(* formal files are what the journal says.                                 *)
SavedInv == Prepared =>
  /\ LoadableState(journal.state)
  /\ st.fence # None
  /\ journal.state.fence = st.fence
  /\ st.pub = None
  /\ journal.state.pub = None
  /\ journal.state.lease = None
  /\ journal.state.current = st.current
  /\ journal.formal = formal
  /\ Succeeds(journal.state, st)

LEMMA JournalFields ==
  ASSUME TypeInv, Prepared
  PROVE  /\ journal \in Journal
         /\ journal.state \in StateRecord
         /\ journal.formal \in Formal
         /\ journal.answered \in BOOLEAN
PROOF
  <1>1. journal \in Journal
    BY DEF TypeInv, TypeOK, Prepared
  <1> QED BY <1>1 DEF Journal

(* An undone command leaves exactly what the journal holds.                *)
LEMMA RestoredIsSaved ==
  ASSUME TypeInv, SavedInv, Prepared
  PROVE  Restored = journal.state
PROOF
  <1>1. journal.state \in StateRecord /\ journal.state.fence = st.fence
    BY JournalFields DEF SavedInv
  <1>2. \A s \in StateRecord : [s EXCEPT !.fence = s.fence] = s
    BY DEF StateRecord
  <1> QED BY <1>1, <1>2 DEF Restored

LEMMA UnfencedFields ==
  ASSUME NEW s \in StateRecord, NEW t \in StateRecord,
         Unfenced(s) = Unfenced(t)
  PROVE  /\ s.gen = t.gen /\ s.lease = t.lease /\ s.pub = t.pub
         /\ s.active = t.active /\ s.nextSession = t.nextSession
         /\ s.sess = t.sess /\ s.startKey = t.startKey
         /\ s.receipts = t.receipts
         /\ s.nextVersion = t.nextVersion /\ s.current = t.current
PROOF
  <1>1. \A u \in StateRecord :
          /\ Unfenced(u).gen = u.gen /\ Unfenced(u).lease = u.lease
          /\ Unfenced(u).pub = u.pub /\ Unfenced(u).active = u.active
          /\ Unfenced(u).nextSession = u.nextSession
          /\ Unfenced(u).sess = u.sess /\ Unfenced(u).startKey = u.startKey
          /\ Unfenced(u).receipts = u.receipts
          /\ Unfenced(u).nextVersion = u.nextVersion
          /\ Unfenced(u).current = u.current
    BY DEF Unfenced, StateRecord
  <1> QED BY <1>1

LEMMA MutatedFields ==
  ASSUME NEW s \in StateRecord, NEW t
  PROVE  LET m == Mutated(s, t) IN
         /\ m.gen = s.gen + 1
         /\ m.lease = s.lease /\ m.fence = s.fence /\ m.pub = s.pub
         /\ m.active = IF Active(t) THEN s.active ELSE NoSession
         /\ m.nextSession = s.nextSession
         /\ m.startKey = s.startKey
         /\ m.receipts = s.receipts \cup {<<s.active, t.revision>>}
         /\ m.nextVersion = s.nextVersion /\ m.current = s.current
         /\ m.sess = [s.sess EXCEPT ![s.active] =
                        [t EXCEPT !.revision = @ + 1, !.gen = s.gen + 1]]
  BY DEF Mutated, StateRecord

(* The last version handed out once a command is made.                     *)
NextVersions(op, n) == IF op = "submit_candidate" THEN n + 1 ELSE n

LEMMA WorkingCopyFields ==
  ASSUME NEW s \in StateRecord, LoadableState(s), s.active # NoSession,
         NEW op \in MutateOps, Applies(op, s.sess[s.active])
  PROVE  LET t == AfterCommand(op, s.sess[s.active], s.nextVersion + 1)
             w == WorkingCopy(op, s)
         IN  /\ w.gen = s.gen + 1
             /\ w.lease = s.lease /\ w.fence = s.fence /\ w.pub = s.pub
             /\ w.active = IF Active(t) THEN s.active ELSE NoSession
             /\ w.nextSession = s.nextSession
             /\ w.startKey = s.startKey
             /\ w.receipts = s.receipts \cup {<<s.active, t.revision>>}
             /\ w.nextVersion = NextVersions(op, s.nextVersion)
             /\ w.current = s.current
             /\ w.sess = [s.sess EXCEPT ![s.active] =
                            [t EXCEPT !.revision = @ + 1, !.gen = s.gen + 1]]
PROOF
  <1> DEFINE v == s.nextVersion + 1
             t == AfterCommand(op, s.sess[s.active], v)
             m == Mutated(s, t)
             n == [m EXCEPT !.nextVersion = v]
  <1>1. WorkingCopy(op, s) = IF op = "submit_candidate" THEN n ELSE m
    BY DEF WorkingCopy
  <1>2. t \in Session /\ m \in StateRecord
    BY ActiveSession, StateFields, AfterCommandType, MutatedType
  <1>3. /\ n.gen = m.gen /\ n.lease = m.lease /\ n.fence = m.fence
        /\ n.pub = m.pub /\ n.active = m.active
        /\ n.nextSession = m.nextSession /\ n.startKey = m.startKey
        /\ n.receipts = m.receipts /\ n.sess = m.sess
        /\ n.nextVersion = v /\ n.current = m.current
    <2> HIDE DEF m
    <2> QED BY <1>2 DEF StateRecord
  <1>4. /\ m.gen = s.gen + 1
        /\ m.lease = s.lease /\ m.fence = s.fence /\ m.pub = s.pub
        /\ m.active = IF Active(t) THEN s.active ELSE NoSession
        /\ m.nextSession = s.nextSession
        /\ m.startKey = s.startKey
        /\ m.receipts = s.receipts \cup {<<s.active, t.revision>>}
        /\ m.nextVersion = s.nextVersion /\ m.current = s.current
        /\ m.sess = [s.sess EXCEPT ![s.active] =
                       [t EXCEPT !.revision = @ + 1, !.gen = s.gen + 1]]
    BY MutatedFields
  <1>5. \/ WorkingCopy(op, s) = n /\ NextVersions(op, s.nextVersion) = v
        \/ WorkingCopy(op, s) = m
             /\ NextVersions(op, s.nextVersion) = s.nextVersion
    BY <1>1 DEF NextVersions
  <1> HIDE DEF n, m
  <1>6. CASE WorkingCopy(op, s) = n /\ NextVersions(op, s.nextVersion) = v
    BY <1>3, <1>4, <1>6
  <1>7. CASE WorkingCopy(op, s) = m
             /\ NextVersions(op, s.nextVersion) = s.nextVersion
    BY <1>4, <1>7
  <1> QED BY <1>5, <1>6, <1>7

LEMMA StartedCopyFields ==
  ASSUME NEW s \in StateRecord, NEW key \in StartKeys,
         NEW mode \in {"normal", "adaptation"}
  PROVE  LET w == StartedCopy(key, mode, s)
             i == s.nextSession + 1
         IN  /\ w.gen = s.gen + 1
             /\ w.lease = s.lease /\ w.fence = s.fence /\ w.pub = s.pub
             /\ w.active = i
             /\ w.nextSession = i
             /\ w.startKey = [s.startKey EXCEPT ![i] = key]
             /\ w.receipts = s.receipts
             /\ w.nextVersion = s.nextVersion /\ w.current = s.current
             /\ w.sess = [s.sess EXCEPT ![i] = NewSession(s.gen + 1, NoVersion)]
  BY DEF StartedCopy, StateRecord

(* What a commit knows of the copy it is about to write.                   *)
LEMMA CommitFacts ==
  ASSUME TypeInv, SameGenerationSameState,
         NEW p \in Procs, CommitOptimistic(p)
  PROVE  /\ job[p].base \in StateRecord
         /\ LoadableState(job[p].base)
         /\ Unfenced(st) = Unfenced(job[p].base)
         /\ st'.gen = st.gen + 1
         /\ st'.lease = None
         /\ st'.pub = None
         /\ job[p].op = "start" =>
              /\ st' = StartedCopy(job[p].key, ModeOf(p), job[p].base)
              /\ job[p].key \in StartKeys
              /\ ~manuscript
         /\ job[p].op # "start" =>
              /\ st' = WorkingCopy(job[p].op, job[p].base)
              /\ job[p].op \in MutateOps
              /\ job[p].base.active # NoSession
              /\ Applies(job[p].op, job[p].base.sess[job[p].base.active])
PROOF
  <1> DEFINE b == job[p].base
  <1>1. pc[p] = "policy" /\ st.gen = b.gen /\ StartAdmitted(job[p])
    BY DEF CommitOptimistic, SameGeneration
  <1>2. /\ job[p] \in Job /\ LoadableState(b) /\ b.pub = None
        /\ job[p].op = "start" => /\ job[p].key \in StartKeys
                                  /\ b.lease = None
        /\ job[p].op # "start" =>
             /\ b.active # NoSession
             /\ Applies(job[p].op, b.sess[b.active])
    BY <1>1 DEF TypeInv, JobInv
  <1>3. b \in StateRecord /\ job[p].op \in MutateOps \cup {"start"}
    BY <1>2 DEF Job
  <1>4. Unfenced(st) = Unfenced(b)
    BY <1>1 DEF SameGenerationSameState, Succeeds
  <1>5. /\ job[p].op = "start" => st' = StartedCopy(job[p].key, ModeOf(p), b)
        /\ job[p].op # "start" => st' = WorkingCopy(job[p].op, b)
    BY DEF CommitOptimistic
  <1>6. b.lease = None
    BY <1>2 DEF LoadableState
  <1>7. st'.gen = b.gen + 1 /\ st'.lease = b.lease /\ st'.pub = b.pub
    <2>1. CASE job[p].op = "start"
      <3> DEFINE w == StartedCopy(job[p].key, ModeOf(p), b)
      <3>1. w.gen = b.gen + 1 /\ w.lease = b.lease /\ w.pub = b.pub
        BY <1>3 DEF StartedCopy, StateRecord
      <3>2. st' = w
        BY <2>1, <1>5
      <3> HIDE DEF w
      <3> QED BY <3>1, <3>2
    <2>2. CASE job[p].op # "start"
      <3>1. job[p].op \in MutateOps
        BY <2>2, <1>3
      <3> DEFINE w == WorkingCopy(job[p].op, b)
      <3>2. w.gen = b.gen + 1 /\ w.lease = b.lease /\ w.pub = b.pub
        BY <2>2, <3>1, <1>2, <1>3, WorkingCopyFields
      <3>3. st' = w
        BY <2>2, <1>5
      <3> HIDE DEF w
      <3> QED BY <3>2, <3>3
    <2> QED BY <2>1, <2>2
  <1> QED BY <1>1, <1>2, <1>3, <1>4, <1>5, <1>6, <1>7 DEF StartAdmitted

(* A step leaves state.json alone, changes no more than the fence, marks   *)
(* an open attempt, moves the generation, or undoes a command.             *)
LEMMA StepKinds ==
  ASSUME TypeInv, SameGenerationSameState, Next
  PROVE  \/ UNCHANGED st
         \/ Unfenced(st') = Unfenced(st) /\ st'.gen = st.gen
         \/ st.pub # None /\ st'.pub # None /\ st'.gen = st.gen
            /\ \E p \in Procs : MarkFormalApplied(p)
         \/ st'.gen = st.gen + 1
         \/ \E p \in Procs : UndoCommand(p)
PROOF
  <1> USE DEF TypeInv, TypeOK
  <1>1. ASSUME NEW p \in Procs,
               \/ RecoverStaleLease(p) \/ AcquireNormalFlow(p)
               \/ ReleaseNormalFlow(p) \/ ClearAttempt(p)
        PROVE  st'.gen = st.gen + 1
    BY <1>1 DEF RecoverStaleLease, AcquireNormalFlow, ReleaseNormalFlow,
                ClearAttempt, StateRecord
  <1>2. ASSUME NEW p \in Procs, BeginPublication(p)
        PROVE  st'.gen = st.gen + 1
    BY <1>2 DEF BeginPublication, PreparedState, StateRecord
  <1>3. ASSUME NEW p \in Procs, CompletePublication(p)
        PROVE  st'.gen = st.gen + 1
    <2> DEFINE m == Mutated(st, AfterComplete(st.sess[st.active]))
    <2>1. st' = [m EXCEPT !.current = st.sess[st.active].cand, !.pub = None]
      BY <1>3 DEF CompletePublication
    <2>2. m.gen = st.gen + 1
      BY MutatedFields
    <2> HIDE DEF m
    <2>3. [m EXCEPT !.current = st.sess[st.active].cand, !.pub = None].gen = m.gen
      OBVIOUS
    <2> QED BY <2>1, <2>2, <2>3
  <1>4. ASSUME NEW p \in Procs, CommitOptimistic(p)
        PROVE  st'.gen = st.gen + 1
    BY <1>4, CommitFacts
  <1>5. ASSUME NEW p \in Procs, MarkFormalApplied(p)
        PROVE  st.pub # None /\ st'.pub # None /\ st'.gen = st.gen
    <2>1. st.pub # None /\ st.pub \in Attempt
      BY <1>5, StateFields DEF MarkFormalApplied, HoldInv
    <2>2. [st.pub EXCEPT !.status = "formal_applied"] \in Attempt
      BY <2>1 DEF Attempt
    <2>3. /\ st'.pub = [st.pub EXCEPT !.status = "formal_applied"]
          /\ st'.gen = st.gen
      BY <1>5 DEF MarkFormalApplied, StateRecord
    <2> QED BY <2>1, <2>2, <2>3, NoneAssumption
  <1>6. ASSUME NEW p \in Procs,
               \/ \E key \in CommandKeys : ClaimCommandFence(p, key)
               \/ ReleaseCommandFence(p) \/ RecoverCommandFence(p)
        PROVE  Unfenced(st') = Unfenced(st) /\ st'.gen = st.gen
    BY <1>6 DEF ClaimCommandFence, ReleaseCommandFence, RecoverCommandFence,
                Unfenced, StateRecord
  <1>7. ASSUME NEW p \in Procs,
               \/ LegacyWrite(p) \/ StartManuscript(p) \/ FinishManuscript(p)
               \/ PrepareCommand(p) \/ AnswerCommand(p) \/ RemoveJournal(p)
               \/ LeaveCommand(p) \/ RecoverCommand(p)
               \/ \E key \in StartKeys : BeginStart(p, key)
               \/ \E op \in MutateOps : BeginMutate(p, op)
               \/ RejectCommand(p) \/ Crash(p) \/ ValidatePublish(p)
               \/ CaptureFormalSnapshot(p) \/ BeginPublicationFails(p)
               \/ WriteFormal(p) \/ WriteFormalFails(p)
               \/ CompletePublicationFails(p) \/ RollbackPublication(p)
               \/ RecoverPublication(p) \/ AbandonPublication(p)
        PROVE  UNCHANGED st
    BY <1>7 DEF LegacyWrite, StartManuscript, FinishManuscript, PrepareCommand,
         AnswerCommand, RemoveJournal, LeaveCommand, RecoverCommand,
         BeginStart, BeginMutate, RejectCommand, Crash, ValidatePublish,
         CaptureFormalSnapshot, BeginPublicationFails, WriteFormal,
         WriteFormalFails, CompletePublicationFails, RollbackPublication,
         RecoverPublication, AbandonPublication
  <1> QED BY <1>1, <1>2, <1>3, <1>4, <1>5, <1>6, <1>7
          DEF Next, Publication, Command

(* A working copy is fresh, or it is the one the process had.              *)
LEMMA JobKinds ==
  ASSUME TypeInv, Next, NEW q \in Procs, pc'[q] = "policy"
  PROVE  /\ cmd'[q] = cmd[q]
         /\ \/ pc[q] = "policy" /\ job'[q] = job[q]
            \/ /\ UNCHANGED <<st, journal>>
               /\ job'[q].base = st
               /\ AllowCommand(st, cmd[q])
PROOF
  <1> USE DEF TypeInv, TypeOK
  <1>1. ASSUME NEW p \in Procs,
               \/ RecoverStaleLease(p) \/ AcquireNormalFlow(p)
               \/ ReleaseNormalFlow(p) \/ LegacyWrite(p)
               \/ StartManuscript(p) \/ FinishManuscript(p)
        PROVE  /\ cmd'[q] = cmd[q]
               /\ pc[q] = "policy" /\ job'[q] = job[q]
    BY <1>1 DEF RecoverStaleLease, AcquireNormalFlow, ReleaseNormalFlow,
         LegacyWrite, StartManuscript, FinishManuscript
  <1>2. ASSUME NEW p \in Procs, Publication(p)
        PROVE  /\ cmd'[q] = cmd[q]
               /\ pc[q] = "policy" /\ job'[q] = job[q]
    BY <1>2 DEF Publication, ValidatePublish, CaptureFormalSnapshot,
         BeginPublication, BeginPublicationFails, WriteFormal,
         MarkFormalApplied, WriteFormalFails, CompletePublication,
         CompletePublicationFails, RollbackPublication, RecoverPublication,
         ClearAttempt, AbandonPublication
  <1>3. ASSUME NEW p \in Procs,
               CommitOptimistic(p) \/ RejectCommand(p) \/ Crash(p)
        PROVE  /\ cmd'[q] = cmd[q]
               /\ pc[q] = "policy" /\ job'[q] = job[q]
    BY <1>3 DEF CommitOptimistic, RejectCommand, Crash
  <1>4. ASSUME NEW p \in Procs, Command(p)
        PROVE  /\ cmd'[q] = cmd[q]
               /\ pc[q] = "policy" /\ job'[q] = job[q]
    <2>1. pc[p] # "policy" /\ pc'[p] # "policy" /\ UNCHANGED job
      BY <1>4 DEF Command, ClaimCommandFence, PrepareCommand, AnswerCommand,
           UndoCommand, RemoveJournal, ReleaseCommandFence, LeaveCommand,
           RecoverCommandFence, RecoverCommand, NextRecovery
    <2>2. ASSUME p # q PROVE pc'[q] = pc[q] /\ cmd'[q] = cmd[q]
      BY <1>4, <2>2 DEF Command, ClaimCommandFence, PrepareCommand,
           AnswerCommand, UndoCommand, RemoveJournal, ReleaseCommandFence,
           LeaveCommand, RecoverCommandFence, RecoverCommand
    <2> QED BY <2>1, <2>2
  <1>5. ASSUME NEW p \in Procs,
               \/ \E key \in StartKeys : BeginStart(p, key)
               \/ \E op \in MutateOps : BeginMutate(p, op)
        PROVE  /\ cmd'[q] = cmd[q]
               /\ \/ pc[q] = "policy" /\ job'[q] = job[q]
                  \/ /\ UNCHANGED <<st, journal>>
                     /\ job'[q].base = st
                     /\ AllowCommand(st, cmd[q])
    BY <1>5 DEF BeginStart, BeginMutate
  <1> QED BY <1>1, <1>2, <1>3, <1>4, <1>5 DEF Next

(* What becomes of the journal.                                            *)
LEMMA JournalKinds ==
  ASSUME Next
  PROVE  \/ UNCHANGED journal
         \/ \E p \in Procs : PrepareCommand(p)
         \/ \E p \in Procs : AnswerCommand(p)
         \/ \E p \in Procs : RemoveJournal(p)
  BY DEF Next, Publication, Command, RecoverStaleLease, AcquireNormalFlow,
     ReleaseNormalFlow, LegacyWrite, StartManuscript, FinishManuscript,
     ClaimCommandFence, UndoCommand, ReleaseCommandFence, LeaveCommand,
     RecoverCommandFence, RecoverCommand, BeginStart, BeginMutate,
     CommitOptimistic, RejectCommand, Crash, ValidatePublish,
     CaptureFormalSnapshot, BeginPublication, BeginPublicationFails,
     WriteFormal, MarkFormalApplied, WriteFormalFails, CompletePublication,
     CompletePublicationFails, RollbackPublication, RecoverPublication,
     ClearAttempt, AbandonPublication

(* While there is a journal, state.json changes by the command alone: it   *)
(* commits or it is undone.                                                *)
LEMMA PreparedKinds ==
  ASSUME TypeInv, SavedInv, ExclusiveOwnership, Prepared, Next
  PROVE  /\ formal' = formal
         /\ \/ UNCHANGED st
            \/ \E p \in Procs : InCommand(p) /\ CommitOptimistic(p)
            \/ \E p \in Procs : InCommand(p) /\ UndoCommand(p)
PROOF
  <1>1. /\ st.fence # None /\ st.pub = None /\ st.lease = None
        /\ journal.formal = formal
    BY DEF SavedInv, ExclusiveOwnership
  <1>2. ASSUME NEW p \in Procs, ~Command(p), ~CommitOptimistic(p),
               \/ RecoverStaleLease(p) \/ AcquireNormalFlow(p)
               \/ ReleaseNormalFlow(p) \/ LegacyWrite(p)
               \/ StartManuscript(p) \/ FinishManuscript(p)
               \/ \E key \in StartKeys : BeginStart(p, key)
               \/ \E op \in MutateOps : BeginMutate(p, op)
               \/ RejectCommand(p) \/ Crash(p)
        PROVE  UNCHANGED <<st, formal>>
    BY <1>1, <1>2 DEF RecoverStaleLease, StaleLease, AcquireNormalFlow,
       ReleaseNormalFlow, LegacyWrite, StartManuscript, FinishManuscript,
       BeginStart, BeginMutate, RejectCommand, Crash
  <1>3. ASSUME NEW p \in Procs, Publication(p)
        PROVE  UNCHANGED <<st, formal>>
    <2>1. pc[p] \notin {"prepared", "written", "restored"}
      BY <1>1 DEF TypeInv, HoldInv
    <2> QED BY <1>1, <1>3, <2>1 DEF Publication, ValidatePublish,
       CaptureFormalSnapshot, BeginPublication, BeginPublicationFails,
       WriteFormal, MarkFormalApplied, WriteFormalFails, CompletePublication,
       CompletePublicationFails, RollbackPublication, RecoverPublication,
       ClearAttempt, AbandonPublication
  <1>4. ASSUME NEW p \in Procs, Command(p)
        PROVE  \/ UNCHANGED <<st, formal>>
               \/ InCommand(p) /\ UndoCommand(p) /\ formal' = formal
    BY <1>1, <1>4 DEF Command, ClaimCommandFence, PrepareCommand,
       AnswerCommand, UndoCommand, RemoveJournal, ReleaseCommandFence,
       LeaveCommand, RecoverCommandFence, RecoverCommand
  <1>5. ASSUME NEW p \in Procs, CommitOptimistic(p)
        PROVE  InCommand(p) /\ formal' = formal
    BY <1>1, <1>5 DEF CommitOptimistic, AllowCommand, InCommand
  <1> QED BY <1>2, <1>3, <1>4, <1>5 DEF Next

(* A commit is a successor of the state it was cloned from.                *)
LEMMA CommitSucceeds ==
  ASSUME TypeInv, SameGenerationSameState, Prepared, SavedInv,
         NEW p \in Procs, CommitOptimistic(p)
  PROVE  /\ st'.fence = st.fence
         /\ st'.current = st.current
         /\ st'.pub = None
         /\ st'.gen = st.gen + 1
PROOF
  <1> DEFINE b == job[p].base
  <1>0. /\ st \in StateRecord /\ b \in StateRecord /\ LoadableState(b)
    BY CommitFacts DEF TypeInv, TypeOK
  <1>1. st.current = b.current
    BY <1>0, CommitFacts, UnfencedFields
  <1>2. st.fence = b.fence
    BY DEF CommitOptimistic, AllowCommand, TypeInv, JobInv
  <1>3. CASE job[p].op = "start"
    <2> DEFINE w == StartedCopy(job[p].key, ModeOf(p), b)
    <2>1. st' = w /\ job[p].key \in StartKeys
      BY SMTT(30), <1>3, CommitFacts
    <2>2. w.fence = b.fence /\ w.current = b.current
      BY <1>0, <2>1, StartedCopyFields DEF ModeOf
    <2> HIDE DEF w
    <2> QED BY <1>1, <1>2, <2>1, <2>2, CommitFacts
  <1>4. CASE job[p].op # "start"
    <2> DEFINE w == WorkingCopy(job[p].op, b)
    <2>1. /\ st' = w /\ job[p].op \in MutateOps /\ b.active # NoSession
          /\ Applies(job[p].op, b.sess[b.active])
      BY <1>4, CommitFacts
    <2>2. w.fence = b.fence /\ w.current = b.current
      BY <1>0, <2>1, WorkingCopyFields
    <2> HIDE DEF w
    <2> QED BY <1>1, <1>2, <2>1, <2>2, CommitFacts
  <1> QED BY <1>3, <1>4

LEMMA SucceedsTransitive ==
  ASSUME NEW a \in StateRecord, NEW b \in StateRecord, NEW c \in StateRecord,
         Succeeds(a, b), Succeeds(b, c)
  PROVE  Succeeds(a, c)
PROOF
  <1>1. a.gen \in Nat /\ b.gen \in Nat /\ c.gen \in Nat
    BY StateFields
  <1>2. a.gen <= c.gen
    BY <1>1 DEF Succeeds
  <1>3. a.gen = c.gen => a.gen = b.gen /\ b.gen = c.gen
    BY <1>1 DEF Succeeds
  <1> QED BY <1>2, <1>3 DEF Succeeds

LEMMA SucceedsItself ==
  ASSUME NEW a \in StateRecord PROVE Succeeds(a, a)
  BY StateFields DEF Succeeds

(* The invariants say together that a working copy is no newer than what   *)
(* there is.                                                               *)
LEMMA CopiesAreCurrent ==
  TypeInv /\ CopiesInv /\ SavedInv => SameGenerationSameState
PROOF
  <1> SUFFICES ASSUME TypeInv, CopiesInv, SavedInv, NEW p \in Procs,
                      pc[p] = "policy"
               PROVE  Succeeds(job[p].base, st)
    BY DEF SameGenerationSameState
  <1>1. st \in StateRecord /\ job[p].base \in StateRecord
    BY DEF TypeInv, TypeOK, JobInv, Job
  <1>2. CASE InCommand(p) \/ ~Prepared
    BY <1>2 DEF CopiesInv, Floor
  <1>3. CASE ~InCommand(p) /\ Prepared
    <2>1. /\ Succeeds(job[p].base, journal.state)
          /\ Succeeds(journal.state, st)
          /\ journal.state \in StateRecord
      BY <1>3, JournalFields DEF CopiesInv, Floor, SavedInv
    <2> QED BY <1>1, <2>1, SucceedsTransitive
  <1> QED BY <1>2, <1>3

CoreInv == /\ TypeInv /\ CopiesInv /\ CommandInv /\ SavedInv
           /\ SameGenerationSameState /\ ExclusiveOwnership

(* A step, for whoever has no working copy of an open attempt: the state   *)
(* moves on, unless a command is undone.                                   *)
LEMMA StateSucceeds ==
  ASSUME CoreInv, Next, NEW b \in StateRecord, b.pub = None, Succeeds(b, st)
  PROVE  Succeeds(b, st') \/ \E p \in Procs : UndoCommand(p)
PROOF
  <1>1. /\ TypeInv /\ SameGenerationSameState
        /\ st \in StateRecord /\ st.gen \in Nat /\ b.gen \in Nat
    BY StateFields DEF CoreInv, TypeInv, TypeOK
  <1>2. st.pub # None => b.gen < st.gen
    <2>1. b.gen = st.gen => st.pub = b.pub
      BY <1>1, UnfencedFields DEF Succeeds
    <2> QED BY <1>1, <2>1 DEF Succeeds
  <1> QED BY <1>1, <1>2, StepKinds DEF Succeeds

(* What nobody goes behind moves on for good.                              *)
LEMMA FloorNext ==
  ASSUME CoreInv, Next
  PROVE  \/ Floor' = Floor
         \/ ~Prepared /\ Floor = st /\ Floor' = st'
         \/ Succeeds(Floor, Floor') /\ formal' = formal
            /\ Floor.pub = None /\ UNCHANGED st
PROOF
  <1>1. TypeInv /\ SavedInv /\ ExclusiveOwnership
    BY DEF CoreInv
  <1>2. CASE UNCHANGED journal
    BY <1>2 DEF Floor, Prepared
  <1>3. ASSUME NEW p \in Procs, PrepareCommand(p)
        PROVE  Floor' = Floor
    <2>1. /\ ~Prepared /\ journal'.state = st
      BY <1>3 DEF PrepareCommand
    <2>2. Prepared'
      <3>1. [state |-> st, formal |-> formal, answered |-> FALSE] \in Journal
        BY <1>1 DEF Journal, TypeInv, TypeOK
      <3> QED BY <1>3, <3>1, NoneAssumption DEF PrepareCommand, Prepared
    <2> QED BY <2>1, <2>2 DEF Floor
  <1>4. ASSUME NEW p \in Procs, AnswerCommand(p)
        PROVE  Floor' = Floor
    <2>1. journal \in Journal /\ journal' = [journal EXCEPT !.answered = TRUE]
      BY <1>1, <1>4, JournalFields DEF AnswerCommand
    <2>2. journal' \in Journal /\ journal'.state = journal.state
      BY <2>1 DEF Journal
    <2> QED BY <1>4, <2>2, NoneAssumption DEF AnswerCommand, Floor, Prepared
  <1>5. ASSUME NEW p \in Procs, RemoveJournal(p)
        PROVE  \/ ~Prepared /\ Floor = st /\ Floor' = st'
               \/ Succeeds(Floor, Floor') /\ formal' = formal
                  /\ Floor.pub = None /\ UNCHANGED st
    BY <1>1, <1>5 DEF RemoveJournal, Floor, Prepared, SavedInv
  <1> QED BY <1>2, <1>3, <1>4, <1>5, JournalKinds

LEMMA CopiesNext ==
  ASSUME CoreInv, [Next]_vars
  PROVE  CopiesInv'
PROOF
  <1> SUFFICES ASSUME NEW q \in Procs, pc'[q] = "policy"
               PROVE  Succeeds(job'[q].base,
                               IF InCommand(q)' THEN st' ELSE Floor')
    BY DEF CopiesInv
  <1>0. /\ TypeInv /\ SavedInv /\ CopiesInv /\ CommandInv /\ st \in StateRecord
    BY DEF CoreInv, TypeInv, TypeOK
  <1>1. CASE UNCHANGED vars
    BY <1>0, <1>1 DEF vars, CopiesInv, InCommand, Floor, Prepared
  <1>2. CASE Next
    <2>1. InCommand(q)' = InCommand(q)
      BY <1>0, <1>2, JobKinds DEF InCommand
    <2>2. CASE /\ UNCHANGED <<st, journal>> /\ job'[q].base = st
               /\ AllowCommand(st, cmd[q])
      <3>1. ~InCommand(q) => ~Prepared
        BY <1>0, <2>2 DEF AllowCommand, InCommand, SavedInv
      <3>2. Succeeds(st, st)
        BY <1>0, SucceedsItself
      <3> QED BY <2>1, <2>2, <3>1, <3>2 DEF Floor, Prepared
    <2>3. CASE pc[q] = "policy" /\ job'[q] = job[q]
      <3> DEFINE b == job[q].base
      <3>1. /\ b \in StateRecord /\ b.pub = None
            /\ InCommand(q) => Succeeds(b, st)
            /\ ~InCommand(q) => Succeeds(b, Floor)
        BY <1>0, <2>3 DEF TypeInv, JobInv, Job, CopiesInv
      <3> HIDE DEF b
      <3>2. job'[q].base = b
        BY <2>3 DEF b
      <3>3. ASSUME NEW p \in Procs, UndoCommand(p)
            PROVE  ~InCommand(q) /\ Prepared
        <4>1. InCommand(p) /\ Prepared /\ pc[p] # "policy"
          BY <3>3 DEF UndoCommand
        <4> QED BY <1>0, <2>3, <4>1 DEF CommandInv
      <3>4. CASE InCommand(q)
        <4>1. Succeeds(b, st')
          BY <1>2, <3>1, <3>3, <3>4, StateSucceeds
        <4> QED BY <2>1, <3>2, <3>4, <4>1
      <3>5. CASE ~InCommand(q)
        <4>1. CASE Floor' = Floor
          BY <2>1, <3>1, <3>2, <3>5, <4>1
        <4>2. CASE ~Prepared /\ Floor = st /\ Floor' = st'
          <5>1. Succeeds(b, st')
            BY <1>2, <3>1, <3>3, <3>5, <4>2, StateSucceeds
          <5> QED BY <2>1, <3>2, <3>5, <4>2, <5>1
        <4>3. CASE Succeeds(Floor, Floor') /\ UNCHANGED st
          <5>1. Floor \in StateRecord /\ Floor' \in StateRecord
            <6>1. TypeInv' /\ st' \in StateRecord
              BY <1>0, <1>2, TypeNext DEF TypeInv, TypeOK
            <6>2. Prepared' => journal'.state \in StateRecord
              BY <6>1 DEF TypeInv, TypeOK, Journal, Prepared
            <6> QED BY <1>0, <6>1, <6>2, JournalFields DEF Floor
          <5> QED BY <2>1, <3>1, <3>2, <3>5, <4>3, <5>1, SucceedsTransitive
        <4> QED BY <1>2, <4>1, <4>2, <4>3, FloorNext
      <3> QED BY <3>4, <3>5
    <2> QED BY <1>0, <1>2, <2>2, <2>3, JobKinds
  <1> QED BY <1>1, <1>2

(* Steps outside a command leave commands and their journal alone.         *)
LEMMA OutsideCommand ==
  ASSUME TypeInv, NEW p \in Procs, Next,
         \/ RecoverStaleLease(p) \/ AcquireNormalFlow(p)
         \/ ReleaseNormalFlow(p) \/ LegacyWrite(p)
         \/ StartManuscript(p) \/ FinishManuscript(p)
         \/ \E key \in StartKeys : BeginStart(p, key)
         \/ \E op \in MutateOps : BeginMutate(p, op)
         \/ CommitOptimistic(p) \/ RejectCommand(p) \/ Publication(p)
  PROVE  /\ UNCHANGED <<cmd, journal>>
         /\ \A q \in Procs :
              pc'[q] # pc[q] =>
                /\ pc[q] \notin {"answered", "undo", "undone", "finished"}
                /\ pc'[q] \notin {"answered", "undo", "undone", "finished",
                                  "dead"}
PROOF
  <1> USE DEF TypeInv, TypeOK
  <1>1. CASE \/ RecoverStaleLease(p) \/ AcquireNormalFlow(p)
             \/ ReleaseNormalFlow(p) \/ LegacyWrite(p)
             \/ StartManuscript(p) \/ FinishManuscript(p)
    BY <1>1 DEF RecoverStaleLease, AcquireNormalFlow, ReleaseNormalFlow,
       LegacyWrite, StartManuscript, FinishManuscript
  <1>2. CASE \/ \E key \in StartKeys : BeginStart(p, key)
             \/ \E op \in MutateOps : BeginMutate(p, op)
             \/ CommitOptimistic(p) \/ RejectCommand(p)
    BY <1>2 DEF BeginStart, BeginMutate, CommitOptimistic, RejectCommand
  <1>3. CASE Publication(p)
    BY <1>3 DEF Publication, ValidatePublish, CaptureFormalSnapshot,
       BeginPublication, BeginPublicationFails, WriteFormal,
       MarkFormalApplied, WriteFormalFails, CompletePublication,
       CompletePublicationFails, RollbackPublication, RecoverPublication,
       ClearAttempt, AbandonPublication
  <1> QED BY <1>1, <1>2, <1>3

LEMMA CommandStill ==
  ASSUME CoreInv, Next, UNCHANGED <<cmd, journal>>,
         \A q \in Procs :
           pc'[q] # pc[q] =>
             /\ pc[q] \notin {"answered", "undo", "undone", "finished"}
             /\ pc'[q] \notin {"answered", "undo", "undone", "finished", "dead"}
  PROVE  CommandInv'
PROOF
  <1>0. CommandInv /\ TypeInv /\ SavedInv /\ ExclusiveOwnership
    BY DEF CoreInv
  <1>1. ASSUME NEW q \in Procs, pc[q] = "undone", pc'[q] = "undone"
        PROVE  st' = st
    <2>1. Prepared /\ InCommand(q)
      BY <1>0, <1>1 DEF CommandInv
    <2>2. ASSUME NEW p \in Procs, InCommand(p),
                 CommitOptimistic(p) \/ UndoCommand(p)
          PROVE  FALSE
      <3>1. p = q
        BY <1>0, <2>1, <2>2 DEF CommandInv
      <3> QED BY <1>1, <2>2, <3>1 DEF CommitOptimistic, UndoCommand
    <2> QED BY <1>0, <2>1, <2>2, PreparedKinds
  <1>2. Prepared' = Prepared /\ \A q \in Procs : InCommand(q)' = InCommand(q)
    BY DEF Prepared, InCommand
  <1>3. ASSUME NEW q \in Procs, pc'[q] = "undone"
        PROVE  Prepared' /\ st' = journal'.state
    BY <1>0, <1>1, <1>2, <1>3 DEF CommandInv
  <1>4. ASSUME NEW q \in Procs, InCommand(q)', Prepared', journal'.answered
        PROVE  pc'[q] = "answered"
    BY <1>0, <1>2, <1>4 DEF CommandInv
  <1> QED BY <1>0, <1>2, <1>3, <1>4 DEF CommandInv

(* Who takes up a command finds nobody in one.                             *)
LEMMA CommandTaken ==
  ASSUME CommandInv, CommandLockFree, NEW q \in Procs
  PROVE  ~InCommand(q)
  BY DEF CommandInv, CommandLockFree, Alive, InCommand

LEMMA CommandStep ==
  ASSUME CoreInv, NEW p \in Procs, Command(p)
  PROVE  CommandInv'
PROOF
  <1>0. /\ CommandInv /\ TypeInv /\ SavedInv
        /\ pc \in [Procs -> Control] /\ cmd \in [Procs -> Fence \cup {None}]
        /\ journal \in Journal \cup {None}
    BY DEF CoreInv, TypeInv, TypeOK
  <1>1. ASSUME NEW key \in CommandKeys, ClaimCommandFence(p, key)
        PROVE  CommandInv'
    <2>1. \A q \in Procs : ~InCommand(q)
      BY <1>0, <1>1, CommandTaken DEF ClaimCommandFence
    <2>2. /\ \A q \in Procs : InCommand(q)' => q = p
          /\ ~Prepared' /\ UNCHANGED pc /\ pc[p] = "idle"
      BY <1>0, <1>1, <2>1 DEF ClaimCommandFence, InCommand, Prepared
    <2> QED BY <1>0, <2>1, <2>2 DEF CommandInv
  <1>2. CASE PrepareCommand(p)
    <2> DEFINE j == [state |-> st, formal |-> formal, answered |-> FALSE]
    <2>1. /\ journal' = j /\ ~Prepared /\ UNCHANGED <<st, pc, cmd>>
      BY <1>2 DEF PrepareCommand
    <2>2. journal'.answered = FALSE
      BY <2>1
    <2>3. \A q \in Procs : InCommand(q)' = InCommand(q)
      BY <2>1 DEF InCommand
    <2> HIDE DEF j
    <2> QED BY <1>0, <2>1, <2>2, <2>3 DEF CommandInv
  <1>3. CASE AnswerCommand(p)
    <2>1. /\ InCommand(p) /\ Prepared /\ journal \in Journal
          /\ journal' = [journal EXCEPT !.answered = TRUE]
          /\ pc' = [pc EXCEPT ![p] = "answered"] /\ UNCHANGED <<st, cmd>>
          /\ pc[p] = "idle"
      BY <1>0, <1>3, JournalFields DEF AnswerCommand
    <2>2. journal'.answered /\ journal' \in Journal
      BY <2>1 DEF Journal
    <2>3. Prepared' /\ \A q \in Procs : InCommand(q)' = InCommand(q)
      BY <2>1, <2>2, NoneAssumption DEF InCommand, Prepared
    <2>4. \A q \in Procs : InCommand(q) => q = p
      BY <1>0, <2>1 DEF CommandInv
    <2>5. pc'[p] = "answered" /\ \A q \in Procs \ {p} : pc'[q] = pc[q]
      BY <1>0, <2>1
    <2>6. \A q \in Procs \ {p} : pc[q] \notin {"answered", "undo", "undone", "finished"}
      BY <1>0, <2>4 DEF CommandInv
    <2> QED BY <1>0, <2>1, <2>2, <2>3, <2>4, <2>5, <2>6 DEF CommandInv
  <1>4. CASE UndoCommand(p)
    <2>1. /\ InCommand(p) /\ Prepared /\ UNCHANGED <<cmd, journal>>
          /\ pc' = [pc EXCEPT ![p] = "undone"]
          /\ pc[p] \in {"idle", "undo"}
          /\ st' = journal.state
      BY <1>0, <1>4, RestoredIsSaved DEF UndoCommand
    <2>2. ~journal.answered
      BY <1>0, <2>1 DEF CommandInv
    <2>3. Prepared' /\ \A q \in Procs : InCommand(q)' = InCommand(q)
      BY <2>1 DEF InCommand, Prepared
    <2>4. \A q \in Procs : InCommand(q) => q = p
      BY <1>0, <2>1 DEF CommandInv
    <2>5. pc'[p] = "undone" /\ \A q \in Procs \ {p} : pc'[q] = pc[q]
      BY <1>0, <2>1
    <2> QED BY <1>0, <2>1, <2>2, <2>3, <2>4, <2>5 DEF CommandInv
  <1>5. CASE RemoveJournal(p)
    <2>1. /\ ~Prepared' /\ UNCHANGED cmd
          /\ pc' = [pc EXCEPT ![p] = "finished"]
          /\ pc[p] \in {"answered", "undone"}
      BY <1>5 DEF RemoveJournal, Prepared
    <2>2. InCommand(p) /\ \A q \in Procs : InCommand(q)' = InCommand(q)
      BY <1>0, <2>1 DEF InCommand, CommandInv
    <2>3. pc'[p] = "finished" /\ \A q \in Procs \ {p} : pc'[q] = pc[q]
      BY <1>0, <2>1
    <2>4. \A q \in Procs : InCommand(q) => q = p
      BY <1>0, <2>2 DEF CommandInv
    <2>5. \A q \in Procs \ {p} : pc[q] \notin {"answered", "undo", "undone", "finished"}
      BY <1>0, <2>4 DEF CommandInv
    <2> QED BY <1>0, <2>1, <2>2, <2>3, <2>4, <2>5 DEF CommandInv
  <1>6. CASE ReleaseCommandFence(p) \/ LeaveCommand(p)
    <2>1. /\ InCommand(p) /\ UNCHANGED journal
          /\ pc' = [pc EXCEPT ![p] = "idle"]
          /\ cmd' = [cmd EXCEPT ![p] = None]
      BY <1>6 DEF ReleaseCommandFence, LeaveCommand
    <2>2. \A q \in Procs : InCommand(q) => q = p
      BY <1>0, <2>1 DEF CommandInv
    <2>3. /\ pc'[p] = "idle"
          /\ \A q \in Procs \ {p} : pc'[q] = pc[q]
          /\ \A q \in Procs : ~InCommand(q)'
      BY <1>0, <2>1, <2>2 DEF InCommand
    <2>4. \A q \in Procs \ {p} : pc[q] \notin {"answered", "undo", "undone", "finished"}
      BY <1>0, <2>2 DEF CommandInv
    <2> QED BY <2>3, <2>4 DEF CommandInv
  <1>7. CASE RecoverCommandFence(p)
    <2>1. \A q \in Procs : ~InCommand(q)
      BY <1>0, <1>7, CommandTaken DEF RecoverCommandFence
    <2>2. /\ UNCHANGED <<cmd, journal, pc>> /\ ~Prepared
      BY <1>7 DEF RecoverCommandFence
    <2>3. \A q \in Procs : ~InCommand(q)'
      BY <2>1, <2>2 DEF InCommand
    <2> QED BY <1>0, <2>1, <2>2, <2>3 DEF CommandInv
  <1>8. CASE RecoverCommand(p)
    <2>1. \A q \in Procs : ~InCommand(q)
      BY <1>0, <1>8, CommandTaken DEF RecoverCommand
    <2>2. /\ UNCHANGED <<st, journal>> /\ Prepared
          /\ cmd' = [cmd EXCEPT ![p] = st.fence] /\ st.fence # None
          /\ pc' = [pc EXCEPT ![p] = NextRecovery]
      BY <1>8 DEF RecoverCommand
    <2>3. /\ \A q \in Procs \ {p} : ~InCommand(q)' /\ pc'[q] = pc[q]
          /\ InCommand(p)' /\ pc'[p] = NextRecovery /\ Prepared'
      BY <1>0, <2>1, <2>2 DEF InCommand, Prepared
    <2>4. /\ NextRecovery \in {"answered", "undo"}
          /\ NextRecovery = "answered" <=> journal.answered
      <3>1. journal.answered \in BOOLEAN
        BY <1>0, <2>2, JournalFields
      <3> QED BY <3>1 DEF NextRecovery
    <2>5. journal'.answered = journal.answered
      BY <2>2
    <2>6. \A q \in Procs \ {p} : pc[q] \notin {"answered", "undo", "undone", "finished"}
      BY <1>0, <2>1 DEF CommandInv
    <2> QED BY <2>3, <2>4, <2>5, <2>6 DEF CommandInv
  <1> QED BY <1>1, <1>2, <1>3, <1>4, <1>5, <1>6, <1>7, <1>8 DEF Command

LEMMA CommandNext ==
  ASSUME CoreInv, [Next]_vars
  PROVE  CommandInv'
PROOF
  <1>0. /\ CommandInv /\ TypeInv
        /\ pc \in [Procs -> Control] /\ cmd \in [Procs -> Fence \cup {None}]
    BY DEF CoreInv, TypeInv, TypeOK
  <1>1. CASE UNCHANGED vars
    BY <1>0, <1>1 DEF vars, CommandInv, InCommand, Prepared
  <1>2. ASSUME NEW p \in Procs, Crash(p)
        PROVE  CommandInv'
    <2>1. /\ UNCHANGED <<st, journal>>
          /\ pc' = [pc EXCEPT ![p] = "dead"]
          /\ cmd' = [cmd EXCEPT ![p] = None]
      BY <1>2 DEF Crash
    <2>2. /\ Prepared' = Prepared /\ ~InCommand(p)' /\ pc'[p] = "dead"
          /\ \A q \in Procs \ {p} : /\ InCommand(q)' = InCommand(q)
                                    /\ pc'[q] = pc[q]
      BY <1>0, <2>1 DEF InCommand, Prepared
    <2> QED BY <1>0, <2>1, <2>2 DEF CommandInv
  <1>3. CASE Next
    BY <1>0, <1>2, <1>3, CommandStep, OutsideCommand, CommandStill DEF Next
  <1> QED BY <1>1, <1>3

LEMMA SavedNext ==
  ASSUME CoreInv, [Next]_vars
  PROVE  SavedInv'
PROOF
  <1>0. /\ TypeInv /\ SavedInv /\ ExclusiveOwnership /\ SameGenerationSameState
        /\ st \in StateRecord /\ st.gen \in Nat /\ st.gen + 1 \in Nat
    BY StateFields DEF CoreInv, TypeInv, TypeOK
  <1>1. CASE UNCHANGED vars
    BY <1>0, <1>1 DEF vars, SavedInv, Prepared
  <1>2. ASSUME NEW p \in Procs, PrepareCommand(p)
        PROVE  SavedInv'
    <2>1. /\ LoadableState(st) /\ InCommand(p) /\ st.fence = cmd[p]
          /\ UNCHANGED <<st, formal>>
          /\ journal'.state = st /\ journal'.formal = formal
      BY <1>2 DEF PrepareCommand, Transaction
    <2>2. st.fence # None
      BY <2>1 DEF InCommand
    <2>3. st.pub = None /\ st.lease = None
      BY <1>0, <2>1, <2>2, AttemptSession DEF ExclusiveOwnership
    <2>4. Succeeds(st, st)
      BY <1>0, SucceedsItself
    <2> QED BY <2>1, <2>2, <2>3, <2>4 DEF SavedInv
  <1>3. ASSUME NEW p \in Procs, AnswerCommand(p)
        PROVE  SavedInv'
    <2>1. /\ journal \in Journal /\ Prepared
          /\ journal' = [journal EXCEPT !.answered = TRUE]
          /\ UNCHANGED <<st, formal>>
      BY <1>0, <1>3, JournalFields DEF AnswerCommand
    <2>2. journal'.state = journal.state /\ journal'.formal = journal.formal
      BY <2>1 DEF Journal
    <2> QED BY <1>0, <2>1, <2>2 DEF SavedInv
  <1>4. ASSUME NEW p \in Procs, RemoveJournal(p)
        PROVE  SavedInv'
    BY <1>4 DEF RemoveJournal, SavedInv, Prepared
  <1>5. CASE Next /\ UNCHANGED journal /\ Prepared
    <2> DEFINE j == journal.state
    <2>1. /\ j \in StateRecord /\ j.gen \in Nat /\ LoadableState(j)
          /\ j.fence = st.fence /\ st.fence # None
          /\ j.pub = None /\ j.lease = None /\ j.current = st.current
          /\ journal.formal = formal /\ Succeeds(j, st) /\ st.pub = None
      BY <1>0, <1>5, JournalFields, StateFields DEF SavedInv
    <2>2. formal' = formal /\ journal'.state = j /\ journal'.formal = formal
      BY <1>0, <1>5, <2>1, PreparedKinds
    <2>3. CASE UNCHANGED st
      BY <2>1, <2>2, <2>3 DEF SavedInv
    <2>4. ASSUME NEW p \in Procs, CommitOptimistic(p)
          PROVE  SavedInv'
      <3>1. /\ st'.fence = st.fence /\ st'.current = st.current
            /\ st'.pub = None /\ st'.gen = st.gen + 1
        BY <1>0, <1>5, <2>4, CommitSucceeds
      <3>2. Succeeds(j, st')
        BY <1>0, <2>1, <3>1 DEF Succeeds
      <3> QED BY <2>1, <2>2, <3>1, <3>2 DEF SavedInv
    <2>5. ASSUME NEW p \in Procs, UndoCommand(p)
          PROVE  SavedInv'
      <3>1. st' = j
        BY <1>0, <1>5, <2>5, RestoredIsSaved DEF UndoCommand
      <3>2. Succeeds(j, j)
        BY <2>1, SucceedsItself
      <3> QED BY <2>1, <2>2, <3>1, <3>2 DEF SavedInv
    <2> QED BY <1>0, <1>5, <2>3, <2>4, <2>5, PreparedKinds
  <1>6. CASE UNCHANGED journal /\ ~Prepared
    BY <1>6 DEF SavedInv, Prepared
  <1> QED BY <1>1, <1>2, <1>3, <1>4, <1>5, <1>6, JournalKinds

-----------------------------------------------------------------------------
(* One owner at a time.                                                    *)

LEMMA ExclusiveNext ==
  CoreInv /\ [Next]_vars => ExclusiveOwnership'
PROOF
  <1> SUFFICES ASSUME CoreInv, ExclusiveOwnership, [Next]_vars
               PROVE  ExclusiveOwnership'
    BY DEF CoreInv
  <1> USE DEF ExclusiveOwnership
  <1>0. /\ st \in StateRecord
        /\ TypeInv /\ SameGenerationSameState /\ SavedInv
    BY DEF CoreInv, TypeInv, TypeOK
  <1>1. CASE UNCHANGED vars
    BY <1>1 DEF vars
  <1>2. ASSUME NEW p \in Procs, RecoverStaleLease(p) \/ ReleaseNormalFlow(p)
        PROVE  ExclusiveOwnership'
    <2>1. /\ st' = [st EXCEPT !.lease = None, !.gen = st.gen + 1]
          /\ manuscript' = manuscript
      BY <1>2 DEF RecoverStaleLease, ReleaseNormalFlow
    <2>2. st'.lease = None /\ st'.active = st.active /\ st'.fence = st.fence
      BY <1>0, <2>1 DEF StateRecord
    <2> QED BY <2>1, <2>2
  <1>3. ASSUME NEW p \in Procs, AcquireNormalFlow(p)
        PROVE  ExclusiveOwnership'
    <2>1. st.pub = None
      BY <1>0, <1>3, AttemptSession DEF AcquireNormalFlow, Transaction
    <2> QED BY <1>0, <1>3, <2>1 DEF AcquireNormalFlow, StateRecord
  <1>4. ASSUME NEW p \in Procs, StartManuscript(p) \/ FinishManuscript(p)
        PROVE  ExclusiveOwnership'
    BY <1>4 DEF StartManuscript, FinishManuscript
  <1>5. ASSUME NEW p \in Procs,
               \/ \E key \in CommandKeys : ClaimCommandFence(p, key)
               \/ ReleaseCommandFence(p) \/ RecoverCommandFence(p)
        PROVE  ExclusiveOwnership'
    BY <1>0, <1>5 DEF ClaimCommandFence, ReleaseCommandFence,
                      RecoverCommandFence, StateRecord
  <1>6. ASSUME NEW p \in Procs, CommitOptimistic(p)
        PROVE  ExclusiveOwnership'
    <2> DEFINE b == job[p].base
    <2>1. st'.lease = None
      BY <1>0, <1>6, CommitFacts
    <2>2. ~manuscript
      <3>1. CASE job[p].op = "start"
        BY <1>0, <1>6, <3>1, CommitFacts
      <3>2. CASE job[p].op # "start"
        <4>1. b.active # NoSession /\ b \in StateRecord /\ Unfenced(st) = Unfenced(b)
          BY <1>0, <1>6, <3>2, CommitFacts
        <4>2. st.active = b.active
          BY <1>0, <4>1, UnfencedFields
        <4> QED BY <4>1, <4>2
      <3> QED BY <3>1, <3>2
    <2>3. manuscript' = manuscript
      BY <1>6 DEF CommitOptimistic
    <2> QED BY <2>1, <2>2, <2>3
  <1>7. ASSUME NEW p \in Procs, BeginPublication(p)
        PROVE  ExclusiveOwnership'
    BY <1>0, <1>7 DEF BeginPublication, PreparedState, StateRecord
  <1>8. ASSUME NEW p \in Procs, MarkFormalApplied(p)
        PROVE  ExclusiveOwnership'
    <2>1. st.pub # None
      BY <1>0, <1>8 DEF MarkFormalApplied, TypeInv, HoldInv
    <2> QED BY <1>0, <1>8, <2>1 DEF MarkFormalApplied, StateRecord
  <1>9. ASSUME NEW p \in Procs, CompletePublication(p)
        PROVE  ExclusiveOwnership'
    <2> DEFINE m == Mutated(st, AfterComplete(st.sess[st.active]))
    <2>1. /\ st' = [m EXCEPT !.current = st.sess[st.active].cand, !.pub = None]
          /\ manuscript' = manuscript
          /\ st.pub # None /\ LoadableState(st)
      BY <1>9 DEF CompletePublication, Transaction
    <2>2. m.lease = st.lease /\ m.fence = st.fence /\ st.lease = None
          /\ st.active # NoSession
      BY <1>0, <2>1, MutatedFields, AttemptSession
    <2> HIDE DEF m
    <2>3. st'.lease = m.lease
      BY <2>1
    <2> QED BY <2>1, <2>2, <2>3
  <1>10. ASSUME NEW p \in Procs, ClearAttempt(p)
         PROVE  ExclusiveOwnership'
    BY <1>0, <1>10 DEF ClearAttempt, StateRecord
  <1>11. ASSUME NEW p \in Procs,
               \/ LegacyWrite(p)
               \/ PrepareCommand(p) \/ AnswerCommand(p) \/ RemoveJournal(p)
               \/ LeaveCommand(p) \/ RecoverCommand(p)
               \/ \E key \in StartKeys : BeginStart(p, key)
               \/ \E op \in MutateOps : BeginMutate(p, op)
               \/ RejectCommand(p) \/ Crash(p) \/ ValidatePublish(p)
               \/ CaptureFormalSnapshot(p) \/ BeginPublicationFails(p)
               \/ WriteFormal(p) \/ WriteFormalFails(p)
               \/ CompletePublicationFails(p) \/ RollbackPublication(p)
               \/ RecoverPublication(p) \/ AbandonPublication(p)
        PROVE  ExclusiveOwnership'
    BY <1>11 DEF LegacyWrite, PrepareCommand, AnswerCommand, RemoveJournal,
         LeaveCommand, RecoverCommand, BeginStart, BeginMutate, RejectCommand, Crash,
         ValidatePublish, CaptureFormalSnapshot, BeginPublicationFails,
         WriteFormal, WriteFormalFails, CompletePublicationFails,
         RollbackPublication, RecoverPublication, AbandonPublication
  <1>12. ASSUME NEW p \in Procs, UndoCommand(p)
         PROVE  ExclusiveOwnership'
    <2>1. /\ Prepared /\ st' = journal.state /\ UNCHANGED manuscript
      BY <1>0, <1>12, RestoredIsSaved DEF UndoCommand
    <2>2. st'.lease = None /\ st.fence # None
      BY <1>0, <2>1 DEF SavedInv
    <2>3. ~manuscript
      BY <1>0, <2>2
    <2> QED BY <2>1, <2>2, <2>3
  <1>13. ASSUME NEW p \in Procs, Publication(p)
         PROVE  ExclusiveOwnership'
    BY <1>7, <1>8, <1>9, <1>10, <1>11, <1>13 DEF Publication
  <1>14. ASSUME NEW p \in Procs, Command(p)
         PROVE  ExclusiveOwnership'
    BY <1>5, <1>11, <1>12, <1>14 DEF Command
  <1> QED BY <1>1, <1>2, <1>3, <1>4, <1>6, <1>11, <1>13, <1>14 DEF Next

LEMMA OwnershipInit == Init => CoreInv
  BY TypeInit DEF Init, CoreInv, CopiesInv, CommandInv, InCommand, SavedInv,
     Prepared, SameGenerationSameState, ExclusiveOwnership

LEMMA OwnershipNext == CoreInv /\ [Next]_vars => CoreInv'
PROOF
  <1> SUFFICES ASSUME CoreInv, [Next]_vars PROVE CoreInv'
    OBVIOUS
  <1>1. TypeInv'
    BY TypeNext DEF CoreInv
  <1>2. CopiesInv' /\ CommandInv' /\ SavedInv' /\ ExclusiveOwnership'
    BY CopiesNext, CommandNext, SavedNext, ExclusiveNext
  <1>3. TypeInv' /\ CopiesInv' /\ SavedInv' => SameGenerationSameState'
    BY CopiesAreCurrent, PTL
  <1> QED BY <1>1, <1>2, <1>3 DEF CoreInv

(* The book has one owner, for any number of processes racing through the  *)
(* two transactions of their commands, with crashes anywhere.              *)
THEOREM ExclusiveCorrect == Spec => []ExclusiveOwnership
PROOF
  <1>1. CoreInv => ExclusiveOwnership
    BY DEF CoreInv
  <1> QED BY OwnershipInit, OwnershipNext, <1>1, PTL DEF Spec
-----------------------------------------------------------------------------
(* The ledger of sessions and receipts.  A step only refreshes the         *)
(* generation of an active session, moves the active session by one        *)
(* revision with its receipt, or opens the next session.                   *)

Refreshed ==
  /\ st'.receipts = st.receipts
  /\ st'.startKey = st.startKey
  /\ st'.nextSession = st.nextSession
  /\ \A i \in Sessions :
       \/ st'.sess[i] = st.sess[i]
       \/ /\ st.sess[i] \in Session /\ Active(st.sess[i])
          /\ st'.sess[i] \in Session
          /\ st'.sess[i].revision = st.sess[i].revision

Moved ==
  /\ st.active \in Sessions
  /\ st.sess[st.active] \in Session /\ Active(st.sess[st.active])
  /\ st'.receipts = st.receipts
                      \cup {<<st.active, st.sess[st.active].revision>>}
  /\ st'.startKey = st.startKey
  /\ st'.nextSession = st.nextSession
  /\ \A i \in Sessions \ {st.active} : st'.sess[i] = st.sess[i]
  /\ st'.sess[st.active] \in Session
  /\ st'.sess[st.active].revision = st.sess[st.active].revision + 1

OpenedWith(key, n) ==
  /\ n = st.nextSession + 1
  /\ ~HasStartReceipt(st, key)
  /\ st'.receipts = st.receipts
  /\ st'.startKey = [st.startKey EXCEPT ![n] = key]
  /\ st'.nextSession = n
  /\ \A i \in Sessions \ {n} : st'.sess[i] = st.sess[i]
  /\ st'.sess[n] \in Session
  /\ st'.sess[n].revision = 1

Opened == \E key \in StartKeys, n \in Sessions : OpenedWith(key, n)

LEMMA AfterCommandRevision ==
  ASSUME NEW s \in Session, NEW op \in MutateOps, NEW v \in Nat
  PROVE  AfterCommand(op, s, v).revision = s.revision
PROOF
  <1>1. \A t \in Session : NextRound(t).revision = t.revision
    BY DEF NextRound, Session
  <1>2. CASE op \in {"audit_pass", "audit_fail"}
    <2>1. ASSUME NEW passed \in BOOLEAN
          PROVE  AfterRecordAudit(s, passed).revision = s.revision
      <3> DEFINE t == [s EXCEPT !.audit = [round |-> s.round, cand |-> s.cand,
                                           passed |-> passed]]
      <3>1. t \in Session /\ t.revision = s.revision
        BY DEF Session
      <3>2. [t EXCEPT !.stage = "approval_pending"].revision = t.revision
        BY <3>1 DEF Session
      <3>3. NextRound(t).revision = t.revision
        BY <1>1, <3>1
      <3>4. AfterRecordAudit(s, passed) =
              IF passed THEN [t EXCEPT !.stage = "approval_pending"]
                        ELSE NextRound(t)
        BY DEF AfterRecordAudit
      <3>5. CASE passed
        BY <3>1, <3>2, <3>4, <3>5
      <3>6. CASE ~passed
        BY <3>1, <3>3, <3>4, <3>6
      <3> QED BY <3>5, <3>6
    <2> QED BY <1>2, <2>1 DEF AfterCommand
  <1>3. CASE op = "approve_stage"
    BY <1>3 DEF AfterCommand, AfterApproveStage, NextRound, Session
  <1>4. CASE op \notin {"audit_pass", "audit_fail", "approve_stage"}
    BY <1>1, <1>4 DEF MutateOps, AfterCommand, AfterApproveImpact,
       AfterSubmitCandidate, AfterSubmitFeedback, AfterInterrupt, AfterResume,
       AfterCancel, Session
  <1> QED BY <1>2, <1>3, <1>4

(* A session the store wrote back after a command.                         *)
LEMMA RevisedSession ==
  ASSUME NEW t \in Session, NEW g \in Nat
  PROVE  LET u == [t EXCEPT !.revision = @ + 1, !.gen = g]
         IN  u \in Session /\ u.revision = t.revision + 1
PROOF
  <1> DEFINE r == t.revision + 1
  <1>1. r \in Nat
    BY SessionFields
  <1> HIDE DEF r
  <1>2. LET u == [t EXCEPT !.revision = r, !.gen = g]
        IN  u \in Session /\ u.revision = r
    BY <1>1 DEF Session
  <1> QED BY <1>2 DEF r

LEMMA CommitSteps ==
  ASSUME TypeInv, SameGenerationSameState,
         NEW p \in Procs, CommitOptimistic(p)
  PROVE  Moved \/ Opened
PROOF
  <1> DEFINE b == job[p].base
  <1>0. st \in StateRecord /\ b \in StateRecord /\ LoadableState(b)
    BY CommitFacts DEF TypeInv, TypeOK
  <1>1. /\ st.gen = b.gen /\ st.active = b.active
        /\ st.nextSession = b.nextSession
        /\ st.sess = b.sess /\ st.startKey = b.startKey
        /\ st.receipts = b.receipts
    BY <1>0, CommitFacts, UnfencedFields
  <1>2. CASE job[p].op = "start"
    <2> DEFINE key == job[p].key
               w == StartedCopy(key, ModeOf(p), b)
               n == b.nextSession + 1
               new == NewSession(b.gen + 1, NoVersion)
    <2>1. st' = w /\ key \in StartKeys
      BY <1>2, CommitFacts
    <2>2. /\ w.nextSession = n /\ w.receipts = b.receipts
          /\ w.startKey = [b.startKey EXCEPT ![n] = key]
          /\ w.sess = [b.sess EXCEPT ![n] = new]
      BY <1>0, <2>1, StartedCopyFields DEF ModeOf
    <2>3. n \in Sessions
      <3>1. b.nextSession < MaxSession
        BY <1>2 DEF TypeInv, JobInv, CommitOptimistic
      <3> QED BY <1>0, <3>1, StateFields, BoundsAssumption DEF Sessions
    <2>4. ~HasStartReceipt(st, key)
      BY <1>2 DEF CommitOptimistic, Replayed
    <2>5. new \in Session /\ new.revision = 1
      <3>1. 0 \in 0..StageCount /\ b.gen + 1 \in Nat
        BY <1>0, StateFields, StageCountAssumption
      <3> QED BY <3>1 DEF NewSession, Session, NoVersion, NoAudit,
                          RevisionStage, Working
    <2>6. st.sess \in [Sessions -> Session \cup {None}]
      BY <1>0, StateFields
    <2> HIDE DEF w, new
    <2>7. /\ \A i \in Sessions \ {n} : st'.sess[i] = st.sess[i]
          /\ st'.sess[n] = new
      BY <1>1, <2>1, <2>2, <2>3, <2>6
    <2>8. /\ n = st.nextSession + 1 /\ n \in Sessions
          /\ st'.receipts = st.receipts /\ st'.nextSession = n
          /\ st'.startKey = [st.startKey EXCEPT ![n] = key]
      BY <1>1, <2>1, <2>2, <2>3
    <2> HIDE DEF n, key
    <2>9. OpenedWith(key, n)
      BY <2>4, <2>5, <2>7, <2>8 DEF OpenedWith
    <2> QED BY <2>1, <2>8, <2>9 DEF Opened
  <1>3. CASE job[p].op # "start"
    <2> DEFINE op == job[p].op
               w == WorkingCopy(op, b)
               old == b.sess[b.active]
               t == AfterCommand(op, old, b.nextVersion + 1)
               u == [t EXCEPT !.revision = @ + 1, !.gen = b.gen + 1]
    <2>1. /\ st' = w /\ op \in MutateOps /\ b.active # NoSession
          /\ Applies(op, old)
      BY SMTT(30), <1>3, CommitFacts
    <2>2. /\ w.nextSession = b.nextSession /\ w.startKey = b.startKey
          /\ w.receipts = b.receipts \cup {<<b.active, t.revision>>}
          /\ w.sess = [b.sess EXCEPT ![b.active] = u]
      BY <1>0, <2>1, WorkingCopyFields
    <2>3. b.active \in Sessions /\ old \in Session /\ Active(old)
      BY <1>0, <2>1, ActiveSession
    <2>4. b.nextVersion + 1 \in Nat /\ b.gen + 1 \in Nat
      BY <1>0, StateFields
    <2>5. t \in Session /\ t.revision = old.revision
      BY <2>1, <2>3, <2>4, AfterCommandType, AfterCommandRevision
    <2> HIDE DEF t
    <2>6. u \in Session /\ u.revision = old.revision + 1
      BY <2>4, <2>5, RevisedSession
    <2>7. b.sess \in [Sessions -> Session \cup {None}]
      BY <1>0, StateFields
    <2> HIDE DEF w, u
    <2>8. /\ \A i \in Sessions \ {b.active} : st'.sess[i] = st.sess[i]
          /\ st'.sess[b.active] = u
      BY <1>1, <2>1, <2>2, <2>3, <2>7
    <2>9. Moved
      BY <1>1, <2>1, <2>2, <2>3, <2>5, <2>6, <2>8 DEF Moved
    <2> QED BY <2>9
  <1> QED BY <1>2, <1>3

LEMMA CompleteSteps ==
  ASSUME TypeInv, NEW p \in Procs, CompletePublication(p)
  PROVE  Moved
PROOF
  <1> DEFINE old == st.sess[st.active]
             t == AfterComplete(old)
             m == Mutated(st, t)
             u == [t EXCEPT !.revision = @ + 1, !.gen = st.gen + 1]
  <1>0. st \in StateRecord
    BY DEF TypeInv, TypeOK
  <1>1. /\ st.active # NoSession /\ LoadableState(st)
        /\ st' = [m EXCEPT !.current = old.cand, !.pub = None]
    BY DEF CompletePublication, Transaction, Publishable
  <1>2. st.active \in Sessions /\ old \in Session /\ Active(old)
    BY <1>0, <1>1, ActiveSession
  <1>3. t \in Session /\ t.revision = old.revision
    BY <1>2 DEF AfterComplete, Session, RevisionStage, Terminal
  <1>4. /\ m.nextSession = st.nextSession /\ m.startKey = st.startKey
        /\ m.receipts = st.receipts \cup {<<st.active, t.revision>>}
        /\ m.sess = [st.sess EXCEPT ![st.active] = u]
    BY <1>0, MutatedFields
  <1> HIDE DEF t
  <1>5. u \in Session /\ u.revision = old.revision + 1
    BY <1>0, <1>3, StateFields, RevisedSession
  <1>6. st.sess \in [Sessions -> Session \cup {None}]
    BY <1>0, StateFields
  <1> HIDE DEF m, u
  <1>7. /\ st'.nextSession = m.nextSession /\ st'.startKey = m.startKey
        /\ st'.receipts = m.receipts /\ st'.sess = m.sess
    BY <1>1
  <1>8. /\ \A i \in Sessions \ {st.active} : st'.sess[i] = st.sess[i]
        /\ st'.sess[st.active] = u
    BY <1>2, <1>4, <1>6, <1>7
  <1> QED BY <1>2, <1>3, <1>4, <1>5, <1>7, <1>8 DEF Moved

(* A new generation on the session of an attempt, as it opens or is        *)
(* cleared, is no more than a refresh.                                     *)
LEMMA RegenerationRefreshes ==
  ASSUME TypeInv, LoadableState(st), st.active # NoSession, NEW g \in Nat,
         st'.receipts = st.receipts, st'.startKey = st.startKey,
         st'.nextSession = st.nextSession,
         st'.sess = [st.sess EXCEPT ![st.active] = [@ EXCEPT !.gen = g]]
  PROVE  Refreshed
PROOF
  <1> DEFINE old == st.sess[st.active]
             u == [old EXCEPT !.gen = g]
  <1>1. st.active \in Sessions /\ old \in Session /\ Active(old)
    BY ActiveSession DEF TypeInv, TypeOK
  <1>2. u \in Session /\ u.revision = old.revision
    BY <1>1 DEF Session
  <1>3. st.sess \in [Sessions -> Session \cup {None}]
    BY StateFields DEF TypeInv, TypeOK
  <1>4. st'.sess = [st.sess EXCEPT ![st.active] = u]
    OBVIOUS
  <1> HIDE DEF u
  <1>5. /\ \A i \in Sessions \ {st.active} : st'.sess[i] = st.sess[i]
        /\ st'.sess[st.active] = u
    BY <1>1, <1>3, <1>4
  <1> QED BY <1>1, <1>2, <1>5 DEF Refreshed

LEMMA AttemptSteps ==
  ASSUME TypeInv, NEW p \in Procs,
         BeginPublication(p) \/ MarkFormalApplied(p) \/ ClearAttempt(p)
  PROVE  Refreshed
PROOF
  <1> DEFINE g == st.gen + 1
  <1>0. st \in StateRecord /\ g \in Nat
    BY StateFields DEF TypeInv, TypeOK
  <1>1. CASE BeginPublication(p)
    <2>1. LoadableState(st) /\ st.active # NoSession
      BY <1>1 DEF BeginPublication, Transaction, Publishable
    <2>2. /\ st'.receipts = st.receipts /\ st'.startKey = st.startKey
          /\ st'.nextSession = st.nextSession
          /\ st'.sess = [st.sess EXCEPT ![st.active] = [@ EXCEPT !.gen = g]]
      BY <1>0, <1>1 DEF BeginPublication, PreparedState, StateRecord
    <2> HIDE DEF g
    <2> QED BY <1>0, <2>1, <2>2, RegenerationRefreshes
  <1>2. CASE MarkFormalApplied(p)
    <2>1. /\ st'.receipts = st.receipts /\ st'.startKey = st.startKey
          /\ st'.nextSession = st.nextSession /\ st'.sess = st.sess
      BY <1>0, <1>2 DEF MarkFormalApplied, StateRecord
    <2> QED BY <2>1 DEF Refreshed
  <1>3. CASE ClearAttempt(p)
    <2>1. LoadableState(st) /\ st.pub # None
      BY <1>3 DEF ClearAttempt, TypeInv, HoldInv
    <2>2. /\ st.pub.sid = st.active /\ st.active # NoSession
          /\ Active(st.sess[st.active])
      BY <1>0, <2>1, AttemptSession, ActiveSession
    <2>3. /\ st'.receipts = st.receipts /\ st'.startKey = st.startKey
          /\ st'.nextSession = st.nextSession
          /\ st'.sess = [st.sess EXCEPT ![st.active] = [@ EXCEPT !.gen = g]]
      BY <1>0, <1>3, <2>2 DEF ClearAttempt, StateRecord
    <2> HIDE DEF g
    <2> QED BY <1>0, <2>1, <2>2, <2>3, RegenerationRefreshes
  <1> QED BY <1>1, <1>2, <1>3

LEMMA SessionSteps ==
  ASSUME TypeInv, SameGenerationSameState, [Next]_vars
  PROVE  Refreshed \/ Moved \/ Opened \/ \E p \in Procs : UndoCommand(p)
PROOF
  <1>0. st \in StateRecord
    BY DEF TypeInv, TypeOK
  <1>1. ASSUME UNCHANGED st PROVE Refreshed
    BY <1>1 DEF Refreshed
  <1>2. ASSUME NEW p \in Procs,
               \/ RecoverStaleLease(p) \/ AcquireNormalFlow(p)
               \/ ReleaseNormalFlow(p)
               \/ \E key \in CommandKeys : ClaimCommandFence(p, key)
               \/ ReleaseCommandFence(p) \/ RecoverCommandFence(p)
        PROVE  Refreshed
    <2>1. /\ st'.receipts = st.receipts /\ st'.startKey = st.startKey
          /\ st'.nextSession = st.nextSession /\ st'.sess = st.sess
      BY <1>0, <1>2 DEF RecoverStaleLease, AcquireNormalFlow,
         ReleaseNormalFlow, ClaimCommandFence, ReleaseCommandFence,
         RecoverCommandFence, StateRecord
    <2> QED BY <2>1 DEF Refreshed
  <1>3. ASSUME NEW p \in Procs,
               \/ LegacyWrite(p) \/ StartManuscript(p) \/ FinishManuscript(p)
               \/ PrepareCommand(p) \/ AnswerCommand(p) \/ RemoveJournal(p)
               \/ LeaveCommand(p) \/ RecoverCommand(p)
               \/ \E key \in StartKeys : BeginStart(p, key)
               \/ \E op \in MutateOps : BeginMutate(p, op)
               \/ RejectCommand(p) \/ Crash(p) \/ ValidatePublish(p)
               \/ CaptureFormalSnapshot(p) \/ BeginPublicationFails(p)
               \/ WriteFormal(p) \/ WriteFormalFails(p)
               \/ CompletePublicationFails(p) \/ RollbackPublication(p)
               \/ RecoverPublication(p) \/ AbandonPublication(p)
        PROVE  UNCHANGED st
    BY <1>3 DEF LegacyWrite, StartManuscript, FinishManuscript, PrepareCommand,
         AnswerCommand, RemoveJournal, LeaveCommand, RecoverCommand,
         BeginStart, BeginMutate, RejectCommand, Crash, ValidatePublish,
         CaptureFormalSnapshot, BeginPublicationFails, WriteFormal,
         WriteFormalFails, CompletePublicationFails, RollbackPublication,
         RecoverPublication, AbandonPublication
  <1>4. CASE UNCHANGED vars
    BY <1>1, <1>4 DEF vars
  <1>5. CASE Next
    BY <1>1, <1>2, <1>3, <1>5, CommitSteps, CompleteSteps, AttemptSteps
       DEF Next, Publication, Command
  <1> QED BY <1>4, <1>5
-----------------------------------------------------------------------------
(* What the ledger always satisfies: identifiers are handed out in order,  *)
(* and a receipt names a revision its session has left.                    *)
LedgerOf(s) ==
  /\ \A i \in Sessions :
       (s.sess[i] # None \/ s.startKey[i] # None) => i <= s.nextSession
  /\ \A i \in Sessions, r \in Nat : <<i, r>> \in s.receipts =>
       s.sess[i] # None /\ r < s.sess[i].revision
  /\ \A i, j \in Sessions :
       s.startKey[i] # None /\ s.startKey[i] = s.startKey[j] => i = j

LedgerInv == LedgerOf(st)

LEMMA LedgerInit == Init => LedgerInv
  BY DEF Init, LedgerInv, LedgerOf, StartOnce

LEMMA LedgerRefreshed ==
  ASSUME LedgerInv, Refreshed
  PROVE  LedgerInv'
PROOF
  <1>1. \A i \in Sessions :
          /\ (st'.sess[i] # None) <=> (st.sess[i] # None)
          /\ st'.sess[i].revision = st.sess[i].revision
    BY NoneAssumption DEF Refreshed
  <1> QED BY <1>1 DEF LedgerInv, LedgerOf, StartOnce, Refreshed

LEMMA LedgerMoved ==
  ASSUME LedgerInv, Moved
  PROVE  LedgerInv'
PROOF
  <1> DEFINE a == st.active
             r0 == st.sess[a].revision
  <1>1. /\ a \in Sessions /\ st.sess[a] # None /\ st'.sess[a] # None
        /\ r0 \in Nat /\ st'.sess[a].revision = r0 + 1
        /\ \A i \in Sessions \ {a} : st'.sess[i] = st.sess[i]
        /\ st'.receipts = st.receipts \cup {<<a, r0>>}
        /\ st'.startKey = st.startKey /\ st'.nextSession = st.nextSession
    BY NoneAssumption, SessionFields DEF Moved
  <1> HIDE DEF a
  <1>2. ASSUME NEW i \in Sessions,
               st'.sess[i] # None \/ st'.startKey[i] # None
        PROVE  i <= st'.nextSession
    BY <1>1, <1>2 DEF LedgerInv, LedgerOf
  <1>3. ASSUME NEW i \in Sessions, NEW r \in Nat, <<i, r>> \in st'.receipts
        PROVE  st'.sess[i] # None /\ r < st'.sess[i].revision
    <2>1. CASE i = a
      <3> HIDE DEF r0
      <3>1. <<i, r>> \in st.receipts => r < r0
        BY <2>1 DEF LedgerInv, LedgerOf, r0
      <3>2. r < r0 \/ r = r0
        BY <1>1, <1>3, <3>1
      <3> QED BY <1>1, <2>1, <3>2
    <2>2. CASE i # a
      <3>1. <<i, r>> \in st.receipts /\ st'.sess[i] = st.sess[i]
        BY <1>1, <1>3, <2>2
      <3> QED BY <3>1 DEF LedgerInv, LedgerOf
    <2> QED BY <2>1, <2>2
  <1>4. StartOnce'
    BY <1>1 DEF LedgerInv, LedgerOf, StartOnce
  <1> QED BY <1>2, <1>3, <1>4 DEF LedgerInv, LedgerOf, StartOnce

LEMMA LedgerOpened ==
  ASSUME LedgerInv, st \in StateRecord,
         NEW key \in StartKeys, NEW n \in Sessions, OpenedWith(key, n)
  PROVE  /\ LedgerInv'
         /\ st.sess[n] = None
PROOF
  <1>1. st.nextSession \in Nat /\ n = st.nextSession + 1
    BY StateFields DEF OpenedWith
  <1>2. st.sess[n] = None /\ st.startKey[n] = None
    BY <1>1 DEF LedgerInv, LedgerOf
  <1>3. /\ \A i \in Sessions \ {n} : /\ st'.sess[i] = st.sess[i]
                                     /\ st'.startKey[i] = st.startKey[i]
        /\ st'.startKey[n] = key
        /\ st'.receipts = st.receipts /\ st'.nextSession = n
    BY StateFields DEF OpenedWith
  <1>4. ASSUME NEW i \in Sessions,
               st'.sess[i] # None \/ st'.startKey[i] # None
        PROVE  i <= st'.nextSession
    <2>1. i # n => i <= st.nextSession
      BY <1>3, <1>4 DEF LedgerInv, LedgerOf, StartOnce
    <2> QED BY <1>1, <1>3, <2>1 DEF Sessions
  <1>5. ASSUME NEW i \in Sessions, NEW r \in Nat, <<i, r>> \in st'.receipts
        PROVE  st'.sess[i] # None /\ r < st'.sess[i].revision
    <2>1. <<i, r>> \in st.receipts
      BY <1>3, <1>5
    <2>2. st.sess[i] # None /\ r < st.sess[i].revision
      BY <2>1 DEF LedgerInv, LedgerOf
    <2> QED BY <1>2, <1>3, <2>2
  <1>6. StartOnce'
    <2>1. \A i \in Sessions : st.startKey[i] # key
      BY DEF OpenedWith, HasStartReceipt
    <2> QED BY <1>3, <2>1 DEF LedgerInv, LedgerOf, StartOnce
  <1> QED BY <1>2, <1>4, <1>5, <1>6 DEF LedgerInv, LedgerOf, StartOnce

(* A history goes on: no session, revision or receipt is lost, every       *)
(* revision passed left its receipt, and what ended stays as it is.        *)
Grown(a, b) ==
  /\ a.receipts \subseteq b.receipts
  /\ \A i \in Sessions : a.sess[i] # None =>
       /\ b.sess[i] # None
       /\ a.sess[i].revision <= b.sess[i].revision
       /\ \A n \in a.sess[i].revision..(b.sess[i].revision - 1) :
            <<i, n>> \in b.receipts \ a.receipts
       /\ ~Active(a.sess[i]) => b.sess[i] = a.sess[i]

Revision(s, i) == s.sess[i].revision

LEMMA RevisionType ==
  ASSUME NEW s \in StateRecord, NEW i \in Sessions, s.sess[i] # None
  PROVE  Revision(s, i) \in Nat
PROOF
  <1>1. s.sess[i] \in Session
    BY StateFields
  <1> QED BY <1>1, SessionFields DEF Revision

LEMMA GrownItself ==
  ASSUME NEW a \in StateRecord
  PROVE  Grown(a, a)
PROOF
  <1>1. ASSUME NEW i \in Sessions, a.sess[i] # None
        PROVE  /\ Revision(a, i) <= Revision(a, i)
               /\ Revision(a, i)..(Revision(a, i) - 1) = {}
    BY <1>1, RevisionType
  <1> QED BY <1>1 DEF Grown, Revision

LEMMA GrownTransitive ==
  ASSUME NEW a \in StateRecord, NEW b \in StateRecord, NEW c \in StateRecord,
         Grown(a, b), Grown(b, c)
  PROVE  Grown(a, c)
PROOF
  <1>1. a.receipts \subseteq b.receipts /\ b.receipts \subseteq c.receipts
    BY DEF Grown
  <1>2. ASSUME NEW i \in Sessions, a.sess[i] # None
        PROVE  /\ c.sess[i] # None
               /\ Revision(a, i) <= Revision(c, i)
               /\ \A n \in Revision(a, i)..(Revision(c, i) - 1) :
                    <<i, n>> \in c.receipts \ a.receipts
               /\ ~Active(a.sess[i]) => c.sess[i] = a.sess[i]
    <2>1. /\ b.sess[i] # None /\ Revision(a, i) <= Revision(b, i)
          /\ \A n \in Revision(a, i)..(Revision(b, i) - 1) :
               <<i, n>> \in b.receipts \ a.receipts
          /\ ~Active(a.sess[i]) => b.sess[i] = a.sess[i]
      BY <1>2 DEF Grown, Revision
    <2>2. /\ c.sess[i] # None /\ Revision(b, i) <= Revision(c, i)
          /\ \A n \in Revision(b, i)..(Revision(c, i) - 1) :
               <<i, n>> \in c.receipts \ b.receipts
          /\ ~Active(b.sess[i]) => c.sess[i] = b.sess[i]
      BY <2>1 DEF Grown, Revision
    <2>3. /\ Revision(a, i) \in Nat /\ Revision(b, i) \in Nat
          /\ Revision(c, i) \in Nat
      BY <1>2, <2>1, <2>2, RevisionType
    <2>4. Revision(a, i) <= Revision(c, i)
      BY <2>1, <2>2, <2>3
    <2>5. ASSUME NEW n \in Revision(a, i)..(Revision(c, i) - 1)
          PROVE  <<i, n>> \in c.receipts \ a.receipts
      <3>1. \/ n \in Revision(a, i)..(Revision(b, i) - 1)
            \/ n \in Revision(b, i)..(Revision(c, i) - 1)
        BY <2>3
      <3>2. \/ <<i, n>> \in b.receipts \ a.receipts
            \/ <<i, n>> \in c.receipts \ b.receipts
        BY <2>1, <2>2, <3>1
      <3> QED BY <1>1, <3>2
    <2>6. ~Active(a.sess[i]) => c.sess[i] = a.sess[i]
      BY <2>1, <2>2
    <2> QED BY <2>2, <2>4, <2>5, <2>6
  <1> QED BY <1>1, <1>2 DEF Grown, Revision

OneStep == \A i \in Sessions : st.sess[i] # None =>
  /\ st'.sess[i] # None
  /\ st'.sess[i].revision \in {st.sess[i].revision, st.sess[i].revision + 1}

LEMMA StepGrows ==
  ASSUME TypeInv, LedgerInv, Refreshed \/ Moved \/ Opened
  PROVE  Grown(st, st') /\ OneStep
PROOF
  <1>0. st \in StateRecord
    BY DEF TypeInv, TypeOK
  <1>1. ASSUME NEW i \in Sessions, st.sess[i] # None,
               st'.sess[i] # None, Revision(st', i) = Revision(st, i)
        PROVE  /\ Revision(st, i) <= Revision(st', i)
               /\ Revision(st, i)..(Revision(st', i) - 1) = {}
    BY <1>0, <1>1, RevisionType
  <1>2. ASSUME st.receipts \subseteq st'.receipts,
               \A i \in Sessions : st.sess[i] # None =>
                 /\ st'.sess[i] # None
                 /\ Revision(st', i) = Revision(st, i)
                 /\ ~Active(st.sess[i]) => st'.sess[i] = st.sess[i]
        PROVE  Grown(st, st') /\ OneStep
    BY <1>1, <1>2 DEF Grown, OneStep, Revision
  <1>3. CASE Refreshed
    <2>1. /\ st.receipts \subseteq st'.receipts
          /\ \A i \in Sessions : st.sess[i] # None =>
                 /\ st'.sess[i] # None
                 /\ Revision(st', i) = Revision(st, i)
                 /\ ~Active(st.sess[i]) => st'.sess[i] = st.sess[i]
      BY <1>3, NoneAssumption DEF Refreshed, Revision
    <2> QED BY <1>2, <2>1
  <1>4. CASE Moved
    <2> DEFINE a == st.active
               r0 == Revision(st, a)
    <2>1. /\ a \in Sessions /\ st.sess[a] # None /\ st'.sess[a] # None
          /\ Active(st.sess[a])
          /\ Revision(st', a) = r0 + 1
          /\ \A i \in Sessions \ {a} : st'.sess[i] = st.sess[i]
          /\ st'.receipts = st.receipts \cup {<<a, r0>>}
      BY <1>4, NoneAssumption DEF Moved, Revision
    <2>2. r0 \in Nat
      BY <1>0, <2>1, RevisionType
    <2>3. <<a, r0>> \notin st.receipts
      <3>1. ~(r0 < r0)
        BY <2>2
      <3> QED BY <2>1, <2>2, <3>1 DEF LedgerInv, LedgerOf, Revision
    <2>4. r0 <= r0 + 1 /\ r0..(r0 + 1 - 1) = {r0}
      BY <2>2
    <2> HIDE DEF a, r0
    <2>5. ASSUME NEW i \in Sessions, i # a, st.sess[i] # None
          PROVE  /\ st'.sess[i] = st.sess[i]
                 /\ Revision(st, i) <= Revision(st', i)
                 /\ Revision(st, i)..(Revision(st', i) - 1) = {}
      <3>1. st'.sess[i] = st.sess[i]
        BY <2>1, <2>5
      <3>2. st'.sess[i] # None /\ Revision(st', i) = Revision(st, i)
        BY <2>5, <3>1 DEF Revision
      <3> QED BY <1>1, <2>5, <3>1, <3>2
    <2>6. Revision(st, a) = r0
      BY DEF r0
    <2>7. ASSUME NEW i \in Sessions, st.sess[i] # None
          PROVE  /\ st'.sess[i] # None
                 /\ Revision(st, i) <= Revision(st', i)
                 /\ \A n \in Revision(st, i)..(Revision(st', i) - 1) :
                      <<i, n>> \in st'.receipts \ st.receipts
                 /\ ~Active(st.sess[i]) => st'.sess[i] = st.sess[i]
                 /\ Revision(st', i) \in {Revision(st, i), Revision(st, i) + 1}
      <3>1. CASE i = a
        BY <2>1, <2>3, <2>4, <2>6, <3>1
      <3>2. CASE i # a
        <4>1. st'.sess[i] = st.sess[i] /\ Revision(st', i) = Revision(st, i)
          BY <2>5, <2>7, <3>2 DEF Revision
        <4> QED BY <2>5, <2>7, <3>2, <4>1
      <3> QED BY <3>1, <3>2
    <2> QED BY <2>1, <2>7 DEF Grown, OneStep, Revision
  <1>5. CASE Opened
    <2>1. PICK key \in StartKeys, n \in Sessions : OpenedWith(key, n)
      BY <1>5 DEF Opened
    <2>2. st.sess[n] = None
      BY <1>0, <2>1, LedgerOpened
    <2>3. /\ st.receipts \subseteq st'.receipts
          /\ \A i \in Sessions : st.sess[i] # None =>
                 /\ st'.sess[i] # None
                 /\ Revision(st', i) = Revision(st, i)
                 /\ ~Active(st.sess[i]) => st'.sess[i] = st.sess[i]
      BY <2>1, <2>2 DEF OpenedWith, Revision
    <2> QED BY <1>2, <2>3
  <1> QED BY <1>3, <1>4, <1>5

(* The journal keeps a ledger of its own, which the book goes on from.     *)
SavedLedger ==
  Prepared => LedgerOf(journal.state) /\ Grown(journal.state, st)

LedgersInv == CoreInv /\ LedgerInv /\ SavedLedger

LEMMA LedgersInit == Init => LedgersInv
  BY OwnershipInit, LedgerInit DEF Init, LedgersInv, SavedLedger, Prepared

LEMMA LedgersNext == LedgersInv /\ [Next]_vars => LedgersInv'
PROOF
  <1> SUFFICES ASSUME LedgersInv, [Next]_vars PROVE LedgersInv'
    OBVIOUS
  <1>1. CoreInv'
    BY OwnershipNext DEF LedgersInv
  <1>2. /\ CoreInv /\ TypeInv /\ SameGenerationSameState /\ SavedInv
        /\ ExclusiveOwnership /\ LedgerInv /\ SavedLedger /\ st \in StateRecord
    BY DEF LedgersInv, CoreInv, TypeInv, TypeOK
  <1>3. st' \in StateRecord
    BY <1>1 DEF CoreInv, TypeInv, TypeOK
  <1>4. ASSUME NEW p \in Procs, UndoCommand(p)
        PROVE  Prepared /\ st' = journal.state /\ journal.state \in StateRecord
    BY <1>2, <1>4, RestoredIsSaved, JournalFields DEF UndoCommand
  <1>5. LedgerInv'
    <2>1. ASSUME NEW p \in Procs, UndoCommand(p)
          PROVE  LedgerInv'
      BY <1>2, <1>4, <2>1 DEF LedgerInv, SavedLedger, LedgerOf
    <2> QED BY <1>2, <2>1, SessionSteps, LedgerRefreshed, LedgerMoved,
               LedgerOpened DEF Opened
  <1>6. SavedLedger'
    <2>1. CASE UNCHANGED vars
      BY <1>2, <2>1 DEF vars, SavedLedger, Prepared
    <2>2. ASSUME NEW p \in Procs, PrepareCommand(p)
          PROVE  SavedLedger'
      <3>1. st' = st /\ journal'.state = st
        BY <2>2 DEF PrepareCommand
      <3>2. Grown(st, st) /\ LedgerOf(st)
        BY <1>2, GrownItself DEF LedgerInv
      <3> QED BY <3>1, <3>2 DEF SavedLedger
    <2>3. ASSUME NEW p \in Procs, AnswerCommand(p)
          PROVE  SavedLedger'
      <3>1. /\ journal \in Journal /\ Prepared /\ UNCHANGED st
            /\ journal' = [journal EXCEPT !.answered = TRUE]
        BY <1>2, <2>3, JournalFields DEF AnswerCommand
      <3>2. journal'.state = journal.state
        BY <3>1 DEF Journal
      <3> QED BY <1>2, <3>1, <3>2 DEF SavedLedger
    <2>4. ASSUME NEW p \in Procs, RemoveJournal(p)
          PROVE  SavedLedger'
      BY <2>4 DEF RemoveJournal, SavedLedger, Prepared
    <2>5. CASE UNCHANGED journal /\ ~Prepared
      BY <2>5 DEF SavedLedger, Prepared
    <2>6. CASE UNCHANGED journal /\ Prepared /\ Next
      <3>1. /\ LedgerOf(journal.state) /\ Grown(journal.state, st)
            /\ journal.state \in StateRecord /\ journal'.state = journal.state
        BY <1>2, <2>6, JournalFields DEF SavedLedger
      <3>2. CASE UNCHANGED st
        BY <3>1, <3>2 DEF SavedLedger
      <3>3. ASSUME NEW p \in Procs, UndoCommand(p)
            PROVE  SavedLedger'
        <4>1. Grown(journal.state, st')
          BY <1>4, <3>1, <3>3, GrownItself
        <4> QED BY <3>1, <4>1 DEF SavedLedger
      <3>4. ASSUME NEW p \in Procs, CommitOptimistic(p)
            PROVE  SavedLedger'
        <4>1. Grown(st, st')
          BY <1>2, <3>4, CommitSteps, StepGrows
        <4>2. Grown(journal.state, st')
          BY <1>2, <1>3, <3>1, <4>1, GrownTransitive
        <4> QED BY <3>1, <4>2 DEF SavedLedger
      <3> QED BY <1>2, <2>6, <3>2, <3>3, <3>4, PreparedKinds
    <2> QED BY <2>1, <2>2, <2>3, <2>4, <2>5, <2>6, JournalKinds
  <1> QED BY <1>1, <1>5, <1>6 DEF LedgersInv

(* A repeated Start opens no second session, for any number of processes   *)
(* that race between its two transactions, and also when an adaptation     *)
(* command that was undone had started one.                                *)
THEOREM StartOnceCorrect == Spec => []StartOnce
PROOF
  <1>1. LedgersInv => StartOnce
    BY DEF LedgersInv, LedgerInv, LedgerOf, StartOnce
  <1> QED BY LedgersInit, LedgersNext, <1>1, PTL DEF Spec

(* What is settled goes from a state to the next one, or from the journal  *)
(* to the state the answered command has made.                             *)
LEMMA SettledKinds ==
  ASSUME CoreInv, [Next]_vars
  PROVE  \/ Settled' = Settled
         \/ Settled = st /\ Settled' = st' /\ ~(\E p \in Procs : UndoCommand(p))
         \/ Prepared /\ Settled = journal.state /\ Settled' = st /\ UNCHANGED st
PROOF
  <1>0. TypeInv /\ CommandInv /\ SavedInv
    BY DEF CoreInv
  <1>1. CASE UNCHANGED vars
    BY <1>1 DEF vars, Settled, Prepared
  <1>2. ASSUME NEW p \in Procs, PrepareCommand(p)
        PROVE  Settled' = Settled
    <2>1. /\ ~Prepared /\ UNCHANGED st /\ journal'.state = st
          /\ journal'.answered = FALSE
      BY <1>2 DEF PrepareCommand
    <2> QED BY <2>1 DEF Settled
  <1>3. ASSUME NEW p \in Procs, AnswerCommand(p)
        PROVE  Prepared /\ Settled = journal.state /\ Settled' = st /\ UNCHANGED st
    <2>1. /\ journal \in Journal /\ Prepared /\ InCommand(p) /\ UNCHANGED st
          /\ journal' = [journal EXCEPT !.answered = TRUE] /\ pc[p] = "idle"
      BY <1>0, <1>3, JournalFields DEF AnswerCommand
    <2>2. journal'.answered = TRUE
      BY <2>1 DEF Journal
    <2>3. ~journal.answered
      BY <1>0, <2>1 DEF CommandInv
    <2> QED BY <2>1, <2>2, <2>3 DEF Settled
  <1>4. ASSUME NEW p \in Procs, RemoveJournal(p)
        PROVE  Settled' = Settled
    <2>1. /\ ~Prepared' /\ UNCHANGED st /\ Prepared
          /\ journal.answered \/ st = journal.state
      BY <1>0, <1>4 DEF RemoveJournal, Prepared, CommandInv
    <2> QED BY <2>1 DEF Settled
  <1>5. CASE UNCHANGED journal
    <2>1. ASSUME NEW p \in Procs, UndoCommand(p)
          PROVE  Prepared /\ ~journal.answered
      BY <1>0, <2>1 DEF UndoCommand, CommandInv
    <2> QED BY <1>5, <2>1 DEF Settled, Prepared
  <1> QED BY <1>1, <1>2, <1>3, <1>4, <1>5, JournalKinds

(* Who undoes a command takes it back, before it is answered.              *)
LEMMA UndoTakesBack ==
  ASSUME CoreInv, NEW p \in Procs, UndoCommand(p)
  PROVE  TakesBack
  BY DEF CoreInv, CommandInv, UndoCommand, TakesBack

LEMMA SettledGrows ==
  ASSUME LedgersInv, [Next]_vars
  PROVE  /\ Grown(Settled, Settled')
         /\ TakesBack \/ OneStep
PROOF
  <1>1. /\ CoreInv /\ TypeInv /\ SameGenerationSameState /\ LedgerInv
        /\ SavedLedger /\ st \in StateRecord
    BY DEF LedgersInv, CoreInv, TypeInv, TypeOK
  <1>2. (Grown(st, st') /\ OneStep) \/ \E p \in Procs : UndoCommand(p)
    BY <1>1, SessionSteps, StepGrows
  <1>3. Settled \in StateRecord
    BY <1>1, JournalFields DEF Settled
  <1>4. Grown(Settled, Settled')
    <2>1. CASE Settled' = Settled
      BY <1>3, <2>1, GrownItself
    <2>2. CASE /\ Settled = st /\ Settled' = st'
               /\ ~(\E p \in Procs : UndoCommand(p))
      BY <1>2, <2>2
    <2>3. CASE Prepared /\ Settled = journal.state /\ Settled' = st
      BY <1>1, <2>3 DEF SavedLedger
    <2> QED BY <1>1, <2>1, <2>2, <2>3, SettledKinds
  <1>5. TakesBack \/ OneStep
    BY <1>1, <1>2, UndoTakesBack
  <1> QED BY <1>4, <1>5

(* No command is lost or applied twice: what is settled never goes back,   *)
(* every revision a session passes leaves a receipt that was not there     *)
(* before, and outside the step that undoes an unanswered adaptation       *)
(* command a session moves by one revision at most.                        *)
THEOREM SerializedCorrect == Spec => CommandsSerialized
PROOF
  <1> DEFINE A ==
        /\ Settled.receipts \subseteq Settled'.receipts
        /\ \A i \in Sessions : Settled.sess[i] # None =>
             LET from == Settled.sess[i].revision
                 to == Settled'.sess[i].revision
             IN  /\ Settled'.sess[i] # None
                 /\ from <= to
                 /\ \A n \in from..(to - 1) :
                      <<i, n>> \in Settled'.receipts \ Settled.receipts
        /\ \/ TakesBack
           \/ \A i \in Sessions : st.sess[i] # None =>
                /\ st'.sess[i] # None
                /\ st'.sess[i].revision \in
                     {st.sess[i].revision, st.sess[i].revision + 1}
  <1>1. ASSUME LedgersInv, [Next]_vars PROVE A
    <2>1. Grown(Settled, Settled') /\ (TakesBack \/ OneStep)
      BY <1>1, SettledGrows
    <2> HIDE DEF TakesBack
    <2> QED BY <2>1 DEF Grown, OneStep
  <1> QED BY LedgersInit, LedgersNext, <1>1, PTL DEF Spec, CommandsSerialized

(* A completed or cancelled session is never written again, once it ended  *)
(* by a command that is settled.                                           *)
THEOREM TerminalCorrect == Spec => TerminalSessionsAreFinal
PROOF
  <1>1. LedgersInv /\ [Next]_vars =>
          \A i \in Sessions :
            Settled.sess[i] # None /\ ~Active(Settled.sess[i]) =>
              Settled'.sess[i] = Settled.sess[i]
    BY SettledGrows DEF Grown
  <1> QED BY LedgersInit, LedgersNext, <1>1, PTL
          DEF Spec, TerminalSessionsAreFinal
-----------------------------------------------------------------------------
(* The generation stands for what a token, a fence or a directive was      *)
(* derived from: whoever changes that moves it, and nothing but the undo   *)
(* of an unanswered command moves it back.                                 *)
THEOREM GenerationCorrect == Spec => GenerationAdvances
PROOF
  <1> DEFINE Epoch(s) == <<s.lease, s.active, s.pub = None,
                           IF s.active = NoSession THEN 0
                           ELSE s.sess[s.active].revision>>
             A == /\ Settled'.gen >= Settled.gen
                  /\ Epoch(Settled') # Epoch(Settled) =>
                       Settled'.gen > Settled.gen
                  /\ st'.gen >= st.gen \/ TakesBack
  <1>1. ASSUME CoreInv, CoreInv', [Next]_vars PROVE A
    <2>0. /\ TypeInv /\ SameGenerationSameState /\ SavedInv
          /\ st \in StateRecord /\ st' \in StateRecord
          /\ st.gen \in Nat /\ st'.gen \in Nat
      BY <1>1, StateFields DEF CoreInv, TypeInv, TypeOK
    <2>1. ASSUME ~(\E p \in Procs : UndoCommand(p))
          PROVE  /\ st'.gen >= st.gen
                 /\ Epoch(st') # Epoch(st) => st'.gen > st.gen
      <3>1. CASE UNCHANGED st
        BY <2>0, <3>1
      <3>2. CASE Unfenced(st') = Unfenced(st) /\ st'.gen = st.gen
        <4>1. /\ st'.lease = st.lease /\ st'.pub = st.pub
              /\ st'.active = st.active /\ st'.sess = st.sess
          BY <2>0, <3>2, UnfencedFields
        <4> QED BY <2>0, <3>2, <4>1
      <3>3. ASSUME NEW p \in Procs, MarkFormalApplied(p), st.pub # None,
                   st'.pub # None, st'.gen = st.gen
            PROVE  /\ st'.gen >= st.gen
                   /\ Epoch(st') # Epoch(st) => st'.gen > st.gen
        <4>1. /\ st'.lease = st.lease /\ st'.active = st.active
              /\ st'.sess = st.sess
          BY <2>0, <3>3 DEF MarkFormalApplied, StateRecord
        <4> QED BY <2>0, <3>3, <4>1
      <3>4. CASE st'.gen = st.gen + 1
        BY <2>0, <3>4
      <3>5. CASE UNCHANGED vars
        BY <3>1, <3>5 DEF vars
      <3>6. CASE Next
        BY <2>0, <2>1, <3>1, <3>2, <3>3, <3>4, <3>6, StepKinds
      <3> QED BY <1>1, <3>5, <3>6
    <2>2. st'.gen >= st.gen \/ TakesBack
      BY <1>1, <2>1, UndoTakesBack
    <2>3. /\ Settled'.gen >= Settled.gen
          /\ Epoch(Settled') # Epoch(Settled) => Settled'.gen > Settled.gen
      <3>1. CASE Settled' = Settled
        <4>1. Settled \in StateRecord
          BY <2>0, JournalFields DEF Settled
        <4> QED BY <3>1, <4>1, StateFields
      <3>2. CASE /\ Settled = st /\ Settled' = st'
                 /\ ~(\E p \in Procs : UndoCommand(p))
        BY <2>1, <3>2
      <3>3. CASE Prepared /\ Settled = journal.state /\ Settled' = st
        <4>1. /\ Succeeds(journal.state, st) /\ journal.state \in StateRecord
              /\ journal.state.gen \in Nat
          BY <2>0, <3>3, JournalFields, StateFields DEF SavedInv
        <4>2. journal.state.gen = st.gen =>
                Epoch(journal.state) = Epoch(st)
          <5>1. ASSUME journal.state.gen = st.gen
                PROVE  /\ st.lease = journal.state.lease
                       /\ st.pub = journal.state.pub
                       /\ st.active = journal.state.active
                       /\ st.sess = journal.state.sess
            BY <2>0, <4>1, <5>1, UnfencedFields DEF Succeeds
          <5> QED BY <5>1
        <4>3. journal.state.gen <= st.gen
          BY <4>1 DEF Succeeds
        <4> HIDE DEF Epoch
        <4> QED BY <2>0, <3>3, <4>1, <4>2, <4>3
      <3> QED BY <1>1, <3>1, <3>2, <3>3, SettledKinds
    <2> QED BY <2>2, <2>3
  <1>2. CoreInv /\ CoreInv' /\ [Next]_vars => A
    BY <1>1
  <1> QED BY OwnershipInit, OwnershipNext, <1>2, PTL
          DEF Spec, GenerationAdvances
-----------------------------------------------------------------------------
(* Candidates, accepted versions and approvals.                            *)

(* What a session holds, given the last version handed out.                *)
Versioned(s, n) ==
  /\ s.cand <= n
  /\ IsFiniteSet(s.accepted)
  /\ \A v \in s.accepted : 0 < v /\ v <= n /\ v # s.cand
  /\ s.stage # "cancelled" =>
       Cardinality(s.accepted) =
         IF EffectiveStage(s) \in {"ready_to_publish", "completed"}
         THEN s.approvals - 1 ELSE s.approvals

VersionsOf(s) ==
  /\ s.current <= s.nextVersion
  /\ \A i \in Sessions : s.sess[i] # None =>
       Versioned(s.sess[i], s.nextVersion)
  /\ s.active # NoSession =>
       \/ s.sess[s.active].cand = NoVersion
       \/ s.sess[s.active].cand > s.current

VersionInv == VersionsOf(st)

SavedVersions == Prepared => VersionsOf(journal.state)

LEMMA AcceptedType ==
  ASSUME NEW s \in Session
  PROVE  \A v \in s.accepted : v \in Nat
  BY DEF Session

LEMMA NextRoundVersions ==
  ASSUME NEW s \in Session, NEW n \in Nat, Versioned(s, n),
         s.stage \in Working \ {"ready_to_publish"}
  PROVE  Versioned(NextRound(s), n) /\ NextRound(s).cand = NoVersion
PROOF
  <1> DEFINE t == NextRound(s)
  <1>1. /\ t.cand = NoVersion /\ t.accepted = s.accepted
        /\ t.stage = "candidate_generating" /\ t.approvals = s.approvals
    BY DEF NextRound, Session
  <1>2. EffectiveStage(s) = s.stage /\ EffectiveStage(t) = t.stage
        /\ s.stage # "cancelled" /\ s.stage # "completed"
    BY <1>1 DEF EffectiveStage, Interrupted, Working
  <1> HIDE DEF t
  <1>3. Cardinality(t.accepted) = t.approvals
    BY <1>1, <1>2 DEF Versioned
  <1>4. \A v \in t.accepted : 0 < v /\ v <= n /\ v # NoVersion
    BY <1>1, AcceptedType DEF Versioned, NoVersion
  <1> QED BY <1>1, <1>2, <1>3, <1>4 DEF Versioned, NoVersion, t

(* Versioned reads these fields only.                                      *)
LEMMA SameVersions ==
  ASSUME NEW s, NEW t, NEW n, Versioned(s, n),
         t.cand = s.cand, t.accepted = s.accepted, t.approvals = s.approvals,
         t.stage # "cancelled" =>
           s.stage # "cancelled" /\
           (EffectiveStage(t) \in {"ready_to_publish", "completed"}
             <=> EffectiveStage(s) \in {"ready_to_publish", "completed"})
  PROVE  Versioned(t, n)
  BY DEF Versioned

LEMMA LaterVersions ==
  ASSUME NEW s \in Session, NEW n \in Nat, NEW m \in Nat, n <= m,
         Versioned(s, n)
  PROVE  Versioned(s, m)
PROOF
  <1>1. \A v \in s.accepted : v <= m
    BY AcceptedType DEF Versioned
  <1>2. s.cand <= m
    BY SessionFields DEF Versioned
  <1> QED BY <1>1, <1>2 DEF Versioned

LEMMA SubmittedVersions ==
  ASSUME NEW s \in Session, NEW n \in Nat, Versioned(s, n),
         CanSubmitCandidate(s)
  PROVE  Versioned(AfterSubmitCandidate(s, n + 1), n + 1)
PROOF
  <1> DEFINE t == AfterSubmitCandidate(s, n + 1)
  <1>1. /\ t.cand = n + 1 /\ t.accepted = s.accepted
        /\ t.stage = "candidate_audit_pending" /\ t.approvals = s.approvals
    BY DEF AfterSubmitCandidate, Session
  <1>2. /\ EffectiveStage(s) = "candidate_generating"
        /\ EffectiveStage(t) = "candidate_audit_pending"
        /\ s.stage # "cancelled"
    BY <1>1 DEF EffectiveStage, Interrupted, CanSubmitCandidate
  <1> HIDE DEF t
  <1>3. Cardinality(t.accepted) = t.approvals
    BY <1>1, <1>2 DEF Versioned
  <1>4. \A v \in t.accepted : 0 < v /\ v <= n + 1 /\ v # n + 1
    BY <1>1, AcceptedType DEF Versioned
  <1> QED BY <1>1, <1>2, <1>3, <1>4 DEF Versioned, t

LEMMA AuditedVersions ==
  ASSUME NEW s \in Session, NEW n \in Nat, Versioned(s, n),
         NEW passed \in BOOLEAN, CanRecordAudit(s, s.cand)
  PROVE  LET t == AfterRecordAudit(s, passed)
         IN  Versioned(t, n) /\ t.cand \in {s.cand, NoVersion}
PROOF
  <1> DEFINE t == [s EXCEPT !.audit = [round |-> s.round, cand |-> s.cand,
                                       passed |-> passed]]
             u == [t EXCEPT !.stage = "approval_pending"]
  <1>1. /\ t \in Session /\ t.cand = s.cand /\ t.accepted = s.accepted
        /\ t.approvals = s.approvals /\ t.stage = s.stage
        /\ t.resume = s.resume
    BY DEF Session
  <1>2. s.stage = "candidate_audit_pending"
    BY DEF CanRecordAudit
  <1>3. AfterRecordAudit(s, passed) = IF passed THEN u ELSE NextRound(t)
    BY DEF AfterRecordAudit
  <1> HIDE DEF t
  <1>4. Versioned(t, n)
    BY <1>1, <1>2, SameVersions DEF EffectiveStage
  <1>5. CASE passed
    <2>1. /\ u.cand = t.cand /\ u.accepted = t.accepted
          /\ u.approvals = t.approvals /\ u.stage = "approval_pending"
      BY <1>1 DEF Session
    <2> HIDE DEF u
    <2>2. /\ EffectiveStage(u) = "approval_pending"
          /\ EffectiveStage(t) = "candidate_audit_pending"
          /\ t.stage # "cancelled"
      BY <1>1, <1>2, <2>1 DEF EffectiveStage, Interrupted
    <2>3. Versioned(u, n)
      BY <1>4, <2>1, <2>2, SameVersions
    <2> QED BY <1>1, <1>3, <1>5, <2>1, <2>3
  <1>6. CASE ~passed
    <2>1. t.stage \in Working \ {"ready_to_publish"}
      BY <1>1, <1>2 DEF Working
    <2> QED BY <1>1, <1>3, <1>4, <1>6, <2>1, NextRoundVersions
  <1> QED BY <1>5, <1>6

LEMMA ApprovedVersions ==
  ASSUME NEW s \in Session, NEW n \in Nat, Versioned(s, n),
         CanApproveStage(s), s.cand # NoVersion
  PROVE  LET t == AfterApproveStage(s)
         IN  Versioned(t, n) /\ t.cand \in {s.cand, NoVersion}
PROOF
  <1> DEFINE t == [s EXCEPT !.approvals = @ + 1]
             u == [t EXCEPT !.accepted = @ \cup {s.cand}]
             r == [t EXCEPT !.stage = "ready_to_publish"]
  <1>1. /\ s.approvals + 1 \in 0..StageCount /\ s.approvals \in Nat
        /\ s.stage = "approval_pending" /\ s.cand \in Nat
    BY SessionFields, StageCountAssumption DEF CanApproveStage
  <1>2. EffectiveStage(s) = "approval_pending"
    BY <1>1 DEF EffectiveStage, Interrupted
  <1>3. /\ t \in Session /\ t.cand = s.cand /\ t.accepted = s.accepted
        /\ t.approvals = s.approvals + 1 /\ t.stage = s.stage
    BY <1>1 DEF Session
  <1>4. AfterApproveStage(s) = IF t.approvals = StageCount THEN r
                               ELSE NextRound(u)
    BY DEF AfterApproveStage
  <1>5. /\ Cardinality(s.accepted) = s.approvals /\ IsFiniteSet(s.accepted)
        /\ s.cand <= n
        /\ \A v \in s.accepted : 0 < v /\ v <= n /\ v # s.cand
    BY <1>1, <1>2 DEF Versioned
  <1> HIDE DEF t
  <1>6. Versioned(r, n) /\ r.cand = s.cand
    <2>1. /\ r.cand = s.cand /\ r.accepted = s.accepted
          /\ r.approvals = s.approvals + 1 /\ r.stage = "ready_to_publish"
      BY <1>3 DEF Session
    <2> HIDE DEF r
    <2>2. EffectiveStage(r) = "ready_to_publish"
      BY <2>1 DEF EffectiveStage, Interrupted
    <2>3. Cardinality(r.accepted) = r.approvals - 1
      BY <1>1, <1>5, <2>1
    <2> QED BY <1>5, <2>1, <2>2, <2>3 DEF Versioned
  <1>7. Versioned(NextRound(u), n) /\ NextRound(u).cand = NoVersion
    <2> DEFINE w == NextRound(u)
    <2>0. u \in Session
      BY <1>1, <1>3 DEF Session
    <2>1. /\ u.accepted = s.accepted \cup {s.cand}
          /\ u.approvals = s.approvals + 1
      BY <1>3 DEF Session
    <2> HIDE DEF u
    <2>2. /\ w.cand = NoVersion /\ w.accepted = s.accepted \cup {s.cand}
          /\ w.approvals = s.approvals + 1
          /\ w.stage = "candidate_generating"
      BY <2>0, <2>1 DEF NextRound, Session
    <2> HIDE DEF w
    <2>3. EffectiveStage(w) = "candidate_generating"
      BY <2>2 DEF EffectiveStage, Interrupted
    <2>4. /\ IsFiniteSet(w.accepted)
          /\ Cardinality(w.accepted) = s.approvals + 1
      <3>1. s.cand \notin s.accepted
        BY <1>5
      <3>2. /\ IsFiniteSet(s.accepted \cup {s.cand})
            /\ Cardinality(s.accepted \cup {s.cand}) =
                 Cardinality(s.accepted) + 1
        BY <1>5, <3>1, FS_AddElement
      <3> QED BY <1>5, <2>2, <3>2
    <2>5. \A v \in w.accepted : 0 < v /\ v <= n /\ v # NoVersion
      <3>1. 0 < s.cand
        BY <1>1 DEF NoVersion
      <3> QED BY <1>1, <1>5, <2>2, <3>1, AcceptedType DEF NoVersion
    <2> QED BY <2>2, <2>3, <2>4, <2>5 DEF Versioned, NoVersion, w
  <1> QED BY <1>4, <1>6, <1>7

LEMMA InterruptedVersions ==
  ASSUME NEW s \in Session, NEW n \in Nat, Versioned(s, n),
         CanInterrupt(s), NEW how \in Interrupted
  PROVE  LET t == AfterInterrupt(s, how)
         IN  Versioned(t, n) /\ t.cand = s.cand
PROOF
  <1> DEFINE t == AfterInterrupt(s, how)
  <1>1. /\ t.cand = s.cand /\ t.accepted = s.accepted
        /\ t.approvals = s.approvals /\ t.stage = how /\ t.resume = s.stage
    BY DEF AfterInterrupt, Session
  <1>2. EffectiveStage(t) = s.stage /\ EffectiveStage(s) = s.stage
        /\ s.stage # "cancelled"
    BY <1>1 DEF EffectiveStage, CanInterrupt, Working, Interrupted
  <1> HIDE DEF t
  <1>3. Versioned(t, n)
    BY <1>1, <1>2, SameVersions
  <1> QED BY <1>1, <1>3 DEF t

LEMMA ResumedVersions ==
  ASSUME NEW s \in Session, NEW n \in Nat, Versioned(s, n), CanResume(s)
  PROVE  LET t == AfterResume(s)
         IN  Versioned(t, n) /\ t.cand = s.cand
PROOF
  <1> DEFINE t == AfterResume(s)
  <1>1. /\ t.cand = s.cand /\ t.accepted = s.accepted
        /\ t.approvals = s.approvals /\ t.stage = s.resume
    BY DEF AfterResume, Session
  <1>2. EffectiveStage(t) = s.resume /\ EffectiveStage(s) = s.resume
        /\ s.stage # "cancelled"
    BY <1>1 DEF EffectiveStage, CanResume, Working, Interrupted
  <1> HIDE DEF t
  <1>3. Versioned(t, n)
    BY <1>1, <1>2, SameVersions
  <1> QED BY <1>1, <1>3 DEF t

LEMMA CancelledVersions ==
  ASSUME NEW s \in Session, NEW n \in Nat, Versioned(s, n)
  PROVE  LET t == AfterCancel(s)
         IN  Versioned(t, n) /\ t.cand = s.cand
PROOF
  <1> DEFINE t == AfterCancel(s)
  <1>1. /\ t.cand = s.cand /\ t.accepted = s.accepted
        /\ t.approvals = s.approvals /\ t.stage = "cancelled"
    BY DEF AfterCancel, Session
  <1> HIDE DEF t
  <1>3. Versioned(t, n)
    BY <1>1, SameVersions
  <1> QED BY <1>1, <1>3 DEF t

LEMMA ImpactVersions ==
  ASSUME NEW s \in Session, NEW n \in Nat, Versioned(s, n),
         CanApproveImpact(s)
  PROVE  LET t == AfterApproveImpact(s)
         IN  Versioned(t, n) /\ t.cand = s.cand
PROOF
  <1> DEFINE t == AfterApproveImpact(s)
  <1>1. /\ t.cand = s.cand /\ t.accepted = s.accepted
        /\ t.approvals = s.approvals
        /\ t.stage \in {"candidate_generating", "candidate_audit_pending"}
        /\ s.stage = "impact_review_pending"
    BY DEF AfterApproveImpact, CanApproveImpact, Session
  <1> HIDE DEF t
  <1>2. Versioned(t, n)
    BY <1>1, SameVersions DEF EffectiveStage, Interrupted
  <1> QED BY <1>1, <1>2 DEF t

LEMMA CompletedVersions ==
  ASSUME NEW s \in Session, NEW n \in Nat, Versioned(s, n), CanComplete(s)
  PROVE  Versioned(AfterComplete(s), n)
PROOF
  <1> DEFINE t == AfterComplete(s)
  <1>1. /\ t.cand = s.cand /\ t.accepted = s.accepted
        /\ t.approvals = s.approvals /\ t.stage = "completed"
        /\ s.stage = "ready_to_publish"
    BY DEF AfterComplete, CanComplete, Session
  <1> HIDE DEF t
  <1>2. Versioned(t, n)
    BY <1>1, SameVersions DEF EffectiveStage, Interrupted
  <1> QED BY <1>2 DEF t

(* What a command does to the versions of the session it applies to.       *)
LEMMA CommandVersions ==
  ASSUME NEW s \in Session, NEW n \in Nat, Versioned(s, n), ValidSession(s),
         NEW op \in MutateOps, Applies(op, s)
  PROVE  LET t == AfterCommand(op, s, n + 1)
         IN  /\ Versioned(t, NextVersions(op, n))
             /\ \/ t.cand \in {s.cand, NoVersion}
                \/ op = "submit_candidate" /\ t.cand = n + 1
PROOF
  <1>1. CASE op = "approve_impact"
    BY <1>1, ImpactVersions DEF AfterCommand, Applies, NextVersions
  <1>2. CASE op = "submit_candidate"
    <2>1. AfterSubmitCandidate(s, n + 1).cand = n + 1
      BY DEF AfterSubmitCandidate, Session
    <2> QED BY <1>2, <2>1, SubmittedVersions
            DEF AfterCommand, Applies, NextVersions
  <1>3. CASE op \in {"audit_pass", "audit_fail"}
    BY <1>3, AuditedVersions DEF AfterCommand, Applies, NextVersions
  <1>4. CASE op = "submit_feedback"
    <2>1. s.stage \in Working \ {"ready_to_publish"}
      BY <1>4 DEF Applies, CanSubmitFeedback, Working
    <2> QED BY <1>4, <2>1, NextRoundVersions
            DEF AfterCommand, AfterSubmitFeedback, NextVersions
  <1>5. CASE op = "approve_stage"
    <2>1. CanApproveStage(s)
      BY <1>5 DEF Applies
    <2>2. s.cand # NoVersion
      BY <2>1 DEF ValidSession, CanApproveStage, EffectiveStage, Interrupted
    <2> QED BY <1>5, <2>1, <2>2, ApprovedVersions
            DEF AfterCommand, NextVersions
  <1>6. CASE op \in {"pause", "fail"}
    <2>1. CanInterrupt(s)
      BY <1>6 DEF Applies
    <2>2. AfterCommand(op, s, n + 1) = AfterInterrupt(s, "paused")
          \/ AfterCommand(op, s, n + 1) = AfterInterrupt(s, "failed")
      BY <1>6 DEF AfterCommand
    <2> QED BY <1>6, <2>1, <2>2, InterruptedVersions
            DEF NextVersions, Interrupted
  <1>7. CASE op = "resume"
    BY <1>7, ResumedVersions DEF AfterCommand, Applies, NextVersions
  <1>8. CASE op = "cancel"
    BY <1>8, CancelledVersions DEF AfterCommand, NextVersions
  <1> QED BY <1>1, <1>2, <1>3, <1>4, <1>5, <1>6, <1>7, <1>8 DEF MutateOps

LEMMA VersionInit == Init => VersionInv
  BY DEF Init, VersionInv, VersionsOf, NoVersion

(* A rewrite of revision and generation leaves the versions alone.         *)
LEMMA StampedVersions ==
  ASSUME NEW t \in Session, NEW n \in Nat, Versioned(t, n), NEW g \in Nat
  PROVE  LET u == [t EXCEPT !.revision = @ + 1, !.gen = g]
             w == [t EXCEPT !.gen = g]
         IN  /\ Versioned(u, n) /\ u.cand = t.cand
             /\ Versioned(w, n) /\ w.cand = t.cand
PROOF
  <1> DEFINE u == [t EXCEPT !.revision = @ + 1, !.gen = g]
             w == [t EXCEPT !.gen = g]
  <1>1. /\ u.cand = t.cand /\ u.accepted = t.accepted
        /\ u.approvals = t.approvals /\ u.stage = t.stage
        /\ u.resume = t.resume
    BY DEF Session
  <1>2. /\ w.cand = t.cand /\ w.accepted = t.accepted
        /\ w.approvals = t.approvals /\ w.stage = t.stage
        /\ w.resume = t.resume
    BY DEF Session
  <1> HIDE DEF u, w
  <1>3. Versioned(u, n)
    BY <1>1, SameVersions DEF EffectiveStage
  <1>4. Versioned(w, n)
    BY <1>2, SameVersions DEF EffectiveStage
  <1> QED BY <1>1, <1>2, <1>3, <1>4 DEF u, w

(* One session is rewritten, the versions handed out do not go back.       *)
LEMMA VersionMoved ==
  ASSUME TypeInv, VersionInv, NEW a \in Sessions, NEW u \in Session,
         NEW n \in Nat, st.nextVersion <= n, Versioned(u, n),
         st'.nextVersion = n,
         st'.sess = [st.sess EXCEPT ![a] = u]
  PROVE  \A i \in Sessions : st'.sess[i] # None =>
           Versioned(st'.sess[i], st'.nextVersion)
PROOF
  <1> SUFFICES ASSUME NEW i \in Sessions, st'.sess[i] # None
               PROVE  Versioned(st'.sess[i], n)
    OBVIOUS
  <1>1. st.sess \in [Sessions -> Session \cup {None}] /\ st.nextVersion \in Nat
    BY StateFields DEF TypeInv, TypeOK
  <1>2. CASE i = a
    BY <1>1, <1>2
  <1>3. CASE i # a
    <2>1. st'.sess[i] = st.sess[i] /\ st.sess[i] \in Session
      BY <1>1, <1>3
    <2>2. Versioned(st.sess[i], st.nextVersion)
      BY <2>1, NoneAssumption DEF VersionInv, VersionsOf
    <2> QED BY <1>1, <2>1, <2>2, LaterVersions
  <1> QED BY <1>2, <1>3

LEMMA VersionCommit ==
  ASSUME CoreInv, VersionInv, NEW p \in Procs, CommitOptimistic(p)
  PROVE  VersionInv'
PROOF
  <1> DEFINE b == job[p].base
  <1>0. /\ st \in StateRecord /\ b \in StateRecord /\ LoadableState(b)
        /\ TypeInv /\ SameGenerationSameState
    BY CommitFacts DEF CoreInv, TypeInv, TypeOK
  <1>1. /\ st.gen = b.gen /\ st.active = b.active
        /\ st.nextSession = b.nextSession /\ st.sess = b.sess
        /\ st.nextVersion = b.nextVersion /\ st.current = b.current
    BY <1>0, CommitFacts, UnfencedFields
  <1>2. st.nextVersion \in Nat /\ st.gen + 1 \in Nat /\ st.current \in Nat
    BY <1>0, StateFields DEF StateRecord
  <1>3. CASE job[p].op = "start"
    <2> DEFINE w == StartedCopy(job[p].key, ModeOf(p), b)
               n == b.nextSession + 1
               new == NewSession(b.gen + 1, NoVersion)
    <2>1. st' = w /\ job[p].key \in StartKeys
      BY <1>0, <1>3, CommitFacts
    <2>2. /\ w.active = n
          /\ w.nextVersion = b.nextVersion /\ w.current = b.current
          /\ w.sess = [b.sess EXCEPT ![n] = new]
      BY <1>0, <2>1, StartedCopyFields DEF ModeOf
    <2>3. n \in Sessions
      <3>1. b.nextSession < MaxSession
        BY <1>0, <1>3 DEF TypeInv, JobInv, CommitOptimistic
      <3> QED BY <1>0, <3>1, StateFields, BoundsAssumption DEF Sessions
    <2>4. new \in Session /\ new.cand = NoVersion
      <3>1. 0 \in 0..StageCount /\ b.gen + 1 \in Nat
        BY <1>0, StateFields, StageCountAssumption
      <3> QED BY <3>1 DEF NewSession, Session, NoVersion, NoAudit,
                          RevisionStage, Working
    <2>5. Versioned(new, st.nextVersion)
      <3>1. /\ new.accepted = {} /\ new.stage = "impact_review_pending"
            /\ new.approvals = 0
        BY DEF NewSession
      <3>2. IsFiniteSet({}) /\ Cardinality({}) = 0
        BY FS_EmptySet
      <3> HIDE DEF new
      <3> QED BY <1>2, <2>4, <3>1, <3>2
              DEF Versioned, EffectiveStage, Interrupted, NoVersion
    <2>6. st.sess \in [Sessions -> Session \cup {None}]
      BY <1>0, StateFields
    <2> HIDE DEF w, new, n
    <2>7. /\ st'.active = n /\ st'.nextVersion = st.nextVersion
          /\ st'.current = st.current
          /\ st'.sess = [st.sess EXCEPT ![n] = new]
      BY <1>1, <2>1, <2>2
    <2>8. \A i \in Sessions : st'.sess[i] # None =>
            Versioned(st'.sess[i], st'.nextVersion)
      <3>1. st.nextVersion <= st.nextVersion
        BY <1>2
      <3> QED BY <1>0, <1>2, <2>3, <2>4, <2>5, <2>7, <3>1, VersionMoved
    <2>9. st'.sess[st'.active].cand = NoVersion
      BY <2>3, <2>4, <2>6, <2>7
    <2> QED BY <2>7, <2>8, <2>9 DEF VersionInv, VersionsOf
  <1>4. CASE job[p].op # "start"
    <2> DEFINE op == job[p].op
               w == WorkingCopy(op, b)
               old == b.sess[b.active]
               v == b.nextVersion + 1
               t == AfterCommand(op, old, v)
               u == [t EXCEPT !.revision = @ + 1, !.gen = b.gen + 1]
               m == NextVersions(op, b.nextVersion)
    <2>1. /\ st' = w /\ op \in MutateOps /\ b.active # NoSession
          /\ Applies(op, old)
      BY SMTT(30), <1>0, <1>4, CommitFacts
    <2>2. /\ w.nextVersion = m /\ w.current = b.current
          /\ w.active = IF Active(t) THEN b.active ELSE NoSession
          /\ w.sess = [b.sess EXCEPT ![b.active] = u]
      BY <1>0, <2>1, WorkingCopyFields
    <2>3. b.active \in Sessions /\ old \in Session
      BY <1>0, <2>1, ActiveSession
    <2>4. ValidSession(old) /\ Versioned(old, b.nextVersion)
      <3>1. old # None
        BY <2>3, NoneAssumption
      <3> QED BY <1>0, <1>1, <2>3, <3>1 DEF LoadableState, VersionInv, VersionsOf
    <2>5. /\ b.nextVersion \in Nat /\ v \in Nat /\ b.gen + 1 \in Nat
          /\ m \in Nat /\ b.nextVersion <= m
      BY <1>0, StateFields DEF NextVersions
    <2>6. t \in Session
      BY SMTT(30), <2>1, <2>3, <2>5, AfterCommandType
    <2>7. /\ Versioned(t, m)
          /\ \/ t.cand \in {old.cand, NoVersion}
             \/ t.cand = b.nextVersion + 1
      BY <2>1, <2>3, <2>4, <2>5, CommandVersions
    <2>8. t.cand = NoVersion \/ t.cand > st.current
      <3>1. old.cand = NoVersion \/ old.cand > st.current
        BY <1>1, <2>1 DEF VersionInv, VersionsOf
      <3>2. b.nextVersion + 1 > st.current
        BY <1>1, <1>2 DEF VersionInv, VersionsOf
      <3> QED BY <2>7, <3>1, <3>2
    <2> HIDE DEF t, m
    <2>9. u \in Session /\ Versioned(u, m) /\ u.cand = t.cand
      BY <2>5, <2>6, <2>7, StampedVersions, RevisedSession
    <2>10. st.sess \in [Sessions -> Session \cup {None}]
      BY <1>0, StateFields
    <2> HIDE DEF w, u, op
    <2>11. /\ st'.nextVersion = m /\ st'.current = st.current
           /\ st'.sess = [st.sess EXCEPT ![st.active] = u]
           /\ st'.active \in {st.active, NoSession}
      BY <1>1, <2>1, <2>2
    <2>12. \A i \in Sessions : st'.sess[i] # None =>
             Versioned(st'.sess[i], st'.nextVersion)
      BY <1>0, <1>1, <2>3, <2>5, <2>9, <2>11, VersionMoved
    <2>13. st'.active # NoSession =>
             \/ st'.sess[st'.active].cand = NoVersion
             \/ st'.sess[st'.active].cand > st'.current
      BY <1>1, <2>3, <2>8, <2>9, <2>10, <2>11
    <2>14. st'.current <= st'.nextVersion
      BY <1>1, <1>2, <2>5, <2>11 DEF VersionInv, VersionsOf
    <2> QED BY <2>12, <2>13, <2>14 DEF VersionInv, VersionsOf
  <1> QED BY <1>3, <1>4

LEMMA VersionComplete ==
  ASSUME TypeInv, VersionInv, NEW p \in Procs, CompletePublication(p)
  PROVE  VersionInv'
PROOF
  <1> DEFINE old == st.sess[st.active]
             t == AfterComplete(old)
             m == Mutated(st, t)
             u == [t EXCEPT !.revision = @ + 1, !.gen = st.gen + 1]
  <1>0. st \in StateRecord
    BY DEF TypeInv, TypeOK
  <1>1. /\ st.active # NoSession /\ LoadableState(st) /\ CanComplete(old)
        /\ st' = [m EXCEPT !.current = old.cand, !.pub = None]
    BY DEF CompletePublication, Transaction, Publishable
  <1>2. st.active \in Sessions /\ old \in Session
    BY <1>0, <1>1, ActiveSession
  <1>3. t \in Session /\ ~Active(t)
    BY <1>2 DEF AfterComplete, Active, Session, RevisionStage, Terminal
  <1>4. /\ m.nextVersion = st.nextVersion
        /\ m.active = IF Active(t) THEN st.active ELSE NoSession
        /\ m.sess = [st.sess EXCEPT ![st.active] = u]
    BY <1>0, MutatedFields
  <1>5. /\ st.gen + 1 \in Nat /\ st.nextVersion \in Nat
        /\ st.nextVersion <= st.nextVersion
    BY <1>0, StateFields
  <1>6. Versioned(old, st.nextVersion)
    BY <1>2, NoneAssumption DEF VersionInv, VersionsOf
  <1>7. Versioned(t, st.nextVersion)
    BY <1>1, <1>2, <1>5, <1>6, CompletedVersions
  <1>8. m \in StateRecord
    BY <1>0, <1>2, <1>3, MutatedType
  <1> HIDE DEF t
  <1>9. u \in Session /\ Versioned(u, st.nextVersion)
    BY <1>3, <1>5, <1>7, StampedVersions, RevisedSession
  <1> HIDE DEF m, u
  <1>10. /\ st'.nextVersion = m.nextVersion /\ st'.active = m.active
         /\ st'.sess = m.sess /\ st'.current = old.cand
    BY <1>1, <1>8 DEF StateRecord
  <1>11. /\ st'.nextVersion = st.nextVersion /\ st'.active = NoSession
         /\ st'.sess = [st.sess EXCEPT ![st.active] = u]
    BY <1>3, <1>4, <1>10
  <1>12. \A i \in Sessions : st'.sess[i] # None =>
           Versioned(st'.sess[i], st'.nextVersion)
    BY <1>2, <1>5, <1>9, <1>11, VersionMoved
  <1>13. st'.current <= st'.nextVersion
    BY <1>6, <1>10, <1>11 DEF Versioned
  <1> QED BY <1>11, <1>12, <1>13 DEF VersionInv, VersionsOf

(* A new generation on the active session is all that an attempt changes.  *)
LEMMA VersionRegenerated ==
  ASSUME TypeInv, VersionInv, LoadableState(st), st.active # NoSession,
         NEW g \in Nat,
         st'.nextVersion = st.nextVersion, st'.current = st.current,
         st'.active = st.active,
         st'.sess = [st.sess EXCEPT ![st.active] = [@ EXCEPT !.gen = g]]
  PROVE  VersionInv'
PROOF
  <1> DEFINE old == st.sess[st.active]
             u == [old EXCEPT !.gen = g]
  <1>1. st.active \in Sessions /\ old \in Session
    BY ActiveSession DEF TypeInv, TypeOK
  <1>2. /\ st.nextVersion \in Nat /\ st.nextVersion <= st.nextVersion
        /\ st.sess \in [Sessions -> Session \cup {None}]
    BY StateFields DEF TypeInv, TypeOK
  <1>3. Versioned(old, st.nextVersion)
    BY <1>1, NoneAssumption DEF VersionInv, VersionsOf
  <1>4. Versioned(u, st.nextVersion) /\ u.cand = old.cand
    BY <1>1, <1>2, <1>3, StampedVersions
  <1>5. u \in Session
    BY <1>1 DEF Session
  <1>6. st'.sess = [st.sess EXCEPT ![st.active] = u]
    OBVIOUS
  <1> HIDE DEF u
  <1>7. \A i \in Sessions : st'.sess[i] # None =>
          Versioned(st'.sess[i], st'.nextVersion)
    BY <1>1, <1>2, <1>4, <1>5, <1>6, VersionMoved
  <1>8. st'.sess[st'.active].cand = st.sess[st.active].cand
    BY <1>1, <1>2, <1>4, <1>6
  <1> QED BY <1>7, <1>8 DEF VersionInv, VersionsOf

LEMMA VersionAttempt ==
  ASSUME TypeInv, VersionInv, NEW p \in Procs,
         BeginPublication(p) \/ ClearAttempt(p)
  PROVE  VersionInv'
PROOF
  <1> DEFINE g == st.gen + 1
  <1>0. st \in StateRecord /\ g \in Nat
    BY StateFields DEF TypeInv, TypeOK
  <1>1. CASE BeginPublication(p)
    <2>1. LoadableState(st) /\ st.active # NoSession
      BY <1>1 DEF BeginPublication, Transaction, Publishable
    <2>2. /\ st'.nextVersion = st.nextVersion /\ st'.current = st.current
          /\ st'.active = st.active
          /\ st'.sess = [st.sess EXCEPT ![st.active] = [@ EXCEPT !.gen = g]]
      BY <1>0, <1>1 DEF BeginPublication, PreparedState, StateRecord
    <2> HIDE DEF g
    <2> QED BY <1>0, <2>1, <2>2, VersionRegenerated
  <1>2. CASE ClearAttempt(p)
    <2>1. LoadableState(st) /\ st.pub # None
      BY <1>2 DEF ClearAttempt, TypeInv, HoldInv
    <2>2. /\ st.pub.sid = st.active /\ st.active # NoSession
          /\ Active(st.sess[st.active])
      BY <1>0, <2>1, AttemptSession, ActiveSession
    <2>3. /\ st'.nextVersion = st.nextVersion /\ st'.current = st.current
          /\ st'.active = st.active
          /\ st'.sess = [st.sess EXCEPT ![st.active] = [@ EXCEPT !.gen = g]]
      BY <1>0, <1>2, <2>2 DEF ClearAttempt, StateRecord
    <2> HIDE DEF g
    <2> QED BY <1>0, <2>1, <2>2, <2>3, VersionRegenerated
  <1> QED BY <1>1, <1>2

LEMMA VersionNext ==
  ASSUME CoreInv, VersionInv, SavedVersions, [Next]_vars
  PROVE  VersionInv'
PROOF
  <1>0. st \in StateRecord /\ TypeInv /\ SavedInv
    BY DEF CoreInv, TypeInv, TypeOK
  <1>1. ASSUME st'.nextVersion = st.nextVersion, st'.current = st.current,
               st'.active = st.active, st'.sess = st.sess
        PROVE  VersionInv'
    BY <1>1 DEF VersionInv, VersionsOf
  <1>2. ASSUME NEW p \in Procs,
               \/ RecoverStaleLease(p) \/ AcquireNormalFlow(p)
               \/ ReleaseNormalFlow(p)
               \/ \E key \in CommandKeys : ClaimCommandFence(p, key)
               \/ ReleaseCommandFence(p) \/ RecoverCommandFence(p)
               \/ MarkFormalApplied(p)
        PROVE  VersionInv'
    <2>1. /\ st'.nextVersion = st.nextVersion /\ st'.current = st.current
          /\ st'.active = st.active /\ st'.sess = st.sess
      BY <1>0, <1>2 DEF RecoverStaleLease, AcquireNormalFlow,
         ReleaseNormalFlow, ClaimCommandFence, ReleaseCommandFence,
         RecoverCommandFence, MarkFormalApplied, StateRecord
    <2> QED BY <1>1, <2>1
  <1>3. ASSUME NEW p \in Procs,
               \/ LegacyWrite(p) \/ StartManuscript(p) \/ FinishManuscript(p)
               \/ PrepareCommand(p) \/ AnswerCommand(p) \/ RemoveJournal(p)
               \/ LeaveCommand(p) \/ RecoverCommand(p)
               \/ \E key \in StartKeys : BeginStart(p, key)
               \/ \E op \in MutateOps : BeginMutate(p, op)
               \/ RejectCommand(p) \/ Crash(p) \/ ValidatePublish(p)
               \/ CaptureFormalSnapshot(p) \/ BeginPublicationFails(p)
               \/ WriteFormal(p) \/ WriteFormalFails(p)
               \/ CompletePublicationFails(p) \/ RollbackPublication(p)
               \/ RecoverPublication(p) \/ AbandonPublication(p)
        PROVE  UNCHANGED st
    BY <1>3 DEF LegacyWrite, StartManuscript, FinishManuscript, PrepareCommand,
         AnswerCommand, RemoveJournal, LeaveCommand, RecoverCommand,
         BeginStart, BeginMutate, RejectCommand, Crash, ValidatePublish,
         CaptureFormalSnapshot, BeginPublicationFails, WriteFormal,
         WriteFormalFails, CompletePublicationFails, RollbackPublication,
         RecoverPublication, AbandonPublication
  <1>4. CASE UNCHANGED vars
    BY <1>1, <1>4 DEF vars
  <1>5. ASSUME NEW p \in Procs, UndoCommand(p)
        PROVE  VersionInv'
    <2>1. Prepared /\ st' = journal.state
      BY <1>0, <1>5, RestoredIsSaved DEF UndoCommand
    <2> QED BY <2>1 DEF SavedVersions, VersionInv, VersionsOf
  <1>6. ASSUME NEW p \in Procs, Command(p)
        PROVE  VersionInv'
    BY <1>1, <1>2, <1>3, <1>5, <1>6 DEF Command
  <1>7. ASSUME NEW p \in Procs, Publication(p)
        PROVE  VersionInv'
    BY <1>0, <1>1, <1>2, <1>3, <1>7, VersionComplete, VersionAttempt
       DEF Publication
  <1>8. CASE Next
    BY <1>0, <1>1, <1>2, <1>3, <1>6, <1>7, <1>8, VersionCommit DEF Next
  <1> QED BY <1>4, <1>8

VersionsInv == CoreInv /\ VersionInv /\ SavedVersions

LEMMA VersionsInit == Init => VersionsInv
  BY OwnershipInit, VersionInit DEF Init, VersionsInv, SavedVersions, Prepared

LEMMA VersionsNext == VersionsInv /\ [Next]_vars => VersionsInv'
PROOF
  <1> SUFFICES ASSUME VersionsInv, [Next]_vars PROVE VersionsInv'
    OBVIOUS
  <1>1. CoreInv' /\ VersionInv'
    BY OwnershipNext, VersionNext DEF VersionsInv
  <1>2. TypeInv /\ VersionInv /\ SavedVersions
    BY DEF VersionsInv, CoreInv
  <1>3. ASSUME UNCHANGED journal
        PROVE  SavedVersions'
    BY <1>2, <1>3 DEF SavedVersions, Prepared
  <1>4. ASSUME NEW p \in Procs, PrepareCommand(p)
        PROVE  SavedVersions'
    <2>1. journal'.state = st
      BY <1>4 DEF PrepareCommand
    <2> QED BY <1>2, <2>1 DEF SavedVersions, VersionInv
  <1>5. ASSUME NEW p \in Procs, AnswerCommand(p)
        PROVE  SavedVersions'
    <2>1. /\ journal \in Journal /\ Prepared
          /\ journal' = [journal EXCEPT !.answered = TRUE]
      BY <1>2, <1>5, JournalFields DEF AnswerCommand
    <2>2. journal'.state = journal.state
      BY <2>1 DEF Journal
    <2> QED BY <1>2, <2>1, <2>2 DEF SavedVersions
  <1>6. ASSUME NEW p \in Procs, RemoveJournal(p)
        PROVE  SavedVersions'
    BY <1>6 DEF RemoveJournal, SavedVersions, Prepared
  <1>7. ASSUME UNCHANGED vars
        PROVE  SavedVersions'
    BY <1>3, <1>7 DEF vars
  <1>8. SavedVersions'
    BY <1>3, <1>4, <1>5, <1>6, <1>7, JournalKinds
  <1> QED BY <1>1, <1>8 DEF VersionsInv

(* Whatever feedback, failed audits, interruptions and lost races come in  *)
(* between, a session holds one accepted version for every approval that   *)
(* was not its last.                                                       *)
THEOREM AcceptedCorrect == Spec => []AcceptedMatchesApprovals
PROOF
  <1>1. VersionsInv => AcceptedMatchesApprovals
    BY DEF VersionsInv, VersionInv, VersionsOf, Versioned, AcceptedMatchesApprovals
  <1> QED BY VersionsInit, VersionsNext, <1>1, PTL DEF Spec
-----------------------------------------------------------------------------
(* A state file every later transaction can load.                          *)

(* No adaptation command takes the fence while an attempt is open.         *)
FenceWaitsForAttempt ==
  [][\A p \in Procs, key \in CommandKeys :
       ClaimCommandFence(p, key) => st.pub = None]_vars

(* A new generation on the active session, with the lease and the fence    *)
(* free, keeps a state loadable.                                           *)
LEMMA ClearedLoads ==
  ASSUME TypeInv, NEW p \in Procs, ClearAttempt(p)
  PROVE  StateLoads'
PROOF
  <1> DEFINE g == st.gen + 1
             old == st.sess[st.active]
             u == [old EXCEPT !.gen = g]
  <1>0. st \in StateRecord /\ g \in Nat /\ st.gen \in Nat
    BY StateFields DEF TypeInv, TypeOK
  <1>1. LoadableState(st) /\ st.pub # None
    BY DEF ClearAttempt, TypeInv, HoldInv
  <1>2. /\ st.pub.sid = st.active /\ st.active # NoSession
        /\ Active(old) /\ st.active \in Sessions /\ old \in Session
        /\ st.lease = None
    BY <1>0, <1>1, AttemptSession, ActiveSession
  <1>3. /\ st'.lease = st.lease /\ st'.fence = st.fence /\ st'.pub = None
        /\ st'.active = st.active /\ st'.gen = g
        /\ st'.sess = [st.sess EXCEPT ![st.active] = u]
    BY <1>0, <1>2 DEF ClearAttempt, StateRecord
  <1>4. /\ u \in Session /\ u.gen = g /\ u.stage = old.stage
        /\ u.resume = old.resume /\ u.revision = old.revision
        /\ u.round = old.round /\ u.approvals = old.approvals
        /\ u.cand = old.cand /\ u.audit = old.audit
    BY <1>0, <1>2 DEF Session
  <1>5. st.sess \in [Sessions -> Session \cup {None}]
    BY <1>0, StateFields
  <1>6. ValidSession(old)
    BY <1>1, <1>2, NoneAssumption DEF LoadableState
  <1>7. g > 0 /\ g >= st.gen
    BY <1>0
  <1> HIDE DEF g, u
  <1>8. ValidSession(u) /\ Active(u)
    BY <1>2, <1>4, <1>6, <1>7
       DEF ValidSession, EffectiveStage, LatestAuditPassed, Active
  <1>9. ASSUME NEW i \in Sessions, st'.sess[i] # None
        PROVE  /\ ValidSession(st'.sess[i])
               /\ st'.sess[i].gen <= st'.gen
               /\ Active(st'.sess[i]) = (st'.active = i)
    <2>1. CASE i = st.active
      <3>1. st'.sess[i] = u
        BY <1>2, <1>3, <1>5, <2>1
      <3>2. u.gen <= st'.gen
        <4>1. g <= g
          BY <1>0 DEF g
        <4> QED BY <1>3, <1>4, <4>1
      <3>3. Active(u) = (st'.active = i)
        BY <1>3, <1>8, <2>1 DEF Active
      <3> QED BY <1>8, <3>1, <3>2, <3>3
    <2>2. CASE i # st.active
      <3>1. st'.sess[i] = st.sess[i] /\ st.sess[i] \in Session
        BY <1>3, <1>5, <1>9, <2>2
      <3>2. /\ ValidSession(st.sess[i]) /\ st.sess[i].gen <= st.gen
            /\ Active(st.sess[i]) = (st.active = i)
        BY <1>1, <1>9, <3>1 DEF LoadableState
      <3>3. st.sess[i].gen \in Nat
        BY <3>1 DEF Session
      <3> QED BY <1>0, <1>3, <1>7, <3>1, <3>2, <3>3
    <2> QED BY <2>1, <2>2
  <1>10. st'.sess[st'.active] # None
    BY <1>2, <1>3, <1>4, <1>5, NoneAssumption
  <1> QED BY <1>2, <1>3, <1>9, <1>10 DEF StateLoads, LoadableState

LEMMA LeaseLoads ==
  ASSUME TypeInv, StateLoads, NEW p \in Procs,
         \/ RecoverStaleLease(p) \/ AcquireNormalFlow(p)
         \/ ReleaseNormalFlow(p)
  PROVE  StateLoads'
PROOF
  <1>0. st \in StateRecord /\ st.gen \in Nat /\ st.gen + 1 \in Nat
    BY StateFields DEF TypeInv, TypeOK
  <1>1. st.active = NoSession /\ st.fence = None /\ st.pub = None
    BY <1>0, AttemptSession
       DEF RecoverStaleLease, StaleLease, AcquireNormalFlow, ReleaseNormalFlow,
           StateLoads, LoadableState
  <1>2. /\ st'.active = st.active /\ st'.fence = st.fence
        /\ st'.pub = st.pub /\ st'.sess = st.sess
        /\ st'.gen = st.gen + 1
        /\ st'.lease # None => st'.lease.gen = st.gen + 1
    <2>1. CASE RecoverStaleLease(p) \/ ReleaseNormalFlow(p)
      BY <1>0, <2>1 DEF RecoverStaleLease, ReleaseNormalFlow, StateRecord
    <2>2. CASE AcquireNormalFlow(p)
      BY <1>0, <2>2 DEF AcquireNormalFlow, StateRecord
    <2> QED BY <2>1, <2>2
  <1>3. ASSUME NEW i \in Sessions, st.sess[i] # None
        PROVE  st.sess[i].gen <= st.gen + 1
    <2>1. st.sess[i].gen <= st.gen
      BY <1>3 DEF StateLoads, LoadableState
    <2>2. st.sess[i] \in Session
      BY <1>0, <1>3, StateFields
    <2>3. st.sess[i].gen \in Nat
      BY <2>2 DEF Session
    <2> QED BY <1>0, <2>1, <2>3
  <1> QED BY <1>1, <1>2, <1>3 DEF StateLoads, LoadableState

LEMMA LoadsNext ==
  ASSUME CoreInv, StateLoads, [Next]_vars,
         \A p \in Procs, key \in CommandKeys :
           ClaimCommandFence(p, key) => st.pub = None
  PROVE  StateLoads'
PROOF
  <1>0. st \in StateRecord /\ TypeInv /\ SavedInv
    BY DEF CoreInv, TypeInv, TypeOK
  <1>1. ASSUME UNCHANGED st PROVE StateLoads'
    BY <1>1 DEF StateLoads
  <1>2. ASSUME NEW p \in Procs, NEW key \in CommandKeys,
               ClaimCommandFence(p, key)
        PROVE  StateLoads'
    <2>1. st.pub = None /\ st.lease = None
      BY <1>2 DEF ClaimCommandFence
    <2>2. /\ st'.active = st.active /\ st'.lease = st.lease
          /\ st'.pub = st.pub /\ st'.sess = st.sess /\ st'.gen = st.gen
      BY <1>0, <1>2 DEF ClaimCommandFence, StateRecord
    <2> QED BY <2>1, <2>2 DEF StateLoads, LoadableState
  <1>3. ASSUME NEW p \in Procs,
               ReleaseCommandFence(p) \/ RecoverCommandFence(p)
        PROVE  StateLoads'
    <2>2. /\ st'.active = st.active /\ st'.lease = st.lease
          /\ st'.pub = st.pub /\ st'.sess = st.sess /\ st'.gen = st.gen
          /\ st'.fence = None
      BY <1>0, <1>3 DEF ReleaseCommandFence, RecoverCommandFence, StateRecord
    <2> QED BY <2>2 DEF StateLoads, LoadableState
  <1>4. ASSUME NEW p \in Procs, MarkFormalApplied(p)
        PROVE  StateLoads'
    <2>1. st.pub \in Attempt
      BY <1>0, <1>4, StateFields DEF MarkFormalApplied, TypeInv, HoldInv
    <2> DEFINE a == [st.pub EXCEPT !.status = "formal_applied"]
    <2>2. /\ a.gen = st.pub.gen /\ a.sid = st.pub.sid
          /\ a.revision = st.pub.revision /\ a.cand = st.pub.cand
      BY <2>1 DEF Attempt
    <2>3. /\ st'.active = st.active /\ st'.lease = st.lease
          /\ st'.fence = st.fence /\ st'.pub = a
          /\ st'.sess = st.sess /\ st'.gen = st.gen
      BY <1>0, <1>4 DEF MarkFormalApplied, StateRecord
    <2> HIDE DEF a
    <2>4. st.pub # None
      BY <2>1, NoneAssumption
    <2> QED BY <2>2, <2>3, <2>4 DEF StateLoads, LoadableState
  <1>5. ASSUME NEW p \in Procs, BeginPublication(p)
        PROVE  StateLoads'
    BY <1>5 DEF BeginPublication, StateLoads
  <1>6. ASSUME NEW p \in Procs, CompletePublication(p)
        PROVE  StateLoads'
    BY <1>6 DEF CompletePublication, StateLoads
  <1>7. ASSUME NEW p \in Procs, CommitOptimistic(p)
        PROVE  StateLoads'
    BY <1>7 DEF CommitOptimistic, StateLoads
  <1>8. ASSUME NEW p \in Procs,
               \/ LegacyWrite(p) \/ StartManuscript(p) \/ FinishManuscript(p)
               \/ PrepareCommand(p) \/ AnswerCommand(p) \/ RemoveJournal(p)
               \/ LeaveCommand(p) \/ RecoverCommand(p)
               \/ \E key \in StartKeys : BeginStart(p, key)
               \/ \E op \in MutateOps : BeginMutate(p, op)
               \/ RejectCommand(p) \/ Crash(p) \/ ValidatePublish(p)
               \/ CaptureFormalSnapshot(p) \/ BeginPublicationFails(p)
               \/ WriteFormal(p) \/ WriteFormalFails(p)
               \/ CompletePublicationFails(p) \/ RollbackPublication(p)
               \/ RecoverPublication(p) \/ AbandonPublication(p)
        PROVE  UNCHANGED st
    BY <1>8 DEF LegacyWrite, StartManuscript, FinishManuscript, PrepareCommand,
         AnswerCommand, RemoveJournal, LeaveCommand, RecoverCommand,
         BeginStart, BeginMutate, RejectCommand, Crash, ValidatePublish,
         CaptureFormalSnapshot, BeginPublicationFails, WriteFormal,
         WriteFormalFails, CompletePublicationFails, RollbackPublication,
         RecoverPublication, AbandonPublication
  <1>9. CASE UNCHANGED vars
    BY <1>1, <1>9 DEF vars
  <1>10. ASSUME NEW p \in Procs, UndoCommand(p)
         PROVE  StateLoads'
    <2>1. LoadableState(journal.state) /\ st' = journal.state
      BY <1>0, <1>10, RestoredIsSaved DEF UndoCommand, SavedInv
    <2> QED BY <2>1 DEF StateLoads, LoadableState
  <1>11. ASSUME NEW p \in Procs, Command(p)
         PROVE  StateLoads'
    BY <1>1, <1>2, <1>3, <1>8, <1>10, <1>11 DEF Command
  <1>12. ASSUME NEW p \in Procs, Publication(p)
         PROVE  StateLoads'
    BY <1>0, <1>1, <1>4, <1>5, <1>6, <1>8, <1>12, ClearedLoads
       DEF Publication
  <1>13. CASE Next
    BY <1>0, <1>1, <1>7, <1>8, <1>11, <1>12, <1>13, LeaseLoads DEF Next
  <1> QED BY <1>9, <1>13

(* As long as no adaptation command takes its fence while a publication    *)
(* attempt is open (the code does not ask, so this is a hypothesis), no    *)
(* command, publication, crash or recovery writes a state.json that the    *)
(* next transaction refuses.                                               *)
THEOREM LoadsCorrect == Spec /\ FenceWaitsForAttempt => []StateLoads
PROOF
  <1>1. Init => StateLoads
    BY DEF Init, StateLoads, LoadableState
  <1>2. CoreInv /\ StateLoads /\ [Next]_vars
        /\ [\A p \in Procs, key \in CommandKeys :
              ClaimCommandFence(p, key) => st.pub = None]_vars
        => StateLoads'
    <2> SUFFICES ASSUME CoreInv, StateLoads, [Next]_vars,
                        [\A p \in Procs, key \in CommandKeys :
                           ClaimCommandFence(p, key) => st.pub = None]_vars
                 PROVE  StateLoads'
      OBVIOUS
    <2>1. CASE UNCHANGED vars
      BY <2>1 DEF vars, StateLoads
    <2>2. CASE \A p \in Procs, key \in CommandKeys :
                 ClaimCommandFence(p, key) => st.pub = None
      BY <2>2, LoadsNext
    <2> QED BY <2>1, <2>2
  <1> QED BY OwnershipInit, OwnershipNext, <1>1, <1>2, PTL
          DEF Spec, FenceWaitsForAttempt
-----------------------------------------------------------------------------
(* The publication implements the atomic one.                              *)

(* Once restored, the formal files are the snapshot until the attempt is   *)
(* cleared.                                                                *)
RestoredInv == \A p \in Procs : pc[p] = "restored" => formal = st.pub.snap

(* An owner token names a generation of the floor, which an undone command *)
(* does not take back; while the attempt it would open is still possible,  *)
(* its snapshot is what the book holds.                                    *)
CapturedInv == \A p \in Procs : pc[p] \in {"validated", "captured"} =>
  /\ own[p].owner.gen <= Floor.gen
  /\ pc[p] = "captured" /\ own[p].owner.gen = Floor.gen /\ Floor.pub = None
       /\ Floor.active # NoSession => own[p].snap = formal

(* Formal files change while nobody revises, or under an attempt.          *)
LEMMA FormalKinds ==
  ASSUME TypeInv, SavedInv, ExclusiveOwnership, Next
  PROVE  \/ formal' = formal
         \/ ~Prepared /\ st.active = NoSession
         \/ ~Prepared /\ st.pub # None
PROOF
  <1>1. CASE Prepared
    BY <1>1, PreparedKinds
  <1>2. ASSUME NEW p \in Procs, Command(p), ~Prepared
        PROVE  formal' = formal
    BY <1>2 DEF Command, ClaimCommandFence, PrepareCommand, AnswerCommand,
       UndoCommand, RemoveJournal, ReleaseCommandFence, LeaveCommand,
       RecoverCommandFence, RecoverCommand
  <1>3. ASSUME NEW p \in Procs, Publication(p)
        PROVE  formal' = formal \/ st.pub # None
    BY <1>3 DEF Publication, ValidatePublish, CaptureFormalSnapshot,
       BeginPublication, BeginPublicationFails, WriteFormal,
       MarkFormalApplied, WriteFormalFails, CompletePublication,
       CompletePublicationFails, RollbackPublication, RecoverPublication,
       ClearAttempt, AbandonPublication, TypeInv, HoldInv
  <1>4. ASSUME NEW p \in Procs,
               \/ RecoverStaleLease(p) \/ AcquireNormalFlow(p)
               \/ ReleaseNormalFlow(p) \/ StartManuscript(p)
               \/ FinishManuscript(p)
               \/ \E key \in StartKeys : BeginStart(p, key)
               \/ \E op \in MutateOps : BeginMutate(p, op)
               \/ CommitOptimistic(p) \/ RejectCommand(p) \/ Crash(p)
        PROVE  formal' = formal
    BY <1>4 DEF RecoverStaleLease, AcquireNormalFlow, ReleaseNormalFlow,
       StartManuscript, FinishManuscript, BeginStart, BeginMutate,
       CommitOptimistic, RejectCommand, Crash
  <1>5. ASSUME NEW p \in Procs, LegacyWrite(p)
        PROVE  st.active = NoSession
    BY <1>5 DEF LegacyWrite
  <1> QED BY <1>1, <1>2, <1>3, <1>4, <1>5 DEF Next

(* An owner is minted, keeps its snapshot open, captures it, or stays.     *)
LEMMA OwnerKinds ==
  ASSUME TypeInv, Next, NEW q \in Procs, pc'[q] \in {"validated", "captured"}
  PROVE  \/ pc'[q] = pc[q] /\ own'[q] = own[q]
         \/ ValidatePublish(q)
         \/ CaptureFormalSnapshot(q)
PROOF
  <1> USE DEF TypeInv, TypeOK
  <1>1. ASSUME NEW p \in Procs,
               \/ RecoverStaleLease(p) \/ AcquireNormalFlow(p)
               \/ ReleaseNormalFlow(p) \/ LegacyWrite(p)
               \/ StartManuscript(p) \/ FinishManuscript(p)
        PROVE  pc'[q] = pc[q] /\ own'[q] = own[q]
    BY <1>1 DEF RecoverStaleLease, AcquireNormalFlow, ReleaseNormalFlow,
         LegacyWrite, StartManuscript, FinishManuscript
  <1>2. ASSUME NEW p \in Procs,
               \/ BeginPublication(p) \/ BeginPublicationFails(p)
               \/ WriteFormal(p) \/ MarkFormalApplied(p)
               \/ WriteFormalFails(p) \/ CompletePublication(p)
               \/ CompletePublicationFails(p) \/ RollbackPublication(p)
               \/ RecoverPublication(p) \/ ClearAttempt(p)
               \/ AbandonPublication(p)
        PROVE  pc'[q] = pc[q] /\ own'[q] = own[q]
    BY <1>2 DEF BeginPublication, BeginPublicationFails, WriteFormal,
         MarkFormalApplied, WriteFormalFails, CompletePublication,
         CompletePublicationFails, RollbackPublication, RecoverPublication,
         ClearAttempt, AbandonPublication
  <1>3. ASSUME NEW p \in Procs,
               \/ \E key \in StartKeys : BeginStart(p, key)
               \/ \E op \in MutateOps : BeginMutate(p, op)
               \/ CommitOptimistic(p) \/ RejectCommand(p) \/ Crash(p)
        PROVE  pc'[q] = pc[q] /\ own'[q] = own[q]
    BY <1>3 DEF BeginStart, BeginMutate, CommitOptimistic, RejectCommand, Crash
  <1>4. ASSUME NEW p \in Procs, ValidatePublish(p) \/ CaptureFormalSnapshot(p)
        PROVE  p # q => pc'[q] = pc[q] /\ own'[q] = own[q]
    BY <1>4 DEF ValidatePublish, CaptureFormalSnapshot
  <1>5. ASSUME NEW p \in Procs, Command(p)
        PROVE  pc'[q] = pc[q] /\ own'[q] = own[q]
    BY <1>5 DEF Command, ClaimCommandFence, PrepareCommand, AnswerCommand,
       UndoCommand, RemoveJournal, ReleaseCommandFence, LeaveCommand,
       RecoverCommandFence, RecoverCommand, NextRecovery
  <1> QED BY <1>1, <1>2, <1>3, <1>4, <1>5 DEF Next, Publication

LEMMA CapturedNext ==
  ASSUME CoreInv, CapturedInv, [Next]_vars
  PROVE  CapturedInv'
PROOF
  <1> SUFFICES ASSUME NEW q \in Procs, pc'[q] \in {"validated", "captured"}
               PROVE  /\ own'[q].owner.gen <= Floor'.gen
                      /\ (/\ pc'[q] = "captured"
                          /\ own'[q].owner.gen = Floor'.gen
                          /\ Floor'.pub = None /\ Floor'.active # NoSession)
                           => own'[q].snap = formal'
    BY DEF CapturedInv
  <1>0. /\ TypeInv /\ SameGenerationSameState /\ SavedInv
        /\ ExclusiveOwnership /\ st \in StateRecord
        /\ st.gen \in Nat /\ st' \in StateRecord
    BY OwnershipNext, StateFields DEF CoreInv, TypeInv, TypeOK
  <1>1. CASE UNCHANGED vars
    BY <1>1 DEF vars, CapturedInv, Floor, Prepared
  <1>2. CASE Next /\ ValidatePublish(q)
    <2>1. /\ pc'[q] = "validated" /\ UNCHANGED <<st, journal>>
          /\ LoadableState(st)
          /\ st.pub = None => st.fence = None
          /\ own'[q].owner = IF st.pub = None THEN OwnerOf(st, q, st.gen)
                             ELSE AttemptOwner(st.pub)
      BY <1>0, <1>2
         DEF ValidatePublish, Transaction, AllowCommand, TypeInv, TypeOK
    <2>2. own'[q].owner.gen = st.gen
      <3>1. st.pub # None => st.pub.gen = st.gen
        BY <2>1 DEF LoadableState
      <3>2. OwnerOf(st, q, st.gen).gen = st.gen
        BY DEF OwnerOf
      <3>3. AttemptOwner(st.pub).gen = st.pub.gen
        BY DEF AttemptOwner
      <3> QED BY <2>1, <3>1, <3>2, <3>3
    <2>3. Floor' = st
      <3>1. st.pub # None => st.fence = None
        BY <2>1 DEF LoadableState
      <3>2. ~Prepared
        BY <1>0, <2>1, <3>1 DEF SavedInv
      <3> QED BY <2>1, <3>2 DEF Floor, Prepared
    <2> QED BY <1>0, <2>1, <2>2, <2>3
  <1>3. CASE Next /\ CaptureFormalSnapshot(q)
    <2>1. own[q] \in OwnRecord /\ pc[q] = "validated"
      BY <1>0, <1>3 DEF CaptureFormalSnapshot, TypeInv, OwnInv, Publishing
    <2>2. /\ own'[q].snap = formal /\ own'[q].owner = own[q].owner
          /\ UNCHANGED <<st, formal, journal>>
      BY <1>0, <1>3, <2>1 DEF CaptureFormalSnapshot, OwnRecord, TypeInv, TypeOK
    <2>3. Floor' = Floor
      BY <2>2 DEF Floor, Prepared
    <2> QED BY <2>1, <2>2, <2>3 DEF CapturedInv
  <1>4. CASE Next /\ pc'[q] = pc[q] /\ own'[q] = own[q]
    <2>1. /\ own[q].owner.gen <= Floor.gen
          /\ (/\ pc[q] = "captured" /\ own[q].owner.gen = Floor.gen
              /\ Floor.pub = None /\ Floor.active # NoSession)
               => own[q].snap = formal
      BY <1>4 DEF CapturedInv
    <2>2. own[q] \in OwnRecord
      BY <1>0, <1>4 DEF TypeInv, OwnInv, Publishing
    <2>3. own[q].owner.gen \in Nat
      BY <2>2 DEF OwnRecord, Owner
    <2>4. \/ formal' = formal
          \/ Floor.active = NoSession \/ Floor.pub # None
      BY <1>0, <1>4, FormalKinds DEF Floor
    <2>5. CASE Floor' = Floor
      BY <1>4, <2>1, <2>4, <2>5
    <2>6. CASE Succeeds(Floor, Floor') /\ formal' = formal
      <3>1. Floor \in StateRecord /\ Floor' \in StateRecord
        <4>1. TypeInv'
          BY OwnershipNext DEF CoreInv
        <4>2. Floor \in StateRecord
          BY <1>0, JournalFields DEF Floor
        <4>3. Prepared' => journal'.state \in StateRecord
          BY <4>1 DEF TypeInv, TypeOK, Prepared, Journal
        <4> QED BY <1>0, <4>2, <4>3 DEF Floor
      <3>2. Floor.gen \in Nat /\ Floor'.gen \in Nat
        BY <3>1, StateFields
      <3>3. CASE Floor.gen = Floor'.gen
        <4>1. Floor'.active = Floor.active /\ Floor'.pub = Floor.pub
          <5>1. Unfenced(Floor') = Unfenced(Floor)
            BY <2>6, <3>3 DEF Succeeds
          <5> QED BY <3>1, <5>1, UnfencedFields
        <4> QED BY <1>4, <2>1, <2>6, <3>3, <4>1
      <3>4. CASE Floor.gen # Floor'.gen
        BY <1>4, <2>1, <2>3, <2>6, <3>2, <3>4 DEF Succeeds
      <3> QED BY <3>3, <3>4
    <2>7. CASE ~Prepared /\ Floor = st /\ Floor' = st'
      <3>1. CASE st'.gen = st.gen + 1
        BY <1>0, <1>4, <2>1, <2>3, <2>7, <3>1
      <3>2. CASE st.pub # None /\ st'.pub # None /\ st'.gen = st.gen
        BY <1>4, <2>1, <2>7, <3>2
      <3>3. CASE Unfenced(st') = Unfenced(st) /\ st'.gen = st.gen
        <4>1. st'.active = st.active /\ st'.pub = st.pub
          BY <1>0, <3>3, UnfencedFields
        <4> QED BY <1>4, <2>1, <2>4, <2>7, <3>3, <4>1
      <3>4. CASE UNCHANGED st
        BY <2>5, <2>7, <3>4
      <3>5. ~ \E p \in Procs : UndoCommand(p)
        BY <2>7 DEF UndoCommand
      <3> QED BY <1>0, <1>4, <3>1, <3>2, <3>3, <3>4, <3>5, StepKinds
    <2> QED BY <1>4, <2>5, <2>6, <2>7, FloorNext
  <1> QED BY <1>0, <1>1, <1>2, <1>3, <1>4, OwnerKinds

LEMMA RestoredNext ==
  ASSUME TypeInv, RestoredInv, [Next]_vars
  PROVE  RestoredInv'
PROOF
  <1> SUFFICES ASSUME NEW q \in Procs, pc'[q] = "restored"
               PROVE  formal' = st'.pub.snap
    BY DEF RestoredInv
  <1> USE DEF TypeInv, TypeOK
  <1>1. CASE UNCHANGED vars
    BY <1>1 DEF vars, RestoredInv
  <1>2. ASSUME NEW p \in Procs, RollbackPublication(p) \/ RecoverPublication(p)
        PROVE  formal' = st'.pub.snap
    BY <1>2 DEF RollbackPublication, RecoverPublication
  <1>3. ASSUME pc[q] = "restored", UNCHANGED <<st, formal>>
        PROVE  formal' = st'.pub.snap
    BY <1>3 DEF RestoredInv
  <1>4. ASSUME NEW p \in Procs,
               \/ RecoverStaleLease(p) \/ AcquireNormalFlow(p)
               \/ ReleaseNormalFlow(p) \/ LegacyWrite(p)
               \/ StartManuscript(p)
               \/ CommitOptimistic(p) \/ BeginPublication(p)
               \/ CompletePublication(p)
        PROVE  FALSE
    <2>1. lock = None
      BY <1>4 DEF RecoverStaleLease, AcquireNormalFlow, ReleaseNormalFlow,
         LegacyWrite, StartManuscript, CommitOptimistic, BeginPublication,
         CompletePublication, Transaction
    <2>2. pc[q] = "restored"
      <3>1. CASE CommitOptimistic(p) \/ BeginPublication(p)
                 \/ CompletePublication(p)
        BY <3>1 DEF CommitOptimistic, BeginPublication, CompletePublication
      <3>2. CASE ~(CommitOptimistic(p) \/ BeginPublication(p)
                   \/ CompletePublication(p))
        BY <1>4, <3>2 DEF RecoverStaleLease, AcquireNormalFlow,
           ReleaseNormalFlow, LegacyWrite, StartManuscript
      <3> QED BY <3>1, <3>2
    <2> QED BY <2>1, <2>2, NoneAssumption DEF HoldInv
  <1>5. ASSUME NEW p \in Procs,
               WriteFormal(p) \/ MarkFormalApplied(p) \/ ClearAttempt(p)
        PROVE  FALSE
    <2>1. lock = p
      BY <1>5 DEF WriteFormal, MarkFormalApplied, ClearAttempt, HoldInv
    <2>2. pc'[p] # "restored" /\ (p # q => pc'[q] = pc[q])
      BY <1>5 DEF WriteFormal, MarkFormalApplied, ClearAttempt
    <2>3. p # q /\ pc[q] = "restored"
      BY <2>2
    <2> QED BY <2>1, <2>3 DEF HoldInv
  <1>6. ASSUME NEW p \in Procs,
               \/ FinishManuscript(p)
               \/ \E key \in StartKeys : BeginStart(p, key)
               \/ \E op \in MutateOps : BeginMutate(p, op)
               \/ RejectCommand(p) \/ Crash(p) \/ ValidatePublish(p)
               \/ CaptureFormalSnapshot(p) \/ BeginPublicationFails(p)
               \/ WriteFormalFails(p) \/ CompletePublicationFails(p)
               \/ AbandonPublication(p)
        PROVE  pc[q] = "restored" /\ UNCHANGED <<st, formal>>
    BY <1>6 DEF FinishManuscript, BeginStart, BeginMutate, RejectCommand,
         Crash, ValidatePublish, CaptureFormalSnapshot, BeginPublicationFails,
         WriteFormalFails, CompletePublicationFails, AbandonPublication
  <1>7. ASSUME NEW p \in Procs, Command(p)
        PROVE  pc[q] = "restored" /\ UNCHANGED <<st, formal>>
    <2>1. pc[q] = "restored"
      BY <1>7 DEF Command, ClaimCommandFence, PrepareCommand, AnswerCommand,
         UndoCommand, RemoveJournal, ReleaseCommandFence, LeaveCommand,
         RecoverCommandFence, RecoverCommand, NextRecovery
    <2>2. lock # None
      BY <2>1, NoneAssumption DEF HoldInv
    <2> QED BY <1>7, <2>1, <2>2
         DEF Command, ClaimCommandFence, PrepareCommand, AnswerCommand,
         UndoCommand, RemoveJournal, ReleaseCommandFence, LeaveCommand,
         RecoverCommandFence, RecoverCommand, Transaction
  <1> QED BY <1>1, <1>2, <1>3, <1>4, <1>5, <1>6, <1>7 DEF Next, Publication

PublicationInv == VersionsInv /\ CapturedInv /\ RestoredInv

LEMMA PublicationInit == Init => PublicationInv
  BY VersionsInit DEF Init, PublicationInv, CapturedInv, RestoredInv

LEMMA PublicationNext == PublicationInv /\ [Next]_vars => PublicationInv'
  BY VersionsNext, CapturedNext, RestoredNext
     DEF PublicationInv, VersionsInv, CoreInv

(* Leases come and go on a book nobody else has.                           *)
LEMMA BookLease ==
  ASSUME CoreInv, NEW p \in Procs,
         \/ RecoverStaleLease(p) \/ AcquireNormalFlow(p)
         \/ ReleaseNormalFlow(p)
  PROVE  Book!Next
PROOF
  <1>0. st \in StateRecord
    BY DEF CoreInv, TypeInv, TypeOK
  <1>1. CASE RecoverStaleLease(p) \/ ReleaseNormalFlow(p)
    <2>1. st.lease # None
      BY <1>1 DEF RecoverStaleLease, ReleaseNormalFlow, StaleLease
    <2>2. /\ st.active = NoSession /\ st.fence = None /\ st.pub = None
          /\ ~manuscript
      BY <2>1 DEF CoreInv, ExclusiveOwnership
    <2>3. /\ st'.lease = None /\ st'.active = st.active
          /\ st'.fence = st.fence /\ st'.pub = st.pub
          /\ st'.current = st.current /\ UNCHANGED <<formal, manuscript>>
      BY <1>0, <1>1 DEF RecoverStaleLease, ReleaseNormalFlow, StateRecord
    <2>4. Book!Release
      BY <2>1, <2>2, <2>3 DEF Book!Release, OwnerView, BookView
    <2> QED BY <2>4 DEF Book!Next
  <1>2. CASE AcquireNormalFlow(p)
    <2>1. /\ st.lease = None /\ st.active = NoSession /\ st.fence = None
          /\ ~manuscript /\ st.pub = None
      BY <1>0, <1>2, AttemptSession DEF AcquireNormalFlow, Transaction
    <2>2. /\ st'.lease # None
          /\ st'.pub = st.pub
          /\ st'.current = st.current /\ UNCHANGED <<formal, manuscript>>
      <3>1. st'.lease = [pid |-> p, gen |-> st.gen + 1]
        BY <1>0, <1>2 DEF AcquireNormalFlow, StateRecord
      <3>2. st'.lease \in Lease
        BY <1>0, <3>1, StateFields DEF Lease
      <3> QED BY <1>0, <1>2, <3>2, NoneAssumption
              DEF AcquireNormalFlow, StateRecord
    <2>3. Book!Take("normal")
      BY <2>1, <2>2 DEF Book!Take, OwnerView, BookView
    <2> QED BY <2>3 DEF Book!Next, Book!Owners
  <1> QED BY <1>1, <1>2

(* An ordinary edit.                                                       *)
LEMMA BookEdited ==
  ASSUME CoreInv, NEW p \in Procs, LegacyWrite(p)
  PROVE  Book!Next
PROOF
  <1>1. /\ st \in StateRecord /\ LoadableState(st) /\ st.active = NoSession
        /\ st.fence = None /\ ~manuscript /\ UNCHANGED <<st, manuscript>>
    BY DEF CoreInv, TypeInv, TypeOK, LegacyWrite, Transaction
  <1>2. st.pub = None
    BY <1>1, AttemptSession
  <1>3. formal'.text \in EditTexts
    BY DEF LegacyWrite
  <1>4. Book!Edit
    BY <1>1, <1>2, <1>3 DEF Book!Edit, OwnerView, BookView
  <1> QED BY <1>4 DEF Book!Next

LEMMA BookManuscript ==
  ASSUME CoreInv, NEW p \in Procs,
         StartManuscript(p) \/ FinishManuscript(p)
  PROVE  Book!Next
PROOF
  <1>1. CASE StartManuscript(p)
    <2>1. Book!Take("manuscript")
      BY <1>1 DEF StartManuscript, Book!Take, OwnerView, BookView
    <2> QED BY <2>1 DEF Book!Next, Book!Owners
  <1>2. CASE FinishManuscript(p)
    <2>1. st.active = NoSession /\ st.fence = None /\ st.lease = None
      BY <1>2 DEF FinishManuscript, CoreInv, ExclusiveOwnership
    <2>2. Book!Release
      BY <1>2, <2>1 DEF FinishManuscript, Book!Release, OwnerView, BookView
    <2> QED BY <2>2 DEF Book!Next
  <1> QED BY <1>1, <1>2

(* A fence owns the book only while no session does; undoing a command     *)
(* ends the revision it began and takes up again the one it ended.         *)
LEMMA BookFence ==
  ASSUME CoreInv, NEW p \in Procs, Command(p)
  PROVE  Book!Next \/ UNCHANGED Book!vars
PROOF
  <1>0. st \in StateRecord /\ TypeInv /\ SavedInv
    BY DEF CoreInv, TypeInv, TypeOK
  <1>1. ASSUME NEW key \in CommandKeys, ClaimCommandFence(p, key)
        PROVE  Book!Next \/ UNCHANGED Book!vars
    <2>1. /\ st.lease = None /\ st.fence = None /\ ~manuscript
          /\ st'.lease = st.lease /\ st'.active = st.active
          /\ st'.pub = st.pub /\ st'.current = st.current
          /\ st'.fence = [key |-> key, owner |-> p]
          /\ UNCHANGED <<formal, manuscript>>
      BY <1>0, <1>1 DEF ClaimCommandFence, StateRecord
    <2>2. st'.fence # None
      <3>1. st'.fence \in Fence
        BY <2>1 DEF Fence
      <3> QED BY <3>1, NoneAssumption
    <2>3. CASE st.active = NoSession
      <3>1. Book!Take("command")
        BY <2>1, <2>2, <2>3 DEF Book!Take, OwnerView, BookView
      <3> QED BY <3>1 DEF Book!Next, Book!Owners
    <2>4. CASE st.active # NoSession
      BY <2>1, <2>4 DEF Book!vars, OwnerView, BookView
    <2> QED BY <2>3, <2>4
  <1>2. CASE ReleaseCommandFence(p) \/ RecoverCommandFence(p)
    <2>1. st.fence # None
      BY <1>2 DEF ReleaseCommandFence, InCommand, RecoverCommandFence
    <2>2. /\ st'.lease = st.lease /\ st'.active = st.active
          /\ st'.pub = st.pub /\ st'.current = st.current
          /\ st'.fence = None
          /\ UNCHANGED <<formal, manuscript>>
      BY <1>0, <1>2 DEF ReleaseCommandFence, RecoverCommandFence, StateRecord
    <2>3. st.lease = None /\ ~manuscript
      BY <2>1 DEF CoreInv, ExclusiveOwnership
    <2>4. CASE st.active = NoSession
      <3>1. Book!Release
        BY <2>1, <2>2, <2>3, <2>4 DEF Book!Release, OwnerView, BookView
      <3> QED BY <3>1 DEF Book!Next
    <2>5. CASE st.active # NoSession
      BY <2>2, <2>5 DEF Book!vars, OwnerView, BookView
    <2> QED BY <2>4, <2>5
  <1>3. CASE UndoCommand(p)
    <2>1. /\ st' = journal.state /\ Prepared /\ UNCHANGED manuscript
          /\ formal' = journal.formal
      BY <1>0, <1>3, RestoredIsSaved DEF UndoCommand
    <2>2. /\ st.fence # None /\ st'.fence # None
          /\ st.pub = None /\ st'.pub = None
          /\ st'.lease = None /\ st'.current = st.current /\ formal' = formal
      BY <1>0, <2>1 DEF SavedInv
    <2>3. st.lease = None
      BY <2>2 DEF CoreInv, ExclusiveOwnership
    <2>4. BookView' = BookView /\ st'.current = st.current
      BY <2>2 DEF BookView
    <2>5. /\ OwnerView = IF st.active # NoSession THEN "revision"
                         ELSE "command"
          /\ OwnerView' = IF st'.active # NoSession THEN "revision"
                          ELSE "command"
      BY <2>2, <2>3 DEF OwnerView
    <2> QED BY <2>4, <2>5
            DEF Book!Next, Book!BeginUnderCommand, Book!EndUnderCommand,
                Book!vars
  <1>4. CASE \/ PrepareCommand(p) \/ AnswerCommand(p) \/ RemoveJournal(p)
             \/ LeaveCommand(p) \/ RecoverCommand(p)
    <2>1. UNCHANGED <<st, formal, manuscript>>
      BY <1>4 DEF PrepareCommand, AnswerCommand, RemoveJournal, LeaveCommand,
         RecoverCommand
    <2> QED BY <2>1 DEF Book!vars, OwnerView, BookView
  <1> QED BY <1>1, <1>2, <1>3, <1>4 DEF Command

(* A command starts a revision, carries it on, or cancels it.              *)
LEMMA BookCommit ==
  ASSUME CoreInv, NEW p \in Procs, CommitOptimistic(p)
  PROVE  Book!Next \/ UNCHANGED Book!vars
PROOF
  <1> DEFINE b == job[p].base
  <1>0. /\ st \in StateRecord /\ b \in StateRecord /\ LoadableState(b)
        /\ TypeInv /\ SameGenerationSameState
    BY CommitFacts DEF CoreInv, TypeInv, TypeOK
  <1>1. /\ st.lease = b.lease /\ st.active = b.active /\ st.pub = b.pub
        /\ st.current = b.current /\ st.nextSession = b.nextSession
    BY <1>0, CommitFacts, UnfencedFields
  <1>2. /\ UNCHANGED <<formal, manuscript>> /\ st.pub = None /\ b.pub = None
        /\ st'.lease = None /\ st'.pub = None
    BY <1>0, <1>1, CommitFacts DEF CommitOptimistic, AllowCommand
  <1>3. CASE job[p].op = "start"
    <2> DEFINE w == StartedCopy(job[p].key, ModeOf(p), b)
               n == b.nextSession + 1
    <2>1. /\ st' = w /\ job[p].key \in StartKeys /\ ~manuscript
          /\ b.active = NoSession /\ b.lease = None
      BY <1>0, <1>3, CommitFacts DEF TypeInv, JobInv, CommitOptimistic
    <2>2. w.active = n /\ w.current = b.current
      BY <1>0, <2>1, StartedCopyFields DEF ModeOf
    <2>3. n # NoSession
      BY <1>0, StateFields DEF NoSession
    <2> HIDE DEF w, n
    <2>4. /\ st'.active # NoSession /\ st'.current = st.current
          /\ st.active = NoSession /\ st.lease = None
      BY <1>1, <2>1, <2>2, <2>3
    <2>5. CASE st.fence = None
      <3>1. Book!Take("revision")
        BY <1>2, <2>1, <2>4, <2>5 DEF Book!Take, OwnerView, BookView
      <3> QED BY <3>1 DEF Book!Next, Book!Owners
    <2>6. CASE st.fence # None
      <3>1. Book!BeginUnderCommand
        BY <1>2, <2>1, <2>4, <2>6
           DEF Book!BeginUnderCommand, OwnerView, BookView
      <3> QED BY <3>1 DEF Book!Next
    <2> QED BY <2>5, <2>6
  <1>4. CASE job[p].op # "start"
    <2> DEFINE op == job[p].op
               w == WorkingCopy(op, b)
               t == AfterCommand(op, b.sess[b.active], b.nextVersion + 1)
    <2>1. /\ st' = w /\ op \in MutateOps /\ b.active # NoSession
          /\ Applies(op, b.sess[b.active])
      BY SMTT(30), <1>0, <1>4, CommitFacts
    <2>2. /\ w.current = b.current
          /\ w.active = IF Active(t) THEN b.active ELSE NoSession
      BY <1>0, <2>1, WorkingCopyFields
    <2> HIDE DEF w, t, op
    <2>3. /\ st'.current = st.current /\ st.active # NoSession
          /\ st'.active \in {st.active, NoSession}
      BY <1>1, <2>1, <2>2
    <2>4. st.lease = None /\ ~manuscript
      BY <2>3 DEF CoreInv, ExclusiveOwnership
    <2>5. CASE st'.active = st.active
      BY <1>2, <2>3, <2>4, <2>5 DEF Book!vars, OwnerView, BookView
    <2>6. CASE st'.active = NoSession /\ st'.fence = None
      <3>1. Book!Release
        BY <1>2, <2>3, <2>4, <2>6 DEF Book!Release, OwnerView, BookView
      <3> QED BY <3>1 DEF Book!Next
    <2>7. CASE st'.active = NoSession /\ st'.fence # None
      <3>1. Book!EndUnderCommand
        BY <1>2, <2>3, <2>4, <2>7
           DEF Book!EndUnderCommand, OwnerView, BookView
      <3> QED BY <3>1 DEF Book!Next
    <2> QED BY <2>3, <2>5, <2>6, <2>7
  <1> QED BY <1>3, <1>4

(* An attempt opens, writes, is marked, undone or cleared: the book that a *)
(* reader may rely on stays what the snapshot says.                        *)
LEMMA BookAttempt ==
  ASSUME PublicationInv, NEW p \in Procs,
         \/ BeginPublication(p) \/ WriteFormal(p) \/ MarkFormalApplied(p)
         \/ RollbackPublication(p) \/ RecoverPublication(p) \/ ClearAttempt(p)
  PROVE  UNCHANGED Book!vars
PROOF
  <1>0. /\ st \in StateRecord /\ TypeInv
    BY DEF PublicationInv, VersionsInv, CoreInv, TypeInv, TypeOK
  <1>1. CASE BeginPublication(p)
    <2> DEFINE o == own[p].owner
    <2>1. /\ pc[p] = "captured" /\ st.pub = None /\ st.active # NoSession
          /\ OwnerOf(st, o.token, st.gen) = o
          /\ st' = PreparedState(o, own[p].snap)
          /\ UNCHANGED <<formal, manuscript>>
      BY <1>1 DEF BeginPublication, Publishable
    <2>2. o.gen = st.gen
      <3>1. OwnerOf(st, o.token, st.gen).gen = st.gen
        BY DEF OwnerOf
      <3> QED BY <2>1, <3>1
    <2>3. own[p].snap = formal
      <3>1. SavedInv /\ st.fence = None
        BY <1>1 DEF BeginPublication, PublicationInv, VersionsInv, CoreInv
      <3>2. Floor = st
        BY <3>1 DEF SavedInv, Floor
      <3> QED BY <2>1, <2>2, <3>2 DEF PublicationInv, CapturedInv
    <2>4. /\ st'.lease = st.lease /\ st'.fence = st.fence
          /\ st'.active = st.active /\ st'.current = st.current
          /\ st'.pub.snap = formal
      BY <1>0, <2>1, <2>3 DEF PreparedState, StateRecord
    <2>5. st'.pub # None
      <3>1. TypeInv' /\ HoldInv'
        BY <1>0, <1>1, TypeBeginPublication DEF TypeInv
      <3>2. pc'[p] = "prepared"
        BY <1>0, <1>1 DEF BeginPublication, TypeInv, TypeOK
      <3> QED BY <3>1, <3>2 DEF HoldInv
    <2> QED BY <2>1, <2>4, <2>5 DEF Book!vars, OwnerView, BookView
  <1>2. CASE WriteFormal(p)
    <2>1. st.pub # None /\ UNCHANGED <<st, manuscript>>
      BY <1>0, <1>2 DEF WriteFormal, TypeInv, HoldInv
    <2> QED BY <2>1 DEF Book!vars, OwnerView, BookView
  <1>3. CASE MarkFormalApplied(p)
    <2>1. st.pub # None /\ st.pub \in Attempt
      BY <1>0, <1>3, StateFields DEF MarkFormalApplied, TypeInv, HoldInv
    <2> DEFINE a == [st.pub EXCEPT !.status = "formal_applied"]
    <2>2. a \in Attempt /\ a.snap = st.pub.snap
      BY <2>1 DEF Attempt
    <2>3. /\ st'.lease = st.lease /\ st'.fence = st.fence
          /\ st'.active = st.active /\ st'.current = st.current
          /\ st'.pub = a /\ UNCHANGED <<formal, manuscript>>
      BY <1>0, <1>3 DEF MarkFormalApplied, StateRecord
    <2> HIDE DEF a
    <2> QED BY <2>1, <2>2, <2>3, NoneAssumption
            DEF Book!vars, OwnerView, BookView
  <1>4. CASE RollbackPublication(p) \/ RecoverPublication(p)
    <2>1. st.pub # None /\ UNCHANGED <<st, manuscript>>
      BY <1>4 DEF RollbackPublication, RecoverPublication
    <2> QED BY <2>1 DEF Book!vars, OwnerView, BookView
  <1>5. CASE ClearAttempt(p)
    <2>1. st.pub # None /\ formal = st.pub.snap
      BY <1>0, <1>5
         DEF ClearAttempt, TypeInv, HoldInv, PublicationInv, RestoredInv
    <2>2. /\ st'.lease = st.lease /\ st'.fence = st.fence
          /\ st'.active = st.active /\ st'.current = st.current
          /\ st'.pub = None /\ UNCHANGED <<formal, manuscript>>
      BY <1>0, <1>5 DEF ClearAttempt, StateRecord
    <2> QED BY <2>1, <2>2 DEF Book!vars, OwnerView, BookView
  <1> QED BY <1>1, <1>2, <1>3, <1>4, <1>5

(* Completion publishes a version newer than any before, and ends the      *)
(* revision.                                                               *)
LEMMA BookPublished ==
  ASSUME PublicationInv, NEW p \in Procs, CompletePublication(p)
  PROVE  Book!Publish
PROOF
  <1> DEFINE old == st.sess[st.active]
             m == Mutated(st, AfterComplete(old))
  <1>0. /\ st \in StateRecord /\ TypeInv /\ VersionInv /\ ExclusiveOwnership
    BY DEF PublicationInv, VersionsInv, CoreInv, TypeInv, TypeOK
  <1>1. /\ st.active # NoSession /\ LoadableState(st) /\ CanComplete(old)
        /\ st.pub # None /\ formal.text = st.pub.cand
        /\ st' = [m EXCEPT !.current = old.cand, !.pub = None]
        /\ UNCHANGED <<formal, manuscript>>
    BY DEF CompletePublication, Transaction, Publishable, FormalMatches
  <1>2. st.active \in Sessions /\ old \in Session
    BY <1>0, <1>1, ActiveSession
  <1>3. st.pub.cand = old.cand /\ st.lease = None /\ st.fence = None
        /\ ~manuscript
    BY <1>0, <1>1 DEF LoadableState, ExclusiveOwnership
  <1>4. old.cand # NoVersion /\ old.cand \in Nat
    BY <1>1, <1>2, SessionFields DEF CanComplete
  <1>5. old.cand > st.current
    BY <1>0, <1>1, <1>4 DEF VersionInv, VersionsOf
  <1>6. AfterComplete(old) \in Session /\ ~Active(AfterComplete(old))
    BY <1>2 DEF AfterComplete, Active, Session, RevisionStage, Terminal
  <1>7. /\ m.lease = st.lease /\ m.fence = st.fence /\ m.active = NoSession
    BY <1>0, <1>6, MutatedFields
  <1>8. m \in StateRecord
    BY <1>0, <1>2, <1>6, MutatedType
  <1> HIDE DEF m, old
  <1>9. /\ st'.lease = None /\ st'.fence = None /\ st'.active = NoSession
        /\ st'.pub = None /\ st'.current = old.cand
    BY <1>1, <1>3, <1>7, <1>8 DEF StateRecord
  <1>10. OwnerView = "revision" /\ OwnerView' = "free"
         /\ BookView' = old.cand
    BY <1>1, <1>3, <1>9 DEF OwnerView, BookView
  <1> QED BY <1>4, <1>5, <1>9, <1>10 DEF Book!Publish

LEMMA BookNext ==
  ASSUME PublicationInv, [Next]_vars
  PROVE  Book!Next \/ UNCHANGED Book!vars
PROOF
  <1>0. CoreInv
    BY DEF PublicationInv, VersionsInv
  <1>1. ASSUME UNCHANGED <<st, formal, manuscript>>
        PROVE  UNCHANGED Book!vars
    BY <1>1 DEF Book!vars, OwnerView, BookView
  <1>2. ASSUME NEW p \in Procs,
               \/ \E key \in StartKeys : BeginStart(p, key)
               \/ \E op \in MutateOps : BeginMutate(p, op)
               \/ RejectCommand(p) \/ Crash(p) \/ ValidatePublish(p)
               \/ CaptureFormalSnapshot(p) \/ BeginPublicationFails(p)
               \/ WriteFormalFails(p) \/ CompletePublicationFails(p)
               \/ AbandonPublication(p)
        PROVE  UNCHANGED <<st, formal, manuscript>>
    BY <1>2 DEF BeginStart, BeginMutate, RejectCommand, Crash,
         ValidatePublish, CaptureFormalSnapshot, BeginPublicationFails,
         WriteFormalFails, CompletePublicationFails, AbandonPublication
  <1>3. CASE UNCHANGED vars
    BY <1>1, <1>3 DEF vars
  <1>4. ASSUME NEW p \in Procs, CompletePublication(p)
        PROVE  Book!Next
    BY <1>4, BookPublished DEF Book!Next
  <1>5. ASSUME NEW p \in Procs, Publication(p)
        PROVE  Book!Next \/ UNCHANGED Book!vars
    BY <1>1, <1>2, <1>4, <1>5, BookAttempt DEF Publication
  <1>6. CASE Next
    BY <1>0, <1>1, <1>2, <1>5, <1>6, BookLease, BookEdited, BookManuscript,
       BookFence, BookCommit DEF Next
  <1> QED BY <1>3, <1>6

(* The publication with its crashes, failed writes, rollbacks and          *)
(* concurrent recoveries is the atomic one: a reader who goes by the       *)
(* snapshot of an open attempt sees the content change in one step, to a   *)
(* version newer than any published before, as the revision ends.          *)
THEOREM BookImplemented == Spec => ImplementsBookOwnership
PROOF
  <1>1. Init => Book!Init
    <2>1. Init => OwnerView = "free" /\ BookView \in EditTexts
      BY DEF Init, OwnerView, BookView
    <2> QED BY <2>1 DEF Init, Book!Init, NoVersion
  <1>2. PublicationInv /\ [Next]_vars => [Book!Next]_(Book!vars)
    BY BookNext
  <1> QED BY PublicationInit, PublicationNext, <1>1, <1>2, PTL
          DEF Spec, ImplementsBookOwnership, Book!Spec
====

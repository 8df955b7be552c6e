--------------------------- MODULE RevisionSession ---------------------------
(***************************************************************************)
(* One revision session (internal/domain/revision.go) and what each        *)
(* command of internal/store/revision.go does to it.  A session walks from *)
(* an impact preview through rounds of candidate, audit and ordered human  *)
(* approvals to a publication.  The three production policies (normal,     *)
(* adaptation, foundation) are all staged: an approval that is not the     *)
(* last one freezes the candidate and opens the next round.                *)
(*                                                                         *)
(* Intents, impacts, previews, audit reports, feedback texts and payloads  *)
(* are abstracted: a candidate is the identifier of the version it stored  *)
(* (a single artifact), and of the audit trail only the latest entry is    *)
(* kept, the one LatestAuditPassed reads.                                  *)
(*                                                                         *)
(* The operators are pure: a guard CanX(s) is the early returns of the     *)
(* command, AfterX(s) its assignments.                                     *)
(***************************************************************************)
EXTENDS Integers, FiniteSets

CONSTANT StageCount      \* ordered approval stages the policy asks for

ASSUME StageCountAssumption == StageCount \in Nat \ {0}

NoVersion == 0           \* version identifiers are 1, 2, ...
NoAudit   == [round |-> 0, cand |-> NoVersion, passed |-> FALSE]

Terminal == {"completed", "cancelled"}
Interrupted == {"paused", "failed"}
Working == {"impact_review_pending", "candidate_generating",
            "candidate_audit_pending", "approval_pending", "ready_to_publish"}
RevisionStage == Working \cup Interrupted \cup Terminal

Session ==
  [stage     : RevisionStage,
   resume    : Working \cup {""},   \* ResumeStage
   revision  : Nat,
   gen       : Nat,                 \* Generation of the store at its last write
   round     : Nat,
   approvals : 0..StageCount,       \* len(Approvals); they are given in order
   accepted  : SUBSET Nat,          \* AcceptedVersionIDs
   cand      : Nat,                 \* CandidateVersionIDs / CandidateSignature
   audit     : [round : Nat, cand : Nat, passed : BOOLEAN]]  \* last of Audits

Active(s) == s.stage \notin Terminal

(* The stage an interrupted session goes back to.                          *)
EffectiveStage(s) == IF s.stage \in Interrupted THEN s.resume ELSE s.stage

LatestAuditPassed(s) ==
  /\ s.audit.passed
  /\ s.audit.round = s.round
  /\ s.audit.cand = s.cand

NewSession(gen, cand) ==
  [stage |-> "impact_review_pending", resume |-> "", revision |-> 1,
   gen |-> gen, round |-> 1, approvals |-> 0, accepted |-> {},
   cand |-> cand, audit |-> NoAudit]

(* What a new round keeps: approvals already given and the versions they   *)
(* froze stay, the candidate goes.                                         *)
NextRound(s) ==
  [s EXCEPT !.round = @ + 1, !.stage = "candidate_generating",
            !.cand = NoVersion]
-----------------------------------------------------------------------------
CanApproveImpact(s) == s.stage = "impact_review_pending"
AfterApproveImpact(s) ==
  [s EXCEPT !.stage = IF s.cand = NoVersion THEN "candidate_generating"
                                            ELSE "candidate_audit_pending"]

CanSubmitCandidate(s) == s.stage = "candidate_generating"
AfterSubmitCandidate(s, v) ==
  [s EXCEPT !.cand = v, !.stage = "candidate_audit_pending"]

(* The auditor names the candidate it read; a stale one is refused.        *)
CanRecordAudit(s, v) ==
  /\ s.stage = "candidate_audit_pending"
  /\ v # NoVersion
  /\ v = s.cand
AfterRecordAudit(s, passed) ==
  LET t == [s EXCEPT !.audit = [round |-> s.round, cand |-> s.cand,
                                passed |-> passed]]
  IN  IF passed THEN [t EXCEPT !.stage = "approval_pending"]
                ELSE NextRound(t)

CanSubmitFeedback(s) ==
  s.stage \in {"candidate_generating", "candidate_audit_pending",
               "approval_pending"}
Mut_AfterSubmitFeedback(s) ==      \* feedback drops what was accepted
  [NextRound(s) EXCEPT !.accepted = {}]
AfterSubmitFeedback(s) == NextRound(s)

CanApproveStage(s) ==
  /\ s.stage = "approval_pending"
  /\ LatestAuditPassed(s)
  /\ s.approvals < StageCount
AfterApproveStage(s) ==
  LET t == [s EXCEPT !.approvals = @ + 1]
  IN  IF t.approvals = StageCount
      THEN [t EXCEPT !.stage = "ready_to_publish"]
      ELSE NextRound([t EXCEPT !.accepted = @ \cup {s.cand}])

(* Pause and Fail; both remember the stage to resume.                      *)
Mut_CanInterrupt(s) == Active(s)   \* a paused session may be paused again
CanInterrupt(s) == s.stage \in Working
AfterInterrupt(s, how) == [s EXCEPT !.stage = how, !.resume = s.stage]

CanResume(s) == s.stage \in Interrupted /\ s.resume \in Working
AfterResume(s) == [s EXCEPT !.stage = s.resume, !.resume = ""]

CanCancel(s) == Active(s)
AfterCancel(s) == [s EXCEPT !.stage = "cancelled", !.resume = ""]

CanComplete(s) ==
  /\ s.stage = "ready_to_publish"
  /\ LatestAuditPassed(s)
  /\ s.cand # NoVersion
  /\ s.approvals = StageCount
AfterComplete(s) == [s EXCEPT !.stage = "completed"]
-----------------------------------------------------------------------------
(* RevisionSession.Validate: what every session written to disk, and every *)
(* one read back, has to satisfy.                                          *)
ValidSession(s) ==
  LET stage == EffectiveStage(s) IN
  /\ s.revision > 0
  /\ s.gen > 0
  /\ s.round > 0
  /\ s.audit.round <= s.round
  /\ (s.stage \in Interrupted) = (s.resume # "")
  /\ stage \in {"candidate_audit_pending", "approval_pending",
                "ready_to_publish", "completed"} => s.cand # NoVersion
  /\ stage \in {"approval_pending", "ready_to_publish", "completed"}
       => LatestAuditPassed(s)
  /\ stage \in {"ready_to_publish", "completed"} => s.approvals = StageCount
=============================================================================

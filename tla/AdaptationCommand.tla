------------------------- MODULE AdaptationCommand --------------------------
(***************************************************************************)
(* How an adaptation revision command changes several files as one,        *)
(* store/adaptation_revision.go under host/adaptation_revision_service.go: *)
(* it takes the command lock and the durable fence, saves the files it may *)
(* change beside a journal, changes them one after the other, and leaves a *)
(* service receipt; what fails or is interrupted is undone from the saved  *)
(* files or, once it is committed, carried out by whoever takes the lock   *)
(* next.                                                                   *)
(*                                                                         *)
(* The formal files (plan, proposal, workflow, progress, structure) are    *)
(* one file here, the plan; a plan is known by the session that published  *)
(* it.                                                                     *)
(***************************************************************************)
EXTENDS Naturals, Sequences

CONSTANTS
  Procs,
  Keys,          \* idempotency keys of the commands
  None,
  MaxSession,    \* bound: sessions started
  MaxGeneration, \* bound: the generation of the revision state
  MaxFaults,     \* bound: crashes and failed writes
  LateErrors     \* whether a write may be done and still be reported as
                 \* failed: the possibilities to look at

Ops == {"preview", "advance", "cancel", "publish"}

(* state.json: the generation, the fence of the command in progress, the   *)
(* active session, the sessions so far, the receipts of commits, the       *)
(* writing flow's lease.                                                   *)
State == [gen : Nat, fence : Keys \union {None}, session : Nat, next : Nat,
          done : SUBSET Keys, lease : BOOLEAN]
Disk == [state : State, runtime : Nat, plan : Nat, service : SUBSET Keys]
Journal == [key : Keys, op : Ops, before : Disk]

ASSUME ConstantsAssumption ==
  /\ MaxSession \in Nat /\ MaxGeneration \in Nat \ {0} /\ MaxFaults \in Nat
  /\ LateErrors \subseteq BOOLEAN
  /\ None \notin Keys \union Procs \union Journal

VARIABLES
  disk,     \* state.json, the runtime, the plan, the service receipts
  journal,  \* the command journal and the files saved beside it
  lock,     \* who has the command lock
  job,      \* what each process is doing
  faults,   \* crashes and failed writes so far
  held,     \* the generation a planned foundation change is bound to, the
            \* commands done when it was, whether another one was under way
  late      \* this behaviour's one of LateErrors

vars == <<disk, journal, lock, job, faults, held, late>>

Idle == [mode |-> "idle", key |-> None, op |-> "preview", todo |-> << >>]

Init ==
  /\ disk = [state |-> [gen |-> 1, fence |-> None, session |-> 0, next |-> 0,
                        done |-> {}, lease |-> FALSE],
             runtime |-> 0, plan |-> 0, service |-> {}]
  /\ journal = None
  /\ lock = None
  /\ job = [p \in Procs |-> Idle]
  /\ faults = 0
  /\ held = None
  /\ late \in LateErrors

Mode(p) == job[p].mode
Doing(p) == job[p].todo # << >>

-----------------------------------------------------------------------------
(* Requests and the fence                                                  *)

(* withAdaptationRevisionCommandLock.                                      *)
Request(p, key, op) ==
  /\ Mode(p) = "idle"
  /\ lock = None
  /\ op = "preview" => disk.state.next < MaxSession   \* bound
  /\ lock' = p
  /\ job' = [job EXCEPT ![p] = [mode |-> "recover", key |-> key, op |-> op,
                                todo |-> << >>]]
  /\ UNCHANGED <<disk, journal, faults, held>>

(* A Store that is opened recovers and asks for nothing.                   *)
Open(p) ==
  /\ Mode(p) = "idle"
  /\ lock = None
  /\ journal # None \/ disk.state.fence # None
  /\ lock' = p
  /\ job' = [job EXCEPT ![p] = [Idle EXCEPT !.mode = "recover"]]
  /\ UNCHANGED <<disk, journal, faults, held>>

Return(p) ==
  /\ lock' = None
  /\ job' = [job EXCEPT ![p] = Idle]

(* After a recovery the request goes on, where there is one.               *)
Recovered(p) ==
  IF job[p].key = None
    THEN Return(p)
    ELSE /\ job' = [job EXCEPT ![p] = [@ EXCEPT !.mode = "claim", !.todo = << >>]]
         /\ UNCHANGED lock

Mut_Release == UNCHANGED disk    \* the fence of an abandoned command stays
(* releaseCommandFence.                                                    *)
Release == disk' = [disk EXCEPT !.state.fence = None]

(* No journal: what is left of the last command is its fence.              *)
RecoverNothing(p) ==
  /\ Mode(p) = "recover"
  /\ journal = None
  /\ Release
  /\ Recovered(p)
  /\ UNCHANGED <<journal, faults, held>>

(* claimCommandFence.                                                      *)
Claim(p) ==
  /\ Mode(p) = "claim"
  /\ disk.state.fence = None
  /\ ~disk.state.lease
  /\ disk.state.gen < MaxGeneration   \* bound
  /\ disk' = [disk EXCEPT !.state.fence = job[p].key]
  /\ job' = [job EXCEPT ![p].mode = "claimed"]
  /\ UNCHANGED <<journal, lock, faults, held>>

ClaimRefused(p) ==
  /\ Mode(p) = "claim"
  /\ disk.state.lease
  /\ Return(p)
  /\ UNCHANGED <<disk, journal, faults, held>>

(* The same key again: the verified receipt is the answer.                 *)
Replay(p) ==
  /\ Mode(p) = "claimed"
  /\ job[p].key \in disk.service
  /\ Release
  /\ Return(p)
  /\ UNCHANGED <<journal, faults, held>>

Mut_Saved == [disk EXCEPT !.runtime = 0]    \* the runtime is not among the saved files
(* The files a command may change, as they are now.                        *)
Saved == disk

(* The writes of each command, in their order.  "advance" is a command that*)
(* only moves its session on; approving a stage, submitting an outline,    *)
(* pausing, resuming and failing write the runtime before the state, as    *)
(* "cancel" does, and leave the session open.                              *)
Body(op) ==
  CASE op = "preview" -> <<"state", "runtime", "service", "journal", "fence">>
    [] op = "advance" -> <<"state", "service", "journal", "fence">>
    [] op = "cancel"  -> <<"runtime", "state", "service", "journal", "fence">>
    [] op = "publish" -> <<"plan", "runtime", "state", "service", "journal", "fence">>

(* They end the same way: the receipt, the end of the journal, the end of  *)
(* the fence.                                                              *)
Ending == {"service", "journal", "fence"}

(* prepareAdaptationRevisionCommand.                                       *)
Prepare(p) ==
  /\ Mode(p) = "claimed"
  /\ job[p].key \notin disk.service
  /\ journal' = [key |-> job[p].key, op |-> job[p].op, before |-> Saved]
  /\ job' = [job EXCEPT ![p] = [@ EXCEPT !.mode = "do", !.todo = Body(job[p].op)]]
  /\ UNCHANGED <<disk, lock, faults, held>>

-----------------------------------------------------------------------------
(* The writes                                                              *)

(* The service's and the store's checks: one active session at a time, a   *)
(* runtime that belongs to it, a key that was not used.                    *)
Admitted(c) ==
  /\ c.key \notin disk.state.done
  /\ IF c.op = "preview"
       THEN disk.state.session = 0
       ELSE disk.state.session # 0 /\ disk.runtime \in {disk.state.session, 0}

Mut_Advanced(gen) == gen    \* the generation stays
Advanced(gen) == gen + 1

Sessions(c, s) == IF c.op = "preview" THEN s.next + 1 ELSE s.next

(* The mutations of the revision store: one generation up, the receipt in  *)
(* the same write.                                                         *)
Committed(c, s) ==
  [s EXCEPT !.gen = Advanced(@), !.done = @ \union {c.key},
            !.next = Sessions(c, s),
            !.session = CASE c.op = "preview" -> s.next + 1
                          [] c.op = "advance" -> s.session
                          [] OTHER -> 0]

Written(c, file) ==
  CASE file = "state"   -> [disk EXCEPT !.state = Committed(c, disk.state)]
    [] file = "runtime" -> [disk EXCEPT !.runtime =
                              IF c.op = "preview" THEN disk.state.session ELSE 0]
    [] file = "plan"    -> [disk EXCEPT !.plan = disk.state.session]
    [] file = "service" -> [disk EXCEPT !.service = @ \union {c.key}]
    [] file = "fence"   -> [disk EXCEPT !.state.fence = None]
    [] OTHER            -> disk

(* A saved state.json gets the fence that is there now.                    *)
RestoredState == [journal.before.state EXCEPT !.fence = disk.state.fence]

Restored(file) ==
  CASE file = "state"   -> [disk EXCEPT !.state = RestoredState]
    [] file = "runtime" -> [disk EXCEPT !.runtime = journal.before.runtime]
    [] file = "plan"    -> [disk EXCEPT !.plan = journal.before.plan]
    [] file = "service" -> [disk EXCEPT !.service = journal.before.service]
    [] file = "fence"   -> [disk EXCEPT !.state.fence = None]
    [] OTHER            -> disk

(* restoreAdaptationRevisionCommandSnapshot: files that were not there are *)
(* removed first, the others are put back in the order of their paths.     *)
Undo ==
  IF journal.before.runtime = 0
    THEN <<"runtime", "plan", "service", "state", "journal", "fence">>
    ELSE <<"plan", "runtime", "service", "state", "journal", "fence">>

(* The error is returned when it is done.                                  *)
ToUndo(p) == job' = [job EXCEPT ![p] = [Idle EXCEPT !.mode = "undo", !.todo = Undo]]

Allowed(p, file) ==
  (Mode(p) = "do" /\ file \notin Ending)
    => (Admitted(job[p]) \/ (file = "runtime" /\ job[p].op = "preview"))

(* A recovery carries out the command of the journal.                      *)
Doer(p) == IF Mode(p) = "finish" THEN journal ELSE job[p]

Write(p) ==
  LET file == Head(job[p].todo)
      rest == Tail(job[p].todo) IN
  /\ Doing(p)
  /\ Allowed(p, file)
  /\ disk' = IF Mode(p) = "undo" THEN Restored(file) ELSE Written(Doer(p), file)
  /\ journal' = IF file = "journal" THEN None ELSE journal
  /\ IF rest # << >>
       THEN job' = [job EXCEPT ![p].todo = rest] /\ UNCHANGED lock
       ELSE IF Mode(p) = "do" THEN Return(p) ELSE Recovered(p)
  /\ UNCHANGED <<faults, held>>

(* The command is refused: everything is put back.                         *)
Refuse(p) ==
  /\ Doing(p)
  /\ ~Allowed(p, Head(job[p].todo))
  /\ ToUndo(p)
  /\ UNCHANGED <<disk, journal, lock, faults, held>>

(* A failed write of a command undoes it; of a receipt as well, unless the *)
(* publication it is for is committed.  Any other failure leaves journal   *)
(* and fence to the next one who takes the lock.  Publish has no other     *)
(* error to return once it is committed: the expansion authority whose     *)
(* journal may fail to be finalized is not part of this module.            *)
Mut_Undoes(p, file) == Mode(p) = "do" /\ file # "journal" /\ file # "fence"    \* a committed one too
Undoes(p, file) ==
  /\ Mode(p) = "do"
  /\ file \in {"state", "runtime", "plan", "service"}
  /\ ~(file = "service" /\ job[p].op = "publish")

(* An existing file may have been replaced when the write fails: the copy  *)
(* kept of the old one could not be removed.                               *)
IsReplaced(file) ==
  late /\ (file = "state" \/ (file = "service" /\ disk.service # {}))

WriteFails(p) ==
  LET file == Head(job[p].todo) IN
  /\ Doing(p)
  /\ Allowed(p, file)
  /\ faults < MaxFaults
  /\ faults' = faults + 1
  /\ \/ UNCHANGED disk
     \/ /\ Mode(p) = "do"
        /\ IsReplaced(file)
        /\ disk' = Written(job[p], file)
  /\ IF Undoes(p, file) THEN ToUndo(p) /\ UNCHANGED lock ELSE Return(p)
  /\ UNCHANGED <<journal, held>>

-----------------------------------------------------------------------------
(* recoverAdaptationRevisionCommand with a journal                         *)

Receipted == journal.key \in disk.service
Published == journal.op = "publish" /\ journal.key \in disk.state.done

(* A receipt is believed when the revision state has it too, a publication *)
(* when the formal plan is the one it published.                           *)
Verified ==
  /\ journal.key \in disk.state.done
  /\ journal.op = "publish" => disk.plan = journal.before.state.session

(* What is left of a publication depends on its receipt.                   *)
ToFinish ==
  CASE journal.op # "publish" -> <<"journal", "fence">>
    [] journal.op = "publish" /\ Receipted -> <<"runtime", "journal", "fence">>
    [] OTHER -> <<"service", "runtime", "journal", "fence">>

RecoverCommitted(p) ==
  /\ Mode(p) = "recover" /\ ~Doing(p)
  /\ journal # None
  /\ Receipted \/ Published
  /\ Verified
  /\ job' = [job EXCEPT ![p] = [@ EXCEPT !.mode = "finish", !.todo = ToFinish]]
  /\ UNCHANGED <<disk, journal, lock, faults, held>>

RecoverUndo(p) ==
  /\ Mode(p) = "recover" /\ ~Doing(p)
  /\ journal # None
  /\ ~Receipted /\ ~Published
  /\ job' = [job EXCEPT ![p] = [@ EXCEPT !.mode = "undo", !.todo = Undo]]
  /\ UNCHANGED <<disk, journal, lock, faults, held>>

(* Neither: the recovery fails, and with it the request.                   *)
RecoverFails(p) ==
  /\ Mode(p) = "recover" /\ ~Doing(p)
  /\ journal # None
  /\ Receipted \/ Published
  /\ ~Verified
  /\ Return(p)
  /\ UNCHANGED <<disk, journal, faults, held>>

-----------------------------------------------------------------------------
(* The others                                                              *)

Crash(p) ==
  /\ Mode(p) # "idle"
  /\ faults < MaxFaults
  /\ faults' = faults + 1
  /\ Return(p)
  /\ UNCHANGED <<disk, journal, held>>

(* AcquireNormalFlow and ReleaseNormalFlow.                                *)
FlowAcquire ==
  /\ disk.state.session = 0 /\ disk.state.fence = None /\ ~disk.state.lease
  /\ disk.state.gen < MaxGeneration
  /\ disk' = [disk EXCEPT !.state.lease = TRUE, !.state.gen = @ + 1]
  /\ UNCHANGED <<journal, lock, job, faults, held>>

FlowRelease ==
  /\ disk.state.lease
  /\ disk.state.gen < MaxGeneration
  /\ disk' = [disk EXCEPT !.state.lease = FALSE, !.state.gen = @ + 1]
  /\ UNCHANGED <<journal, lock, job, faults, held>>

(* A change of the foundation is planned while no session is active, and   *)
(* applied on the generation it was planned on.                            *)
FoundationPreview ==
  /\ held = None
  /\ disk.state.session = 0
  /\ held' = [gen |-> disk.state.gen, done |-> disk.state.done,
              free |-> disk.state.fence = None]
  /\ UNCHANGED <<disk, journal, lock, job, faults>>

(* validatePreviewCurrent.                                                 *)
StillCurrent ==
  disk.state.gen = held.gen /\ disk.state.session = 0 /\ ~disk.state.lease

Step(p) ==
  \/ RecoverNothing(p) \/ RecoverCommitted(p) \/ RecoverUndo(p) \/ RecoverFails(p)
  \/ Claim(p) \/ ClaimRefused(p) \/ Replay(p) \/ Prepare(p)
  \/ Write(p) \/ Refuse(p)

Next ==
  /\ \/ FlowAcquire \/ FlowRelease \/ FoundationPreview
     \/ \E p \in Procs :
          \/ \E key \in Keys, op \in Ops : Request(p, key, op)
          \/ Open(p) \/ Step(p) \/ WriteFails(p) \/ Crash(p)
  /\ UNCHANGED late

Spec == Init /\ [][Next]_vars

(* The writes of a process that lives are carried out, the project is      *)
(* opened again and again.                                                 *)
FairSpec ==
  Spec /\ \A p \in Procs :
    WF_vars(Step(p) /\ UNCHANGED late) /\ WF_vars(Open(p) /\ UNCHANGED late)

-----------------------------------------------------------------------------
TypeOK ==
  /\ disk \in Disk
  /\ disk.state.gen \in 1..MaxGeneration
  /\ {disk.state.session, disk.runtime, disk.plan} \subseteq 0..disk.state.next
  /\ journal \in Journal \union {None}
  /\ lock \in Procs \union {None}
  /\ \A p \in Procs : Mode(p) \in {"idle", "recover", "claim", "claimed", "do", "undo", "finish"}

Quiet == journal = None /\ lock = None

(* Where no command is under way the files say the same: the runtime       *)
(* belongs to the active session, every commit has its service receipt.    *)
FilesAgree ==
  (Quiet /\ ~late) => disk.runtime = disk.state.session /\ disk.service = disk.state.done

(* A generation that was bound while no command was under way names one    *)
(* state, however often commands were rolled back to it since: what is     *)
(* applied because the generation is still the same sees no command it was *)
(* planned without.                                                        *)
GenerationNamesOneState ==
  (held # None /\ StillCurrent) => (held.free => disk.state.done = held.done)

(* What was interrupted is settled, and the fence given back.              *)
Settles == (~late /\ disk.state.fence # None) ~> disk.state.fence = None

(* The commands are those of CommandedBook: until its receipt is written,  *)
(* or a publication is committed, a command has not happened.              *)
Happened == journal = None \/ Receipted \/ Published
View ==
  CASE late -> [session |-> 0, plan |-> 0, next |-> 0, done |-> {}]
    [] ~late /\ Happened -> [session |-> disk.state.session, plan |-> disk.plan,
          next |-> disk.state.next, done |-> disk.state.done]
    [] OTHER -> [session |-> journal.before.state.session, plan |-> journal.before.plan,
          next |-> journal.before.state.next, done |-> journal.before.state.done]

Book == INSTANCE CommandedBook WITH book <- View

CommandsAreAtomic == Book!Spec
=============================================================================

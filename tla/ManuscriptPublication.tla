------------------------ MODULE ManuscriptPublication ------------------------
(***************************************************************************)
(* How store/manuscript_publication.go puts an approved manuscript         *)
(* revision into the book.  Several formal files have to change together,  *)
(* so the publication keeps a journal with the files' earlier contents: a  *)
(* journal that is not yet "completed" is undone, one that is becomes the  *)
(* commit intent and is carried into the revision index.  Every process,   *)
(* and in the web server every request, opens a Store of its own, and      *)
(* opening one recovers the journal it finds.                              *)
(*                                                                         *)
(* A change carries a stamp, drawn when the revision is started or the     *)
(* flow writes; a file is known by the stamp of its last change.  A        *)
(* revision is taken from its start straight to ready_to_publish: the      *)
(* stages between are in module ManuscriptRevision.                        *)
(***************************************************************************)
EXTENDS Naturals

CONSTANTS
  Stores,      \* open Store objects, in one process or several
  Files,       \* the formal files a publication rewrites
  Prose,       \* the one that holds the chapter
  MaxStamp,    \* bound: revisions started and flow writes, together
  Settings     \* what may go wrong: the Stores in use, how often one of them
               \* dies (a bound), the writes that may fail, whether a Store
               \* is opened while another one publishes

NoStore == "no store"

ASSUME ConstantsAssumption ==
  /\ NoStore \notin Stores /\ Prose \in Files
  /\ MaxStamp \in Nat
  /\ Settings \subseteq
       [stores: SUBSET Stores, crashes: Nat, late: BOOLEAN,
        faults: SUBSET {"apply", "mark", "marked", "index", "restore", "clear"}]

Stamps == 1..MaxStamp
NoJournal == [status |-> "absent"]
Closed == [pc |-> "closed"]
Idle == [pc |-> "idle", recover |-> FALSE]

VARIABLES
  formal,   \* the formal files of the book
  index,    \* the revision index: number, stage and base of every revision
  active,   \* the index's active revision, 0 when there is none
  receipts, \* the revisions whose publication the index has a receipt of
  journal,  \* the publication journal
  lock,     \* who holds the revision transaction
  store,    \* what each Store is doing
  stamp,    \* the last stamp drawn
  crashes,
  setting   \* the one this behaviour is about

vars == <<formal, index, active, receipts, journal, lock, store, stamp,
          crashes, setting>>

NoRevision == [number |-> 0, stage |-> "none", base |-> 0]

Init ==
  /\ formal = [f \in Files |-> 0]
  /\ index = [k \in Stamps |-> NoRevision]
  /\ active = 0
  /\ receipts = {}
  /\ journal = NoJournal
  /\ lock = NoStore
  /\ store = [s \in Stores |-> Closed]
  /\ stamp = 0
  /\ crashes = 0
  /\ setting \in Settings

At(s, pc) == store[s].pc = pc

(* The Store is open, does nothing, and no recovery it owes is known to it. *)
Free(s) == At(s, "idle") /\ ~store[s].recover

MayFail(point) == point \in setting.faults

Unlocked == lock = NoStore

(* Opening a Store, or calling a write command on one whose recovery had   *)
(* failed: the journal is read before the transaction is asked for.        *)
Recover(s) ==
  /\ At(s, "closed") \/ (At(s, "idle") /\ store[s].recover)
  /\ setting.late \/ lock = NoStore
  /\ store' = [store EXCEPT ![s] =
       IF journal = NoJournal THEN Idle
       ELSE [pc |-> "waiting", journal |-> journal]]
  /\ UNCHANGED <<formal, index, active, receipts, journal, lock, stamp, crashes>>

(* The journal recovery works from: the one it read before it had to wait. *)
RecoveredJournal(s) == store[s].journal

(* Only a completed journal is carried on, every other one is undone.      *)
Mut_CommitIntent(j) == TRUE    \* whatever is found is carried on
CommitIntent(j) == j.status = "completed"

RecoverEnter(s) ==
  /\ At(s, "waiting")
  /\ Unlocked
  /\ lock' = s
  /\ LET j == RecoveredJournal(s) IN
     store' = [store EXCEPT ![s] =
       IF CommitIntent(j)
         THEN [pc |-> "finish", journal |-> j, opening |-> TRUE]
         ELSE [pc |-> "restore", journal |-> j, todo |-> Files, opening |-> TRUE]]
  /\ UNCHANGED <<formal, index, active, receipts, journal, stamp, crashes>>

(* The transaction stays busy for 15 seconds: the Store opens with its     *)
(* recovery error set.                                                     *)
RecoverTimeout(s) ==
  /\ At(s, "waiting")
  /\ lock # NoStore
  /\ store' = [store EXCEPT ![s] = [Idle EXCEPT !.recover = TRUE]]
  /\ UNCHANGED <<formal, index, active, receipts, journal, lock, stamp, crashes>>

(* A call returns: the transaction is released.                            *)
Leave(s, recover) ==
  /\ lock' = NoStore
  /\ store' = [store EXCEPT ![s] = [Idle EXCEPT !.recover = recover]]

Mut_Restored(s, f) == formal[f]    \* the contents are read back from the file itself
Restored(s, f) == store[s].journal.previous[f]

(* Rolling back puts the journal's earlier contents back, file by file.    *)
RestoreFile(s, f) ==
  /\ At(s, "restore")
  /\ f \in store[s].todo
  /\ formal' = [formal EXCEPT ![f] = Restored(s, f)]
  /\ store' = [store EXCEPT ![s].todo = @ \ {f}]
  /\ UNCHANGED <<index, active, receipts, journal, lock, stamp, crashes>>

RestoreFails(s) ==
  /\ MayFail("restore")
  /\ At(s, "restore")
  /\ store[s].todo # {}
  /\ Leave(s, store[s].opening)
  /\ UNCHANGED <<formal, index, active, receipts, journal, stamp, crashes>>

AfterRestore == NoJournal

(* The journal goes last; that it cannot be removed is not noticed.        *)
RestoreDone(s) ==
  /\ At(s, "restore")
  /\ store[s].todo = {}
  /\ \/ journal' = AfterRestore
     \/ MayFail("clear") /\ UNCHANGED journal
  /\ Leave(s, FALSE)
  /\ UNCHANGED <<formal, index, active, receipts, stamp, crashes>>

Mut_Completable(j) == index[j.revision].number = j.expected    \* not a second time
Completable(j) == index[j.revision].number \in {j.expected, j.expected + 1}

(* Of a book that must be revalidated the revision stays the active one;   *)
(* that is in ManuscriptRevision.                                          *)
Complete(j) ==
  LET first == index[j.revision].number = j.expected IN
  /\ index' = IF first
                THEN [index EXCEPT ![j.revision].number = @ + 1,
                                   ![j.revision].stage = "completed"]
                ELSE index
  /\ active' = IF first THEN 0 ELSE active
  /\ receipts' = receipts \union {j.revision}

Finish(s) ==
  /\ At(s, "finish")
  /\ Completable(store[s].journal)
  /\ Complete(store[s].journal)
  /\ store' = [store EXCEPT ![s].pc = "clear"]
  /\ UNCHANGED <<formal, journal, lock, stamp, crashes>>

(* A conflict, or an index that cannot be written, ends the call with an   *)
(* error; only the recovery of an opening Store remembers it.              *)
FinishFails(s) ==
  /\ At(s, "finish")
  /\ ~Completable(store[s].journal) \/ MayFail("index")
  /\ Leave(s, store[s].opening)
  /\ UNCHANGED <<formal, index, active, receipts, journal, stamp, crashes>>

Clear(s) ==
  /\ At(s, "clear")
  /\ journal' = NoJournal
  /\ Leave(s, FALSE)
  /\ UNCHANGED <<formal, index, active, receipts, stamp, crashes>>

ClearFails(s) ==
  /\ MayFail("clear")
  /\ At(s, "clear")
  /\ Leave(s, store[s].opening)
  /\ UNCHANGED <<formal, index, active, receipts, journal, stamp, crashes>>

(* Publish loads the runtime before the transaction.                       *)
Submit(s, k) ==
  /\ Free(s)
  /\ index[k].stage = "ready"
  /\ store' = [store EXCEPT ![s] =
       [pc |-> "submitted", revision |-> k, expected |-> index[k].number]]
  /\ UNCHANGED <<formal, index, active, receipts, journal, lock, stamp, crashes>>

Unchanged(s) == index[store[s].revision].number = store[s].expected

LeftOver == journal # NoJournal

(* The index has moved on, the formal prose is no longer the one the       *)
(* revision was written for, or an earlier publication is not cleared.     *)
Refused(s) ==
  \/ store[s].revision \in receipts
  \/ ~Unchanged(s)
  \/ formal[Prose] # index[store[s].revision].base
  \/ LeftOver

PublishRefused(s) ==
  /\ At(s, "submitted")
  /\ lock = NoStore
  /\ Refused(s)
  /\ store' = [store EXCEPT ![s] = Idle]
  /\ UNCHANGED <<formal, index, active, receipts, journal, lock, stamp, crashes>>

Prepared(s) ==
  [status |-> "prepared", revision |-> store[s].revision,
   expected |-> store[s].expected, previous |-> formal]

PublishEnter(s) ==
  /\ At(s, "submitted")
  /\ lock = NoStore
  /\ ~Refused(s)
  /\ lock' = s
  /\ journal' = Prepared(s)
  /\ store' = [store EXCEPT ![s] =
       [pc |-> "apply", journal |-> Prepared(s), todo |-> Files, opening |-> FALSE]]
  /\ UNCHANGED <<formal, index, active, receipts, stamp, crashes>>

ApplyFile(s, f) ==
  /\ At(s, "apply")
  /\ f \in store[s].todo
  /\ formal' = [formal EXCEPT ![f] = store[s].journal.revision]
  /\ store' = [store EXCEPT ![s].todo = @ \ {f}]
  /\ UNCHANGED <<index, active, receipts, journal, lock, stamp, crashes>>

(* formal_applied, then completed: the second is the commit intent.        *)
Marked(status) ==
  CASE status = "prepared" -> "formal_applied"
    [] status = "formal_applied" -> "completed"

Mark(s) ==
  /\ At(s, "apply")
  /\ store[s].todo = {}
  /\ LET j == [store[s].journal EXCEPT !.status = Marked(@)] IN
     /\ journal' = j
     /\ store' = [store EXCEPT ![s] =
          IF j.status = "completed"
            THEN [pc |-> "finish", journal |-> j, opening |-> FALSE]
            ELSE [@ EXCEPT !.journal = j]]
  /\ UNCHANGED <<formal, index, active, receipts, lock, stamp, crashes>>

(* Any write that fails up to the commit intent rolls the publication back,*)
(* even when the journal was replaced and only the copy kept of the old    *)
(* one could not be removed.                                               *)
ApplyFails(s) ==
  /\ At(s, "apply")
  /\ \/ MayFail("apply") /\ store[s].todo # {} /\ UNCHANGED journal
     \/ MayFail("mark") /\ store[s].todo = {} /\ UNCHANGED journal
     \/ /\ MayFail("marked") /\ store[s].todo = {}
        /\ journal' = [store[s].journal EXCEPT !.status = Marked(@)]
  /\ store' = [store EXCEPT ![s] =
       [pc |-> "restore", journal |-> store[s].journal, todo |-> Files,
        opening |-> FALSE]]
  /\ UNCHANGED <<formal, index, active, receipts, lock, stamp, crashes>>

(* A revision takes the project and, approved, is ready to be published.   *)
Start(s) ==
  /\ Free(s)
  /\ lock = NoStore
  /\ active = 0
  /\ stamp < MaxStamp
  /\ stamp' = stamp + 1
  /\ active' = stamp'
  /\ index' = [index EXCEPT ![stamp'] =
       [number |-> 1, stage |-> "ready", base |-> formal[Prose]]]
  /\ UNCHANGED <<formal, receipts, journal, lock, store, crashes>>

(* Cancel goes by the index alone: an open publication shows there only    *)
(* once it is complete.                                                    *)
Cancel(s, k) ==
  /\ Free(s)
  /\ lock = NoStore
  /\ index[k].stage = "ready"
  /\ index' = [index EXCEPT ![k].number = @ + 1, ![k].stage = "cancelled"]
  /\ active' = 0
  /\ UNCHANGED <<formal, receipts, journal, lock, store, stamp, crashes>>

FlowAllowed == active = 0

FlowWrite(s) ==
  /\ At(s, "idle")
  /\ lock = NoStore
  /\ FlowAllowed
  /\ stamp < MaxStamp
  /\ stamp' = stamp + 1
  /\ formal' = [formal EXCEPT ![Prose] = stamp']
  /\ UNCHANGED <<index, active, receipts, journal, lock, store, crashes>>

Crash(s) ==
  /\ crashes < setting.crashes
  /\ ~At(s, "closed")
  /\ crashes' = crashes + 1
  /\ store' = [store EXCEPT ![s] = Closed]
  /\ lock' = IF lock = s THEN NoStore ELSE lock
  /\ UNCHANGED <<formal, index, active, receipts, journal, stamp>>

Publication(s) ==
  \/ RecoverEnter(s) \/ RestoreDone(s) \/ Finish(s) \/ Clear(s)
  \/ PublishRefused(s) \/ PublishEnter(s) \/ Mark(s)
  \/ \E f \in Files : RestoreFile(s, f) \/ ApplyFile(s, f)

Fault(s) ==
  \/ RecoverTimeout(s) \/ RestoreFails(s) \/ FinishFails(s) \/ ClearFails(s)
  \/ ApplyFails(s) \/ Crash(s)

Command(s) ==
  \/ Start(s) \/ FlowWrite(s)
  \/ \E k \in Stamps : Submit(s, k) \/ Cancel(s, k)

Next ==
  /\ \E s \in setting.stores : Recover(s) \/ Publication(s) \/ Fault(s) \/ Command(s)
  /\ UNCHANGED setting

Spec == Init /\ [][Next]_vars

(* A call that holds the transaction goes on, and a process that died is   *)
(* started again.                                                          *)
FairSpec ==
  Spec /\ \A s \in Stores :
    /\ WF_vars(s \in setting.stores /\ Recover(s) /\ UNCHANGED setting)
    /\ WF_vars(s \in setting.stores /\ Publication(s) /\ UNCHANGED setting)

-----------------------------------------------------------------------------
Journals ==
  {NoJournal} \union
  [status: {"prepared", "formal_applied", "completed"}, revision: Stamps,
   expected: Nat, previous: [Files -> 0..MaxStamp]]

States ==
  {Closed} \union [pc: {"idle"}, recover: BOOLEAN]
  \union [pc: {"waiting"}, journal: Journals]
  \union [pc: {"finish", "clear"}, journal: Journals, opening: BOOLEAN]
  \union [pc: {"restore", "apply"}, journal: Journals, todo: SUBSET Files,
          opening: BOOLEAN]
  \union [pc: {"submitted"}, revision: Stamps, expected: Nat]

TypeOK ==
  /\ formal \in [Files -> 0..MaxStamp]
  /\ \A k \in Stamps :
       index[k] \in [number: Nat, base: 0..MaxStamp,
                     stage: {"none", "ready", "completed", "cancelled"}]
  /\ active \in {0} \union Stamps
  /\ receipts \subseteq Stamps
  /\ journal = NoJournal \/ journal.previous \in [Files -> 0..MaxStamp]
  /\ lock \in Stores \union {NoStore}
  /\ \A s \in Stores :
       \/ store[s] = Closed
       \/ store[s].pc \in {"idle", "waiting", "finish", "clear", "restore",
                           "apply", "submitted"}
  /\ stamp \in 0..MaxStamp
  /\ setting \in Settings /\ crashes \in 0..setting.crashes

AtRest == lock = NoStore /\ journal = NoJournal

(* What the code's promises rest on: a Store that opens finds no other one *)
(* publishing, what a process leaves behind is found by itself when it is  *)
(* started again (another Store that is open does not look for it), a      *)
(* journal that cannot be marked is not marked, and writes fail before the *)
(* commit intent only.                                                     *)
Alone == \A s, t \in setting.stores : s = t
LeavesNothing == setting.crashes = 0 /\ setting.faults \subseteq {"apply", "mark"}
Undisturbed ==
  ~setting.late /\ "marked" \notin setting.faults /\ (Alone \/ LeavesNothing)
UntilCommit == setting.faults \subseteq {"apply", "mark"}

(* A revision the index calls published is in every formal file, unless a  *)
(* later change replaced it there: the several files of a publication and  *)
(* its index entry agree whenever nobody is publishing.                    *)
PublishedStands ==
  (Undisturbed /\ AtRest) => \A k \in Stamps :
    index[k].stage = "completed" => \A f \in Files : formal[f] >= k

(* An interrupted publication does not stay: its journal is undone or      *)
(* carried out.                                                            *)
Settles == (UntilCommit /\ journal # NoJournal) ~> journal = NoJournal

(* The book a reader may rely on: what the journal would bring back before *)
(* the commit intent, the formal files after it.                           *)
Committed == journal # NoJournal /\ journal.status = "completed"

Promised == Undisturbed /\ UntilCommit

BookText == IF Promised /\ journal # NoJournal /\ ~Committed THEN journal.previous
            ELSE IF Promised THEN formal ELSE [f \in Files |-> 0]

Fate(k) == IF ~Promised THEN "none"
           ELSE IF (Committed /\ journal.revision = k) \/ index[k].stage = "completed"
             THEN "published"
           ELSE IF index[k].stage = "ready" THEN "open" ELSE index[k].stage

BookOwner == IF ~Promised \/ (Committed /\ active = journal.revision) THEN 0 ELSE active

Book == INSTANCE PublishedBook WITH
  text <- BookText, fate <- [k \in Stamps |-> Fate(k)], owner <- BookOwner

(* Publishing is atomic, whatever process dies between any two writes.     *)
PublishesAtomically == Book!Spec
=============================================================================

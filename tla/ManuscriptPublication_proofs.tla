-------------------- MODULE ManuscriptPublication_proofs ---------------------
(***************************************************************************)
(* Proofs about ManuscriptPublication, for any Stores, files, revisions    *)
(* and crashes.  The journal is what the publication rests on: while a     *)
(* Store works on it the formal files are, one by one, either what the     *)
(* journal saved or what it is to become, and which of the two follows     *)
(* from what is left to do (Quiet); when it is gone, or completed, they    *)
(* hold every published revision (PublishedHeld).                          *)
(***************************************************************************)
EXTENDS ManuscriptPublication, TLAPS

Entries ==
  [number : {0, 1, 2}, base : 0..MaxStamp,
   stage : {"none", "ready", "completed", "cancelled"}]

(* A revision is published under the number it was ready with.             *)
Saved ==
  [status : {"prepared", "formal_applied", "completed"}, revision : Stamps,
   expected : {1}, previous : [Files -> 0..MaxStamp]]

Places ==
  {Closed} \union [pc : {"idle"}, recover : BOOLEAN]
  \union [pc : {"waiting"}, journal : Saved]
  \union [pc : {"finish", "clear"}, journal : Saved, opening : BOOLEAN]
  \union [pc : {"restore", "apply"}, journal : Saved, todo : SUBSET Files,
          opening : BOOLEAN]
  \union [pc : {"submitted"}, revision : Stamps, expected : {1}]

Types ==
  /\ formal \in [Files -> 0..MaxStamp]
  /\ index \in [Stamps -> Entries]
  /\ active \in {0} \union Stamps
  /\ receipts \subseteq Stamps
  /\ journal \in {NoJournal} \union Saved
  /\ lock \in Stores \union {NoStore}
  /\ store \in [Stores -> Places]
  /\ stamp \in 0..MaxStamp
  /\ setting \in Settings /\ crashes \in 0..setting.crashes

(* Only the last revision is ever open.                                    *)
IndexInv ==
  /\ \A k \in Stamps :
       /\ k > stamp => index[k].stage = "none"
       /\ index[k].stage = "none" <=> index[k].number = 0
       /\ index[k].stage = "ready" <=> index[k].number = 1
       /\ index[k].stage = "ready" => active = k /\ stamp = k
       /\ index[k].stage # "none" => index[k].base < k
  /\ active # 0 => index[active].stage = "ready"
  /\ \A f \in Files : formal[f] <= stamp

(* What a journal says was so when it was written.                         *)
Sane(j) ==
  /\ index[j.revision].number # 0
  /\ j.previous[Prose] < j.revision
  /\ \A f \in Files : j.previous[f] <= stamp

Works(s) == store[s].pc \in {"restore", "apply", "finish", "clear"}

StoreInv(s) ==
  /\ Works(s) <=> lock = s
  /\ s \notin setting.stores => store[s] = Closed
  /\ At(s, "submitted") => index[store[s].revision].number # 0
  /\ Works(s) \/ At(s, "waiting") => Sane(store[s].journal)
  /\ At(s, "apply") => /\ store[s].journal.status # "completed"
                       /\ index[store[s].journal.revision].stage = "ready"
  /\ At(s, "restore") => store[s].journal.status # "completed"
  /\ At(s, "finish") \/ At(s, "clear") => store[s].journal.status = "completed"
  /\ At(s, "clear") => index[store[s].journal.revision].number = 2

(* Nobody works on another journal than the one that is there.             *)
Quiet(s) ==
  /\ At(s, "waiting") => Alone /\ lock = NoStore /\ store[s].journal = journal
  /\ Works(s) => store[s].journal = journal
  /\ At(s, "apply") => \A f \in Files \ store[s].todo : formal[f] = journal.revision
  /\ At(s, "restore") => \A f \in Files \ store[s].todo : formal[f] = journal.previous[f]

(* The files a reader may rely on hold every published revision, or a      *)
(* later change.                                                           *)
Text == IF journal # NoJournal /\ journal.status # "completed"
          THEN journal.previous ELSE formal

PublishedHeld ==
  /\ \A k \in Stamps, f \in Files : index[k].stage = "completed" => Text[f] >= k
  /\ Committed => \A f \in Files : formal[f] >= journal.revision

QuietInv ==
  Undisturbed =>
    /\ \A s \in Stores : Quiet(s)
    /\ PublishedHeld
    /\ LeavesNothing /\ lock = NoStore => journal = NoJournal

(* Where writes fail before the commit intent only, nobody goes on while   *)
(* an interrupted publication is there, not even to cancel its revision.   *)
PromisedInv ==
  Promised =>
    /\ journal # NoJournal /\ lock = NoStore =>
         \A s \in Stores : store[s].pc \in {"closed", "waiting"}
    /\ Committed => index[journal.revision].stage \in {"ready", "completed"}

PublicationInv ==
  /\ Types
  /\ IndexInv
  /\ journal # NoJournal => Sane(journal)
  /\ \A s \in Stores : StoreInv(s)
  /\ QuietInv
  /\ PromisedInv
-----------------------------------------------------------------------------
(* What a step of one Store leaves to the others.                          *)

LEMMA StoreKinds ==
  ASSUME Types, NEW s \in Stores
  PROVE  /\ store[s].pc \in {"closed", "idle", "waiting", "finish", "clear", "restore", "apply",
                             "submitted"}
         /\ At(s, "waiting") => store[s].journal \in Saved
         /\ At(s, "finish") \/ At(s, "clear") =>
              store[s].journal \in Saved /\ store[s].opening \in BOOLEAN
         /\ At(s, "restore") \/ At(s, "apply") =>
              /\ store[s].journal \in Saved /\ store[s].opening \in BOOLEAN
              /\ store[s].todo \in SUBSET Files
         /\ At(s, "submitted") => store[s].revision \in Stamps /\ store[s].expected = 1
         /\ Works(s) => store[s].journal \in Saved
<1>1. store[s] \in Places
  BY DEF Types
<1> QED
  BY <1>1 DEF Places, Closed, At, Works

LEMMA SavedFields ==
  ASSUME NEW j \in Saved
  PROVE  /\ j.status \in {"prepared", "formal_applied", "completed"}
         /\ j.revision \in Stamps /\ j.expected = 1
         /\ j.previous \in [Files -> 0..MaxStamp]
         /\ j # NoJournal
BY DEF Saved, NoJournal

LEMMA SettingFields ==
  ASSUME Types
  PROVE  /\ setting.stores \subseteq Stores /\ setting.crashes \in Nat
         /\ setting.late \in BOOLEAN
         /\ MaxStamp \in Nat /\ stamp \in 0..MaxStamp /\ stamp \in Nat /\ Stamps \subseteq Nat \ {0}
         /\ NoStore \notin Stores /\ Prose \in Files
BY ConstantsAssumption DEF Types, Stamps

(* The globals another Store may rely on.                                  *)
OnlyOf(s) ==
  /\ setting' = setting
  /\ \A t \in Stores \ {s} : store'[t] = store[t]
  /\ \/ lock \in {s, NoStore} /\ lock' \in {s, NoStore}
     \/ lock' = lock /\ UNCHANGED <<formal, index, journal>>
  /\ \A k \in Stamps : index[k].number # 0 => index'[k].number # 0
  /\ stamp <= stamp'

LEMMA OthersStand ==
  ASSUME PublicationInv, NEW s \in setting.stores, OnlyOf(s), stamp' \in Nat,
         NEW t \in Stores, t # s
  PROVE  StoreInv(t)' /\ (Undisturbed => Quiet(t)')
<1>1. /\ Types /\ StoreInv(t) /\ (Undisturbed => Quiet(t))
      /\ store'[t] = store[t] /\ setting' = setting
      /\ s \in Stores /\ NoStore \notin Stores /\ stamp \in Nat /\ t # NoStore
  BY SettingFields DEF PublicationInv, QuietInv, OnlyOf
<1>2. ASSUME NEW j \in Saved, Sane(j)
      PROVE  Sane(j)'
  <2>1. /\ index[j.revision].number # 0 /\ j.previous[Prose] < j.revision
        /\ \A f \in Files : j.previous[f] <= stamp
        /\ j.revision \in Stamps /\ \A f \in Files : j.previous[f] \in Nat
    BY <1>2, SavedFields, SettingFields, <1>1 DEF Sane
  <2>2. \A f \in Files : j.previous[f] <= stamp'
    BY <1>1, <2>1 DEF OnlyOf
  <2> QED
    BY <2>1, <2>2 DEF Sane, OnlyOf
<1>3. CASE lock \in {s, NoStore} /\ lock' \in {s, NoStore}
  <2>1. ~Works(t) /\ lock # t /\ lock' # t
    BY <1>1, <1>3 DEF StoreInv
  <2>2. ~Works(t)'
    BY <1>1, <2>1 DEF Works
  <2>3. At(t, "waiting")' => Sane(store[t].journal)'
    <3> SUFFICES ASSUME At(t, "waiting")'
                 PROVE  Sane(store[t].journal)'
      OBVIOUS
    <3>1. At(t, "waiting")
      BY <1>1 DEF At
    <3> PICK j \in Saved : j = store[t].journal
      BY <1>1, <3>1, StoreKinds
    <3>2. Sane(j)'
      BY <1>1, <1>2, <3>1 DEF StoreInv
    <3> QED
      BY <1>1, <3>2 DEF Sane
  <2>4. At(t, "submitted")' => index'[store'[t].revision].number # 0
    BY <1>1, StoreKinds DEF StoreInv, At, OnlyOf
  <2>5. StoreInv(t)'
    BY <1>1, <2>1, <2>2, <2>3, <2>4 DEF StoreInv, Works, At, Sane
  <2>6. Undisturbed => ~At(t, "waiting")'
    BY <1>1 DEF StoreInv, Quiet, Alone, At, Closed
  <2> QED
    BY <2>2, <2>5, <2>6 DEF Quiet, Works, At
<1>4. CASE lock' = lock /\ UNCHANGED <<formal, index, journal>>
  <2>1. Works(t) \/ At(t, "waiting") => Sane(store[t].journal)'
    BY <1>1, <1>2, StoreKinds DEF StoreInv
  <2>2. StoreInv(t)'
    BY <1>1, <1>4, <2>1 DEF StoreInv, Works, At, Sane
  <2>3. Undisturbed => Quiet(t)'
    BY <1>1, <1>4 DEF Quiet, Works, At, Alone
  <2> QED
    BY <2>2, <2>3
<1> QED
  BY <1>3, <1>4 DEF OnlyOf

(* What a step of Store s has to show.                                     *)
LEMMA StoreStep ==
  ASSUME PublicationInv, NEW s \in setting.stores, OnlyOf(s), Types', IndexInv',
         (journal # NoJournal => Sane(journal))',
         StoreInv(s)',
         Undisturbed => /\ Quiet(s)' /\ PublishedHeld'
                        /\ LeavesNothing /\ lock' = NoStore => journal' = NoJournal,
         Promised => /\ journal' # NoJournal /\ lock' = NoStore =>
                          store'[s].pc \in {"closed", "waiting"}
                     /\ Committed' => index'[journal'.revision].stage \in {"ready", "completed"}
  PROVE  PublicationInv'
<1>1. setting' = setting /\ stamp' \in Nat /\ s \in Stores
  BY SettingFields DEF OnlyOf, PublicationInv, Types
<1>2. \A t \in Stores : StoreInv(t)' /\ (Undisturbed => Quiet(t)')
  BY <1>1, OthersStand
<1>3. /\ Undisturbed' <=> Undisturbed
      /\ Promised' <=> Promised
      /\ LeavesNothing' <=> LeavesNothing
  BY <1>1 DEF Undisturbed, Promised, LeavesNothing, Alone, UntilCommit
<1>4. QuietInv'
  BY <1>2, <1>3 DEF QuietInv
<1>5. PromisedInv'
  <2> SUFFICES ASSUME Promised, journal' # NoJournal, lock' = NoStore, NEW t \in Stores
               PROVE  store'[t].pc \in {"closed", "waiting"}
    BY <1>3 DEF PromisedInv
  <2>1. Alone
    BY DEF Promised, Undisturbed
  <2>2. CASE t = s
    BY <2>2
  <2>3. CASE t # s
    <3>1. t \notin setting.stores
      BY <2>1, <2>3 DEF Alone
    <3>2. store'[t] = Closed
      BY <1>1, <1>2, <3>1 DEF StoreInv
    <3> QED
      BY <3>2 DEF Closed
  <2> QED
    BY <2>2, <2>3
<1> QED
  BY <1>2, <1>4, <1>5 DEF PublicationInv

(* A step that changes what the Store is doing, and nothing of the book.   *)
LEMMA LocalStep ==
  ASSUME PublicationInv, NEW s \in setting.stores, NEW x \in Places,
         store' = [store EXCEPT ![s] = x],
         UNCHANGED <<formal, index, active, receipts, journal, stamp, setting>>,
         crashes' \in 0..setting.crashes,
         lock' = lock \/ (lock \in {s, NoStore} /\ lock' \in {s, NoStore}),
         StoreInv(s)',
         Undisturbed => /\ Quiet(s)'
                        /\ LeavesNothing /\ lock' = NoStore => journal = NoJournal,
         Promised /\ journal # NoJournal /\ lock' = NoStore => x.pc \in {"closed", "waiting"}
  PROVE  PublicationInv'
<1>1. Types /\ IndexInv /\ (journal # NoJournal => Sane(journal)) /\ QuietInv /\ PromisedInv
  BY DEF PublicationInv
<1>2. s \in Stores /\ stamp \in Nat /\ stamp <= stamp'
  BY <1>1, SettingFields
<1>3. Types'
  BY <1>1, <1>2 DEF Types
<1>4. IndexInv'
  BY <1>1 DEF IndexInv
<1>5. (journal # NoJournal => Sane(journal))'
  BY <1>1 DEF Sane
<1>6. OnlyOf(s)
  BY <1>1, <1>2 DEF OnlyOf, Types
<1>7. store'[s] = x
  BY <1>1, <1>2 DEF Types
<1>8. Undisturbed => PublishedHeld'
  BY <1>1 DEF QuietInv, PublishedHeld, Text, Committed
<1>9. Promised => (Committed' => index'[journal'.revision].stage \in {"ready", "completed"})
  BY <1>1 DEF PromisedInv, Committed
<1> QED
  BY <1>3, <1>4, <1>5, <1>6, <1>7, <1>8, <1>9, StoreStep

LEMMA About ==
  ASSUME PublicationInv, NEW s \in setting.stores
  PROVE  /\ s \in Stores /\ s # NoStore
         /\ Types /\ IndexInv /\ (journal # NoJournal => Sane(journal))
         /\ StoreInv(s) /\ (Undisturbed => Quiet(s)) /\ PromisedInv
         /\ store \in [Stores -> Places] /\ crashes \in 0..setting.crashes
         /\ LeavesNothing /\ Undisturbed /\ lock = NoStore => journal = NoJournal
  BY SettingFields DEF PublicationInv, Types, QuietInv

LEMMA RecoverKeeps ==
  ASSUME PublicationInv, NEW s \in setting.stores, Recover(s), setting' = setting
  PROVE  PublicationInv'
<1> PICK x : x = IF journal = NoJournal THEN Idle ELSE [pc |-> "waiting", journal |-> journal]
  OBVIOUS
<1>1. /\ store' = [store EXCEPT ![s] = x] /\ store'[s] = x
      /\ UNCHANGED <<formal, index, active, receipts, journal, stamp, setting, crashes, lock>>
      /\ setting.late \/ lock = NoStore
      /\ store[s].pc \in {"closed", "idle"}
  BY About DEF Recover, At
<1>2. x \in Places
  BY About DEF Types, Places, Idle
<1>3. x.pc \in {"idle", "waiting"} /\ (journal # NoJournal => x.pc = "waiting")
      /\ (x.pc = "waiting" => x.journal = journal /\ journal # NoJournal)
  BY DEF Idle
<1>4. lock # s
  BY <1>1, About DEF StoreInv, Works
<1>5. StoreInv(s)'
  BY <1>1, <1>3, <1>4, About DEF StoreInv, Works, At, Sane
<1>6. Undisturbed => Quiet(s)'
  BY <1>1, <1>3, About DEF Quiet, Works, At, Undisturbed, Alone
<1> QED
  BY <1>1, <1>2, <1>3, <1>5, <1>6, About, LocalStep

LEMMA RecoverEnterKeeps ==
  ASSUME PublicationInv, NEW s \in setting.stores, RecoverEnter(s), setting' = setting
  PROVE  PublicationInv'
<1> PICK j \in Saved : j = store[s].journal
  BY About, StoreKinds DEF RecoverEnter
<1> PICK x : x = IF CommitIntent(j) THEN [pc |-> "finish", journal |-> j, opening |-> TRUE]
         ELSE [pc |-> "restore", journal |-> j, todo |-> Files, opening |-> TRUE]
  OBVIOUS
<1>1. /\ store' = [store EXCEPT ![s] = x] /\ store'[s] = x
      /\ UNCHANGED <<formal, index, active, receipts, journal, stamp, setting, crashes>>
      /\ lock = NoStore /\ lock' = s /\ At(s, "waiting")
  BY About DEF RecoverEnter, RecoveredJournal, Unlocked
<1>2. x \in Places
  BY DEF Places
<1>3. /\ x.journal = j
      /\ \/ x.pc = "finish" /\ j.status = "completed"
         \/ x.pc = "restore" /\ j.status # "completed" /\ x.todo = Files
  <2>1. CASE CommitIntent(j)
    BY <2>1 DEF CommitIntent
  <2>2. CASE ~CommitIntent(j)
    BY <2>2 DEF CommitIntent
  <2> QED
    BY <2>1, <2>2
<1>4. StoreInv(s)'
  BY <1>1, <1>3, About DEF StoreInv, Works, At, Sane
<1>5. Undisturbed => Quiet(s)'
  BY <1>1, <1>3, About DEF Quiet, Works, At
<1> QED
  BY <1>1, <1>2, <1>4, <1>5, About, LocalStep

LEMMA RecoverTimeoutKeeps ==
  ASSUME PublicationInv, NEW s \in setting.stores, RecoverTimeout(s), setting' = setting
  PROVE  PublicationInv'
<1> PICK x : x = [Idle EXCEPT !.recover = TRUE]
  OBVIOUS
<1>1. /\ store' = [store EXCEPT ![s] = x] /\ store'[s] = x
      /\ UNCHANGED <<formal, index, active, receipts, journal, stamp, setting, crashes, lock>>
      /\ lock # NoStore /\ At(s, "waiting")
  BY About DEF RecoverTimeout
<1>2. x \in Places /\ x.pc = "idle"
  BY DEF Places, Idle
<1>3. ~Undisturbed
  BY <1>1, About DEF Quiet
<1>4. StoreInv(s)'
  BY <1>1, <1>2, About DEF StoreInv, Works, At
<1> QED
  BY <1>1, <1>2, <1>3, <1>4, About, LocalStep DEF Promised

(* A call that fails and leaves its journal.                               *)
LEMMA LeaveKeeps ==
  ASSUME PublicationInv, NEW s \in setting.stores, NEW recover \in BOOLEAN, Works(s),
         Leave(s, recover), setting' = setting, Undisturbed => ~LeavesNothing, ~Promised,
         UNCHANGED <<formal, index, active, receipts, journal, stamp, crashes>>
  PROVE  PublicationInv'
<1> PICK x : x = [Idle EXCEPT !.recover = recover]
  OBVIOUS
<1>1. /\ store' = [store EXCEPT ![s] = x] /\ store'[s] = x
      /\ lock' = NoStore /\ lock = s
  BY About DEF Leave, StoreInv
<1>2. x \in Places /\ x.pc = "idle"
  BY DEF Places, Idle
<1>3. StoreInv(s)'
  BY <1>1, <1>2, About DEF StoreInv, Works, At
<1>4. Undisturbed => Quiet(s)'
  BY <1>1, <1>2 DEF Quiet, Works, At
<1> QED
  BY <1>1, <1>2, <1>3, <1>4, About, LocalStep

(* Where nothing but a write before the commit intent fails, no call       *)
(* leaves its journal.                                                     *)
LEMMA LateFault ==
  ASSUME MayFail("restore") \/ MayFail("index") \/ MayFail("clear")
  PROVE  ~LeavesNothing /\ ~Promised
BY DEF MayFail, LeavesNothing, Promised, UntilCommit

LEMMA IsCompletable ==
  ASSUME PublicationInv, NEW s \in setting.stores, Works(s)
  PROVE  Completable(store[s].journal)
<1> PICK j \in Saved : j = store[s].journal
  BY About, StoreKinds
<1>1. Sane(j)
  BY About DEF StoreInv
<1>2. index[j.revision] \in Entries /\ j.expected = 1
  BY About, SavedFields DEF Types
<1> QED
  BY <1>1, <1>2 DEF Sane, Entries, Completable

LEMMA FailsKeeps ==
  ASSUME PublicationInv, NEW s \in setting.stores, setting' = setting,
         RestoreFails(s) \/ FinishFails(s) \/ ClearFails(s)
  PROVE  PublicationInv'
<1>1. /\ Works(s) /\ Leave(s, store[s].opening)
      /\ UNCHANGED <<formal, index, active, receipts, journal, stamp, crashes>>
  BY DEF RestoreFails, FinishFails, ClearFails, Works, At
<1>2. ~LeavesNothing /\ ~Promised
  BY <1>1, IsCompletable, LateFault DEF RestoreFails, FinishFails, ClearFails
<1> PICK recover \in BOOLEAN : recover = store[s].opening
  BY About, StoreKinds DEF RestoreFails, FinishFails, ClearFails
<1> QED
  BY <1>1, <1>2, LeaveKeeps

LEMMA SubmitKeeps ==
  ASSUME PublicationInv, NEW s \in setting.stores, NEW k \in Stamps, Submit(s, k),
         setting' = setting
  PROVE  PublicationInv'
<1>1. index[k].stage = "ready" /\ index[k].number = 1
  BY About DEF Submit, IndexInv
<1> PICK x : x = [pc |-> "submitted", revision |-> k, expected |-> 1]
  OBVIOUS
<1>2. /\ store' = [store EXCEPT ![s] = x] /\ store'[s] = x
      /\ UNCHANGED <<formal, index, active, receipts, journal, stamp, setting, crashes, lock>>
      /\ At(s, "idle")
  BY <1>1, About DEF Submit, Free
<1>3. x \in Places /\ x.pc = "submitted" /\ x.revision = k
  BY DEF Places
<1>4. StoreInv(s)'
  BY <1>1, <1>2, <1>3, About DEF StoreInv, Works, At
<1>5. Undisturbed => Quiet(s)'
  BY <1>2, <1>3 DEF Quiet, Works, At
<1> QED
  BY <1>2, <1>3, <1>4, <1>5, About, LocalStep DEF PromisedInv, At

LEMMA PublishRefusedKeeps ==
  ASSUME PublicationInv, NEW s \in setting.stores, PublishRefused(s), setting' = setting
  PROVE  PublicationInv'
<1> PICK x : x = Idle
  OBVIOUS
<1>1. /\ store' = [store EXCEPT ![s] = x] /\ store'[s] = x
      /\ UNCHANGED <<formal, index, active, receipts, journal, stamp, setting, crashes, lock>>
      /\ At(s, "submitted")
  BY About DEF PublishRefused
<1>2. x \in Places /\ x.pc = "idle"
  BY DEF Places, Idle
<1>3. StoreInv(s)'
  BY <1>1, <1>2, About DEF StoreInv, Works, At
<1>4. Undisturbed => Quiet(s)'
  BY <1>1, <1>2 DEF Quiet, Works, At
<1> QED
  BY <1>1, <1>2, <1>3, <1>4, About, LocalStep DEF PromisedInv, At

LEMMA ApplyFailsEarlyKeeps ==
  ASSUME PublicationInv, NEW s \in setting.stores, ApplyFails(s), setting' = setting,
         UNCHANGED journal
  PROVE  PublicationInv'
<1> PICK j \in Saved : j = store[s].journal
  BY About, StoreKinds DEF ApplyFails
<1> PICK x : x = [pc |-> "restore", journal |-> j, todo |-> Files, opening |-> FALSE]
  OBVIOUS
<1>1. /\ store' = [store EXCEPT ![s] = x] /\ store'[s] = x
      /\ UNCHANGED <<formal, index, active, receipts, journal, stamp, setting, crashes, lock>>
      /\ At(s, "apply") /\ Works(s)
  BY About DEF ApplyFails, Works, At
<1>2. x \in Places /\ x.pc = "restore" /\ x.journal = j /\ x.todo = Files
  BY DEF Places
<1>3. lock = s /\ lock' # NoStore
  BY <1>1, About DEF StoreInv
<1>4. StoreInv(s)'
  BY <1>1, <1>2, <1>3, About DEF StoreInv, Works, At, Sane
<1>5. Undisturbed => Quiet(s)'
  BY <1>1, <1>2, About DEF Quiet, Works, At
<1> QED
  BY <1>1, <1>2, <1>3, <1>4, <1>5, About, LocalStep

LEMMA CrashKeeps ==
  ASSUME PublicationInv, NEW s \in setting.stores, Crash(s), setting' = setting
  PROVE  PublicationInv'
<1> PICK x : x = Closed
  OBVIOUS
<1>1. /\ store' = [store EXCEPT ![s] = x] /\ store'[s] = x
      /\ UNCHANGED <<formal, index, active, receipts, journal, stamp, setting>>
      /\ lock' = IF lock = s THEN NoStore ELSE lock
      /\ crashes < setting.crashes /\ crashes' = crashes + 1
  BY About DEF Crash
<1>2. x \in Places /\ x.pc = "closed"
  BY DEF Places, Closed
<1>3. crashes' \in 0..setting.crashes /\ ~LeavesNothing
  BY <1>1, About, SettingFields DEF LeavesNothing
<1>4. lock' # s
  BY <1>1, About
<1>5. StoreInv(s)'
  BY <1>1, <1>2, <1>4, About DEF StoreInv, Works, At
<1>6. Undisturbed => Quiet(s)'
  BY <1>1, <1>2 DEF Quiet, Works, At
<1> QED
  BY <1>1, <1>2, <1>3, <1>5, <1>6, About, LocalStep

-----------------------------------------------------------------------------
(* The steps that change the book.  Each is taken under the transaction.   *)

LEMMA Working ==
  ASSUME PublicationInv, NEW s \in setting.stores, Works(s),
         NEW j, j = store[s].journal
  PROVE  /\ j \in Saved /\ Sane(j) /\ lock = s /\ lock # NoStore
         /\ Undisturbed => journal = j
         /\ index[j.revision] \in Entries
<1>1. j \in Saved /\ Sane(j) /\ lock = s /\ lock # NoStore
      /\ (Undisturbed => journal = j)
  BY About, StoreKinds DEF StoreInv, Quiet
<1> QED
  BY <1>1, About, SavedFields DEF Types

LEMMA RestoreFileKeeps ==
  ASSUME PublicationInv, NEW s \in setting.stores, NEW f \in Files, RestoreFile(s, f),
         setting' = setting
  PROVE  PublicationInv'
<1> PICK j : j = store[s].journal
  OBVIOUS
<1>1. At(s, "restore") /\ Works(s) /\ f \in store[s].todo
  BY DEF RestoreFile, Works, At
<1>2. /\ j \in Saved /\ Sane(j) /\ lock = s /\ lock # NoStore
      /\ Undisturbed => journal = j
  BY <1>1, Working
<1> PICK x : x = [store[s] EXCEPT !.todo = @ \ {f}]
  OBVIOUS
<1>3. /\ store' = [store EXCEPT ![s] = x] /\ store'[s] = x
      /\ formal' = [formal EXCEPT ![f] = j.previous[f]]
      /\ UNCHANGED <<index, active, receipts, journal, lock, stamp, crashes, setting>>
  BY About DEF RestoreFile, Restored
<1>4. /\ x \in Places /\ x.pc = "restore" /\ x.journal = j /\ x.todo = store[s].todo \ {f}
      /\ j.status # "completed"
  <2>1. store[s] \in [pc : {"restore", "apply"}, journal : Saved, todo : SUBSET Files,
                      opening : BOOLEAN]
    BY <1>1, About DEF Places, At, Closed
  <2> QED
    BY <1>1, <2>1, About DEF Places, At, StoreInv
<1>5. Types' /\ IndexInv'
  <2>1. formal \in [Files -> 0..MaxStamp] /\ j.previous[f] \in 0..MaxStamp
        /\ j.previous[f] <= stamp
    BY <1>2, About, SavedFields DEF Types, Sane
  <2>2. Types'
    BY <1>3, <1>4, <2>1, About DEF Types
  <2> QED
    BY <1>3, <2>1, <2>2, About DEF IndexInv
<1>6. OnlyOf(s) /\ (journal # NoJournal => Sane(journal))'
  BY <1>2, <1>3, About, SettingFields DEF OnlyOf, Sane
<1>7. StoreInv(s)'
  BY <1>2, <1>3, <1>4, About DEF StoreInv, Works, At, Sane
<1>8. Undisturbed => Quiet(s)' /\ PublishedHeld' /\ ~Committed'
  <2> SUFFICES ASSUME Undisturbed
               PROVE  Quiet(s)' /\ PublishedHeld' /\ ~Committed'
    OBVIOUS
  <2>1. journal = j /\ journal' = j /\ j # NoJournal /\ PublishedHeld
    BY <1>2, <1>3, SavedFields DEF PublicationInv, QuietInv
  <2>2. \A g \in Files \ x.todo : formal'[g] = j.previous[g]
    BY <1>1, <1>3, <1>4, <2>1, About DEF Quiet, Types
  <2>3. Quiet(s)'
    BY <1>3, <1>4, <2>1, <2>2 DEF Quiet, Works, At
  <2>4. Text' = Text /\ ~Committed'
    BY <1>4, <2>1 DEF Text, Committed
  <2> QED
    BY <1>3, <2>1, <2>3, <2>4 DEF PublishedHeld
<1> QED
  BY <1>2, <1>3, <1>5, <1>6, <1>7, <1>8, StoreStep DEF Promised

LEMMA ApplyFileKeeps ==
  ASSUME PublicationInv, NEW s \in setting.stores, NEW f \in Files, ApplyFile(s, f),
         setting' = setting
  PROVE  PublicationInv'
<1> PICK j : j = store[s].journal
  OBVIOUS
<1>1. At(s, "apply") /\ Works(s) /\ f \in store[s].todo
  BY DEF ApplyFile, Works, At
<1>2. /\ j \in Saved /\ Sane(j) /\ lock = s /\ lock # NoStore
      /\ Undisturbed => journal = j
  BY <1>1, Working
<1> PICK x : x = [store[s] EXCEPT !.todo = @ \ {f}]
  OBVIOUS
<1>3. /\ store' = [store EXCEPT ![s] = x] /\ store'[s] = x
      /\ formal' = [formal EXCEPT ![f] = j.revision]
      /\ UNCHANGED <<index, active, receipts, journal, lock, stamp, crashes, setting>>
  BY About DEF ApplyFile
<1>4. /\ x \in Places /\ x.pc = "apply" /\ x.journal = j /\ x.todo = store[s].todo \ {f}
      /\ j.status # "completed" /\ index[j.revision].stage = "ready"
  <2>1. store[s] \in [pc : {"restore", "apply"}, journal : Saved, todo : SUBSET Files,
                      opening : BOOLEAN]
    BY <1>1, About DEF Places, At, Closed
  <2> QED
    BY <1>1, <2>1, About DEF Places, At, StoreInv
<1>5. Types' /\ IndexInv'
  <2>1. formal \in [Files -> 0..MaxStamp] /\ j.revision \in 0..MaxStamp
        /\ j.revision = stamp
    BY <1>2, <1>4, About, SavedFields DEF Types, IndexInv, Stamps
  <2>2. Types'
    BY <1>3, <1>4, <2>1, About DEF Types
  <2> QED
    BY <1>3, <2>1, <2>2, About DEF IndexInv
<1>6. OnlyOf(s) /\ (journal # NoJournal => Sane(journal))'
  BY <1>2, <1>3, About, SettingFields DEF OnlyOf, Sane
<1>7. StoreInv(s)'
  BY <1>2, <1>3, <1>4, About DEF StoreInv, Works, At, Sane
<1>8. Undisturbed => Quiet(s)' /\ PublishedHeld' /\ ~Committed'
  <2> SUFFICES ASSUME Undisturbed
               PROVE  Quiet(s)' /\ PublishedHeld' /\ ~Committed'
    OBVIOUS
  <2>1. journal = j /\ journal' = j /\ j # NoJournal /\ PublishedHeld
    BY <1>2, <1>3, SavedFields DEF PublicationInv, QuietInv
  <2>2. \A g \in Files \ x.todo : formal'[g] = j.revision
    BY <1>1, <1>3, <1>4, <2>1, About DEF Quiet, Types
  <2>3. Quiet(s)'
    BY <1>3, <1>4, <2>1, <2>2 DEF Quiet, Works, At
  <2>4. Text' = Text /\ ~Committed'
    BY <1>4, <2>1 DEF Text, Committed
  <2> QED
    BY <1>3, <2>1, <2>3, <2>4 DEF PublishedHeld
<1> QED
  BY <1>2, <1>3, <1>5, <1>6, <1>7, <1>8, StoreStep DEF Promised

(* The journal is removed: what it would have brought back is the text.    *)
LEMMA RemoveKeeps ==
  ASSUME PublicationInv, NEW s \in setting.stores, Works(s), Leave(s, FALSE),
         journal' = NoJournal, setting' = setting, Undisturbed => formal = Text,
         UNCHANGED <<formal, index, active, receipts, stamp, crashes>>
  PROVE  PublicationInv'
<1> PICK x : x = [Idle EXCEPT !.recover = FALSE]
  OBVIOUS
<1>1. store' = [store EXCEPT ![s] = x] /\ store'[s] = x /\ lock' = NoStore /\ lock = s
  BY About, Working DEF Leave
<1>2. x \in Places /\ x.pc = "idle"
  BY DEF Places, Idle
<1>3. Types' /\ IndexInv'
  BY <1>1, <1>2, About DEF Types, IndexInv
<1>4. OnlyOf(s)
  BY <1>1, About, SettingFields DEF OnlyOf
<1>5. StoreInv(s)'
  BY <1>1, <1>2, About DEF StoreInv, Works, At
<1>6. Undisturbed => Quiet(s)' /\ PublishedHeld'
  <2>1. Text' = formal /\ ~Committed'
    BY DEF Text, Committed
  <2> QED
    BY <1>1, <1>2, <2>1 DEF Quiet, Works, At, PublishedHeld, PublicationInv, QuietInv
<1>7. ~Committed'
  BY DEF Committed
<1> QED
  BY <1>3, <1>4, <1>5, <1>6, <1>7, StoreStep

(* Undone file by file, the book is what the journal had saved.            *)
LEMMA RestoredText ==
  ASSUME PublicationInv, NEW s \in setting.stores, RestoreDone(s), Undisturbed
  PROVE  formal = Text /\ ~Committed
<1> PICK j : j = store[s].journal
  OBVIOUS
<1>1. At(s, "restore") /\ Works(s) /\ store[s].todo = {}
  BY DEF RestoreDone, Works, At
<1>2. j \in Saved /\ journal = j
  BY <1>1, Working
<1>3. journal = j /\ journal # NoJournal /\ j.status # "completed"
      /\ \A f \in Files : formal[f] = j.previous[f]
  BY <1>1, <1>2, About, SavedFields DEF Quiet, StoreInv
<1>4. formal \in [Files -> 0..MaxStamp] /\ j.previous \in [Files -> 0..MaxStamp]
  BY <1>2, About, SavedFields DEF Types
<1>5. formal = j.previous
  BY <1>3, <1>4
<1> QED
  BY <1>3, <1>5 DEF Text, Committed

LEMMA RestoreDoneKeeps ==
  ASSUME PublicationInv, NEW s \in setting.stores, RestoreDone(s), setting' = setting
  PROVE  PublicationInv'
<1>1. /\ Works(s) /\ Leave(s, FALSE)
      /\ UNCHANGED <<formal, index, active, receipts, stamp, crashes>>
  BY DEF RestoreDone, Works, At
<1>2. CASE journal' = NoJournal
  BY <1>1, <1>2, RestoredText, RemoveKeeps
<1>3. CASE MayFail("clear") /\ UNCHANGED journal
  BY <1>1, <1>3, LateFault, LeaveKeeps
<1> QED
  BY <1>2, <1>3 DEF RestoreDone, AfterRestore

LEMMA ClearKeeps ==
  ASSUME PublicationInv, NEW s \in setting.stores, Clear(s), setting' = setting
  PROVE  PublicationInv'
<1> PICK j : j = store[s].journal
  OBVIOUS
<1>1. Works(s) /\ j.status = "completed"
  BY About DEF Clear, Works, At, StoreInv
<1>2. Undisturbed => formal = Text
  BY <1>1, Working DEF Text
<1> QED
  BY <1>1, <1>2, RemoveKeeps DEF Clear

LEMMA FinishKeeps ==
  ASSUME PublicationInv, NEW s \in setting.stores, Finish(s), setting' = setting
  PROVE  PublicationInv'
<1> PICK j : j = store[s].journal
  OBVIOUS
<1>1. At(s, "finish") /\ Works(s) /\ j.status = "completed"
  BY About DEF Finish, Works, At, StoreInv
<1>2. /\ j \in Saved /\ Sane(j) /\ lock = s /\ lock # NoStore
      /\ Undisturbed => journal = j
      /\ j.revision \in Stamps /\ j.expected = 1 /\ j # NoJournal
      /\ index[j.revision] \in Entries
  BY <1>1, Working, SavedFields
<1> PICK k \in Stamps : k = j.revision
  BY <1>2
<1> PICK e \in Entries : e = index[k]
  BY <1>2
<1> PICK x : x = [store[s] EXCEPT !.pc = "clear"]
  OBVIOUS
<1>3. /\ store' = [store EXCEPT ![s] = x] /\ store'[s] = x
      /\ UNCHANGED <<formal, journal, lock, stamp, crashes, setting>>
      /\ e.number \in {1, 2}
      /\ receipts' = receipts \union {k}
      /\ index' = IF e.number = 1
                    THEN [index EXCEPT ![k].number = @ + 1, ![k].stage = "completed"]
                    ELSE index
      /\ active' = IF e.number = 1 THEN 0 ELSE active
  BY <1>2, About DEF Finish, Complete, Completable
<1>4. x \in Places /\ x.pc = "clear" /\ x.journal = j
  <2>1. store[s] \in [pc : {"finish", "clear"}, journal : Saved, opening : BOOLEAN]
    BY <1>1, About DEF Places, At, Closed
  <2> QED
    BY <1>1, <2>1 DEF Places
<1>d. PICK d : d = IF e.number = 1
                     THEN [[e EXCEPT !.number = 2] EXCEPT !.stage = "completed"] ELSE e
  OBVIOUS
<1>5. d \in Entries /\ d.number = 2 /\ d.base = e.base
      /\ (e.number = 1 => d.stage = "completed") /\ (e.number = 2 => d.stage = e.stage)
  <2>1. CASE e.number = 1
    <3>1. d = [[e EXCEPT !.number = 2] EXCEPT !.stage = "completed"]
      BY <1>d, <2>1
    <3>2. d \in Entries
      BY <3>1 DEF Entries
    <3>3. d.number = 2 /\ d.stage = "completed" /\ d.base = e.base
      BY <3>1 DEF Entries
    <3> QED
      BY <2>1, <3>2, <3>3
  <2>2. CASE e.number = 2
    BY <1>d, <2>2
  <2> QED
    BY <1>3, <2>1, <2>2
<1>6. index \in [Stamps -> Entries] /\ index' = [index EXCEPT ![k] = d]
  <2>1. index \in [Stamps -> Entries]
    BY About DEF Types
  <2>2. CASE e.number = 1
    <3>1. index' = [index EXCEPT ![k].number = 2, ![k].stage = "completed"]
      BY <1>3, <2>1, <2>2
    <3>2. d = [[e EXCEPT !.number = 2] EXCEPT !.stage = "completed"]
      BY <1>d, <2>2
    <3> QED
      BY <2>1, <3>1, <3>2
  <2>3. CASE e.number = 2
    <3>1. index' = index /\ d = index[k]
      BY <1>d, <1>3, <2>3
    <3> QED
      BY <2>1, <3>1
  <2> QED
    BY <1>3, <2>1, <2>2, <2>3
<1>7. index'[k] = d /\ \A i \in Stamps \ {k} : index'[i] = index[i]
  BY <1>6
<1>8. e.number = 1 => e.stage = "ready" /\ active = k /\ stamp = k
  BY About DEF IndexInv
<1>9. Types'
  <2>1. index' \in [Stamps -> Entries]
    BY <1>5, <1>6
  <2>2. active' \in {0} \union Stamps /\ receipts' \subseteq Stamps
    BY <1>3, About DEF Types
  <2>3. store' \in [Stores -> Places]
    BY <1>3, <1>4, About DEF Types
  <2> QED
    BY <1>3, <2>1, <2>2, <2>3, About DEF Types
<1>10. IndexInv'
  <2>1. ASSUME NEW i \in Stamps
        PROVE  /\ i > stamp => index'[i].stage = "none"
               /\ index'[i].stage = "none" <=> index'[i].number = 0
               /\ index'[i].stage = "ready" <=> index'[i].number = 1
               /\ index'[i].stage = "ready" => active' = i /\ stamp = i
               /\ index'[i].stage # "none" => index'[i].base < i
    <3>1. CASE i = k
      <4>1. e.base < k /\ ~(k > stamp)
        BY <1>3, <1>8, About, SettingFields DEF IndexInv
      <4>2. d.stage \notin {"none", "ready"}
        BY <1>3, <1>5, About DEF IndexInv
      <4> QED
        BY <1>5, <1>7, <3>1, <4>1, <4>2
    <3>2. CASE i # k
      <4>1. /\ i > stamp => index[i].stage = "none"
            /\ index[i].stage = "none" <=> index[i].number = 0
            /\ index[i].stage = "ready" <=> index[i].number = 1
            /\ index[i].stage = "ready" => active = i /\ stamp = i
            /\ index[i].stage # "none" => index[i].base < i
        BY About DEF IndexInv
      <4>2. index[i].stage = "ready" => active' = i
        BY <1>3, <1>8, <3>2, <4>1
      <4> QED
        BY <1>7, <3>2, <4>1, <4>2
    <3> QED
      BY <3>1, <3>2
  <2>2. active' # 0 => index'[active'].stage = "ready"
    BY <1>3, <1>6, About DEF IndexInv
  <2> QED
    BY <1>3, <2>1, <2>2, About DEF IndexInv
<1>11. \A i \in Stamps : index[i].number # 0 => index'[i].number # 0
  BY <1>5, <1>7
<1>12. OnlyOf(s) /\ (journal # NoJournal => Sane(journal))' /\ StoreInv(s)'
  <2>1. OnlyOf(s)
    <3>1. stamp <= stamp'
      BY <1>3, About, SettingFields
    <3>2. \A t \in Stores \ {s} : store'[t] = store[t]
      BY <1>3, About
    <3> QED
      BY <1>2, <1>3, <1>11, <3>1, <3>2 DEF OnlyOf
  <2>2. journal # NoJournal => journal \in Saved /\ Sane(journal)
    BY About DEF Types
  <2>3. (journal # NoJournal => Sane(journal))'
    BY <1>3, <1>11, <2>2, SavedFields DEF Sane
  <2>4. index'[j.revision].number # 0
    BY <1>2, <1>5, <1>7
  <2>5. Sane(store[s].journal)'
    BY <1>2, <1>3, <1>4, <2>4 DEF Sane
  <2>6. store'[s].journal.revision = k
    BY <1>3, <1>4
  <2>7. s \notin setting.stores => store'[s] = Closed
    OBVIOUS
  <2>8. Works(s)' /\ lock' = s /\ At(s, "clear")' /\ ~At(s, "submitted")'
        /\ ~At(s, "apply")' /\ ~At(s, "restore")'
    BY <1>2, <1>3, <1>4 DEF Works, At
  <2>9. index'[store'[s].journal.revision].number = 2
    BY <1>5, <1>7, <2>6
  <2>10. store'[s].journal.status = "completed" /\ setting' = setting
    BY <1>1, <1>3, <1>4
  <2>11. StoreInv(s)'
    BY <2>5, <2>7, <2>8, <2>9, <2>10 DEF StoreInv
  <2> QED
    BY <2>1, <2>3, <2>11
<1>13. Undisturbed => Quiet(s)' /\ PublishedHeld'
  <2> SUFFICES ASSUME Undisturbed
               PROVE  Quiet(s)' /\ PublishedHeld'
    OBVIOUS
  <2>1. journal = j /\ PublishedHeld /\ Committed
    BY <1>1, <1>2 DEF PublicationInv, QuietInv, Committed
  <2>2. Text = formal /\ Text' = formal
    BY <1>1, <1>3, <2>1 DEF Text
  <2>3. \A f \in Files : formal[f] >= k
    BY <2>1 DEF PublishedHeld
  <2>4. \A i \in Stamps, f \in Files : index'[i].stage = "completed" => formal[f] >= i
    BY <1>7, <2>1, <2>2, <2>3 DEF PublishedHeld
  <2>5. PublishedHeld'
    BY <1>3, <2>1, <2>2, <2>3, <2>4 DEF PublishedHeld
  <2> QED
    BY <1>3, <1>4, <2>1, <2>5 DEF Quiet, Works, At
<1>14. Promised => (Committed' => index'[journal'.revision].stage \in {"ready", "completed"})
  <2> SUFFICES ASSUME Promised
               PROVE  index'[k].stage \in {"ready", "completed"} /\ journal' = j
    OBVIOUS
  <2>1. journal = j /\ Committed
    BY <1>1, <1>2 DEF Promised, Committed
  <2> QED
    BY <1>3, <1>5, <1>7, <2>1, About DEF PromisedInv
<1> QED
  BY <1>2, <1>3, <1>9, <1>10, <1>11, <1>12, <1>13, <1>14, StoreStep

LEMMA PublishEnterKeeps ==
  ASSUME PublicationInv, NEW s \in setting.stores, PublishEnter(s), setting' = setting
  PROVE  PublicationInv'
<1> PICK k \in Stamps : k = store[s].revision
  BY About, StoreKinds DEF PublishEnter
<1> PICK j : j = [status |-> "prepared", revision |-> k, expected |-> 1, previous |-> formal]
  OBVIOUS
<1> PICK x : x = [pc |-> "apply", journal |-> j, todo |-> Files, opening |-> FALSE]
  OBVIOUS
<1>1. /\ store' = [store EXCEPT ![s] = x] /\ store'[s] = x
      /\ journal' = j /\ lock' = s /\ lock = NoStore /\ journal = NoJournal
      /\ UNCHANGED <<formal, index, active, receipts, stamp, crashes, setting>>
      /\ index[k].number = 1 /\ formal[Prose] = index[k].base
  BY About, StoreKinds DEF PublishEnter, Refused, Unchanged, LeftOver, Prepared
<1>2. index[k].stage = "ready" /\ index[k].base < k /\ stamp = k
  BY <1>1, About DEF IndexInv
<1>3. j \in Saved /\ x \in Places
  <2>1. formal \in [Files -> 0..MaxStamp]
    BY About DEF Types
  <2> QED
    BY <2>1 DEF Saved, Places
<1>4. Types' /\ IndexInv'
  BY <1>1, <1>3, About DEF Types, IndexInv
<1>5. Sane(j)'
  BY <1>1, <1>2, About DEF Sane, IndexInv
<1>6. OnlyOf(s) /\ (journal # NoJournal => Sane(journal))'
  BY <1>1, <1>5, About, SettingFields DEF OnlyOf, Sane
<1>7. StoreInv(s)'
  BY <1>1, <1>2, <1>5, About DEF StoreInv, Works, At, Sane
<1>8. ~Committed'
  BY <1>1 DEF Committed
<1>9. Undisturbed => Quiet(s)' /\ PublishedHeld'
  <2>1. Text' = Text
    BY <1>1, <1>3, SavedFields DEF Text
  <2> QED
    BY <1>1, <1>8, <2>1 DEF Quiet, Works, At, PublishedHeld, PublicationInv, QuietInv
<1> QED
  BY <1>1, <1>4, <1>6, <1>7, <1>8, <1>9, About, StoreStep

LEMMA MarkKeeps ==
  ASSUME PublicationInv, NEW s \in setting.stores, Mark(s), setting' = setting
  PROVE  PublicationInv'
<1> PICK j : j = store[s].journal
  OBVIOUS
<1>1. At(s, "apply") /\ Works(s) /\ store[s].todo = {}
  BY DEF Mark, Works, At
<1>2. /\ j \in Saved /\ Sane(j) /\ lock = s /\ lock # NoStore
      /\ Undisturbed => journal = j
      /\ j.status \in {"prepared", "formal_applied"} /\ j # NoJournal
      /\ index[j.revision].stage = "ready" /\ j.revision \in Stamps
  BY <1>1, About, Working, SavedFields DEF StoreInv
<1> PICK i : i = [j EXCEPT !.status = Marked(@)]
  OBVIOUS
<1>3. /\ i \in Saved /\ i.revision = j.revision /\ i.previous = j.previous
      /\ i.status \in {"formal_applied", "completed"} /\ i # NoJournal
  <2>1. Marked(j.status) \in {"formal_applied", "completed"}
    BY <1>2 DEF Marked
  <2> QED
    BY <1>2, <2>1, SavedFields DEF Saved
<1> PICK x : x = IF i.status = "completed"
                   THEN [pc |-> "finish", journal |-> i, opening |-> FALSE]
                   ELSE [store[s] EXCEPT !.journal = i]
  OBVIOUS
<1>4. /\ store' = [store EXCEPT ![s] = x] /\ store'[s] = x /\ journal' = i
      /\ UNCHANGED <<formal, index, active, receipts, lock, stamp, crashes, setting>>
  BY About DEF Mark
<1>5. /\ x \in Places /\ x.journal = i
      /\ \/ x.pc = "finish" /\ i.status = "completed"
         \/ x.pc = "apply" /\ i.status # "completed" /\ x.todo = {}
  <2>1. store[s] \in [pc : {"restore", "apply"}, journal : Saved, todo : SUBSET Files,
                      opening : BOOLEAN]
    BY <1>1, About DEF Places, At, Closed
  <2>2. CASE i.status = "completed"
    BY <1>3, <2>2 DEF Places
  <2>3. CASE i.status # "completed"
    <3>1. x = [store[s] EXCEPT !.journal = i]
      BY <2>3
    <3>2. x \in [pc : {"restore", "apply"}, journal : Saved, todo : SUBSET Files,
                 opening : BOOLEAN]
      BY <1>3, <2>1, <3>1
    <3> QED
      BY <1>1, <2>1, <2>3, <3>1, <3>2 DEF Places, At
  <2> QED
    BY <2>2, <2>3
<1>6. Types' /\ IndexInv'
  BY <1>3, <1>4, <1>5, About DEF Types, IndexInv
<1>7. Sane(i)'
  BY <1>2, <1>3, <1>4 DEF Sane
<1>8. OnlyOf(s) /\ (journal # NoJournal => Sane(journal))'
  BY <1>2, <1>4, <1>7, About, SettingFields DEF OnlyOf, Sane
<1>9. StoreInv(s)'
  BY <1>2, <1>3, <1>4, <1>5, <1>7, About DEF StoreInv, Works, At, Sane
<1>10. Undisturbed => Quiet(s)' /\ PublishedHeld'
  <2> SUFFICES ASSUME Undisturbed
               PROVE  Quiet(s)' /\ PublishedHeld'
    OBVIOUS
  <2>1. journal = j /\ PublishedHeld /\ \A f \in Files : formal[f] = j.revision
    BY <1>1, <1>2, About DEF PublicationInv, QuietInv, Quiet
  <2>2. j.revision = stamp
    BY <1>2, About DEF IndexInv
  <2>3. \A k \in Stamps, f \in Files : index[k].stage = "completed" => formal[f] >= k
    BY <2>1, <2>2, About, SettingFields DEF IndexInv
  <2>4. Text' = formal \/ Text' = Text
    BY <1>2, <1>3, <1>4, <2>1 DEF Text
  <2>5. \A f \in Files : formal[f] >= i.revision
    BY <1>3, <2>1, <2>2, SettingFields, About
  <2>6. PublishedHeld'
    BY <1>4, <2>1, <2>3, <2>4, <2>5 DEF PublishedHeld
  <2> QED
    BY <1>3, <1>4, <1>5, <2>1, <2>6 DEF Quiet, Works, At
<1>11. index'[journal'.revision].stage = "ready" /\ lock' # NoStore
  BY <1>2, <1>3, <1>4
<1> QED
  BY <1>6, <1>8, <1>9, <1>10, <1>11, StoreStep

(* A journal that was marked by a failing write is rolled back as it was   *)
(* before; where this may happen, nothing is promised.                     *)
LEMMA ApplyFailsLateKeeps ==
  ASSUME PublicationInv, NEW s \in setting.stores, ApplyFails(s), setting' = setting,
         ~UNCHANGED journal
  PROVE  PublicationInv'
<1> PICK j : j = store[s].journal
  OBVIOUS
<1> PICK i : i = [j EXCEPT !.status = Marked(@)]
  OBVIOUS
<1> PICK x : x = [pc |-> "restore", journal |-> j, todo |-> Files, opening |-> FALSE]
  OBVIOUS
<1>1. /\ store' = [store EXCEPT ![s] = x] /\ store'[s] = x /\ journal' = i
      /\ UNCHANGED <<formal, index, active, receipts, lock, stamp, crashes, setting>>
      /\ At(s, "apply") /\ Works(s) /\ MayFail("marked")
  BY About DEF ApplyFails, Works, At
<1>2. ~Undisturbed /\ ~Promised
  BY <1>1 DEF MayFail, Undisturbed, Promised
<1>3. /\ j \in Saved /\ Sane(j) /\ lock = s /\ lock # NoStore
      /\ j.status \in {"prepared", "formal_applied"} /\ j.revision \in Stamps
      /\ index[j.revision].stage = "ready"
  BY <1>1, About, Working, SavedFields DEF StoreInv
<1>4. i \in Saved /\ i.revision = j.revision /\ i.previous = j.previous
  <2>1. Marked(j.status) \in {"formal_applied", "completed"}
    BY <1>3 DEF Marked
  <2> QED
    BY <1>3, <2>1, SavedFields DEF Saved
<1>5. x \in Places /\ x.pc = "restore" /\ x.journal = j /\ x.todo = Files
  BY <1>3 DEF Places
<1>6. Types' /\ IndexInv'
  BY <1>1, <1>4, <1>5, About DEF Types, IndexInv
<1>7. Sane(i)' /\ Sane(j)'
  BY <1>1, <1>3, <1>4 DEF Sane
<1>8. OnlyOf(s) /\ (journal # NoJournal => Sane(journal))'
  BY <1>1, <1>3, <1>7, About, SettingFields DEF OnlyOf, Sane
<1>9. StoreInv(s)'
  BY <1>1, <1>3, <1>5, <1>7, About DEF StoreInv, Works, At, Sane
<1> QED
  BY <1>2, <1>6, <1>8, <1>9, StoreStep

LEMMA ApplyFailsKeeps ==
  ASSUME PublicationInv, NEW s \in setting.stores, ApplyFails(s), setting' = setting
  PROVE  PublicationInv'
BY ApplyFailsEarlyKeeps, ApplyFailsLateKeeps

(* The commands that go by the index.                                      *)

LEMMA StartKeeps ==
  ASSUME PublicationInv, NEW s \in setting.stores, Start(s), setting' = setting
  PROVE  PublicationInv'
<1> PICK n : n = stamp + 1
  OBVIOUS
<1> PICK d : d = [number |-> 1, stage |-> "ready", base |-> formal[Prose]]
  OBVIOUS
<1>1. /\ At(s, "idle") /\ lock = NoStore /\ active = 0 /\ stamp < MaxStamp
      /\ stamp' = n /\ active' = n /\ index' = [index EXCEPT ![n] = d]
      /\ UNCHANGED <<formal, receipts, journal, lock, store, crashes, setting>>
  BY DEF Start, Free
<1>2. /\ n \in Stamps /\ n > stamp /\ stamp \in Nat /\ n \in 0..MaxStamp
      /\ formal[Prose] \in 0..MaxStamp /\ formal[Prose] <= stamp
  BY <1>1, About, SettingFields DEF Types, IndexInv, Stamps
<1>3. d \in Entries /\ index[n].stage = "none" /\ index[n].number = 0
  BY <1>2, About DEF Entries, IndexInv
<1>4. index \in [Stamps -> Entries] /\ index'[n] = d
      /\ \A i \in Stamps \ {n} : index'[i] = index[i]
  BY <1>1, <1>2, About DEF Types
<1>5. Types'
  BY <1>1, <1>2, <1>3, <1>4, About DEF Types
<1>6. IndexInv'
  <2>1. ASSUME NEW i \in Stamps
        PROVE  /\ i > n => index'[i].stage = "none"
               /\ index'[i].stage = "none" <=> index'[i].number = 0
               /\ index'[i].stage = "ready" <=> index'[i].number = 1
               /\ index'[i].stage = "ready" => n = i
               /\ index'[i].stage # "none" => index'[i].base < i
    <3>1. CASE i = n
      BY <1>2, <1>4, <3>1
    <3>2. CASE i # n
      <4>1. i > n => i > stamp
        BY <1>2, SettingFields, About
      <4>2. index[i].stage # "ready"
        BY <1>1, <1>2, About, SettingFields DEF IndexInv
      <4> QED
        BY <1>4, <3>2, <4>1, <4>2, About DEF IndexInv
    <3> QED
      BY <3>1, <3>2
  <2>2. \A f \in Files : formal[f] <= n
    BY <1>2, About DEF IndexInv, Types
  <2> QED
    BY <1>1, <1>4, <2>1, <2>2 DEF IndexInv
<1>7. \A i \in Stamps : index[i].number # 0 => index'[i] = index[i]
  BY <1>3, <1>4
<1>8. journal # NoJournal =>
        /\ journal \in Saved /\ Sane(journal)' /\ index'[journal.revision] = index[journal.revision]
  <2> SUFFICES ASSUME journal # NoJournal
               PROVE  /\ journal \in Saved /\ Sane(journal)'
                      /\ index'[journal.revision] = index[journal.revision]
    OBVIOUS
  <2>1. journal \in Saved /\ Sane(journal) /\ journal' = journal
    BY <1>1, About DEF Types
  <2>2. index'[journal.revision] = index[journal.revision]
    BY <1>7, <2>1, SavedFields DEF Sane
  <2>3. \A f \in Files : journal.previous[f] \in Nat
    BY <2>1, SavedFields, SettingFields
  <2> QED
    BY <1>1, <1>2, <2>1, <2>2, <2>3 DEF Sane
<1>9. OnlyOf(s) /\ (journal # NoJournal => Sane(journal))'
  BY <1>1, <1>2, <1>7, <1>8 DEF OnlyOf
<1>10. StoreInv(s)'
  BY <1>1, About DEF StoreInv, Works, At
<1>11. Undisturbed => Quiet(s)' /\ PublishedHeld'
  <2>1. \A i \in Stamps : index'[i].stage = "completed" => index[i].stage = "completed"
    BY <1>4
  <2>2. Text' = Text
    BY <1>1 DEF Text
  <2> QED
    BY <1>1, <2>1, <2>2 DEF Quiet, Works, At, PublishedHeld, Committed, PublicationInv, QuietInv
<1>12. Promised => /\ journal' # NoJournal /\ lock' = NoStore => store'[s].pc \in {"closed", "waiting"}
                   /\ Committed' => index'[journal'.revision].stage \in {"ready", "completed"}
  BY <1>1, <1>8, About DEF PromisedInv, Committed
<1> QED
  BY <1>1, <1>5, <1>6, <1>9, <1>10, <1>11, <1>12, About, StoreStep

LEMMA CancelKeeps ==
  ASSUME PublicationInv, NEW s \in setting.stores, NEW k \in Stamps, Cancel(s, k),
         setting' = setting
  PROVE  PublicationInv'
<1> PICK e \in Entries : e = index[k]
  BY About DEF Types
<1>d. PICK d : d = [[e EXCEPT !.number = 2] EXCEPT !.stage = "cancelled"]
  OBVIOUS
<1>1. /\ At(s, "idle") /\ lock = NoStore /\ e.stage = "ready" /\ active' = 0
      /\ index' = [index EXCEPT ![k].number = @ + 1, ![k].stage = "cancelled"]
      /\ UNCHANGED <<formal, receipts, journal, lock, store, stamp, crashes, setting>>
  BY DEF Cancel, Free
<1>2. /\ e.number = 1 /\ active = k /\ stamp = k /\ e.base < k
      /\ d \in Entries /\ d.number = 2 /\ d.stage = "cancelled" /\ d.base = e.base
  BY <1>d, <1>1, About DEF IndexInv, Entries
<1>3. index \in [Stamps -> Entries] /\ index' = [index EXCEPT ![k] = d]
  <2>1. index' = [index EXCEPT ![k].number = 2, ![k].stage = "cancelled"]
    BY <1>1, <1>2, About DEF Types
  <2> QED
    BY <1>d, <2>1, About DEF Types
<1>4. index'[k] = d /\ \A i \in Stamps \ {k} : index'[i] = index[i]
  BY <1>3
<1>5. Types'
  BY <1>1, <1>2, <1>3, About DEF Types
<1>6. IndexInv'
  <2>1. ASSUME NEW i \in Stamps
        PROVE  /\ i > stamp => index'[i].stage = "none"
               /\ index'[i].stage = "none" <=> index'[i].number = 0
               /\ index'[i].stage = "ready" <=> index'[i].number = 1
               /\ index'[i].stage # "ready"
               /\ index'[i].stage # "none" => index'[i].base < i
    <3>1. CASE i = k
      BY <1>2, <1>4, <3>1, SettingFields, About
    <3>2. CASE i # k
      BY <1>2, <1>4, <3>2, About DEF IndexInv
    <3> QED
      BY <3>1, <3>2
  <2> QED
    BY <1>1, <2>1, About DEF IndexInv
<1>7. \A i \in Stamps : index[i].number # 0 => index'[i].number # 0
  BY <1>2, <1>4
<1>8. journal # NoJournal => Sane(journal)'
  <2>1. journal # NoJournal => journal \in Saved
    BY About DEF Types
  <2> QED
    BY <1>1, <1>7, <2>1, SavedFields, About DEF Sane
<1>9. OnlyOf(s) /\ (journal # NoJournal => Sane(journal))'
  <2>1. stamp <= stamp'
    BY <1>1, About, SettingFields
  <2>2. OnlyOf(s)
    BY <1>1, <1>7, <2>1 DEF OnlyOf
  <2> QED
    BY <1>1, <1>8, <2>2
<1>10. StoreInv(s)'
  BY <1>1, About DEF StoreInv, Works, At
<1>11. Undisturbed => Quiet(s)' /\ PublishedHeld'
  <2>1. \A i \in Stamps : index'[i].stage = "completed" => index[i].stage = "completed"
    BY <1>2, <1>4
  <2>2. Text' = Text
    BY <1>1 DEF Text
  <2> QED
    BY <1>1, <2>1, <2>2 DEF Quiet, Works, At, PublishedHeld, Committed, PublicationInv, QuietInv
<1>12. Promised => journal = NoJournal
  BY <1>1, About DEF PromisedInv, At
<1> QED
  BY <1>1, <1>5, <1>6, <1>9, <1>10, <1>11, <1>12, About, StoreStep DEF Committed

LEMMA FlowWriteKeeps ==
  ASSUME PublicationInv, NEW s \in setting.stores, FlowWrite(s), setting' = setting
  PROVE  PublicationInv'
<1> PICK n : n = stamp + 1
  OBVIOUS
<1>1. /\ At(s, "idle") /\ lock = NoStore /\ active = 0 /\ stamp < MaxStamp
      /\ stamp' = n /\ formal' = [formal EXCEPT ![Prose] = n]
      /\ UNCHANGED <<index, active, receipts, journal, lock, store, crashes, setting>>
  BY DEF FlowWrite, FlowAllowed
<1>2. n > stamp /\ stamp \in Nat /\ n \in 0..MaxStamp /\ Prose \in Files
      /\ formal \in [Files -> 0..MaxStamp]
  BY <1>1, About, SettingFields DEF Types
<1>3. \A f \in Files : /\ formal[f] \in Nat /\ formal'[f] \in Nat
                       /\ formal'[f] >= formal[f] /\ formal'[f] <= n
  BY <1>1, <1>2, SettingFields, About DEF IndexInv
<1>4. Types'
  BY <1>1, <1>2, About DEF Types
<1>5. IndexInv'
  <2>1. \A k \in Stamps : k > n => k > stamp
    BY <1>2, SettingFields, About
  <2>2. \A k \in Stamps : index[k].stage # "ready"
    BY <1>1, About, SettingFields DEF IndexInv
  <2> QED
    BY <1>1, <1>3, <2>1, <2>2, About DEF IndexInv
<1>6. journal # NoJournal => Sane(journal)'
  <2> SUFFICES ASSUME journal # NoJournal
               PROVE  Sane(journal)'
    OBVIOUS
  <2>1. journal \in Saved /\ Sane(journal)
    BY About DEF Types
  <2>2. \A f \in Files : journal.previous[f] \in Nat
    BY <2>1, SavedFields, SettingFields, About
  <2> QED
    BY <1>1, <1>2, <2>1, <2>2 DEF Sane
<1>7. OnlyOf(s) /\ (journal # NoJournal => Sane(journal))'
  BY <1>1, <1>2, <1>6 DEF OnlyOf
<1>8. StoreInv(s)'
  BY <1>1, About DEF StoreInv, Works, At
<1>9. Undisturbed => Quiet(s)' /\ PublishedHeld'
  <2> SUFFICES ASSUME Undisturbed
               PROVE  Quiet(s)' /\ PublishedHeld'
    OBVIOUS
  <2>1. PublishedHeld
    BY DEF PublicationInv, QuietInv
  <2>2. ASSUME NEW k \in Stamps, NEW f \in Files, index[k].stage = "completed"
        PROVE  Text'[f] >= k
    <3>1. k \in Nat /\ Text[f] >= k
      BY <2>1, <2>2, SettingFields, About DEF PublishedHeld
    <3>2. Text'[f] = Text[f] \/ (Text[f] = formal[f] /\ Text'[f] = formal'[f])
      BY <1>1 DEF Text
    <3> QED
      BY <1>3, <3>1, <3>2
  <2>3. ASSUME Committed', NEW f \in Files
        PROVE  formal'[f] >= journal.revision
    <3>1. journal \in Saved /\ formal[f] >= journal.revision
      BY <1>1, <2>1, <2>3, About DEF Committed, PublishedHeld, Types
    <3>2. journal.revision \in Nat
      BY <3>1, SavedFields, SettingFields, About
    <3> QED
      BY <1>3, <3>1, <3>2
  <2>4. PublishedHeld'
    BY <1>1, <2>2, <2>3 DEF PublishedHeld
  <2> QED
    BY <1>1, <2>4 DEF Quiet, Works, At
<1>10. Promised => /\ journal' # NoJournal /\ lock' = NoStore => store'[s].pc \in {"closed", "waiting"}
                   /\ Committed' => index'[journal'.revision].stage \in {"ready", "completed"}
  BY <1>1, About DEF PromisedInv, Committed
<1> QED
  BY <1>1, <1>4, <1>5, <1>7, <1>8, <1>9, <1>10, About, StoreStep

-----------------------------------------------------------------------------
(* The invariant, and what the runs check of it.                           *)

LEMMA InvInit == Init => PublicationInv
<1> SUFFICES ASSUME Init
             PROVE  PublicationInv
  OBVIOUS
<1>1. MaxStamp \in Nat /\ NoStore \notin Stores /\ setting \in Settings
      /\ setting.crashes \in Nat /\ setting.stores \subseteq Stores
  BY ConstantsAssumption DEF Init
<1>2. \A k \in Stamps : index[k] = NoRevision
  BY DEF Init
<1>3. Stamps \subseteq Nat \ {0} /\ NoRevision \in Entries
  BY <1>1 DEF Stamps, NoRevision, Entries
<1>4. Types
  BY <1>1, <1>3 DEF Init, Types, Places
<1>5. IndexInv
  BY <1>1, <1>2, <1>3 DEF Init, IndexInv, NoRevision
<1>6. \A s \in Stores : store[s] = Closed /\ lock # s
  BY <1>1 DEF Init
<1>7. \A s \in Stores : StoreInv(s) /\ Quiet(s)
  <2>1. \A s \in Stores : store[s].pc = "closed"
    <3>1. Closed.pc = "closed"
      BY DEF Closed
    <3> QED
      BY <1>6, <3>1
  <2> QED
    BY <1>6, <2>1 DEF StoreInv, Quiet, Works, At
<1>8. journal = NoJournal /\ ~Committed
  BY DEF Init, Committed
<1>9. PublishedHeld
  BY <1>2, <1>8 DEF PublishedHeld, NoRevision
<1> QED
  BY <1>4, <1>5, <1>7, <1>8, <1>9 DEF PublicationInv, QuietInv, PromisedInv

LEMMA InvStep == PublicationInv /\ [Next]_vars => PublicationInv'
<1> SUFFICES ASSUME PublicationInv, [Next]_vars
             PROVE  PublicationInv'
  OBVIOUS
<1>1. CASE UNCHANGED vars
  <2>1. Types' /\ IndexInv' /\ (journal # NoJournal => Sane(journal))'
    BY <1>1 DEF vars, PublicationInv, Types, IndexInv, Sane
  <2>2. \A s \in Stores : StoreInv(s)'
    BY <1>1 DEF vars, PublicationInv, StoreInv, Works, At, Sane
  <2>3. QuietInv'
    BY <1>1 DEF vars, PublicationInv, QuietInv, Quiet, Works, At, PublishedHeld, Text,
                Committed, Undisturbed, Alone, LeavesNothing
  <2>4. PromisedInv'
    BY <1>1 DEF vars, PublicationInv, PromisedInv, Committed, Promised, UntilCommit,
                Undisturbed, Alone, LeavesNothing
  <2> QED
    BY <2>1, <2>2, <2>3, <2>4 DEF PublicationInv
<1>2. ASSUME NEW s \in setting.stores, setting' = setting,
             Recover(s) \/ Publication(s) \/ Fault(s) \/ Command(s)
      PROVE  PublicationInv'
  <2>1. CASE Recover(s)
    BY <1>2, <2>1, RecoverKeeps
  <2>2. CASE Publication(s)
    BY <1>2, <2>2, RecoverEnterKeeps, RestoreDoneKeeps, FinishKeeps, ClearKeeps,
       PublishRefusedKeeps, PublishEnterKeeps, MarkKeeps, RestoreFileKeeps, ApplyFileKeeps
       DEF Publication
  <2>3. CASE Fault(s)
    BY <1>2, <2>3, RecoverTimeoutKeeps, FailsKeeps, ApplyFailsKeeps, CrashKeeps DEF Fault
  <2>4. CASE Command(s)
    BY <1>2, <2>4, StartKeeps, FlowWriteKeeps, SubmitKeeps, CancelKeeps DEF Command
  <2> QED
    BY <1>2, <2>1, <2>2, <2>3, <2>4
<1> QED
  BY <1>1, <1>2 DEF Next

THEOREM InvCorrect == Spec => []PublicationInv
  BY InvInit, InvStep, PTL DEF Spec

(* The state has the types the model gives it.                             *)
THEOREM TypeCorrect == Spec => []TypeOK
<1>1. PublicationInv => TypeOK
  <2> SUFFICES ASSUME PublicationInv
               PROVE  TypeOK
    OBVIOUS
  <2>1. Types
    BY DEF PublicationInv
  <2>2. journal = NoJournal \/ journal.previous \in [Files -> 0..MaxStamp]
    BY <2>1, SavedFields DEF Types
  <2>3. \A k \in Stamps :
          index[k] \in [number : Nat, base : 0..MaxStamp,
                        stage : {"none", "ready", "completed", "cancelled"}]
    BY <2>1 DEF Types, Entries
  <2>4. \A s \in Stores :
          \/ store[s] = Closed
          \/ store[s].pc \in {"idle", "waiting", "finish", "clear", "restore",
                              "apply", "submitted"}
    BY <2>1 DEF Types, Places
  <2> QED
    BY <2>1, <2>2, <2>3, <2>4 DEF Types, TypeOK
<1> QED
  BY <1>1, InvCorrect, PTL

(* Whenever nobody publishes, every formal file holds the text of every    *)
(* revision the index calls published, or a later change, however many     *)
(* Stores have died on the way.                                            *)
THEOREM PublishedCorrect == Spec => []PublishedStands
<1>1. PublicationInv => PublishedStands
  BY DEF PublicationInv, QuietInv, PublishedHeld, Text, PublishedStands, AtRest
<1> QED
  BY <1>1, InvCorrect, PTL
-----------------------------------------------------------------------------
(* The refinement: the journal decides what the book is.                   *)

BookFate == [k \in Stamps |-> Fate(k)]

LEMMA BookUnchanged ==
  ASSUME BookText' = BookText, BookFate' = BookFate, BookOwner' = BookOwner
  PROVE  UNCHANGED Book!vars
BY DEF Book!vars, BookText, BookFate, Fate, BookOwner

LEMMA BookStarts ==
  ASSUME NEW n \in Stamps, BookOwner = 0, BookFate[n] = "none", BookOwner' = n,
         BookFate' = [BookFate EXCEPT ![n] = "open"], BookText' = BookText
  PROVE  Book!Next
<1>1. Book!Start(n)
  BY DEF Book!Start, BookText, BookFate, Fate, BookOwner
<1> QED
  BY <1>1 DEF Book!Next, Stamps

LEMMA BookPublishes ==
  ASSUME NEW n \in Stamps, BookOwner = n, BookText[Prose] < n, BookOwner' = 0,
         BookFate' = [BookFate EXCEPT ![n] = "published"],
         BookText' = [f \in Files |-> n]
  PROVE  Book!Next
<1>1. Book!Publish(n)
  BY DEF Book!Publish, BookText, BookFate, Fate, BookOwner
<1> QED
  BY <1>1 DEF Book!Next, Stamps

LEMMA BookCancels ==
  ASSUME NEW n \in Stamps, BookOwner = n, BookOwner' = 0,
         BookFate' = [BookFate EXCEPT ![n] = "cancelled"], BookText' = BookText
  PROVE  Book!Next
<1>1. Book!Cancel(n)
  BY DEF Book!Cancel, BookText, BookFate, Fate, BookOwner
<1> QED
  BY <1>1 DEF Book!Next, Stamps

LEMMA BookWrites ==
  ASSUME NEW n \in Stamps, BookOwner = 0, BookFate[n] = "none", BookText[Prose] < n,
         BookText' = [BookText EXCEPT ![Prose] = n],
         BookFate' = BookFate, BookOwner' = BookOwner
  PROVE  Book!Next
<1>1. Book!Write(n)
  BY DEF Book!Write, BookText, BookFate, Fate, BookOwner
<1> QED
  BY <1>1 DEF Book!Next, Stamps

(* Where the promises hold, the book is read off the journal and the index.*)
LEMMA BookValues ==
  ASSUME Promised
  PROVE  /\ BookText = Text
         /\ BookOwner = IF Committed /\ active = journal.revision THEN 0 ELSE active
         /\ \A k \in Stamps :
              /\ (Committed /\ journal.revision = k) \/ index[k].stage = "completed" =>
                   Fate(k) = "published"
              /\ ~(Committed /\ journal.revision = k) /\ index[k].stage = "ready" =>
                   Fate(k) = "open"
              /\ ~(Committed /\ journal.revision = k) /\ index[k].stage \in {"none", "cancelled"} =>
                   Fate(k) = index[k].stage
<1>1. BookText = Text
  BY DEF BookText, Text, Committed
<1>2. BookOwner = IF Committed /\ active = journal.revision THEN 0 ELSE active
  BY DEF BookOwner
<1> QED
  BY <1>1, <1>2 DEF Fate

LEMMA PromisedStays ==
  ASSUME Promised, setting' = setting
  PROVE  Promised'
BY DEF Promised, Undisturbed, Alone, LeavesNothing, UntilCommit

(* Nothing of the book is touched, or only what the journal keeps.         *)
LEMMA TextStays ==
  ASSUME PublicationInv, Promised, setting' = setting, Text' = Text, Committed' <=> Committed,
         Committed => journal' = journal, UNCHANGED <<index, active>>
  PROVE  UNCHANGED Book!vars
<1>1. Promised'
  BY PromisedStays
<1>2. BookText' = BookText
  BY <1>1, BookValues DEF BookText, Text, Committed
<1>3. BookOwner' = BookOwner
  BY <1>1 DEF BookOwner
<1>4. BookFate' = BookFate
  BY <1>1 DEF BookFate, Fate
<1> QED
  BY <1>2, <1>3, <1>4, BookUnchanged

LEMMA LocalStutters ==
  ASSUME PublicationInv, Promised, setting' = setting, UNCHANGED <<formal, index, active, journal>>
  PROVE  UNCHANGED Book!vars
<1>1. Text' = Text /\ (Committed' <=> Committed)
  BY DEF Text, Committed
<1> QED
  BY <1>1, TextStays

LEMMA FileStutters ==
  ASSUME PublicationInv, Promised, setting' = setting, NEW s \in setting.stores, NEW f \in Files,
         RestoreFile(s, f) \/ ApplyFile(s, f)
  PROVE  UNCHANGED Book!vars
<1> PICK j : j = store[s].journal
  OBVIOUS
<1>1. (At(s, "restore") \/ At(s, "apply")) /\ Works(s) /\ UNCHANGED <<index, active, journal>>
  BY DEF RestoreFile, ApplyFile, Works, At
<1>2. j \in Saved /\ journal = j /\ j.status # "completed" /\ journal # NoJournal
  BY <1>1, About, Working, SavedFields DEF StoreInv, Promised
<1>3. Text' = Text /\ ~Committed /\ ~Committed'
  BY <1>1, <1>2 DEF Text, Committed
<1> QED
  BY <1>1, <1>3, TextStays

LEMMA RestoreDoneStutters ==
  ASSUME PublicationInv, Promised, setting' = setting, NEW s \in setting.stores, RestoreDone(s)
  PROVE  UNCHANGED Book!vars
<1>1. journal' = NoJournal /\ UNCHANGED <<formal, index, active>>
  BY LateFault DEF RestoreDone, AfterRestore
<1>2. formal = Text /\ ~Committed
  BY RestoredText DEF Promised
<1>3. Text' = Text /\ ~Committed'
  BY <1>1, <1>2 DEF Text, Committed
<1> QED
  BY <1>1, <1>2, <1>3, TextStays

LEMMA PublishEnterStutters ==
  ASSUME PublicationInv, Promised, setting' = setting, NEW s \in setting.stores, PublishEnter(s)
  PROVE  UNCHANGED Book!vars
<1>1. /\ journal = NoJournal /\ journal'.status = "prepared" /\ journal'.previous = formal
      /\ UNCHANGED <<formal, index, active>>
  BY DEF PublishEnter, Refused, LeftOver, Prepared
<1>2. journal' # NoJournal
  BY <1>1 DEF NoJournal
<1>3. Text' = Text /\ ~Committed /\ ~Committed'
  BY <1>1, <1>2 DEF Text, Committed
<1> QED
  BY <1>1, <1>3, TextStays

(* The index follows the commit intent, and the book has it already.       *)
LEMMA FinishStutters ==
  ASSUME PublicationInv, Promised, setting' = setting, NEW s \in setting.stores, Finish(s)
  PROVE  UNCHANGED Book!vars
<1> PICK j : j = store[s].journal
  OBVIOUS
<1>1. /\ Works(s) /\ j.status = "completed" /\ UNCHANGED <<formal, journal>>
      /\ Complete(j)
  BY About DEF Finish, Works, At, StoreInv
<1>2. j \in Saved /\ journal = j /\ journal # NoJournal /\ index[j.revision] \in Entries
      /\ j.revision \in Stamps /\ j.expected = 1
  BY <1>1, Working, SavedFields DEF Promised
<1>3. Committed /\ Committed' /\ Text' = Text
  BY <1>1, <1>2 DEF Committed, Text
<1>4. CASE index[j.revision].number = 1
  <2>1. active = j.revision /\ active' = 0 /\ 0 \notin Stamps
    BY <1>1, <1>2, <1>4, About, SettingFields DEF Complete, IndexInv
  <2>2. BookOwner = 0 /\ BookOwner' = 0
    BY <1>1, <1>2, <1>3, <2>1 DEF BookOwner
  <2>3. \A k \in Stamps \ {j.revision} : index'[k] = index[k]
    BY <1>1, <1>2, <1>4, About DEF Complete, Types
  <2>4. ASSUME NEW k \in Stamps
        PROVE  Fate(k)' = Fate(k)
    <3>1. CASE k = j.revision
      BY <1>1, <1>2, <1>3, <3>1, PromisedStays DEF Fate
    <3>2. CASE k # j.revision
      BY <1>1, <1>2, <2>3, <3>2, PromisedStays DEF Fate
    <3> QED
      BY <3>1, <3>2
  <2>5. BookFate' = BookFate
    BY <2>4 DEF BookFate
  <2>6. BookText' = BookText
    BY <1>1, <1>3, PromisedStays DEF BookText
  <2> QED
    BY <2>2, <2>5, <2>6, BookUnchanged
<1>5. CASE index[j.revision].number # 1
  <2>1. UNCHANGED <<index, active>>
    BY <1>1, <1>2, <1>5 DEF Complete
  <2> QED
    BY <1>1, <1>3, <2>1, TextStays
<1> QED
  BY <1>4, <1>5

LEMMA ClearStutters ==
  ASSUME PublicationInv, Promised, setting' = setting, NEW s \in setting.stores, Clear(s)
  PROVE  UNCHANGED Book!vars
<1> PICK j : j = store[s].journal
  OBVIOUS
<1>1. /\ Works(s) /\ j.status = "completed" /\ index[j.revision].number = 2
      /\ UNCHANGED <<formal, index, active>> /\ journal' = NoJournal
  BY About DEF Clear, Works, At, StoreInv
<1>2. j \in Saved /\ journal = j /\ journal # NoJournal /\ j.revision \in Stamps
  BY <1>1, Working, SavedFields DEF Promised
<1>3. Committed /\ ~Committed' /\ Text' = Text
  BY <1>1, <1>2 DEF Committed, Text
<1>4. index[j.revision].stage = "completed"
  BY <1>1, <1>2, <1>3, About DEF IndexInv, PromisedInv
<1>5. active # j.revision
  BY <1>2, <1>4, About, SettingFields DEF IndexInv
<1>6. BookOwner' = BookOwner
  BY <1>1, <1>2, <1>3, <1>5, PromisedStays DEF BookOwner
<1>7. ASSUME NEW k \in Stamps
      PROVE  Fate(k)' = Fate(k)
  BY <1>1, <1>2, <1>3, <1>4, PromisedStays DEF Fate
<1>8. BookFate' = BookFate
  BY <1>7 DEF BookFate
<1>9. BookText' = BookText
  BY <1>1, <1>3, PromisedStays DEF BookText
<1> QED
  BY <1>6, <1>8, <1>9, BookUnchanged

(* The commit intent is the step that publishes.                           *)
LEMMA MarkPublishes ==
  ASSUME PublicationInv, PublicationInv', Promised, setting' = setting,
         NEW s \in setting.stores, Mark(s)
  PROVE  Book!Next \/ UNCHANGED Book!vars
<1> PICK j : j = store[s].journal
  OBVIOUS
<1>1. /\ At(s, "apply") /\ Works(s) /\ store[s].todo = {} /\ j.status # "completed"
      /\ index[j.revision].stage = "ready" /\ UNCHANGED <<formal, index, active>>
      /\ journal' = [j EXCEPT !.status = Marked(@)]
  BY About DEF Mark, Works, At, StoreInv
<1>2. /\ j \in Saved /\ journal = j /\ journal # NoJournal /\ Sane(j)
      /\ j.revision \in Stamps /\ j.previous \in [Files -> 0..MaxStamp]
      /\ \A f \in Files : formal[f] = j.revision
  BY <1>1, About, Working, SavedFields DEF Promised, Quiet
<1>3. journal' \in {NoJournal} \union Saved /\ journal'.revision = j.revision
      /\ journal'.previous = j.previous
  BY <1>1, <1>2 DEF PublicationInv, Types, Saved
<1>4. journal' # NoJournal
  <2>1. Marked(j.status) \in {"formal_applied", "completed"}
    BY <1>1, <1>2, SavedFields DEF Marked
  <2>2. journal'.status = Marked(j.status)
    BY <1>1, <1>2 DEF Saved
  <2> QED
    BY <2>1, <2>2 DEF NoJournal
<1>5. ~Committed /\ Text = j.previous
  BY <1>1, <1>2 DEF Committed, Text
<1>6. CASE journal'.status # "completed"
  <2>1. ~Committed' /\ Text' = Text
    BY <1>3, <1>4, <1>5, <1>6 DEF Committed, Text
  <2> QED
    BY <1>1, <1>5, <2>1, TextStays
<1>7. CASE journal'.status = "completed"
  <2> PICK n \in Stamps : n = j.revision
    BY <1>2
  <2>1. active = n
    BY <1>1, About DEF IndexInv
  <2>2. Committed' /\ journal'.revision = n
    BY <1>3, <1>4, <1>7 DEF Committed
  <2>3. BookOwner = n /\ BookOwner' = 0
    BY <1>1, <1>5, <2>1, <2>2, PromisedStays DEF BookOwner
  <2>4. BookText[Prose] < n
    BY <1>2, <1>5, BookValues DEF Sane
  <2>5. BookText' = [f \in Files |-> n]
    <3>1. formal = [f \in Files |-> n]
      BY <1>2, About DEF Types
    <3> QED
      BY <1>1, <2>2, <3>1, PromisedStays DEF BookText
  <2>6. BookFate' = [BookFate EXCEPT ![n] = "published"]
    <3>1. Fate(n)' = "published"
      BY <2>2, PromisedStays DEF Fate
    <3>2. \A k \in Stamps \ {n} : Fate(k)' = Fate(k)
      BY <1>1, <1>5, <2>2, PromisedStays DEF Fate
    <3> QED
      BY <3>1, <3>2 DEF BookFate
  <2> QED
    BY <2>3, <2>4, <2>5, <2>6, BookPublishes
<1> QED
  BY <1>6, <1>7

(* A command of the index meets no publication.                            *)
LEMMA CommandAlone ==
  ASSUME PublicationInv, Promised, NEW s \in setting.stores, At(s, "idle"), lock = NoStore
  PROVE  journal = NoJournal /\ ~Committed /\ BookText = formal /\ BookOwner = active
<1>1. journal = NoJournal
  BY About DEF PromisedInv, At
<1> QED
  BY <1>1, BookValues DEF Committed, Text

LEMMA StartStarts ==
  ASSUME PublicationInv, Promised, setting' = setting, NEW s \in setting.stores, Start(s)
  PROVE  Book!Next
<1> PICK n : n = stamp + 1
  OBVIOUS
<1>1. /\ At(s, "idle") /\ lock = NoStore /\ active = 0 /\ stamp < MaxStamp /\ active' = n
      /\ index' = [index EXCEPT ![n] = [number |-> 1, stage |-> "ready", base |-> formal[Prose]]]
      /\ UNCHANGED <<formal, journal>>
  BY DEF Start, Free
<1>2. n \in Stamps /\ n > stamp /\ index \in [Stamps -> Entries]
  BY <1>1, About, SettingFields DEF Types, Stamps
<1>3. journal = NoJournal /\ ~Committed /\ ~Committed' /\ BookText = formal /\ BookOwner = 0
  BY <1>1, CommandAlone DEF Committed
<1>4. BookOwner' = n /\ BookText' = BookText
  BY <1>1, <1>3, PromisedStays DEF BookOwner, BookText
<1>5. BookFate[n] = "none"
  <2>1. index[n].stage = "none"
    BY <1>2, About DEF IndexInv
  <2> QED
    BY <1>2, <1>3, <2>1 DEF BookFate, Fate
<1>6. BookFate' = [BookFate EXCEPT ![n] = "open"]
  <2>1. Fate(n)' = "open"
    BY <1>1, <1>2, <1>3, PromisedStays DEF Fate
  <2>2. \A k \in Stamps \ {n} : index'[k] = index[k]
    BY <1>1, <1>2
  <2>3. \A k \in Stamps \ {n} : Fate(k)' = Fate(k)
    BY <1>3, <2>2, PromisedStays DEF Fate
  <2> QED
    BY <2>1, <2>3 DEF BookFate
<1> QED
  BY <1>2, <1>3, <1>4, <1>5, <1>6, BookStarts

LEMMA CancelCancels ==
  ASSUME PublicationInv, Promised, setting' = setting, NEW s \in setting.stores,
         NEW n \in Stamps, Cancel(s, n)
  PROVE  Book!Next
<1>1. /\ At(s, "idle") /\ lock = NoStore /\ index[n].stage = "ready" /\ active' = 0
      /\ index' = [index EXCEPT ![n].number = @ + 1, ![n].stage = "cancelled"]
      /\ UNCHANGED <<formal, journal>>
  BY DEF Cancel, Free
<1>2. index \in [Stamps -> Entries] /\ active = n
  BY <1>1, About DEF Types, IndexInv
<1>3. journal = NoJournal /\ ~Committed /\ ~Committed' /\ BookText = formal /\ BookOwner = n
  BY <1>1, <1>2, CommandAlone DEF Committed
<1>4. BookOwner' = 0 /\ BookText' = BookText
  BY <1>1, <1>3, PromisedStays DEF BookOwner, BookText
<1>5. BookFate' = [BookFate EXCEPT ![n] = "cancelled"]
  <2>1. index'[n].stage = "cancelled" /\ \A k \in Stamps \ {n} : index'[k] = index[k]
    BY <1>1, <1>2 DEF Entries
  <2>2. Fate(n)' = "cancelled"
    BY <1>3, <2>1, PromisedStays DEF Fate
  <2>3. \A k \in Stamps \ {n} : Fate(k)' = Fate(k)
    BY <1>3, <2>1, PromisedStays DEF Fate
  <2> QED
    BY <2>2, <2>3 DEF BookFate
<1> QED
  BY <1>3, <1>4, <1>5, BookCancels

LEMMA FlowWrites ==
  ASSUME PublicationInv, Promised, setting' = setting, NEW s \in setting.stores, FlowWrite(s)
  PROVE  Book!Next
<1> PICK n : n = stamp + 1
  OBVIOUS
<1>1. /\ At(s, "idle") /\ lock = NoStore /\ active = 0 /\ stamp < MaxStamp
      /\ formal' = [formal EXCEPT ![Prose] = n] /\ UNCHANGED <<index, active, journal>>
  BY DEF FlowWrite, FlowAllowed
<1>2. n \in Stamps /\ n > stamp /\ stamp \in Nat
  BY <1>1, About, SettingFields DEF Types, Stamps
<1>3. journal = NoJournal /\ ~Committed /\ ~Committed' /\ BookText = formal /\ BookOwner = 0
  BY <1>1, CommandAlone DEF Committed
<1>4. BookText' = [BookText EXCEPT ![Prose] = n]
  BY <1>1, <1>3, PromisedStays DEF BookText
<1>5. BookOwner' = BookOwner /\ BookFate' = BookFate
  BY <1>1, <1>3, PromisedStays DEF BookOwner, BookFate, Fate, Committed
<1>6. BookFate[n] = "none"
  <2>1. index[n].stage = "none"
    BY <1>2, About DEF IndexInv
  <2> QED
    BY <1>2, <1>3, <2>1 DEF BookFate, Fate
<1>7. BookText[Prose] < n
  <2>1. formal[Prose] \in Nat /\ formal[Prose] <= stamp
    BY About, SettingFields DEF Types, IndexInv
  <2> QED
    BY <1>2, <1>3, <2>1
<1> QED
  BY <1>2, <1>3, <1>4, <1>5, <1>6, <1>7, BookWrites

LEMMA BookInit == Init => Book!Init
<1> SUFFICES ASSUME Init
             PROVE  Book!Init
  OBVIOUS
<1>1. journal = NoJournal /\ formal = [f \in Files |-> 0] /\ active = 0
      /\ ~Committed /\ \A k \in Stamps : index[k].stage = "none"
  BY DEF Init, Committed, NoRevision
<1>2. BookText = [f \in Files |-> 0] /\ BookOwner = 0
  BY <1>1 DEF BookText, BookOwner
<1>3. BookFate = [k \in Stamps |-> "none"]
  BY <1>1 DEF BookFate, Fate
<1> QED
  BY <1>2, <1>3 DEF Book!Init, BookFate, Stamps

LEMMA BookStep ==
  PublicationInv /\ PublicationInv' /\ [Next]_vars => [Book!Next]_(Book!vars)
<1> SUFFICES ASSUME PublicationInv, PublicationInv', [Next]_vars
             PROVE  Book!Next \/ UNCHANGED Book!vars
  OBVIOUS
<1>1. setting' = setting
  BY DEF Next, vars
<1>2. CASE ~Promised
  <2>1. ~Promised'
    BY <1>1, <1>2 DEF Promised, Undisturbed, Alone, LeavesNothing, UntilCommit
  <2>2. BookText' = BookText /\ BookOwner' = BookOwner /\ BookFate' = BookFate
    BY <1>2, <2>1 DEF BookText, BookOwner, BookFate, Fate
  <2> QED
    BY <2>2, BookUnchanged
<1>3. CASE Promised /\ UNCHANGED vars
  BY <1>3, LocalStutters DEF vars
<1>4. ASSUME Promised, NEW s \in setting.stores,
             Recover(s) \/ Publication(s) \/ Fault(s) \/ Command(s)
      PROVE  Book!Next \/ UNCHANGED Book!vars
  <2>1. CASE Recover(s)
    BY <1>1, <1>4, <2>1, LocalStutters DEF Recover
  <2>2. CASE Fault(s)
    <3>1. CASE ApplyFails(s)
      <4>1. ~MayFail("marked")
        BY <1>4 DEF Promised, Undisturbed, MayFail
      <4> QED
        BY <1>1, <1>4, <3>1, <4>1, LocalStutters DEF ApplyFails
    <3> QED
      BY <1>1, <1>4, <2>2, <3>1, LocalStutters
         DEF Fault, RecoverTimeout, RestoreFails, FinishFails, ClearFails, Crash
  <2>3. CASE Publication(s)
    <3>1. CASE RecoverEnter(s) \/ PublishRefused(s)
      BY <1>1, <1>4, <3>1, LocalStutters DEF RecoverEnter, PublishRefused
    <3> QED
      BY <1>1, <1>4, <2>3, <3>1, RestoreDoneStutters, FinishStutters, ClearStutters,
         PublishEnterStutters, MarkPublishes, FileStutters DEF Publication
  <2>4. CASE Command(s)
    <3>1. CASE \E k \in Stamps : Submit(s, k)
      BY <1>1, <1>4, <3>1, LocalStutters DEF Submit
    <3> QED
      BY <1>1, <1>4, <2>4, <3>1, StartStarts, CancelCancels, FlowWrites DEF Command
  <2> QED
    BY <1>4, <2>1, <2>2, <2>3, <2>4
<1> QED
  BY <1>2, <1>3, <1>4 DEF Next

(* Publishing is atomic: the marked journal is the one step in which every *)
(* formal file changes, whatever process dies before it or after it.       *)
THEOREM BookImplemented == Spec => PublishesAtomically
  BY BookInit, BookStep, InvCorrect, PTL DEF Spec, PublishesAtomically, Book!Spec
=============================================================================

---------------------- MODULE ManuscriptRevision_proofs ----------------------
(***************************************************************************)
(* Proofs about ManuscriptRevision, for any clients, chapters, books and   *)
(* numbers of revisions and texts.  What the code relies on is the number  *)
(* of a revision: it grows with every change, so that a call that finds    *)
(* the number it loaded knows the stage it loaded (CallInv), however long  *)
(* it worked in between.                                                   *)
(***************************************************************************)
EXTENDS ManuscriptRevision, TLAPS

Statuses == {"no", "pending", "generated", "failed"}
Revision ==
  [number : Nat, stage : Stages, since : Nat, confirmed : BOOLEAN,
   queue : [Chapters -> Statuses], base : [Chapters -> Nat],
   candidate : [Chapters -> Nat], passed : SUBSET Chapters, deferred : BOOLEAN,
   published : BOOLEAN]

Calls ==
  {Idle}
    \union [pc : {"generating"}, revision : Revisions, number : Nat, chapter : Chapters]
    \union [pc : {"recording"}, revision : Revisions, number : Nat]
    \union [pc : {"saving", "submitting"}, revision : Revisions, number : Nat, text : Nat]
    \union [pc : {"answering"}, revision : Revisions, number : Nat, text : Nat,
            repeated : BOOLEAN]
    \union [pc : {"auditing"}, revision : Revisions, number : Nat,
            candidate : [Chapters -> Nat]]

Saves ==
  [revision : {0} \union Revisions, base : Nat, text : Nat, submitted : BOOLEAN]

(* The stages after the last candidate.                                    *)
Judged == {"audit_pending", "final_approval_pending", "ready_to_publish",
           "completion_revalidation_pending"}

(* A revision is judged when nothing waits to be written, ready when all   *)
(* of it is approved, and nothing is changed in it once it is published;   *)
(* what a repeated save certified is the exception (mistaken).             *)
Owned(k, r) == {<<k, c, r.candidate[c]>> : c \in Candidates(r)}

Sound(k, r) ==
  /\ r.since <= texts
  /\ \A c \in Chapters : r.candidate[c] <= texts /\ r.base[c] <= r.since
  /\ r.stage \in Judged => Waiting(r) = {}
  /\ \A c \in r.passed : <<k, c, r.candidate[c]>> \in audited \union mistaken
  /\ r.stage = "ready_to_publish" => Owned(k, r) \subseteq approved \union mistaken
  /\ r.published =>
       /\ r.stage \in {"completion_revalidation_pending", "completed"}
       /\ Owned(k, r) \subseteq (audited \intersect approved) \union mistaken

(* What a call knows of a revision that has the number it loaded: the save *)
(* that was not repeated finds its own text.                               *)
HasText(p) == client[p].pc \in {"saving", "submitting", "answering"}
Answers(p, repeated) == At(p, "answering") /\ client[p].repeated = repeated

CallInv(p) ==
  LET k == client[p].revision IN
  ~At(p, "idle") =>
    /\ client[p].number <= index[k].number
    /\ Current(p) =>
         /\ At(p, "generating") => index[k].stage = "candidate_generating"
         /\ At(p, "recording") => index[k].stage \in {"candidate_generating", "audit_pending"}
         /\ At(p, "auditing") => index[k].stage = "audit_pending"
         /\ At(p, "submitting") => Submittable(k)
         /\ Answers(p, FALSE) => index[k].candidate[Target] = client[p].text
    /\ HasText(p) => client[p].text <= texts

SavesInv ==
  /\ save \in [Clients -> Saves]
  /\ \A p \in Clients : save[p].text <= texts

FilesInv ==
  /\ formal \in [Chapters -> Nat] /\ \A c \in Chapters : formal[c] <= texts
  /\ texts \in 0..MaxText
  /\ active \in {0} \union Revisions /\ lease \in BOOLEAN

RevisionsInv ==
  /\ book \in Books
  /\ index \in [Revisions -> Revision]
  /\ client \in [Clients -> Calls]
  /\ SavesInv
  /\ FilesInv
  /\ \A k \in Revisions : index[k].number <= book.number /\ Sound(k, index[k])
  /\ \A p \in Clients : CallInv(p)
  /\ OpenIsActive

-----------------------------------------------------------------------------
(* The invariant, for any step that changes one revision.                  *)

LEMMA Constants ==
  ASSUME RevisionsInv
  PROVE  /\ Target \in Chapters
         /\ book.number \in Nat \ {0} /\ book.clients \subseteq Clients
         /\ book.chapters \subseteq Chapters
         /\ MaxText \in Nat /\ texts \in Nat /\ Revisions \subseteq Nat \ {0}
<1>1. book \in Books /\ texts \in 0..MaxText
  BY DEF RevisionsInv, FilesInv
<1>2. book \in Book /\ Target \in book.chapters
  BY <1>1, ConstantsAssumption
<1> QED
  BY <1>1, <1>2, ConstantsAssumption DEF Book, Revisions

(* Texts are only added, and nobody takes back a judgement.                *)
Grows ==
  /\ book' = book
  /\ texts <= texts'
  /\ audited \subseteq audited' /\ approved \subseteq approved' /\ mistaken \subseteq mistaken'

LEMMA SavesStay ==
  ASSUME RevisionsInv, Grows, texts' \in Nat, save' = save
  PROVE  SavesInv'
<1>1. /\ SavesInv /\ texts <= texts' /\ texts \in Nat
  BY Constants DEF RevisionsInv, Grows
<1>2. ASSUME NEW p \in Clients
      PROVE  save[p].text <= texts'
  <2>1. save[p].text \in Nat /\ save[p].text <= texts
    BY <1>1 DEF SavesInv, Saves, NoSave
  <2> QED
    BY <1>1, <2>1
<1> QED
  BY <1>1, <1>2 DEF SavesInv

LEMMA StaysSound ==
  ASSUME NEW k \in Revisions, NEW r \in Revision, Sound(k, r),
         texts \in Nat, texts' \in Nat, Grows
  PROVE  Sound(k, r)'
<1>1. r.since \in Nat /\ \A c \in Chapters : r.candidate[c] \in Nat
  BY DEF Revision
<1>2. /\ r.since <= texts'
      /\ \A c \in Chapters : r.candidate[c] <= texts' /\ r.base[c] <= r.since
  BY <1>1 DEF Sound, Grows
<1>3. /\ \A c \in r.passed : <<k, c, r.candidate[c]>> \in audited' \union mistaken'
      /\ r.stage = "ready_to_publish" => Owned(k, r) \subseteq approved' \union mistaken'
      /\ r.published =>
           /\ r.stage \in {"completion_revalidation_pending", "completed"}
           /\ Owned(k, r) \subseteq (audited' \intersect approved') \union mistaken'
  BY DEF Sound, Grows
<1> QED
  BY <1>2, <1>3 DEF Sound, Owned, Waiting, Candidates

(* A call on a revision that someone else changes has lost its number.     *)
LEMMA CallStays ==
  ASSUME RevisionsInv, NEW k \in Revisions, NEW q \in Clients,
         client'[q] = client[q], index' \in [Revisions -> Revision],
         texts' \in Nat, texts <= texts',
         \A j \in Revisions \ {k} : index'[j] = index[j],
         \/ index'[k] = index[k]
         \/ index'[k].number = index[k].number + 1
  PROVE  CallInv(q)'
<1>1. CallInv(q) /\ client[q] \in Calls /\ index \in [Revisions -> Revision]
  BY DEF RevisionsInv
<1>2. CASE At(q, "idle")
  BY <1>2 DEF CallInv, At
<1>3. CASE ~At(q, "idle")
  <2>1. client[q].revision \in Revisions /\ client[q].number \in Nat
    BY <1>1, <1>3 DEF Calls, Idle, At
  <2>0. (HasText(q) => client[q].text <= texts)'
    <3>1. HasText(q) => client[q].text \in Nat /\ client[q].text <= texts
      BY <1>1, <1>3 DEF CallInv, Calls, HasText, Idle
    <3> QED
      BY <3>1, Constants DEF HasText
  <2>2. CASE index'[client[q].revision] = index[client[q].revision]
    BY <1>1, <1>3, <2>0, <2>2 DEF CallInv, Current, At, Answers, Submittable
  <2>3. CASE index'[client[q].revision] # index[client[q].revision]
    <3>1. client[q].revision = k /\ index'[k].number = index[k].number + 1
      BY <2>1, <2>3
    <3>2. index[k].number \in Nat /\ client[q].number <= index[k].number
      BY <1>1, <1>3, <3>1 DEF CallInv, Revision
    <3>3. client[q].number <= index'[k].number /\ client[q].number # index'[k].number
      BY <2>1, <3>1, <3>2
    <3> QED
      BY <2>0, <3>1, <3>3 DEF CallInv, Current
  <2> QED
    BY <2>2, <2>3
<1> QED
  BY <1>2, <1>3

(* Every change of a revision: r is what it becomes, but for its number.   *)
Changes(k, r) ==
  /\ Change(k, r)
  /\ lease' = lease
  /\ r.stage # "none"
  /\ NothingLate => Open(k)

(* No step but a publication publishes.                                    *)
NothingPublished == \A k \in Revisions : index'[k].published => index[k].published

LEMMA ChangeIsSound ==
  ASSUME RevisionsInv, NEW k \in Revisions, NEW r \in Revision, Grows, Changes(k, r),
         Sound(k, r)', client' \in [Clients -> Calls], save' = save \/ SavesInv',
         texts' \in 0..MaxText,
         formal' \in [Chapters -> Nat], \A c \in Chapters : formal'[c] <= texts',
         \A q \in Clients : client'[q] = client[q] \/ CallInv(q)'
  PROVE  /\ RevisionsInv'
         /\ (r.published => index[k].published) => NothingPublished
<1>1. /\ index \in [Revisions -> Revision]
      /\ active \in {0} \union Revisions /\ lease \in BOOLEAN
      /\ \A j \in Revisions : index[j].number <= book.number /\ Sound(j, index[j])
      /\ book.number \in Nat
      /\ OpenIsActive
      /\ texts \in Nat /\ texts' \in Nat /\ book \in Books
  BY Constants DEF RevisionsInv, FilesInv
<1>0. index[k].number + 1 \in Nat
  BY <1>1 DEF Revision
<1> PICK n \in Revision : n = [r EXCEPT !.number = index[k].number + 1]
  BY <1>0 DEF Revision
<1>2. /\ index' \in [Revisions -> Revision]
      /\ index'[k] = n
      /\ \A j \in Revisions \ {k} : index'[j] = index[j]
  BY <1>1 DEF Changes, Change
<1>9. /\ n.number = index[k].number + 1
      /\ n.stage = r.stage /\ n.since = r.since /\ n.candidate = r.candidate
      /\ n.base = r.base /\ n.queue = r.queue /\ n.passed = r.passed
      /\ n.published = r.published
  BY DEF Revision
<1>8. Sound(k, n)'
  BY <1>9 DEF Sound, Owned, Waiting, Candidates
<1>10. \A j \in Revisions : index'[j].number <= book.number
  <2>1. index[k].number + 1 <= book.number
    BY <1>1 DEF Changes, Change, Revision
  <2> QED
    BY <1>1, <1>2, <1>9, <2>1
<1>3. \A j \in Revisions : Sound(j, index[j])'
  <2> SUFFICES ASSUME NEW j \in Revisions
               PROVE  Sound(j, index[j])'
    OBVIOUS
  <2>1. CASE j = k
    BY <1>2, <1>8, <2>1 DEF Sound
  <2>2. CASE j # k
    <3> PICK s \in Revision : s = index[j]
      BY <1>1
    <3>1. Sound(j, s)'
      BY <1>1, StaysSound
    <3> QED
      BY <1>2, <2>2, <3>1 DEF Sound
  <2> QED
    BY <2>1, <2>2
<1>4. \A q \in Clients : CallInv(q)'
  <2> SUFFICES ASSUME NEW q \in Clients, client'[q] = client[q]
               PROVE  CallInv(q)'
    OBVIOUS
  <2> QED
    BY <1>1, <1>2, <1>9, CallStays DEF Grows
<1>5. OpenIsActive'
  <2> SUFFICES ASSUME NothingLate, NEW j \in Revisions, Open(j)'
               PROVE  active' = j /\ lease' = FALSE
    BY DEF OpenIsActive, NothingLate, Grows
  <2>1. active = k /\ lease = FALSE
    BY <1>1 DEF Changes, OpenIsActive
  <2>2. j = k
    BY <1>1, <1>2, <2>1 DEF OpenIsActive, Open
  <2>3. r.stage \notin {"completed", "cancelled"}
    BY <1>2, <1>9, <2>2 DEF Open, Over
  <2> QED
    BY <2>1, <2>2, <2>3 DEF Changes, Change
<1>6. FilesInv'
  BY <1>1 DEF FilesInv, Changes, Change
<1>7. book' \in Books /\ SavesInv'
  BY <1>1, SavesStay DEF Grows
<1>11. (r.published => index[k].published) => NothingPublished
  BY <1>2, <1>9 DEF NothingPublished
<1> QED
  BY <1>2, <1>3, <1>4, <1>5, <1>6, <1>7, <1>10, <1>11 DEF RevisionsInv, Grows

(* A revision begins when nothing else has the book.                       *)
LEMMA BeginIsSound ==
  ASSUME RevisionsInv, NEW r \in Revision, Begin(r), Grows, texts' \in 0..MaxText,
         UNCHANGED <<lease, formal>>,
         r.stage \notin Over, r.number = 1, ~r.published,
         \A k \in Revisions : Sound(k, r),
         client' \in [Clients -> Calls], save' = save \/ SavesInv',
         \A q \in Clients :
           \/ client'[q] = client[q]
           \/ /\ client'[q].pc = "saving" /\ client'[q].text <= texts'
              /\ client'[q].revision = active' /\ client'[q].number = 1
  PROVE  RevisionsInv' /\ NothingPublished
<1>1. /\ index \in [Revisions -> Revision]
      /\ active \in {0} \union Revisions /\ lease \in BOOLEAN
      /\ \A j \in Revisions : index[j].number <= book.number /\ Sound(j, index[j])
      /\ book.number \in Nat \ {0} /\ Revisions \subseteq Nat \ {0}
      /\ OpenIsActive /\ FilesInv
      /\ texts \in Nat /\ texts' \in Nat /\ texts <= texts' /\ book \in Books
  BY Constants DEF RevisionsInv, FilesInv, Grows
<1>2. PICK k \in 1..book.revisions :
        /\ active = 0 /\ lease = FALSE
        /\ index[k] = NoRevision
        /\ index' = [index EXCEPT ![k] = r]
        /\ active' = k
  BY <1>1 DEF Begin, BookIsFree
<1>3. k \in Revisions
  BY <1>1, ConstantsAssumption DEF Revisions, Book
<1>4. /\ index' \in [Revisions -> Revision]
      /\ index'[k] = r
      /\ \A j \in Revisions \ {k} : index'[j] = index[j]
  BY <1>1, <1>2, <1>3
<1>5. index[k].number = 0
  BY <1>2 DEF NoRevision
<1>6. \A j \in Revisions : Sound(j, index[j])'
  <2> SUFFICES ASSUME NEW j \in Revisions
               PROVE  Sound(j, index[j])'
    OBVIOUS
  <2> PICK s \in Revision : s = index'[j]
    BY <1>4
  <2>1. Sound(j, s)
    BY <1>1, <1>3, <1>4
  <2>2. Sound(j, s)'
    BY <2>1, <1>1, StaysSound
  <2> QED
    BY <2>2 DEF Sound
<1>7. \A q \in Clients : CallInv(q)'
  <2> TAKE q \in Clients
  <2>1. CASE client'[q] = client[q]
    <3>1. index'[k].number = index[k].number + 1
      BY <1>4, <1>5
    <3>2. texts' \in Nat /\ texts <= texts'
      BY <1>1
    <3> QED
      BY <1>3, <1>4, <2>1, <3>1, <3>2, CallStays
  <2>2. CASE client'[q] # client[q]
    BY <1>2, <1>4, <2>2 DEF CallInv, At, Answers
  <2> QED
    BY <2>1, <2>2
<1>8. OpenIsActive'
  <2> SUFFICES ASSUME NothingLate, NEW j \in Revisions, Open(j)'
               PROVE  active' = j /\ lease' = FALSE
    BY DEF OpenIsActive, NothingLate, Grows
  <2>1. j = k
    BY <1>1, <1>2, <1>4 DEF OpenIsActive, Open
  <2> QED
    BY <1>2, <2>1
<1>9. FilesInv'
  BY <1>1, <1>2, <1>3 DEF FilesInv
<1>10. \A j \in Revisions : index'[j].number <= book'.number
  BY <1>1, <1>4 DEF Grows
<1>11. NothingPublished
  BY <1>4 DEF NothingPublished
<1>12. SavesInv'
  BY <1>1, SavesStay
<1> QED
  BY <1>1, <1>4, <1>6, <1>7, <1>8, <1>9, <1>10, <1>11, <1>12 DEF RevisionsInv, Grows

(* A step that leaves the revisions alone.                                 *)
LEMMA LeavesRevisions ==
  ASSUME RevisionsInv, Grows, UNCHANGED <<index, active, save>>,
         client' \in [Clients -> Calls], texts' \in 0..MaxText,
         lease' \in BOOLEAN, lease' => lease \/ active = 0,
         formal' \in [Chapters -> Nat], \A c \in Chapters : formal'[c] <= texts',
         \A q \in Clients : client'[q] = client[q] \/ CallInv(q)'
  PROVE  RevisionsInv' /\ NothingPublished
<1>1. /\ index \in [Revisions -> Revision]
      /\ \A j \in Revisions : index[j].number <= book.number /\ Sound(j, index[j])
      /\ Revisions \subseteq Nat \ {0}
      /\ OpenIsActive /\ FilesInv
      /\ texts \in Nat /\ texts' \in Nat /\ book \in Books
      /\ \A q \in Clients : CallInv(q)
  BY Constants DEF RevisionsInv, FilesInv
<1>2. \A j \in Revisions : Sound(j, index[j])'
  <2> SUFFICES ASSUME NEW j \in Revisions
               PROVE  Sound(j, index[j])'
    OBVIOUS
  <2> PICK s \in Revision : s = index[j]
    BY <1>1
  <2>1. Sound(j, s)'
    BY <1>1, StaysSound
  <2> QED
    BY <2>1 DEF Sound
<1>3. \A q \in Clients : CallInv(q)'
  <2> SUFFICES ASSUME NEW q \in Clients, client'[q] = client[q]
               PROVE  CallInv(q)'
    OBVIOUS
  <2>1. CASE At(q, "idle")
    BY <2>1 DEF CallInv, At
  <2>2. CASE ~At(q, "idle")
    <3>1. client[q] \in Calls
      BY DEF RevisionsInv
    <3>2. client[q].revision \in Revisions
      BY <2>2, <3>1 DEF Calls, Idle, At
    <3> QED
      BY <1>1, <3>2, CallStays DEF Grows
  <2> QED
    BY <2>1, <2>2
<1>4. OpenIsActive'
  BY <1>1 DEF OpenIsActive, NothingLate, Open, Grows, FilesInv
<1>5. FilesInv'
  BY <1>1 DEF FilesInv
<1>6. SavesInv'
  BY <1>1, SavesStay
<1> QED
  BY <1>1, <1>2, <1>3, <1>4, <1>5, <1>6 DEF RevisionsInv, Grows, NothingPublished

-----------------------------------------------------------------------------
(* What the actions share.                                                 *)

LEMMA About ==
  ASSUME RevisionsInv, NEW k \in Revisions
  PROVE  /\ index[k] \in Revision /\ Sound(k, index[k])
         /\ index[k].number \in Nat
         /\ client \in [Clients -> Calls] /\ save \in [Clients -> Saves]
         /\ formal \in [Chapters -> Nat] /\ \A c \in Chapters : formal[c] <= texts
         /\ texts \in 0..MaxText /\ texts \in Nat
  BY Constants DEF RevisionsInv, FilesInv, SavesInv, Revision

(* The call that finds the number it loaded.                               *)
LEMMA Call ==
  ASSUME RevisionsInv, NEW p \in Clients, ~At(p, "idle"), Current(p)
  PROVE  \E k \in Revisions :
           /\ k = client[p].revision /\ client[p].number = index[k].number
           /\ At(p, "generating") => index[k].stage = "candidate_generating"
           /\ At(p, "recording") => index[k].stage \in {"candidate_generating", "audit_pending"}
           /\ At(p, "auditing") => index[k].stage = "audit_pending"
           /\ At(p, "submitting") => Submittable(k)
           /\ Answers(p, FALSE) => index[k].candidate[Target] = client[p].text
<1>1. CallInv(p) /\ client[p] \in Calls
  BY DEF RevisionsInv
<1>2. client[p].revision \in Revisions
  BY <1>1 DEF Calls, Idle, At
<1> QED
  BY <1>1, <1>2 DEF CallInv, Current

LEMMA NumberChanges ==
  ASSUME RevisionsInv, NEW k \in Revisions, NEW r, Change(k, r), r \in Revision
  PROVE  /\ index'[k].number = index[k].number + 1 /\ index'[k].stage = r.stage
         /\ index'[k].candidate = r.candidate
<1>1. index' = [index EXCEPT ![k] = [r EXCEPT !.number = index[k].number + 1]]
  BY DEF Change
<1>2. index \in [Revisions -> Revision]
  BY DEF RevisionsInv
<1>3. index'[k] = [r EXCEPT !.number = index[k].number + 1]
  BY <1>1, <1>2
<1> QED
  BY <1>3 DEF Revision

(* A change that leaves the texts.                                         *)
SameTexts(s, r) ==
  /\ r.since = s.since /\ r.candidate = s.candidate /\ r.base = s.base

LEMMA SameTextsSound ==
  ASSUME NEW k \in Revisions, NEW s \in Revision, NEW r \in Revision, Sound(k, s),
         SameTexts(s, r), texts \in Nat, texts' = texts, Grows,
         r.stage \in Judged => Waiting(r) = {},
         \A c \in r.passed :
           c \in s.passed \/ <<k, c, s.candidate[c]>> \in audited' \union mistaken',
         r.stage = "ready_to_publish" => Owned(k, s) \subseteq approved' \union mistaken',
         r.published =>
           /\ r.stage \in {"completion_revalidation_pending", "completed"}
           /\ Owned(k, s) \subseteq (audited' \intersect approved') \union mistaken'
  PROVE  Sound(k, r)'
<1>1. Owned(k, r) = Owned(k, s)
  BY DEF SameTexts, Owned, Candidates
<1>2. \A c \in r.passed : <<k, c, r.candidate[c]>> \in audited' \union mistaken'
  BY DEF Sound, SameTexts, Grows
<1>3. \A c \in Chapters : r.candidate[c] <= texts' /\ r.base[c] <= r.since
  BY DEF Sound, SameTexts
<1>4. r.since <= texts'
  BY DEF Sound, SameTexts
<1> QED
  BY <1>1, <1>2, <1>3, <1>4 DEF Sound, Owned, Waiting, Candidates

(* A new candidate.                                                        *)
IsSubmitted(r, s, c, text) ==
  /\ r = Submitted(s, c, text)
  /\ r.number = s.number /\ r.since = s.since /\ r.base = s.base
  /\ r.published = s.published
  /\ r.candidate = [s.candidate EXCEPT ![c] = text]
  /\ r.queue = [s.queue EXCEPT ![c] = "generated"]
  /\ r.passed = s.passed \ {c}
  /\ r.stage \in {"audit_pending", "candidate_generating"}
  /\ r.stage = "audit_pending" => Waiting(r) = {}

LEMMA SubmittedIs ==
  ASSUME NEW s \in Revision, NEW c \in Chapters, NEW text \in Nat
  PROVE  \E r \in Revision : IsSubmitted(r, s, c, text)
<1> PICK q : q = [s.queue EXCEPT ![c] = "generated"]
  OBVIOUS
<1> PICK d : d = [s.candidate EXCEPT ![c] = text]
  OBVIOUS
<1> PICK g : g = IF \A e \in Queued(s) : q[e] = "generated"
                   THEN "audit_pending" ELSE "candidate_generating"
  OBVIOUS
<1> PICK r : r = [s EXCEPT !.candidate = d, !.passed = s.passed \ {c}, !.queue = q,
                           !.deferred = FALSE, !.stage = g]
  OBVIOUS
<1>1. q \in [Chapters -> Statuses] /\ d \in [Chapters -> Nat] /\ g \in Stages
  BY DEF Revision, Statuses, Stages
<1>2. r \in Revision
  BY <1>1 DEF Revision
<1>3. r = Submitted(s, c, text)
  BY DEF Submitted, Revision
<1>4. r.queue = q /\ r.stage = g
  BY DEF Revision
<1>5. r.stage = "audit_pending" => Waiting(r) = {}
  <2>1. \A e \in Chapters : e \notin Queued(s) /\ e # c => q[e] = "no"
    BY DEF Queued, Revision
  <2>2. q[c] = "generated"
    BY DEF Revision
  <2>3. g = "audit_pending" => \A e \in Queued(s) : q[e] = "generated"
    OBVIOUS
  <2> QED
    BY <1>4, <2>1, <2>2, <2>3 DEF Waiting
<1>6. /\ r.number = s.number /\ r.since = s.since /\ r.base = s.base
      /\ r.published = s.published /\ r.candidate = d /\ r.passed = s.passed \ {c}
  BY DEF Revision
<1>7. r.stage \in {"audit_pending", "candidate_generating"}
  BY <1>4
<1> QED
  BY <1>2, <1>3, <1>4, <1>5, <1>6, <1>7 DEF IsSubmitted

LEMMA SubmittedSound ==
  ASSUME NEW k \in Revisions, NEW s \in Revision, NEW c \in Chapters, Sound(k, s),
         texts \in Nat, texts' \in Nat, Grows, ~s.published,
         NEW text \in Nat, text <= texts',
         NEW r \in Revision, r.since = s.since, r.base = s.base, ~r.published,
         r.candidate = [s.candidate EXCEPT ![c] = text],
         r.passed = s.passed \ {c},
         r.stage \in {"audit_pending", "candidate_generating"},
         r.stage = "audit_pending" => Waiting(r) = {}
  PROVE  Sound(k, r)'
<1>1. \A d \in Chapters : r.candidate[d] <= texts'
  BY DEF Sound, Revision, Grows
<1>2. \A d \in r.passed : <<k, d, r.candidate[d]>> \in audited' \union mistaken'
  BY DEF Sound, Revision, Grows
<1>3. r.since <= texts' /\ \A d \in Chapters : r.base[d] <= r.since
  BY DEF Sound, Revision, Grows
<1> QED
  BY <1>1, <1>2, <1>3 DEF Sound, Owned, Waiting, Candidates, Judged

-----------------------------------------------------------------------------
(* The actions, one by one.                                                *)

LEMMA FreshIs ==
  ASSUME RevisionsInv, NEW g \in Stages, NEW chapters \in SUBSET Chapters
  PROVE  \E r \in Revision :
           /\ r = Fresh(g, chapters)
           /\ r.number = 1 /\ r.stage = g /\ r.since = texts /\ r.base = formal
           /\ r.candidate = [c \in Chapters |-> 0] /\ r.passed = {} /\ ~r.published
           /\ r.queue = [c \in Chapters |-> IF c \in chapters THEN "pending" ELSE "no"]
<1>1. formal \in [Chapters -> Nat] /\ texts \in Nat
  BY Constants DEF RevisionsInv, FilesInv
<1> PICK q : q = [c \in Chapters |-> IF c \in chapters THEN "pending" ELSE "no"]
  OBVIOUS
<1> PICK z : z = [c \in Chapters |-> 0]
  OBVIOUS
<1> PICK no \in BOOLEAN : no = FALSE
  OBVIOUS
<1> PICK n : n = [number |-> 0, stage |-> "none", since |-> 0, confirmed |-> no,
   queue |-> [c \in Chapters |-> "no"], base |-> z, candidate |-> z, passed |-> {},
   deferred |-> no, published |-> no]
  OBVIOUS
<1>2. n = NoRevision
  BY DEF NoRevision
<1>3. n \in [number : Nat, stage : {"none"}, since : Nat, confirmed : BOOLEAN,
              queue : [Chapters -> {"no"}], base : [Chapters -> Nat],
              candidate : [Chapters -> Nat], passed : SUBSET Chapters,
              deferred : BOOLEAN, published : BOOLEAN]
  OBVIOUS
<1>4. q \in [Chapters -> Statuses]
  BY DEF Statuses
<1>5. PICK r \in Revision :
        r = [n EXCEPT !.number = 1, !.stage = g, !.since = texts, !.queue = q, !.base = formal]
  BY <1>1, <1>3, <1>4 DEF Revision
<1>6. r = Fresh(g, chapters)
  BY <1>2, <1>5 DEF Fresh
<1>7. /\ r.number = 1 /\ r.stage = g /\ r.since = texts /\ r.base = formal
      /\ r.candidate = z /\ r.passed = {} /\ r.published = no /\ r.queue = q
  BY <1>3, <1>5
<1> QED
  BY <1>6, <1>7

LEMMA FreshSound ==
  ASSUME RevisionsInv, NEW k \in Revisions, NEW r \in Revision,
         r.since = texts, r.base = formal, r.passed = {}, ~r.published,
         r.stage \in Judged => Waiting(r) = {}, r.stage # "ready_to_publish",
         \A c \in Chapters : r.candidate[c] <= texts
  PROVE  Sound(k, r)
<1>1. texts \in Nat /\ \A c \in Chapters : formal[c] <= texts
  BY Constants DEF RevisionsInv, FilesInv
<1> QED
  BY <1>1 DEF Sound

LEMMA PreviewKeeps ==
  ASSUME RevisionsInv, NEW p \in Clients, Preview(p), book' = book
  PROVE  RevisionsInv' /\ NothingPublished
<1>1. /\ client \in [Clients -> Calls] /\ texts \in 0..MaxText /\ texts \in Nat
      /\ UNCHANGED <<lease, formal, client, save, texts, audited, approved, mistaken>>
  BY Constants DEF RevisionsInv, FilesInv, Preview
<1>6. Grows
  BY <1>1 DEF Grows
<1>2. PICK others \in SUBSET (book.chapters \ {Target}) :
        Begin(Fresh("approval_pending", {Target} \union others))
  BY DEF Preview
<1> PICK chapters \in SUBSET Chapters : chapters = {Target} \union others
  BY Constants
<1> PICK g \in Stages : g = "approval_pending"
  BY DEF Stages
<1>3. PICK r \in Revision :
           /\ r = Fresh(g, chapters)
           /\ r.number = 1 /\ r.stage = g /\ r.since = texts /\ r.base = formal
           /\ r.candidate = [c \in Chapters |-> 0] /\ r.passed = {} /\ ~r.published
           /\ r.queue = [c \in Chapters |-> IF c \in chapters THEN "pending" ELSE "no"]
  BY FreshIs
<1>4. Begin(r)
  BY <1>2, <1>3
<1>5. \A k \in Revisions : Sound(k, r)
  <2>1. r.stage \notin Judged /\ r.stage # "ready_to_publish"
    BY <1>3 DEF Judged
  <2>2. \A c \in Chapters : r.candidate[c] <= texts
    BY <1>1, <1>3
  <2> QED
    BY <1>3, <2>1, <2>2, FreshSound
<1> QED
  BY <1>1, <1>3, <1>4, <1>5, <1>6, BeginIsSound DEF Over

LEMMA RestoreKeeps ==
  ASSUME RevisionsInv, NEW p \in Clients, NEW k \in Revisions, Restore(p, k), book' = book
  PROVE  RevisionsInv' /\ NothingPublished
<1>1. /\ client \in [Clients -> Calls] /\ texts \in 0..MaxText /\ texts \in Nat
      /\ index[k] \in Revision /\ Sound(k, index[k]) /\ Target \in Chapters
  BY About, Constants
<1>11. UNCHANGED <<lease, formal, client, save, texts, audited, approved, mistaken>>
  BY DEF Restore
<1>12. Grows
  BY <1>1, <1>11 DEF Grows
<1> PICK t \in Nat : t = index[k].candidate[Target]
  BY <1>1 DEF Revision
<1> PICK chapters \in SUBSET Chapters : chapters = {Target}
  BY <1>1
<1> PICK g \in Stages : g = "audit_pending"
  BY DEF Stages
<1>2. PICK f \in Revision :
           /\ f = Fresh(g, chapters)
           /\ f.number = 1 /\ f.stage = g /\ f.since = texts /\ f.base = formal
           /\ f.candidate = [c \in Chapters |-> 0] /\ f.passed = {} /\ ~f.published
           /\ f.queue = [c \in Chapters |-> IF c \in chapters THEN "pending" ELSE "no"]
  BY FreshIs
<1> PICK q : q = [f.queue EXCEPT ![Target] = "generated"]
  OBVIOUS
<1> PICK d : d = [f.candidate EXCEPT ![Target] = t]
  OBVIOUS
<1>3. q \in [Chapters -> Statuses] /\ d \in [Chapters -> Nat]
  BY DEF Revision, Statuses
<1> PICK r \in Revision : r = [f EXCEPT !.queue = q, !.candidate = d]
  BY <1>3 DEF Revision
<1>4. Begin([f EXCEPT !.queue[Target] = "generated", !.candidate[Target] = t])
  BY <1>2 DEF Restore
<1>5. r = [f EXCEPT !.queue[Target] = "generated", !.candidate[Target] = t]
  OBVIOUS
<1>6. Begin(r)
  BY <1>4, <1>5
<1>7. /\ r.number = 1 /\ r.stage = g /\ r.since = texts /\ r.base = formal
      /\ r.candidate = d /\ r.passed = {} /\ r.published = f.published /\ r.queue = q
  <2>1. /\ r.number = f.number /\ r.stage = f.stage /\ r.since = f.since /\ r.base = f.base
        /\ r.passed = f.passed /\ r.published = f.published
    BY DEF Revision
  <2>2. r.candidate = d /\ r.queue = q
    BY DEF Revision
  <2> QED
    BY <1>2, <2>1, <2>2
<1>8. Waiting(r) = {}
  <2>1. \A c \in Chapters : c # Target => f.queue[c] = "no"
    BY <1>2
  <2>2. \A c \in Chapters : c # Target => q[c] = "no"
    BY <2>1 DEF Revision
  <2>3. q[Target] = "generated"
    BY <1>1 DEF Revision
  <2> QED
    BY <1>7, <2>2, <2>3 DEF Waiting
<1>9. \A c \in Chapters : r.candidate[c] <= texts
  BY <1>1, <1>2, <1>7 DEF Sound
<1>10. \A j \in Revisions : Sound(j, r)
  BY <1>2, <1>7, <1>8, <1>9, FreshSound
<1> QED
  BY <1>2, <1>1, <1>6, <1>7, <1>10, <1>11, <1>12, BeginIsSound DEF Over

LEMMA ConfirmKeeps ==
  ASSUME RevisionsInv, NEW p \in Clients, NEW k \in Revisions, Confirm(p, k), book' = book
  PROVE  RevisionsInv' /\ NothingPublished
<1>1. /\ Grows /\ texts' = texts /\ index[k].stage = "approval_pending"
      /\ UNCHANGED <<lease, formal, client, save>>
      /\ Change(k, [index[k] EXCEPT !.confirmed = TRUE])
  BY About DEF Confirm, Grows
<1> PICK s \in Revision : s = index[k]
  BY About
<1> PICK r \in Revision : r = [s EXCEPT !.confirmed = TRUE]
  BY DEF Revision
<1>2. SameTexts(s, r) /\ r.stage = s.stage /\ r.passed = s.passed /\ r.published = s.published
  BY DEF SameTexts, Revision
<1>3. Sound(k, r)'
  <2>1. ~s.published /\ r.stage \notin Judged /\ r.stage # "ready_to_publish"
    BY <1>1, <1>2, About DEF Sound, Judged
  <2> QED
    BY <1>1, <1>2, <2>1, About, SameTextsSound
<1>4. Changes(k, r)
  BY <1>1, <1>2 DEF Changes, Open, Over
<1> QED
  BY <1>2, <1>1, <1>3, <1>4, About, ChangeIsSound

LEMMA GenerateBeginKeeps ==
  ASSUME RevisionsInv, NEW p \in Clients, NEW k \in Revisions, NEW c \in Chapters,
         GenerateBegin(p, k, c), book' = book
  PROVE  RevisionsInv' /\ NothingPublished
<1>1. /\ Grows /\ texts' = texts /\ Addressed(k, "generate") /\ c \in Waiting(index[k])
      /\ UNCHANGED <<lease, formal, save>>
      /\ Change(k, [index[k] EXCEPT !.stage = "candidate_generating"])
      /\ client' = [client EXCEPT ![p] =
           [pc |-> "generating", revision |-> k, number |-> index[k].number + 1,
            chapter |-> c]]
  BY About DEF GenerateBegin, NextItem, Grows
<1> PICK s \in Revision : s = index[k]
  BY About
<1> PICK r \in Revision : r = [s EXCEPT !.stage = "candidate_generating"]
  BY DEF Revision, Stages
<1>2. /\ SameTexts(s, r) /\ r.stage = "candidate_generating"
      /\ r.passed = s.passed /\ r.published = s.published
  BY DEF SameTexts, Revision
<1>3. ~s.published
  BY <1>1, About DEF Sound, Judged, Addressed, Over
<1>4. Sound(k, r)'
  BY <1>1, <1>2, <1>3, About, SameTextsSound DEF Judged
<1>5. Changes(k, r)
  BY <1>1, <1>2 DEF Changes, Addressed, NothingLate, Open
<1>6. client' \in [Clients -> Calls]
  BY <1>1, About DEF Calls
<1>7. CallInv(p)'
  <2>1. /\ client'[p].pc = "generating" /\ client'[p].revision = k
        /\ client'[p].number = index[k].number + 1
    BY <1>1, About
  <2>2. /\ index'[k].number = index[k].number + 1
        /\ index'[k].stage = "candidate_generating"
    BY <1>1, <1>2, NumberChanges
  <2> QED
    BY <2>1, <2>2, About DEF CallInv, At, HasText, Answers
<1> QED
  BY <1>2, <1>1, <1>4, <1>5, <1>6, <1>7, About, ChangeIsSound

LEMMA GenerateSegmentKeeps ==
  ASSUME RevisionsInv, NEW p \in Clients, GenerateSegment(p), book' = book
  PROVE  RevisionsInv' /\ NothingPublished
<1>1. PICK k \in Revisions :
        /\ k = client[p].revision /\ client[p].number = index[k].number
        /\ index[k].stage = "candidate_generating"
  BY Call DEF GenerateSegment, At
<1>2. /\ Grows /\ texts' = texts /\ At(p, "generating")
      /\ UNCHANGED <<lease, formal, save>>
      /\ Change(k, [index[k] EXCEPT !.stage = "candidate_generating"])
      /\ client' = [client EXCEPT ![p] = [client[p] EXCEPT !.number = client[p].number + 1]]
  BY <1>1, About DEF GenerateSegment, Grows
<1> PICK s \in Revision : s = index[k]
  BY About
<1> PICK r \in Revision : r = [s EXCEPT !.stage = "candidate_generating"]
  BY DEF Revision, Stages
<1>3. /\ SameTexts(s, r) /\ r.stage = "candidate_generating"
      /\ r.passed = s.passed /\ r.published = s.published
  BY DEF SameTexts, Revision
<1>4. ~s.published
  BY <1>1, About DEF Sound
<1>5. Sound(k, r)'
  BY <1>2, <1>3, <1>4, About, SameTextsSound DEF Judged
<1>6. Changes(k, r)
  BY <1>1, <1>2, <1>3 DEF Changes, Open, Over
<1> PICK m : m = [client[p] EXCEPT !.number = client[p].number + 1]
  OBVIOUS
<1>7. /\ m \in [pc : {"generating"}, revision : Revisions, number : Nat, chapter : Chapters]
      /\ m.pc = "generating" /\ m.revision = k /\ m.number = index[k].number + 1
  BY <1>1, <1>2, About DEF Calls, Idle, At
<1>8. client' \in [Clients -> Calls] /\ client'[p] = m
  BY <1>2, <1>7, About DEF Calls
<1>9. CallInv(p)'
  <2>1. /\ index'[k].number = index[k].number + 1
        /\ index'[k].stage = "candidate_generating"
    BY <1>2, <1>3, NumberChanges
  <2> QED
    BY <1>7, <1>8, <2>1, About DEF CallInv, At, HasText, Answers
<1> QED
  BY <1>3, <1>2, <1>5, <1>6, <1>8, <1>9, About, ChangeIsSound

LEMMA DoneIs ==
  ASSUME RevisionsInv, NEW p \in Clients, Done(p)
  PROVE  /\ client' \in [Clients -> Calls]
         /\ \A q \in Clients : client'[q] = client[q] \/ CallInv(q)'
<1>1. client \in [Clients -> Calls] /\ client' = [client EXCEPT ![p] = Idle]
  BY DEF RevisionsInv, Done
<1>2. client'[p].pc = "idle"
  BY <1>1 DEF Idle
<1> QED
  BY <1>1, <1>2 DEF Calls, CallInv, At

LEMMA GenerateDoneKeeps ==
  ASSUME RevisionsInv, NEW p \in Clients, GenerateDone(p), book' = book
  PROVE  RevisionsInv' /\ NothingPublished
<1>1. PICK k \in Revisions :
        k = client[p].revision /\ client[p].number = index[k].number
  BY Call DEF GenerateDone, At
<1>2. client[p].chapter \in Chapters
  BY About DEF GenerateDone, At, Calls, Idle
<1> PICK c \in Chapters : c = client[p].chapter
  BY <1>2
<1>3. /\ Grows /\ texts' = texts + 1 /\ texts < MaxText /\ Submittable(k)
      /\ UNCHANGED <<lease, formal, save>>
      /\ Change(k, Submitted(index[k], c, texts + 1))
      /\ client' = [client EXCEPT ![p] =
           [pc |-> "recording", revision |-> k, number |-> index[k].number + 1]]
  BY <1>1, About DEF GenerateDone, Grows
<1> PICK s \in Revision : s = index[k]
  BY About
<1> PICK t \in Nat : t = texts + 1
  BY About
<1> PICK r \in Revision : IsSubmitted(r, s, c, t)
  BY SubmittedIs
<1>4. /\ r = Submitted(s, c, t)
      /\ r.number = s.number /\ r.since = s.since /\ r.base = s.base
      /\ r.published = s.published
      /\ r.candidate = [s.candidate EXCEPT ![c] = t]
      /\ r.queue = [s.queue EXCEPT ![c] = "generated"]
      /\ r.passed = s.passed \ {c}
      /\ r.stage \in {"audit_pending", "candidate_generating"}
      /\ r.stage = "audit_pending" => Waiting(r) = {}
  BY DEF IsSubmitted
<1>5. ~s.published
  BY <1>3, About DEF Sound, Submittable
<1>6. Sound(k, r)'
  BY <1>3, <1>4, <1>5, About, SubmittedSound
<1>7. Changes(k, r)
  BY <1>3, <1>4 DEF Changes, Submittable, Open, Over
<1>8. client' \in [Clients -> Calls]
  BY <1>3, About DEF Calls
<1>9. CallInv(p)'
  <2>1. /\ index'[k].number = index[k].number + 1
        /\ index'[k].stage \in {"audit_pending", "candidate_generating"}
    BY <1>3, <1>4, NumberChanges
  <2>2. /\ client'[p].pc = "recording" /\ client'[p].revision = k
        /\ client'[p].number = index[k].number + 1
    BY <1>3, About
  <2> QED
    BY <2>1, <2>2, About DEF CallInv, At, HasText, Answers
<1>10. \A d \in Chapters : formal'[d] <= texts'
  BY <1>3, About
<1>11. texts' \in 0..MaxText
  BY <1>3, Constants
<1>12. \A q \in Clients : client'[q] = client[q] \/ CallInv(q)'
  BY <1>3, <1>9, About
<1> QED
  BY <1>4, <1>3, <1>6, <1>7, <1>8, <1>10, <1>11, <1>12, About, ChangeIsSound

LEMMA GenerateRecordKeeps ==
  ASSUME RevisionsInv, NEW p \in Clients, GenerateRecord(p), book' = book
  PROVE  RevisionsInv' /\ NothingPublished
<1>1. PICK k \in Revisions :
        /\ k = client[p].revision
        /\ index[k].stage \in {"candidate_generating", "audit_pending"}
  BY Call DEF GenerateRecord, At
<1>2. /\ Grows /\ texts' = texts /\ UNCHANGED <<lease, formal, save>>
      /\ Change(k, index[k]) /\ Done(p)
  BY <1>1, About DEF GenerateRecord, Grows
<1> PICK r \in Revision : r = index[k]
  BY About
<1>3. Sound(k, r)'
  BY <1>2, About, StaysSound
<1>4. Changes(k, r)
  BY <1>1, <1>2 DEF Changes, Open, Over
<1> QED
  BY <1>2, <1>3, <1>4, About, DoneIs, ChangeIsSound

(* What fails was not published.                                           *)
IsFailed(r, s, c) ==
  /\ r = Failed(s, c) /\ SameTexts(s, r)
  /\ r.stage = "failed" /\ r.passed = s.passed /\ ~r.published

LEMMA FailedIs ==
  ASSUME NEW k \in Revisions, NEW s \in Revision, NEW c \in Chapters, Sound(k, s),
         ~s.published, texts \in Nat, texts' = texts, Grows
  PROVE  \E r \in Revision : IsFailed(r, s, c) /\ Sound(k, r)'
<1> PICK q : q = [s.queue EXCEPT ![c] = "failed"]
  OBVIOUS
<1>1. q \in [Chapters -> Statuses]
  BY DEF Revision, Statuses
<1> PICK r \in Revision : r = [s EXCEPT !.stage = "failed", !.queue = q]
  BY <1>1 DEF Revision, Stages
<1>2. r = Failed(s, c)
  BY DEF Failed
<1>3. /\ SameTexts(s, r) /\ r.stage = "failed" /\ r.passed = s.passed
      /\ r.published = s.published
  BY DEF SameTexts, Revision
<1>4. ~r.published
  BY <1>3
<1>5. Sound(k, r)'
  BY <1>3, <1>4, SameTextsSound DEF Judged
<1> QED
  BY <1>2, <1>3, <1>4, <1>5 DEF IsFailed

LEMMA GenerateFailsKeeps ==
  ASSUME RevisionsInv, NEW p \in Clients, GenerateFails(p), book' = book
  PROVE  RevisionsInv' /\ NothingPublished
<1>1. PICK k \in Revisions :
        k = client[p].revision /\ index[k].stage = "candidate_generating"
  BY Call DEF GenerateFails, At
<1>2. client[p].chapter \in Chapters
  BY About DEF GenerateFails, At, Calls, Idle
<1> PICK c \in Chapters : c = client[p].chapter
  BY <1>2
<1>3. /\ Grows /\ texts' = texts /\ UNCHANGED <<lease, formal, save>>
      /\ Change(k, Failed(index[k], c)) /\ Done(p)
  BY <1>1, About DEF GenerateFails, Grows
<1> PICK s \in Revision : s = index[k]
  BY About
<1>20. ~s.published
  BY <1>1, About DEF Sound
<1>21. PICK r \in Revision : IsFailed(r, s, c) /\ Sound(k, r)'
  BY <1>20, <1>1, <1>3, About, FailedIs
<1>4. /\ r = Failed(s, c) /\ SameTexts(s, r)
      /\ r.stage = "failed" /\ r.passed = s.passed /\ ~r.published
      /\ Sound(k, r)'
  BY <1>21 DEF IsFailed
<1>5. Changes(k, r)
  BY <1>1, <1>3, <1>4 DEF Changes, Open, Over
<1> QED
  BY <1>3, <1>4, <1>5, About, DoneIs, ChangeIsSound

LEMMA GenerateRefusedKeeps ==
  ASSUME RevisionsInv, NEW p \in Clients, NEW k \in Revisions, NEW c \in Chapters,
         GenerateRefused(p, k, c), book' = book
  PROVE  RevisionsInv' /\ NothingPublished
<1>1. /\ Grows /\ texts' = texts /\ Addressed(k, "generate") /\ c \in Waiting(index[k])
      /\ UNCHANGED <<lease, formal, client, save>> /\ Change(k, Failed(index[k], c))
  BY About DEF GenerateRefused, NextItem, Grows
<1> PICK s \in Revision : s = index[k]
  BY About
<1>2. ~s.published
  BY <1>1, About DEF Sound, Judged, Addressed, Over
<1>21. PICK r \in Revision : IsFailed(r, s, c) /\ Sound(k, r)'
  BY <1>1, <1>2, About, FailedIs
<1>3. /\ r = Failed(s, c) /\ SameTexts(s, r)
      /\ r.stage = "failed" /\ r.passed = s.passed /\ ~r.published
      /\ Sound(k, r)'
  BY <1>21 DEF IsFailed
<1>4. Changes(k, r)
  BY <1>1, <1>3 DEF Changes, Addressed, NothingLate, Open
<1> QED
  BY <1>1, <1>3, <1>4, About, ChangeIsSound

LEMMA AuditFailsKeeps ==
  ASSUME RevisionsInv, NEW p \in Clients, NEW c \in Chapters, AuditFails(p, c), book' = book
  PROVE  RevisionsInv' /\ NothingPublished
<1>1. PICK k \in Revisions :
        k = client[p].revision /\ index[k].stage = "audit_pending"
  BY Call DEF AuditFails, At
<1>2. /\ Grows /\ texts' = texts /\ UNCHANGED <<lease, formal, save>>
      /\ Change(k, Failed(index[k], c)) /\ Done(p)
  BY <1>1, About DEF AuditFails, Grows
<1> PICK s \in Revision : s = index[k]
  BY About
<1>20. ~s.published
  BY <1>1, About DEF Sound
<1>21. PICK r \in Revision : IsFailed(r, s, c) /\ Sound(k, r)'
  BY <1>20, <1>1, <1>2, About, FailedIs
<1>3. /\ r = Failed(s, c) /\ SameTexts(s, r)
      /\ r.stage = "failed" /\ r.passed = s.passed /\ ~r.published
      /\ Sound(k, r)'
  BY <1>21 DEF IsFailed
<1>4. Changes(k, r)
  BY <1>1, <1>2, <1>3 DEF Changes, Open, Over
<1> QED
  BY <1>2, <1>3, <1>4, About, DoneIs, ChangeIsSound

LEMMA AuditBindKeeps ==
  ASSUME RevisionsInv, NEW p \in Clients, AuditBind(p), book' = book
  PROVE  RevisionsInv' /\ NothingPublished
<1>1. PICK k \in Revisions :
        /\ k = client[p].revision /\ client[p].number = index[k].number
        /\ index[k].stage = "audit_pending"
  BY Call DEF AuditBind, StillJudged, At
<1>2. /\ Grows /\ texts' = texts /\ At(p, "auditing")
      /\ UNCHANGED <<lease, formal, save>>
      /\ Change(k, [index[k] EXCEPT !.deferred = FALSE])
      /\ client' = [client EXCEPT ![p] = [client[p] EXCEPT !.number = client[p].number + 1]]
  BY <1>1, About DEF AuditBind, Grows
<1> PICK s \in Revision : s = index[k]
  BY About
<1> PICK r \in Revision : r = [s EXCEPT !.deferred = FALSE]
  BY DEF Revision
<1>3. /\ SameTexts(s, r) /\ r.stage = "audit_pending" /\ r.queue = s.queue
      /\ r.passed = s.passed /\ r.published = s.published
  BY <1>1 DEF SameTexts, Revision
<1>4. ~s.published /\ Waiting(r) = {}
  BY <1>1, <1>3, About DEF Sound, Judged, Waiting
<1>5. Sound(k, r)'
  BY <1>2, <1>3, <1>4, About, SameTextsSound
<1>6. Changes(k, r)
  BY <1>1, <1>2, <1>3 DEF Changes, Open, Over
<1> PICK m : m = [client[p] EXCEPT !.number = client[p].number + 1]
  OBVIOUS
<1>7. /\ m \in [pc : {"auditing"}, revision : Revisions, number : Nat,
                candidate : [Chapters -> Nat]]
      /\ m.pc = "auditing" /\ m.revision = k /\ m.number = index[k].number + 1
  BY <1>1, <1>2, About DEF Calls, Idle, At
<1>8. client' \in [Clients -> Calls] /\ client'[p] = m
  BY <1>2, <1>7, About DEF Calls
<1>9. CallInv(p)'
  <2>1. /\ index'[k].number = index[k].number + 1
        /\ index'[k].stage = "audit_pending"
    BY <1>2, <1>3, NumberChanges
  <2> QED
    BY <1>7, <1>8, <2>1, About DEF CallInv, At, HasText, Answers
<1> QED
  BY <1>3, <1>2, <1>5, <1>6, <1>8, <1>9, About, ChangeIsSound

LEMMA AuditBeginKeeps ==
  ASSUME RevisionsInv, NEW p \in Clients, NEW k \in Revisions, AuditBegin(p, k), book' = book
  PROVE  RevisionsInv' /\ NothingPublished
<1>1. /\ Grows /\ texts' = texts
      /\ UNCHANGED <<index, active, lease, formal, save>>
      /\ index[k].stage = "audit_pending"
      /\ client' = [client EXCEPT ![p] =
           [pc |-> "auditing", revision |-> k, number |-> index[k].number,
            candidate |-> index[k].candidate]]
  BY About DEF AuditBegin, Grows
<1>2. client' \in [Clients -> Calls]
  BY <1>1, About DEF Calls, Revision
<1>3. CallInv(p)'
  <2>1. /\ client'[p].pc = "auditing" /\ client'[p].revision = k
        /\ client'[p].number = index[k].number
    BY <1>1, About
  <2> QED
    BY <1>1, <2>1, About DEF CallInv, At, HasText, Answers
<1>4. lease \in BOOLEAN
  BY DEF RevisionsInv, FilesInv
<1>5. \A q \in Clients : client'[q] = client[q] \/ CallInv(q)'
  BY <1>1, <1>3, About
<1> QED
  BY <1>1, <1>2, <1>4, <1>5, About, LeavesRevisions

(* The audit's answer is about the candidates that are still there.        *)
LEMMA SeenIsOwn ==
  ASSUME RevisionsInv, NEW p \in Clients, NEW k \in Revisions, k = client[p].revision,
         StillJudged(p), NEW chapters \in SUBSET Chapters
  PROVE  Seen(p, chapters) = {<<k, c, index[k].candidate[c]>> : c \in chapters}
BY DEF Seen, StillJudged

LEMMA AuditPassesKeeps ==
  ASSUME RevisionsInv, NEW p \in Clients, AuditPasses(p), book' = book
  PROVE  RevisionsInv' /\ NothingPublished
<1>1. PICK k \in Revisions :
        k = client[p].revision /\ index[k].stage = "audit_pending"
  BY Call DEF AuditPasses, StillJudged, At
<1>2. StillJudged(p) /\ index[k].candidate = client[p].candidate
  BY <1>1 DEF AuditPasses, StillJudged
<1> PICK s \in Revision : s = index[k]
  BY About
<1>3. {c \in Chapters : client[p].candidate[c] # 0} = Candidates(s)
  BY <1>2 DEF Candidates
<1>4. Seen(p, Candidates(s)) = Owned(k, s)
  BY <1>1, <1>2, SeenIsOwn DEF Owned, Candidates
<1>5. /\ Grows /\ texts' = texts /\ UNCHANGED <<lease, formal, save>>
      /\ Change(k, [s EXCEPT !.passed = Candidates(s), !.stage = "final_approval_pending"])
      /\ audited' = audited \union Owned(k, s)
      /\ Done(p)
  BY <1>1, <1>3, <1>4, About DEF AuditPasses, Grows
<1> PICK r \in Revision :
       r = [s EXCEPT !.passed = Candidates(s), !.stage = "final_approval_pending"]
  BY DEF Revision, Stages, Candidates
<1>6. /\ SameTexts(s, r) /\ r.stage = "final_approval_pending" /\ r.queue = s.queue
      /\ r.passed = Candidates(s) /\ r.published = s.published
  BY DEF SameTexts, Revision
<1>7. ~s.published /\ Waiting(r) = {}
  BY <1>1, <1>6, About DEF Sound, Judged, Waiting
<1>8. \A c \in r.passed : <<k, c, s.candidate[c]>> \in audited'
  BY <1>5, <1>6 DEF Owned
<1>9. Sound(k, r)'
  BY <1>5, <1>6, <1>7, <1>8, About, SameTextsSound
<1>10. Changes(k, r)
  BY <1>1, <1>5, <1>6 DEF Changes, Open, Over
<1> QED
  BY <1>6, <1>5, <1>9, <1>10, About, DoneIs, ChangeIsSound

LEMMA AuditRejectsKeeps ==
  ASSUME RevisionsInv, NEW p \in Clients, NEW c \in Chapters, AuditRejects(p, c), book' = book
  PROVE  RevisionsInv' /\ NothingPublished
<1>1. PICK k \in Revisions :
        k = client[p].revision /\ index[k].stage = "audit_pending"
  BY Call DEF AuditRejects, StillJudged, At
<1>2. StillJudged(p)
  BY DEF AuditRejects
<1> PICK s \in Revision : s = index[k]
  BY About
<1>3. PICK before \in SUBSET (Candidates(s) \ {c}) :
        /\ Change(k, [Failed(s, c) EXCEPT !.passed = @ \union before])
        /\ audited' = audited \union Seen(p, before)
  BY <1>1 DEF AuditRejects
<1>4. before \in SUBSET Chapters /\ Seen(p, before) = {<<k, d, s.candidate[d]>> : d \in before}
  BY <1>1, <1>2, SeenIsOwn DEF Candidates
<1>5. /\ Grows /\ texts' = texts /\ UNCHANGED <<lease, formal, save>> /\ Done(p)
  BY <1>3, About DEF AuditRejects, Grows
<1>20. ~s.published
  BY <1>1, About DEF Sound
<1>21. PICK f \in Revision : IsFailed(f, s, c) /\ Sound(k, f)'
  BY <1>20, <1>1, <1>5, About, FailedIs
<1>6. /\ f = Failed(s, c) /\ SameTexts(s, f)
      /\ f.stage = "failed" /\ f.passed = s.passed /\ ~f.published
      /\ Sound(k, f)'
  BY <1>21 DEF IsFailed
<1> PICK r \in Revision : r = [f EXCEPT !.passed = f.passed \union before]
  BY <1>4 DEF Revision
<1>7. /\ SameTexts(s, r) /\ r.stage = "failed" /\ r.passed = s.passed \union before
      /\ r.published = f.published
  BY <1>6 DEF SameTexts, Revision
<1>8. \A d \in r.passed : d \in s.passed \/ <<k, d, s.candidate[d]>> \in audited'
  BY <1>3, <1>4, <1>7
<1>9. Sound(k, r)'
  BY <1>5, <1>6, <1>7, <1>8, About, SameTextsSound DEF Judged
<1>10. Changes(k, r)
  BY <1>1, <1>3, <1>5, <1>6, <1>7 DEF Changes, Open, Over
<1> QED
  BY <1>6, <1>7, <1>5, <1>9, <1>10, About, DoneIs, ChangeIsSound

LEMMA ApproveKeeps ==
  ASSUME RevisionsInv, NEW p \in Clients, NEW k \in Revisions, Approve(p, k), book' = book
  PROVE  RevisionsInv' /\ NothingPublished
<1> PICK s \in Revision : s = index[k]
  BY About
<1>1. /\ Grows /\ texts' = texts /\ UNCHANGED <<lease, formal, client, save>>
      /\ s.stage = "final_approval_pending"
      /\ Change(k, [s EXCEPT !.stage = "ready_to_publish"])
      /\ approved' = approved \union Owned(k, s)
  BY About DEF Approve, Grows, Own, Owned
<1> PICK r \in Revision : r = [s EXCEPT !.stage = "ready_to_publish"]
  BY DEF Revision, Stages
<1>2. /\ SameTexts(s, r) /\ r.stage = "ready_to_publish" /\ r.queue = s.queue
      /\ r.passed = s.passed /\ r.published = s.published
  BY DEF SameTexts, Revision
<1>3. ~s.published /\ Waiting(r) = {}
  BY <1>1, <1>2, About DEF Sound, Judged, Waiting
<1>4. Sound(k, r)'
  BY <1>1, <1>2, <1>3, About, SameTextsSound
<1>5. Changes(k, r)
  BY <1>1, <1>2 DEF Changes, Open, Over
<1> QED
  BY <1>2, <1>1, <1>4, <1>5, About, ChangeIsSound

(* Published is what was approved, and what was approved was passed.       *)
LEMMA PublishedIs ==
  ASSUME RevisionsInv, NEW k \in Revisions, PublishCandidates(k), Grows, texts' = texts,
         lease' = lease
  PROVE  \E r \in Revision :
           /\ r.published /\ r.candidate = index[k].candidate
           /\ Sound(k, r)' /\ Changes(k, r)
<1> PICK s \in Revision : s = index[k]
  BY About
<1> PICK g \in {"completion_revalidation_pending", "completed"} :
       g = IF book.complete THEN "completion_revalidation_pending" ELSE "completed"
  OBVIOUS
<1>1. /\ s.stage = "ready_to_publish" /\ Candidates(s) \subseteq s.passed
      /\ Change(k, [s EXCEPT !.published = TRUE, !.stage = g])
  BY DEF PublishCandidates, AllPassed, Published
<1> PICK r \in Revision : r = [s EXCEPT !.published = TRUE, !.stage = g]
  BY DEF Revision, Stages
<1>2. /\ SameTexts(s, r) /\ r.stage = g /\ r.queue = s.queue
      /\ r.passed = s.passed /\ r.published
  BY DEF SameTexts, Revision
<1>3. Waiting(r) = {}
  BY <1>1, <1>2, About DEF Sound, Judged, Waiting
<1>4. Owned(k, s) \subseteq (audited' \intersect approved') \union mistaken'
  <2>1. Owned(k, s) \subseteq approved \union mistaken
    BY <1>1, About DEF Sound
  <2>2. Owned(k, s) \subseteq audited \union mistaken
    BY <1>1, About DEF Sound, Owned
  <2> QED
    BY <2>1, <2>2 DEF Grows
<1>5. Sound(k, r)'
  BY <1>2, <1>3, <1>4, About, SameTextsSound
<1>6. Changes(k, r)
  BY <1>1, <1>2 DEF Changes, Open, Over
<1> QED
  BY <1>2, <1>5, <1>6 DEF SameTexts

LEMMA PublishKeeps ==
  ASSUME RevisionsInv, NEW k \in Revisions, PublishCandidates(k), book' = book,
         UNCHANGED <<lease, save, texts, audited, approved, mistaken>>,
         client' \in [Clients -> Calls],
         \A q \in Clients : client'[q] = client[q] \/ CallInv(q)'
  PROVE  RevisionsInv'
<1>1. Grows
  BY About DEF Grows
<1> PICK r \in Revision : Sound(k, r)' /\ Changes(k, r)
  BY <1>1, PublishedIs
<1> PICK s \in Revision : s = index[k]
  BY About
<1>2. formal' = [c \in Chapters |->
         IF c \in Candidates(s) THEN s.candidate[c] ELSE formal[c]]
  BY DEF PublishCandidates
<1>3. formal' \in [Chapters -> Nat] /\ \A c \in Chapters : formal'[c] <= texts'
  BY <1>2, About DEF Revision, Sound
<1> QED
  BY <1>1, <1>3, About, ChangeIsSound

LEMMA RevalidateKeeps ==
  ASSUME RevisionsInv, NEW p \in Clients, NEW k \in Revisions, Revalidate(p, k), book' = book
  PROVE  RevisionsInv' /\ NothingPublished
<1> PICK s \in Revision : s = index[k]
  BY About
<1>1. /\ Grows /\ texts' = texts /\ UNCHANGED <<lease, formal, client, save>>
      /\ s.stage = "completion_revalidation_pending"
      /\ Change(k, [s EXCEPT !.stage = "completed"])
  BY About DEF Revalidate, Grows
<1> PICK r \in Revision : r = [s EXCEPT !.stage = "completed"]
  BY DEF Revision, Stages
<1>2. /\ SameTexts(s, r) /\ r.stage = "completed"
      /\ r.passed = s.passed /\ r.published = s.published
  BY DEF SameTexts, Revision
<1>3. r.published => Owned(k, s) \subseteq (audited' \intersect approved') \union mistaken'
  BY <1>1, <1>2, About DEF Sound, Grows
<1>4. Sound(k, r)'
  BY <1>1, <1>2, <1>3, About, SameTextsSound DEF Judged
<1>5. Changes(k, r)
  BY <1>1, <1>2 DEF Changes, Open, Over
<1> QED
  BY <1>2, <1>1, <1>4, <1>5, About, ChangeIsSound

LEMMA CancelKeeps ==
  ASSUME RevisionsInv, NEW p \in Clients, NEW k \in Revisions, Cancel(p, k), book' = book
  PROVE  RevisionsInv' /\ NothingPublished
<1> PICK s \in Revision : s = index[k]
  BY About
<1>1. /\ Grows /\ texts' = texts /\ UNCHANGED <<lease, formal, client, save>>
      /\ Addressed(k, "cancel") /\ ~s.published
      /\ Change(k, [s EXCEPT !.stage = "cancelled"])
  BY About DEF Cancel, Grows
<1> PICK r \in Revision : r = [s EXCEPT !.stage = "cancelled"]
  BY DEF Revision, Stages
<1>2. /\ SameTexts(s, r) /\ r.stage = "cancelled"
      /\ r.passed = s.passed /\ r.published = s.published
  BY DEF SameTexts, Revision
<1>3. Sound(k, r)'
  BY <1>1, <1>2, About, SameTextsSound DEF Judged
<1>4. Changes(k, r)
  BY <1>1, <1>2 DEF Changes, Addressed, NothingLate, Open
<1> QED
  BY <1>2, <1>1, <1>3, <1>4, About, ChangeIsSound

LEMMA SaveBeginKeeps ==
  ASSUME RevisionsInv, NEW p \in Clients, SaveBegin(p), book' = book
  PROVE  RevisionsInv' /\ NothingPublished
<1>1. /\ Target \in Chapters /\ client \in [Clients -> Calls]
      /\ texts \in Nat /\ MaxText \in Nat /\ formal \in [Chapters -> Nat] /\ SavesInv
  BY Constants DEF RevisionsInv, FilesInv
<1> PICK chapters \in SUBSET Chapters : chapters = {Target}
  BY <1>1
<1> PICK g \in Stages : g = "approval_pending"
  BY DEF Stages
<1>2. PICK r \in Revision :
           /\ r = Fresh(g, chapters)
           /\ r.number = 1 /\ r.stage = g /\ r.since = texts /\ r.base = formal
           /\ r.candidate = [c \in Chapters |-> 0] /\ r.passed = {} /\ ~r.published
           /\ r.queue = [c \in Chapters |-> IF c \in chapters THEN "pending" ELSE "no"]
  BY FreshIs
<1>3. /\ Begin(r) /\ UNCHANGED <<lease, formal, audited, approved, mistaken>>
      /\ texts < MaxText /\ texts' = texts + 1
      /\ save' = [save EXCEPT ![p] =
           [revision |-> active', base |-> formal[Target], text |-> texts',
            submitted |-> FALSE]]
      /\ client' = [client EXCEPT ![p] =
           [pc |-> "saving", revision |-> active', number |-> 1, text |-> texts']]
  BY <1>2 DEF SaveBegin
<1>4. active' \in Revisions
  BY <1>3, ConstantsAssumption DEF Begin, RevisionsInv, Revisions, Book
<1>5. texts' \in Nat /\ texts' \in 0..MaxText /\ Grows
  BY <1>1, <1>3 DEF Grows
<1>6. client' \in [Clients -> Calls]
  BY <1>1, <1>3, <1>4, <1>5 DEF Calls
<1>7. SavesInv'
  <2> PICK no \in BOOLEAN : no = FALSE
    OBVIOUS
  <2> PICK m : m = [revision |-> active', base |-> formal[Target], text |-> texts',
                    submitted |-> no]
    OBVIOUS
  <2>1. m \in Saves /\ m.text = texts'
    BY <1>1, <1>4, <1>5 DEF Saves
  <2>2. save' = [save EXCEPT ![p] = m]
    BY <1>3
  <2>3. save' \in [Clients -> Saves]
    BY <1>1, <2>1, <2>2 DEF SavesInv
  <2>4. \A q \in Clients : save'[q].text <= texts'
    <3> TAKE q \in Clients
    <3>1. CASE q = p
      BY <1>1, <1>5, <2>1, <2>2, <3>1 DEF SavesInv
    <3>2. CASE q # p
      <4>1. save'[q] = save[q] /\ save[q].text \in Nat /\ save[q].text <= texts
        BY <1>1, <2>2, <3>2 DEF SavesInv, Saves, NoSave
      <4> QED
        BY <1>1, <1>3, <4>1
    <3> QED
      BY <3>1, <3>2
  <2> QED
    BY <2>3, <2>4 DEF SavesInv
<1>8. \A k \in Revisions : Sound(k, r)
  <2>1. r.stage \notin Judged /\ r.stage # "ready_to_publish"
    BY <1>2 DEF Judged
  <2>2. \A c \in Chapters : r.candidate[c] <= texts
    BY <1>1, <1>2
  <2> QED
    BY <1>2, <2>1, <2>2, FreshSound
<1>9. \A q \in Clients :
           \/ client'[q] = client[q]
           \/ /\ client'[q].pc = "saving" /\ client'[q].text <= texts'
              /\ client'[q].revision = active' /\ client'[q].number = 1
  BY <1>1, <1>3, <1>5
<1> QED
  BY <1>2, <1>3, <1>5, <1>6, <1>7, <1>8, <1>9, BeginIsSound DEF Over

(* What a save does before it changes anything.                            *)
LEMMA CallMoves ==
  ASSUME RevisionsInv, NEW p \in Clients, book' = book, NEW m \in Calls,
         UNCHANGED <<index, active, lease, formal, save, texts, audited, approved, mistaken>>,
         client' = [client EXCEPT ![p] = m],
         m.pc \in {"saving", "submitting", "answering"}, m.text <= texts,
         m.number <= index[m.revision].number,
         m.pc = "submitting" => Submittable(m.revision),
         m.pc = "answering" => m.repeated
  PROVE  RevisionsInv' /\ NothingPublished
<1>1. /\ client \in [Clients -> Calls] /\ lease \in BOOLEAN
      /\ texts \in 0..MaxText /\ texts \in Nat /\ formal \in [Chapters -> Nat]
      /\ \A c \in Chapters : formal[c] <= texts
  BY Constants DEF RevisionsInv, FilesInv
<1>2. Grows
  BY <1>1 DEF Grows
<1>3. client' \in [Clients -> Calls] /\ client'[p] = m
  BY <1>1
<1>4. CallInv(p)'
  <2>1. ~Answers(p, FALSE)'
    BY <1>3 DEF Answers, At
  <2>2. (At(p, "submitting") => Submittable(client[p].revision))'
    BY <1>3 DEF At, Submittable
  <2> QED
    BY <1>3, <2>1, <2>2 DEF CallInv, At, HasText
<1>5. \A q \in Clients : client'[q] = client[q] \/ CallInv(q)'
  BY <1>1, <1>4
<1> QED
  BY <1>1, <1>2, <1>3, <1>5, LeavesRevisions

LEMMA SaveAgainKeeps ==
  ASSUME RevisionsInv, NEW p \in Clients, SaveAgain(p), book' = book
  PROVE  RevisionsInv' /\ NothingPublished
<1>0. save[p] \in Saves /\ save[p].revision # 0 /\ save[p].text <= texts
  BY DEF SaveAgain, RevisionsInv, SavesInv
<1> PICK k \in Revisions : k = save[p].revision
  BY <1>0 DEF Saves
<1> PICK t \in Nat : t = save[p].text
  BY <1>0 DEF Saves
<1> PICK m : m = [pc |-> "saving", revision |-> k, number |-> index[k].number, text |-> t]
  OBVIOUS
<1>1. /\ UNCHANGED <<index, active, lease, formal, save, texts, audited, approved, mistaken>>
      /\ client' = [client EXCEPT ![p] = m]
  BY DEF SaveAgain
<1>2. m \in Calls
  BY About DEF Calls
<1>3. /\ m.pc = "saving" /\ m.text = t /\ t <= texts
      /\ m.number <= index[m.revision].number
  BY <1>0, About
<1> QED
  BY <1>1, <1>2, <1>3, CallMoves

(* The call of a save.                                                     *)
LEMMA SaveCall ==
  ASSUME RevisionsInv, NEW p \in Clients, HasText(p)
  PROVE  /\ client[p].revision \in Revisions /\ client[p].number \in Nat
         /\ client[p].text \in Nat /\ client[p].text <= texts
         /\ client[p].number <= index[client[p].revision].number
<1>1. CallInv(p) /\ client[p] \in Calls
  BY DEF RevisionsInv
<1>2. ~At(p, "idle")
  BY DEF HasText, At
<1>3. /\ client[p].revision \in Revisions /\ client[p].number \in Nat
      /\ client[p].text \in Nat
  BY <1>1 DEF Calls, Idle, HasText
<1> QED
  BY <1>1, <1>2, <1>3 DEF CallInv

LEMMA SaveLoadKeeps ==
  ASSUME RevisionsInv, NEW p \in Clients, SaveLoad(p), book' = book
  PROVE  RevisionsInv' /\ NothingPublished
<1>0. /\ HasText(p) /\ client[p] \in Calls /\ At(p, "saving")
      /\ Submittable(client[p].revision)
  BY DEF SaveLoad, HasText, At, RevisionsInv
<1> PICK m : m = [client[p] EXCEPT !.pc = "submitting"]
  OBVIOUS
<1>1. /\ UNCHANGED <<index, active, lease, formal, save, texts, audited, approved, mistaken>>
      /\ client' = [client EXCEPT ![p] = m]
  BY DEF SaveLoad
<1>2. client[p] \in [pc : {"saving", "submitting"}, revision : Revisions, number : Nat, text : Nat]
  BY <1>0 DEF Calls, Idle, At
<1>3. /\ m \in [pc : {"submitting"}, revision : Revisions, number : Nat, text : Nat]
      /\ m.revision = client[p].revision /\ m.number = client[p].number
      /\ m.text = client[p].text
  BY <1>2
<1>4. m \in Calls
  BY <1>3 DEF Calls
<1> QED
  BY <1>0, <1>1, <1>3, <1>4, SaveCall, CallMoves

LEMMA SaveReplayKeeps ==
  ASSUME RevisionsInv, NEW p \in Clients, SaveReplay(p), book' = book
  PROVE  RevisionsInv' /\ NothingPublished
<1>0. HasText(p)
  BY DEF SaveReplay, HasText, At
<1> PICK k \in Revisions : k = client[p].revision
  BY <1>0, SaveCall
<1> PICK t \in Nat : t = client[p].text
  BY <1>0, SaveCall
<1> PICK yes \in BOOLEAN : yes = TRUE
  OBVIOUS
<1> PICK m : m = [pc |-> "answering", revision |-> k, number |-> index[k].number,
                  text |-> t, repeated |-> yes]
  OBVIOUS
<1>1. /\ UNCHANGED <<index, active, lease, formal, save, texts, audited, approved, mistaken>>
      /\ client' = [client EXCEPT ![p] = m]
  BY DEF SaveReplay, Answering
<1>2. m \in Calls
  BY About DEF Calls
<1>3. /\ m.pc = "answering" /\ m.repeated /\ m.text = t /\ t <= texts
      /\ m.number <= index[m.revision].number
  BY <1>0, About, SaveCall
<1> QED
  BY <1>1, <1>2, <1>3, CallMoves

LEMMA SaveSubmitKeeps ==
  ASSUME RevisionsInv, NEW p \in Clients, SaveSubmit(p), book' = book
  PROVE  RevisionsInv' /\ NothingPublished
<1>0. HasText(p) /\ ~At(p, "idle") /\ At(p, "submitting") /\ Current(p)
  BY DEF SaveSubmit, HasText, At
<1> PICK t \in Nat : t = client[p].text
  BY <1>0, SaveCall
<1>1. PICK k \in Revisions :
        /\ k = client[p].revision /\ client[p].number = index[k].number
        /\ Submittable(k)
  BY <1>0, Call
<1> PICK s \in Revision : s = index[k]
  BY About
<1> PICK c \in Chapters : c = Target
  BY Constants
<1> PICK no \in BOOLEAN : no = FALSE
  OBVIOUS
<1> PICK m : m = [pc |-> "answering", revision |-> k, number |-> index[k].number + 1,
                  text |-> t, repeated |-> no]
  OBVIOUS
<1>14. /\ UNCHANGED <<lease, formal, texts, audited, approved, mistaken>>
       /\ Change(k, [Submitted(s, c, t) EXCEPT !.deferred = TRUE])
       /\ save' = [save EXCEPT ![p] = [save[p] EXCEPT !.submitted = TRUE]]
  BY <1>1 DEF SaveSubmit
<1>15. client' = [client EXCEPT ![p] = m]
  BY <1>1 DEF SaveSubmit, Answering
<1>2. /\ Grows /\ texts' = texts
      /\ UNCHANGED <<lease, formal>>
      /\ Change(k, [Submitted(s, c, t) EXCEPT !.deferred = TRUE])
      /\ save' = [save EXCEPT ![p] = [save[p] EXCEPT !.submitted = TRUE]]
      /\ client' = [client EXCEPT ![p] = m]
  BY <1>14, <1>15, About DEF Grows
<1> PICK f \in Revision : IsSubmitted(f, s, c, t)
  BY SubmittedIs
<1>3. /\ f = Submitted(s, c, t)
      /\ f.number = s.number /\ f.since = s.since /\ f.base = s.base
      /\ f.published = s.published
      /\ f.candidate = [s.candidate EXCEPT ![c] = t]
      /\ f.queue = [s.queue EXCEPT ![c] = "generated"]
      /\ f.passed = s.passed \ {c}
      /\ f.stage \in {"audit_pending", "candidate_generating"}
      /\ f.stage = "audit_pending" => Waiting(f) = {}
  BY DEF IsSubmitted
<1> PICK r \in Revision : r = [f EXCEPT !.deferred = TRUE]
  BY DEF Revision
<1>4. /\ r.since = f.since /\ r.base = f.base /\ r.published = f.published
      /\ r.candidate = f.candidate /\ r.passed = f.passed /\ r.stage = f.stage
      /\ r.queue = f.queue
  BY DEF Revision
<1>5. ~s.published /\ (r.stage = "audit_pending" => Waiting(r) = {})
  BY <1>1, <1>3, <1>4, About DEF Sound, Submittable, Waiting
<1>6. Sound(k, r)'
  <2>1. t <= texts' /\ texts' \in Nat /\ texts \in Nat /\ Sound(k, s)
    BY <1>0, <1>2, SaveCall, About
  <2>2. Grows /\ ~s.published /\ ~f.published
    BY <1>2, <1>3, <1>5
  <2>3. f.stage = "audit_pending" => Waiting(f) = {}
    BY <1>3
  <2>4. Sound(k, f)'
    BY <1>3, <2>1, <2>2, <2>3, SubmittedSound
  <2> QED
    BY <1>4, <2>4 DEF Sound, Owned, Waiting, Candidates
<1>7. Changes(k, r)
  BY <1>1, <1>2, <1>3, <1>4 DEF Changes, Submittable, Open, Over
<1>8. client' \in [Clients -> Calls] /\ client'[p] = m
  <2>1. m \in Calls
    BY About DEF Calls
  <2> QED
    BY <1>2, <2>1, About
<1>9. CallInv(p)'
  <2>1. /\ index'[k].number = index[k].number + 1
        /\ index'[k].candidate = [s.candidate EXCEPT ![Target] = t]
    <3>1. Change(k, r)
      BY <1>7 DEF Changes
    <3>2. /\ index'[k].number = index[k].number + 1
          /\ index'[k].candidate = r.candidate
      BY <3>1, NumberChanges
    <3> QED
      BY <1>3, <1>4, <3>2
  <2>2. index'[k].candidate[Target] = t
    BY <2>1 DEF Revision
  <2>3. index[k].number + 1 <= index'[k].number
    BY <2>1, About
  <2>4. t <= texts'
    BY <1>0, <1>2, SaveCall
  <2> QED
    BY <1>8, <2>2, <2>3, <2>4 DEF CallInv, At, Answers, HasText
<1>10. SavesInv'
  <2>1. SavesInv /\ texts' = texts
    BY <1>2 DEF RevisionsInv
  <2> PICK yes \in BOOLEAN : yes = TRUE
    OBVIOUS
  <2> PICK n : n = [save[p] EXCEPT !.submitted = yes]
    OBVIOUS
  <2>2. n \in Saves /\ n.text = save[p].text
    BY <2>1 DEF SavesInv, Saves
  <2>3. save' = [save EXCEPT ![p] = n]
    BY <1>2
  <2> QED
    BY <2>1, <2>2, <2>3 DEF SavesInv
<1>11. \A q \in Clients : client'[q] = client[q] \/ CallInv(q)'
  BY <1>2, <1>9, About
<1> QED
  BY <1>3, <1>4, <1>2, <1>6, <1>7, <1>8, <1>10, <1>11, About, ChangeIsSound

(* The author answers for his text, and a save that is repeated for what   *)
(* it finds: the others find their own.                                    *)
LEMMA SaveApproveKeeps ==
  ASSUME RevisionsInv, NEW p \in Clients, SaveApprove(p), book' = book
  PROVE  RevisionsInv' /\ NothingPublished
<1>0. HasText(p) /\ At(p, "answering") /\ ~At(p, "idle") /\ Current(p)
  BY DEF SaveApprove, HasText, At
<1> PICK t \in Nat : t = client[p].text
  BY <1>0, SaveCall
<1>1. PICK k \in Revisions :
        /\ k = client[p].revision /\ client[p].number = index[k].number
        /\ Answers(p, FALSE) => index[k].candidate[Target] = t
  BY <1>0, Call
<1> PICK s \in Revision : s = index[k]
  BY About
<1>2. /\ texts' = texts /\ UNCHANGED <<lease, formal, save>>
      /\ s.stage = "audit_pending" /\ Candidates(s) = {Target}
      /\ Change(k, [s EXCEPT !.passed = {Target}, !.stage = "ready_to_publish"])
      /\ audited' = audited \union {<<k, Target, t>>}
      /\ approved' = approved \union {<<k, Target, t>>}
      /\ client' = [client EXCEPT ![p] = [client[p] EXCEPT !.number = client[p].number + 1]]
  BY <1>1 DEF SaveApprove
<1>12. mistaken' = IF client[p].repeated
                     THEN mistaken \union (Owned(k, s) \ {<<k, Target, t>>}) ELSE mistaken
  BY <1>1 DEF SaveApprove, Own, Owned
<1>13. Grows
  BY <1>2, <1>12, About DEF Grows
<1>14. Owned(k, s) = {<<k, Target, s.candidate[Target]>>}
  BY <1>2 DEF Owned
<1>15. /\ Owned(k, s) \subseteq audited' \union mistaken'
       /\ Owned(k, s) \subseteq approved' \union mistaken'
  <2>1. CASE client[p].repeated
    BY <1>2, <1>12, <2>1
  <2>2. CASE ~client[p].repeated
    <3>1. client[p].repeated \in BOOLEAN
      BY <1>0 DEF RevisionsInv, Calls, Idle, At
    <3>2. s.candidate[Target] = t
      BY <1>0, <1>1, <2>2, <3>1 DEF Answers
    <3> QED
      BY <1>2, <1>14, <3>2
  <2> QED
    BY <2>1, <2>2
<1> PICK r \in Revision : r = [s EXCEPT !.passed = {Target}, !.stage = "ready_to_publish"]
  BY Constants DEF Revision, Stages
<1>3. /\ SameTexts(s, r) /\ r.stage = "ready_to_publish" /\ r.queue = s.queue
      /\ r.passed = {Target} /\ r.published = s.published
  BY DEF SameTexts, Revision
<1>4. ~s.published /\ Waiting(r) = {}
  BY <1>2, <1>3, About DEF Sound, Judged, Waiting
<1>5. \A c \in r.passed : <<k, c, s.candidate[c]>> \in audited' \union mistaken'
  BY <1>3, <1>14, <1>15
<1>6. Sound(k, r)'
  BY <1>2, <1>3, <1>4, <1>5, <1>13, <1>15, About, SameTextsSound
<1>7. Changes(k, r)
  BY <1>2, <1>3 DEF Changes, Open, Over
<1> PICK m : m = [client[p] EXCEPT !.number = client[p].number + 1]
  OBVIOUS
<1>8. /\ m \in [pc : {"answering"}, revision : Revisions, number : Nat, text : Nat,
                repeated : BOOLEAN]
      /\ m.pc = "answering" /\ m.revision = k /\ m.number = index[k].number + 1
      /\ m.text = t /\ m.repeated = client[p].repeated
  BY <1>0, <1>1, <1>2, About DEF Calls, Idle, At
<1>9. client' \in [Clients -> Calls] /\ client'[p] = m
  BY <1>2, <1>8, About DEF Calls
<1>10. CallInv(p)'
  <2>1. index'[k].number = index[k].number + 1 /\ index'[k].candidate = s.candidate
    BY <1>2, <1>3, NumberChanges DEF SameTexts
  <2>2. t <= texts'
    BY <1>0, <1>2, SaveCall
  <2>3. Answers(p, FALSE)' => s.candidate[Target] = t
    BY <1>0, <1>1, <1>8, <1>9 DEF Answers, At
  <2>4. ~At(p, "submitting")' /\ ~At(p, "generating")' /\ ~At(p, "recording")'
        /\ ~At(p, "auditing")'
    BY <1>8, <1>9 DEF At
  <2>5. client'[p].number <= index'[k].number
    BY <1>8, <1>9, <2>1, About
  <2> QED
    BY <1>8, <1>9, <2>1, <2>2, <2>3, <2>4, <2>5 DEF CallInv
<1>11. \A q \in Clients : client'[q] = client[q] \/ CallInv(q)'
  BY <1>2, <1>10, About
<1> QED
  BY <1>3, <1>2, <1>6, <1>7, <1>9, <1>11, <1>13, About, ChangeIsSound

LEMMA SavePublishKeeps ==
  ASSUME RevisionsInv, NEW p \in Clients, SavePublish(p), book' = book
  PROVE  RevisionsInv' /\ \E j \in Revisions : PublishCandidates(j)
<1>1. PICK k \in Revisions : k = client[p].revision
  BY Call DEF SavePublish, At
<1>2. PublishCandidates(k)
  BY <1>1 DEF SavePublish
<1> QED
  BY <1>2, DoneIs, PublishKeeps DEF SavePublish

(* A call that ends, and the writing flow.                                 *)
LEMMA EndsKeeps ==
  ASSUME RevisionsInv, NEW p \in Clients, book' = book,
         Conflict(p) \/ Interrupt(p) \/ SaveRefused(p) \/ SaveEnds(p)
  PROVE  RevisionsInv' /\ NothingPublished
<1>1. Done(p) /\ UNCHANGED <<index, active, lease, formal, save, texts, audited, approved, mistaken>>
  BY DEF Conflict, Interrupt, SaveRefused, SaveEnds
<1>2. Grows /\ lease \in BOOLEAN
  BY <1>1, About DEF Grows, RevisionsInv, FilesInv
<1>3. texts \in 0..MaxText /\ texts \in Nat /\ formal \in [Chapters -> Nat]
      /\ \A c \in Chapters : formal[c] <= texts
  BY Constants DEF RevisionsInv, FilesInv
<1>4. Grows
  BY <1>1, <1>3 DEF Grows
<1> QED
  BY <1>1, <1>2, <1>3, <1>4, DoneIs, LeavesRevisions

LEMMA FlowKeeps ==
  ASSUME RevisionsInv, Flow, book' = book
  PROVE  RevisionsInv' /\ NothingPublished
<1>1. /\ texts \in 0..MaxText /\ texts \in Nat /\ formal \in [Chapters -> Nat]
      /\ \A c \in Chapters : formal[c] <= texts
      /\ lease \in BOOLEAN /\ MaxText \in Nat
      /\ client \in [Clients -> Calls]
  BY Constants DEF RevisionsInv, FilesInv
<1>2. CASE FlowAcquire
  BY <1>1, <1>2, LeavesRevisions DEF FlowAcquire, Grows
<1>3. CASE FlowRelease
  <2>1. /\ ~lease' /\ lease' \in BOOLEAN
        /\ UNCHANGED <<index, active, formal, client, save, texts, audited, approved, mistaken>>
    BY <1>3 DEF FlowRelease
  <2>2. Grows
    BY <1>1, <2>1 DEF Grows
  <2> QED
    BY <1>1, <2>1, <2>2, LeavesRevisions
<1>4. ASSUME NEW c \in Chapters, FlowWrite(c)
      PROVE  RevisionsInv' /\ NothingPublished
  <2>1. /\ texts' = texts + 1 /\ texts < MaxText
        /\ formal' = [formal EXCEPT ![c] = texts + 1]
        /\ UNCHANGED <<index, active, lease, client, save, audited, approved, mistaken>>
    BY <1>4 DEF FlowWrite
  <2>2. /\ formal' \in [Chapters -> Nat] /\ \A d \in Chapters : formal'[d] <= texts'
        /\ texts' \in 0..MaxText /\ Grows
    BY <1>1, <2>1 DEF Grows
  <2> QED
    BY <1>1, <2>1, <2>2, LeavesRevisions
<1> QED
  BY <1>2, <1>3, <1>4 DEF Flow

-----------------------------------------------------------------------------
(* Every step, and the properties.                                         *)

LEMMA InitSound ==
  Init => RevisionsInv
<1> SUFFICES ASSUME Init
             PROVE  RevisionsInv
  OBVIOUS
<1> PICK z : z = [c \in Chapters |-> 0]
  OBVIOUS
<1> PICK q : q = [c \in Chapters |-> "no"]
  OBVIOUS
<1> PICK no \in BOOLEAN : no = FALSE
  OBVIOUS
<1> PICK n : n = [number |-> 0, stage |-> "none", since |-> 0, confirmed |-> no,
   queue |-> q, base |-> z, candidate |-> z, passed |-> {},
   deferred |-> no, published |-> no]
  OBVIOUS
<1>1. n = NoRevision
  BY DEF NoRevision
<1>2. n \in Revision
  BY DEF Revision, Statuses, Stages
<1>3. /\ book \in Books /\ index = [k \in Revisions |-> n] /\ active = 0 /\ lease = FALSE
      /\ formal = z /\ client = [p \in Clients |-> Idle] /\ save = [p \in Clients |-> NoSave]
      /\ texts = 0
  BY <1>1 DEF Init
<1>4. \A k \in Revisions : index[k].number <= book.number /\ Sound(k, index[k])
  <2> TAKE k \in Revisions
  <2>1. index[k] = n /\ book.number \in Nat
    BY <1>3, ConstantsAssumption DEF Book
  <2>2. /\ n.number = 0 /\ n.since = 0 /\ n.candidate = z /\ n.base = z
        /\ n.stage = "none" /\ n.passed = {} /\ n.published = no
    OBVIOUS
  <2>3. Sound(k, n)
    BY <1>3, <2>2 DEF Sound, Judged
  <2> QED
    BY <2>1, <2>2, <2>3
<1>5. \A p \in Clients : CallInv(p)
  BY <1>3 DEF CallInv, At, Idle
<1>8. SavesInv
  <2>1. \A p \in Clients : save[p] = NoSave
    BY <1>3
  <2> PICK m : m = [revision |-> 0, base |-> 0, text |-> 0, submitted |-> no]
    OBVIOUS
  <2>3. m \in Saves /\ m = NoSave
    BY DEF Saves, NoSave
  <2>2. save \in [Clients -> Saves]
    BY <1>3, <2>3
  <2> QED
    BY <1>3, <2>1, <2>2 DEF SavesInv, NoSave
<1>6. OpenIsActive
  BY <1>3 DEF OpenIsActive, Open, Over
<1>7. FilesInv
  <2>1. z \in [Chapters -> Nat] /\ \A c \in Chapters : z[c] <= 0
    OBVIOUS
  <2>2. 0 \in 0..MaxText
    BY ConstantsAssumption
  <2> QED
    BY <1>3, <2>1, <2>2 DEF FilesInv
<1> QED
  BY <1>2, <1>3, <1>4, <1>5, <1>6, <1>7, <1>8 DEF RevisionsInv, Calls

LEMMA StepPublishes ==
  ASSUME RevisionsInv, [Next]_vars
  PROVE  /\ RevisionsInv'
         /\ NothingPublished \/ \E j \in Revisions : PublishCandidates(j)
<1> DEFINE Kept == /\ RevisionsInv'
                   /\ NothingPublished \/ \E j \in Revisions : PublishCandidates(j)
<1> SUFFICES Kept
  OBVIOUS
<1>1. CASE UNCHANGED vars
  <2>1. /\ texts \in 0..MaxText /\ texts \in Nat /\ formal \in [Chapters -> Nat]
        /\ \A c \in Chapters : formal[c] <= texts
        /\ lease \in BOOLEAN /\ client \in [Clients -> Calls]
    BY Constants DEF RevisionsInv, FilesInv
  <2>2. Grows /\ UNCHANGED <<index, active, lease, formal, client, save, texts>>
    BY <1>1, <2>1 DEF vars, Grows
  <2> QED
    BY <2>1, <2>2, LeavesRevisions
<1>2. CASE book' = book /\ Flow
  BY <1>2, FlowKeeps
<1>3. ASSUME book' = book, NEW p \in Clients,
             \/ Command(p) \/ Generate(p) \/ Audit(p) \/ Save(p)
             \/ Conflict(p) \/ Interrupt(p)
      PROVE  Kept
  <2>1. CASE Command(p)
    <3>1. ASSUME NEW k \in Revisions, Publish(p, k)
          PROVE  Kept
      BY <1>3, <3>1, About, PublishKeeps DEF Publish
    <3> QED
      BY <1>3, <2>1, <3>1, PreviewKeeps, RestoreKeeps, ConfirmKeeps, ApproveKeeps,
         RevalidateKeeps, CancelKeeps DEF Command
  <2>2. CASE Generate(p)
    BY <1>3, <2>2, GenerateBeginKeeps, GenerateRefusedKeeps, GenerateSegmentKeeps, GenerateDoneKeeps,
       GenerateRecordKeeps, GenerateFailsKeeps DEF Generate
  <2>3. CASE Audit(p)
    BY <1>3, <2>3, AuditBeginKeeps, AuditBindKeeps, AuditPassesKeeps, AuditRejectsKeeps,
       AuditFailsKeeps DEF Audit
  <2>4. CASE Save(p)
    BY <1>3, <2>4, SaveBeginKeeps, SaveAgainKeeps, SaveLoadKeeps, SaveReplayKeeps,
       SaveSubmitKeeps, EndsKeeps, SaveApproveKeeps, SavePublishKeeps DEF Save
  <2> QED
    BY <1>3, <2>1, <2>2, <2>3, <2>4, EndsKeeps
<1> HIDE DEF Kept
<1>4. CASE Next
  BY <1>2, <1>3, <1>4, Constants DEF Next
<1> QED
  BY <1>1, <1>4

LEMMA NextSound ==
  RevisionsInv /\ [Next]_vars => RevisionsInv'
BY StepPublishes

LEMMA Invariant ==
  Spec => []RevisionsInv
<1> QED
  BY InitSound, NextSound, PTL DEF Spec

(* Every revision, call and text has its type, for any clients, chapters   *)
(* and numbers of revisions and commands.                                  *)
THEOREM TypeCorrect ==
  Spec => []TypeOK
<1>1. RevisionsInv => TypeOK
  <2> SUFFICES ASSUME RevisionsInv
               PROVE  TypeOK
    OBVIOUS
  <2>1. /\ book \in Books /\ active \in {0} \union Revisions /\ lease \in BOOLEAN
        /\ texts \in 0..MaxText
    BY DEF RevisionsInv, FilesInv
  <2>2. formal \in [Chapters -> 0..MaxText]
    BY Constants DEF RevisionsInv, FilesInv
  <2>3. ASSUME NEW k \in Revisions
        PROVE  /\ index[k].number \in 0..book.number
               /\ index[k].stage \in Stages
               /\ index[k].queue \in [Chapters -> {"no", "pending", "generated", "failed"}]
               /\ index[k].candidate \in [Chapters -> 0..MaxText]
               /\ index[k].passed \subseteq Chapters
    <3> PICK s \in Revision : s = index[k]
      BY About
    <3>1. /\ s.number \in Nat /\ s.stage \in Stages /\ s.queue \in [Chapters -> Statuses]
          /\ s.candidate \in [Chapters -> Nat] /\ s.passed \subseteq Chapters
      BY DEF Revision
    <3>2. s.number <= book.number /\ \A c \in Chapters : s.candidate[c] <= texts
      BY About DEF RevisionsInv, Sound
    <3>3. s.candidate \in [Chapters -> 0..MaxText]
      BY <2>1, <3>1, <3>2, Constants
    <3> QED
      BY <3>1, <3>2, <3>3, Constants DEF Statuses
  <2> QED
    BY <2>1, <2>2, <2>3 DEF TypeOK
<1> QED
  BY <1>1, Invariant, PTL

(* As long as nothing is asked of a cancelled revision, the revision that  *)
(* is not over is the index's active one and keeps the writing flow and    *)
(* the other revisions off the book, however many clients work on it.      *)
THEOREM OpenCorrect ==
  Spec => []OpenIsActive
<1>1. RevisionsInv => OpenIsActive
  BY DEF RevisionsInv
<1> QED
  BY <1>1, Invariant, PTL

(* Whatever the clients did to a revision in the meantime, what it has     *)
(* published was audited and approved in exactly this text, or is its      *)
(* author's: only a save that was repeated can have certified another one. *)
THEOREM PublishedCorrect ==
  Spec => []PublishedWasApproved
<1>1. RevisionsInv => PublishedWasApproved
  <2> SUFFICES ASSUME RevisionsInv, NEW k \in Revisions, index[k].published
               PROVE  Own(k) \subseteq (audited \intersect approved) \union mistaken
    BY DEF PublishedWasApproved
  <2>1. Owned(k, index[k]) \subseteq (audited \intersect approved) \union mistaken
    BY About DEF Sound
  <2> QED
    BY <2>1 DEF Owned, Own
<1> QED
  BY <1>1, Invariant, PTL

(* A publication writes the chapters that are as they were when its        *)
(* revision began.                                                         *)
LEMMA PublicationSparesNewer ==
  ASSUME RevisionsInv, NEW j \in Revisions, PublishCandidates(j),
         NEW k \in Revisions, ~index[k].published, index'[k].published,
         NEW c \in Chapters, formal'[c] # formal[c]
  PROVE  formal[c] <= index[k].since
<1> PICK r \in Revision : r = Published(index[j])
  <2> PICK s \in Revision : s = index[j]
    BY About
  <2> PICK g \in {"completion_revalidation_pending", "completed"} :
         g = IF book.complete THEN "completion_revalidation_pending" ELSE "completed"
    OBVIOUS
  <2> PICK r \in Revision : r = [s EXCEPT !.published = TRUE, !.stage = g]
    BY DEF Revision, Stages
  <2> QED
    BY DEF Published
<1>1. Change(j, r)
  BY DEF PublishCandidates
<1>2. k = j
  BY <1>1 DEF Change, RevisionsInv
<1>3. c \in Candidates(index[j]) /\ formal[c] = index[j].base[c]
  BY DEF PublishCandidates, BaselineHolds
<1> QED
  BY <1>2, <1>3, About DEF Sound

(* Prose written after a revision began is never lost to its publication,  *)
(* for the writing flow has the book only while no revision is active, and *)
(* the text a candidate replaces is compared when it is published.         *)
THEOREM NewerCorrect ==
  Spec => NewerProseStands
<1>1. ASSUME RevisionsInv, [Next]_vars
      PROVE  [\A k \in Revisions, c \in Chapters :
                ~index[k].published /\ index'[k].published /\ formal'[c] # formal[c]
                  => formal[c] <= index[k].since]_vars
  <2> SUFFICES ASSUME NEW k \in Revisions, NEW c \in Chapters,
                      ~index[k].published, index'[k].published, formal'[c] # formal[c]
               PROVE  formal[c] <= index[k].since
    OBVIOUS
  <2>1. \/ NothingPublished
        \/ \E j \in Revisions : PublishCandidates(j)
    BY <1>1, StepPublishes
  <2> QED
    BY <1>1, <2>1, PublicationSparesNewer DEF NothingPublished
<1> QED
  BY <1>1, Invariant, PTL DEF Spec, NewerProseStands

=============================================================================

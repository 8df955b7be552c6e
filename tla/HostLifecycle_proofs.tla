------------------------- MODULE HostLifecycle_proofs -------------------------
(* Proofs about HostLifecycle: who holds the lease of the normal flow, that    *)
(* the host and the router only name the lease the store knows, that a pause   *)
(* is not undone by a goroutine, and that a run keeps its lease.               *)
EXTENDS HostLifecycle, FiniteSetTheorems, TLAPS

--------------------------------------------------------------------------------
(* The invariants *)

Ops == Starters \cup OtherOps \cup {"auto", "repair", "none"}
Locals == [at : Places, op : Ops, missed : BOOLEAN, was : Lives, drop : Leases \cup {NoLease}, next : Places]

\* TypeOK with counts that are only natural numbers: that they do not exceed
\* the threads follows from RefsInv.
TypeInv ==
  /\ use \in Uses
  /\ held \in Leases \cup {NoLease} /\ lease \in Leases \cup {NoLease}
  /\ routed \in Leases \cup {NoLease} /\ run \in Leases \cup {NoLease}
  /\ revision \in BOOLEAN /\ runOwned \in BOOLEAN /\ coOwned \in BOOLEAN
  /\ cocreating \in BOOLEAN /\ aborted \in BOOLEAN /\ autoInFlight \in BOOLEAN
  /\ actionRefs \in Nat /\ scopedRefs \in Nat
  /\ lifecycle \in Lives /\ starting \in Users \cup {Nobody}
  /\ attempts \in 0..use.attempts /\ autoCompleted \in 0..Chapters
  /\ coord \in Coordinators /\ progress \in Progress
  /\ my \in [Threads -> Locals]
  /\ starts \in 0..use.starts /\ repairs \in 0..use.repairs

Dropping(t) == my[t].at \in {"dropping", "dropped"}
ResumePlaces == {"admitted", "gated", "owner", "prompted", "withdrawn", "published", "spawn"}
WatcherOnly == {"wait", "woke", "retry", "resumed", "unresumed", "unrepaired", "terminal", "ending"}
ConfirmPlaces == {"starting", "confirming", "unprompted", "cancelled"}

\* Where a goroutine of waitDone can be, and what it is doing there.
WatcherPlaced(t) ==
  /\ my[t].op \in {"auto", "repair", "none"}
  /\ my[t].at \in ResumePlaces \cup WatcherOnly \cup {"idle", "dropping", "dropped"}
  /\ my[t].at \in ResumePlaces \cup {"retry"} => my[t].op \in {"auto", "repair"}
  /\ Dropping(t) => my[t].next \in {"idle", "resumed", "unresumed"}

\* Where a call can be.
UserPlaced(t) ==
  /\ my[t].at \notin WatcherOnly /\ my[t].op \notin {"auto", "repair"}
  /\ my[t].at \in {"waited", "prompted", "withdrawn", "published", "spawn", "left"} => my[t].op \in Starters
  /\ my[t].at \in ConfirmPlaces => my[t].op = "confirm"
  /\ Dropping(t) => my[t].next \in {"idle", "gated", "occupying"}

PlaceInv ==
  /\ \A t \in Watchers : WatcherPlaced(t)
  /\ \A t \in Users : UserPlaced(t)
  /\ \A t \in Threads : Dropping(t) => my[t].drop # NoLease
  /\ "confirm" \notin use.calls => starting = Nobody /\ \A t \in Users : my[t].op # "confirm"

\* The threads whose reference scopedRefs and actionRefs count.
Holds(t) ==
  \/ my[t].at \in {"owner", "prompted", "withdrawn", "published", "occupied", "left", "leftCo"}
  \/ my[t].at = "spawn" /\ my[t].op = "leave"
Holders == {t \in Threads : Holds(t)}
Acts(t) == my[t].at \in {"routing", "acting"}
Actors == {t \in Threads : Acts(t)}
RefsInv == scopedRefs = Cardinality(Holders) /\ actionRefs = Cardinality(Actors)

\* There is a lease exactly when somebody uses it.
Unowned == ~runOwned /\ ~coOwned /\ actionRefs = 0 /\ scopedRefs = 0
OwnedInv == lease = NoLease <=> Unowned

\* The store holds the host's lease; the one the router has is the store's, and
\* gone before the store releases it.
CurrentInv ==
  /\ lease # NoLease => held = lease /\ ~revision
  /\ routed # NoLease => routed = held
  /\ \A t \in Threads : Dropping(t) => my[t].drop # lease
  /\ \A t \in Threads : At(t, "dropped") /\ held # NoLease /\ my[t].drop = held => routed = NoLease

LeaseInv == RefsInv /\ OwnedInv /\ CurrentInv

\* A goroutine that resumes a paused book has missed the pause.
PauseInv ==
  "confirm" \notin use.calls /\ lifecycle = "paused"
    => \A w \in Watchers : my[w].at \in ResumePlaces => my[w].missed

\* The threads that carry the run from the call that starts it to the goroutine
\* that waits for it and may resume it.
Heading(t) == IF Dropping(t) THEN my[t].next ELSE my[t].at
Carries(t) ==
  /\ t \in Watchers \/ my[t].op \in Starters
  /\ Heading(t) \notin {"idle", "leftCo", "resumed"}
Carrying(t) == Carries(t) /\ my[t].at \in {"prompted", "withdrawn", "published", "confirming", "spawn", "wait"}

\* One start: one thread carries the run, and while the run is not told to stop
\* that thread has a reference to its lease, or the run has.
ChainInv ==
  use.starts = 1 =>
    /\ \A s, t \in Threads : Carries(s) /\ Carries(t) => s = t
    /\ starts = 0 => \A t \in Threads : ~Carries(t)
    /\ \A t \in Threads : my[t].at \in {"starting", "confirming", "spawn", "wait"} => runOwned
    /\ coord = "running" => run = lease /\ \E t \in Threads : Carrying(t)

--------------------------------------------------------------------------------
(* How a thread moves *)

\* Thread t goes to p with the call o, and no other thread moves.
Moves(t, p, o) ==
  /\ my' \in [Threads -> Locals]
  /\ \A k \in Threads \ {t} : my'[k] = my[k]
  /\ my'[t].at = p /\ my'[t].op = o

Kept(t, p) == IF p = "idle" THEN "none" ELSE my[t].op

LEMMA Changed ==
  ASSUME TypeInv, NEW t \in Threads, NEW r \in Locals, my' = [my EXCEPT ![t] = r]
  PROVE  Moves(t, r.at, r.op) /\ my'[t] = r
BY DEF TypeInv, Moves

LEMMA GotoMoves ==
  ASSUME TypeInv, NEW t \in Threads, NEW p \in Places, Goto(t, p)
  PROVE  /\ Moves(t, p, Kept(t, p))
         /\ p # "idle" => my'[t].missed = my[t].missed
<1>1. my[t] \in Locals
  BY DEF TypeInv
<1>2. CASE p = "idle"
  <2>1. Free \in Locals /\ Free.at = "idle" /\ Free.op = "none"
    BY DEF Free, Locals, Places, Ops, Lives
  <2>2. my' = [my EXCEPT ![t] = Free]
    BY <1>2 DEF Goto, Placed
  <2>3. Moves(t, Free.at, Free.op)
    BY <2>1, <2>2, Changed
  <2>4. Moves(t, "idle", "none")
    BY <2>1, <2>3
  <2> QED
    BY <1>2, <2>4 DEF Kept
<1>3. CASE p # "idle"
  <2> DEFINE r == [[[my[t] EXCEPT !.at = p] EXCEPT !.drop = NoLease] EXCEPT !.next = "idle"]
  <2>1. r \in Locals
    BY <1>1 DEF Locals, Places
  <2>2. r.at = p /\ r.op = my[t].op /\ r.missed = my[t].missed
    BY <1>1 DEF Locals
  <2>3. my' = [my EXCEPT ![t] = r]
    BY <1>3 DEF Goto, Placed
  <2> HIDE DEF r
  <2>4. Moves(t, p, my[t].op) /\ my'[t] = r
    BY <2>1, <2>2, <2>3, Changed
  <2> QED
    BY <1>3, <2>2, <2>4 DEF Kept
<1> QED
  BY <1>2, <1>3

LEMMA CallMoves ==
  ASSUME TypeInv, NEW t \in Threads, NEW o \in Ops, Call(t, o)
  PROVE  Moves(t, "admitted", o)
<1>1. my[t] \in Locals
  BY DEF TypeInv
<1> DEFINE r == [[[[my[t] EXCEPT !.at = "admitted"] EXCEPT !.op = o] EXCEPT !.missed = FALSE] EXCEPT !.was = lifecycle]
<1>2. r \in Locals
  BY <1>1 DEF Locals, Places, TypeInv
<1>3. r.at = "admitted" /\ r.op = o
  BY <1>1 DEF Locals
<1>4. my' = [my EXCEPT ![t] = r]
  BY DEF Call, TypeInv
<1> HIDE DEF r
<1> QED
  BY <1>2, <1>3, <1>4, Changed

LEMMA OpMoves ==
  ASSUME TypeInv, NEW t \in Threads, NEW p \in Places, NEW o \in Ops,
         my' = [my EXCEPT ![t].at = p, ![t].op = o]
  PROVE  Moves(t, p, o)
<1>1. my[t] \in Locals
  BY DEF TypeInv
<1> DEFINE r == [[my[t] EXCEPT !.at = p] EXCEPT !.op = o]
<1>2. r \in Locals
  BY <1>1 DEF Locals
<1>3. r.at = p /\ r.op = o
  BY <1>1 DEF Locals
<1>4. my' = [my EXCEPT ![t] = r]
  BY DEF TypeInv
<1> HIDE DEF r
<1> QED
  BY <1>2, <1>3, <1>4, Changed

\* The counts change; the lease stays, or goes because nothing is counted.
Detached(t, next) ==
  \/ /\ lease' = lease
     /\ Moves(t, next, Kept(t, next))
     /\ next # "idle" => my'[t].missed = my[t].missed
  \/ /\ lease # NoLease /\ lease' = NoLease
     /\ Moves(t, "dropping", my[t].op)
     /\ my'[t].drop = lease /\ my'[t].next = next /\ my'[t].missed = my[t].missed

LEMMA DetachMoves ==
  ASSUME TypeInv, NEW t \in Threads, NEW next \in Places,
         NEW r \in BOOLEAN, NEW c \in BOOLEAN, NEW a \in Nat, NEW s \in Nat,
         Detach(t, next, r, c, a, s)
  PROVE  /\ Detached(t, next)
         /\ runOwned' = r /\ coOwned' = c /\ actionRefs' = a /\ scopedRefs' = s
         /\ lease' = NoLease /\ lease # NoLease => Unowned'
         /\ lease' # NoLease => lease' = lease /\ ~Unowned'
<1>1. my[t] \in Locals
  BY DEF TypeInv
<1>2. CASE lease # NoLease /\ ~r /\ ~c /\ a = 0 /\ s = 0
  <2> DEFINE q == [[[my[t] EXCEPT !.at = "dropping"] EXCEPT !.drop = lease] EXCEPT !.next = next]
  <2>1. q \in Locals
    BY <1>1 DEF Locals, Places, TypeInv
  <2>2. q.at = "dropping" /\ q.op = my[t].op /\ q.missed = my[t].missed /\ q.drop = lease /\ q.next = next
    BY <1>1 DEF Locals
  <2>3. my' = [my EXCEPT ![t] = q] /\ lease' = NoLease
    BY <1>2 DEF Detach, TypeInv
  <2> HIDE DEF q
  <2>4. Moves(t, "dropping", my[t].op) /\ my'[t] = q
    BY <2>1, <2>2, <2>3, Changed
  <2> QED
    BY <1>2, <2>2, <2>3, <2>4 DEF Detached, Detach, Unowned
<1>3. CASE ~(lease # NoLease /\ ~r /\ ~c /\ a = 0 /\ s = 0)
  BY <1>3, GotoMoves DEF Detach, Detached, Unowned
<1> QED
  BY <1>2, <1>3

--------------------------------------------------------------------------------
(* The references are counted *)

LEMMA ThreadsFinite == IsFiniteSet(Threads) /\ Cardinality(Threads) \in Nat
<1>1. IsFiniteSet(Threads)
  BY HostAssumption, FS_Union DEF Threads
<1> QED
  BY <1>1, FS_CardinalityType

LEMMA PartFinite ==
  ASSUME NEW S, S \subseteq Threads
  PROVE  IsFiniteSet(S) /\ Cardinality(S) \in Nat /\ (Cardinality(S) = 0 <=> S = {})
<1>1. IsFiniteSet(S)
  BY ThreadsFinite, FS_Subset
<1> QED
  BY <1>1, FS_CardinalityType, FS_EmptySet

LEMMA Counted ==
  ASSUME RefsInv, NEW t \in Threads
  PROVE  /\ Holds(t) => scopedRefs \in Nat \ {0}
         /\ Acts(t) => actionRefs \in Nat \ {0}
<1>1. Holders \subseteq Threads /\ Actors \subseteq Threads
  BY DEF Holders, Actors
<1>2. /\ Cardinality(Holders) \in Nat /\ (Cardinality(Holders) = 0 <=> Holders = {})
      /\ Cardinality(Actors) \in Nat /\ (Cardinality(Actors) = 0 <=> Actors = {})
  BY <1>1, PartFinite
<1>3. (Holds(t) => Holders # {}) /\ (Acts(t) => Actors # {})
  BY DEF Holders, Actors
<1> QED
  BY <1>2, <1>3 DEF RefsInv

\* What a move does to the count of the threads with some property.
LEMMA CountMoves ==
  ASSUME NEW S, NEW T, S \subseteq Threads, T \subseteq Threads, NEW t \in Threads,
         S \ {t} = T \ {t}
  PROVE  /\ (t \in S <=> t \in T) => Cardinality(T) = Cardinality(S)
         /\ t \in S /\ t \notin T => Cardinality(T) = Cardinality(S) - 1
         /\ t \notin S /\ t \in T => Cardinality(T) = Cardinality(S) + 1
<1>1. IsFiniteSet(S) /\ IsFiniteSet(T)
  BY PartFinite
<1>2. (t \in S <=> t \in T) => S = T
  OBVIOUS
<1>3. t \in S /\ t \notin T => T = S \ {t}
  OBVIOUS
<1>4. t \notin S /\ t \in T => T = S \cup {t}
  OBVIOUS
<1>5. t \in S => Cardinality(S \ {t}) = Cardinality(S) - 1
  BY <1>1, FS_RemoveElement
<1>6. t \notin S => Cardinality(S \cup {t}) = Cardinality(S) + 1
  BY <1>1, FS_AddElement
<1> QED
  BY <1>2, <1>3, <1>4, <1>5, <1>6

LEMMA OneMore ==
  ASSUME NEW S, IsFiniteSet(S), NEW n \in Nat, Cardinality(S) <= n, NEW x
  PROVE  IsFiniteSet(S \cup {x}) /\ Cardinality(S \cup {x}) <= n + 1
<1>1. /\ IsFiniteSet(S \cup {x})
      /\ Cardinality(S \cup {x}) = Cardinality(S) \/ Cardinality(S \cup {x}) = Cardinality(S) + 1
  BY FS_AddElement
<1>2. Cardinality(S) \in Nat
  BY FS_CardinalityType
<1> QED
  BY <1>1, <1>2

\* A lease nobody remembers exists.
LEMMA FreshLease ==
  ASSUME TypeInv
  PROVE  /\ Fresh \in Leases \ {NoLease}
         /\ Fresh \notin {held, lease, routed, run}
         /\ \A t \in Threads : my[t].drop # Fresh
<1> DEFINE Drops == {my[t].drop : t \in Threads}
           Four == {held, lease, routed, run}
           Used == Four \cup Drops
<1>1. IsFiniteSet(Drops) /\ Cardinality(Drops) <= Cardinality(Threads)
  <2> DEFINE f == [t \in Threads |-> my[t].drop]
  <2>1. f \in Surjection(Threads, Drops)
    BY DEF Surjection
  <2> QED
    BY <2>1, ThreadsFinite, FS_Surjection
<1>2. IsFiniteSet(Four) /\ Cardinality(Four) <= 4
  <2> DEFINE A == {held}
             B == A \cup {lease}
             C == B \cup {routed}
             D == C \cup {run}
  <2>1. IsFiniteSet(A) /\ Cardinality(A) = 1
    BY FS_Singleton
  <2>2. Four = D
    OBVIOUS
  <2> HIDE DEF A
  <2>3. IsFiniteSet(B) /\ Cardinality(B) <= 1 + 1
    BY <2>1, OneMore
  <2> HIDE DEF B
  <2>4. Cardinality(B) <= 2
    BY <2>3
  <2>5. IsFiniteSet(C) /\ Cardinality(C) <= 2 + 1
    BY <2>3, <2>4, OneMore
  <2> HIDE DEF C
  <2>6. Cardinality(C) <= 3
    BY <2>5
  <2>7. IsFiniteSet(D) /\ Cardinality(D) <= 3 + 1
    BY <2>5, <2>6, OneMore
  <2> QED
    BY <2>2, <2>7
<1> HIDE DEF Drops, Four
<1>3. IsFiniteSet(Used) /\ Cardinality(Used) <= Cardinality(Threads) + 4
  <2>1. /\ IsFiniteSet(Four \cup Drops)
        /\ Cardinality(Four \cup Drops) = Cardinality(Four) + Cardinality(Drops) - Cardinality(Four \cap Drops)
    BY <1>1, <1>2, FS_Union
  <2>2. IsFiniteSet(Four \cap Drops)
    BY <1>1, FS_Intersection
  <2>3. Cardinality(Four) \in Nat /\ Cardinality(Drops) \in Nat /\ Cardinality(Four \cap Drops) \in Nat
    BY <1>1, <1>2, <2>2, FS_CardinalityType
  <2> QED
    BY <1>1, <1>2, <2>1, <2>3, ThreadsFinite
<1> HIDE DEF Used
<1>4. IsFiniteSet(Leases) /\ Cardinality(Leases) = Cardinality(Threads) + 5
  BY ThreadsFinite, FS_Interval DEF Leases
<1>5. ~(Leases \subseteq Used)
  BY <1>3, <1>4, ThreadsFinite, FS_Subset, FS_CardinalityType
<1>6. \E k \in Leases : k \notin Used
  BY <1>5
<1>7. Fresh \in Leases /\ Fresh \notin Used
  BY <1>6 DEF Fresh, Used, Four, Drops
<1>8. NoLease \notin Leases
  BY ThreadsFinite DEF Leases, NoLease
<1> QED
  BY <1>7, <1>8 DEF Used, Four, Drops

--------------------------------------------------------------------------------
(* Types and places *)

\* Thread t may be at p with the call o.
MayBe(t, p, o) ==
  /\ t \in Watchers =>
       /\ o \in {"auto", "repair", "none"}
       /\ p \in ResumePlaces \cup WatcherOnly \cup {"idle"}
       /\ p \in ResumePlaces \cup {"retry"} => o \in {"auto", "repair"}
  /\ t \in Users =>
       /\ p \notin WatcherOnly /\ o \notin {"auto", "repair"}
       /\ p \in {"waited", "prompted", "withdrawn", "published", "spawn", "left"} => o \in Starters
       /\ p \in ConfirmPlaces => o = "confirm"
       /\ "confirm" \notin use.calls => o # "confirm"

\* Thread t may go to next when it has released the lease.
MayDrop(t, next) ==
  /\ t \in Watchers => next \in {"idle", "resumed", "unresumed"}
  /\ t \in Users => next \in {"idle", "gated", "occupying"}

StartingKept == use' = use /\ (starting' \in {starting, Nobody} \/ "confirm" \in use.calls)

LEMMA Apart == \A t \in Threads : (t \in Users <=> t \notin Watchers)
BY HostAssumption DEF Threads

LEMMA MovePlaces ==
  ASSUME PlaceInv, StartingKept, NEW t \in Threads, NEW p, NEW o, Moves(t, p, o),
         t \in Watchers => WatcherPlaced(t)',
         t \in Users => UserPlaced(t)' /\ ("confirm" \notin use.calls => o # "confirm"),
         Dropping(t)' => my'[t].drop # NoLease
  PROVE  PlaceInv'
<1>1. \A k \in Watchers : WatcherPlaced(k)'
  <2> SUFFICES ASSUME NEW k \in Watchers, k # t PROVE WatcherPlaced(k)'
    OBVIOUS
  <2>1. my'[k] = my[k]
    BY DEF Moves, Threads
  <2> QED
    BY <2>1 DEF PlaceInv, WatcherPlaced, Dropping
<1>2. \A k \in Users : UserPlaced(k)'
  <2> SUFFICES ASSUME NEW k \in Users, k # t PROVE UserPlaced(k)'
    OBVIOUS
  <2>1. my'[k] = my[k]
    BY DEF Moves, Threads
  <2> QED
    BY <2>1 DEF PlaceInv, UserPlaced, Dropping
<1>3. \A k \in Threads : Dropping(k)' => my'[k].drop # NoLease
  BY DEF Moves, PlaceInv, Dropping
<1>4. "confirm" \notin use'.calls => starting' = Nobody /\ \A k \in Users : my'[k].op # "confirm"
  BY DEF Moves, PlaceInv, Threads, StartingKept
<1> QED
  BY <1>1, <1>2, <1>3, <1>4 DEF PlaceInv

LEMMA PlainPlaces ==
  ASSUME PlaceInv, StartingKept, NEW t \in Threads, NEW p \in Places \ {"dropping", "dropped"}, NEW o,
         Moves(t, p, o), MayBe(t, p, o)
  PROVE  PlaceInv'
<1>1. ~Dropping(t)'
  BY DEF Moves, Dropping
<1>2. t \in Watchers => WatcherPlaced(t)'
  BY <1>1 DEF Moves, MayBe, WatcherPlaced
<1>3. t \in Users => UserPlaced(t)'
  BY <1>1 DEF Moves, MayBe, UserPlaced
<1> QED
  BY <1>1, <1>2, <1>3, MovePlaces DEF MayBe

LEMMA DropPlaces ==
  ASSUME PlaceInv, StartingKept, NEW t \in Threads, NEW p \in {"dropping", "dropped"},
         Moves(t, p, my[t].op), my'[t].drop # NoLease, MayDrop(t, my'[t].next)
  PROVE  PlaceInv'
<1>1. t \in Watchers => WatcherPlaced(t)'
  BY DEF Moves, MayDrop, PlaceInv, WatcherPlaced, Dropping, ResumePlaces
<1>2. t \in Users => UserPlaced(t)'
  BY DEF Moves, MayDrop, PlaceInv, UserPlaced, Dropping, WatcherOnly, ConfirmPlaces
<1> QED
  BY <1>1, <1>2, MovePlaces DEF PlaceInv, Dropping

LEMMA DetachPlaces ==
  ASSUME PlaceInv, StartingKept, NEW t \in Threads, NEW next \in Places \ {"dropping", "dropped"},
         Detached(t, next), MayBe(t, next, Kept(t, next)),
         lease # NoLease /\ lease' = NoLease => MayDrop(t, next)
  PROVE  PlaceInv'
<1>1. CASE Moves(t, next, Kept(t, next))
  BY <1>1, PlainPlaces
<1>2. CASE /\ lease # NoLease /\ lease' = NoLease
           /\ Moves(t, "dropping", my[t].op)
           /\ my'[t].drop = lease /\ my'[t].next = next
  BY <1>2, DropPlaces
<1> QED
  BY <1>1, <1>2 DEF Detached

\* What every step may rely on.
Typed == TypeInv /\ PlaceInv /\ RefsInv

LEMMA OverPlaces ==
  ASSUME TypeInv, PlaceInv, NEW t \in Threads, NEW ok \in BOOLEAN
  PROVE  /\ Over(t, ok) \in Places \ {"dropping", "dropped"}
         /\ MayBe(t, Over(t, ok), Kept(t, Over(t, ok)))
         /\ MayDrop(t, Over(t, ok))
         /\ ~ok => Over(t, ok) \in {"idle", "unresumed"}
BY Apart DEF Over, Places, MayBe, MayDrop, Kept, PlaceInv, WatcherPlaced, UserPlaced, WatcherOnly, ResumePlaces,
             ConfirmPlaces

\* A book that is not planned has no chapters.
LEMMA Planned == Chapters \in Nat /\ -1 \in -1..Chapters /\ Chapters \in -1..Chapters /\ Unplanned \in Progress
BY HostAssumption DEF Unplanned, Progress

\* What the run writes and what a resume finds complete is a progress.
LEMMA ProgressTyped ==
  ASSUME progress \in Progress
  PROVE  /\ Plans => progress' \in Progress
         /\ Opens => progress' \in Progress
         /\ Commits => progress' \in Progress
         /\ progress' = [progress EXCEPT !.complete = TRUE] => progress' \in Progress
<1>1. Plans => progress' \in Progress
  <2>1. 0 \in -1..Chapters
    BY HostAssumption
  <2>2. [Unplanned EXCEPT !.done = 0] \in Progress
    BY <2>1 DEF Unplanned, Progress
  <2> QED
    BY <2>2 DEF Plans
<1>2. Opens => progress' \in Progress
  BY DEF Opens, Progress
<1>3. Commits => progress' \in Progress
  <2> SUFFICES ASSUME NEW n \in 1..Chapters, NEW c \in BOOLEAN, progress' = [done |-> n, open |-> FALSE, complete |-> c]
               PROVE  progress' \in Progress
    BY DEF Commits
  <2>1. n \in -1..Chapters
    BY HostAssumption
  <2> QED
    BY <2>1 DEF Progress
<1>4. progress' = [progress EXCEPT !.complete = TRUE] => progress' \in Progress
  BY DEF Progress
<1> QED
  BY <1>1, <1>2, <1>3, <1>4

LEMMA UseTyped ==
  ASSUME TypeInv
  PROVE  use.starts \in Nat /\ use.repairs \in Nat /\ use.attempts \in Nat /\ use.users \subseteq Users
BY HostAssumption DEF TypeInv, Use

LEMMA LessNat == \A n \in Nat : Less(n) \in Nat
BY DEF Less

\* The part of the types that a release changes.
RefsTyped ==
  /\ lease \in Leases \cup {NoLease} /\ my \in [Threads -> Locals]
  /\ runOwned \in BOOLEAN /\ coOwned \in BOOLEAN /\ actionRefs \in Nat /\ scopedRefs \in Nat

LEMMA DetachTyped ==
  ASSUME TypeInv, PlaceInv, NEW t \in Threads, NEW next \in Places \ {"dropping", "dropped"},
         NEW r \in BOOLEAN, NEW c \in BOOLEAN, NEW a \in Nat, NEW s \in Nat,
         Detach(t, next, r, c, a, s), StartingKept, MayBe(t, next, Kept(t, next)),
         lease # NoLease /\ lease' = NoLease => MayDrop(t, next)
  PROVE  RefsTyped' /\ PlaceInv'
<1>1. next \in Places
  OBVIOUS
<1>2. Detached(t, next) /\ runOwned' = r /\ coOwned' = c /\ actionRefs' = a /\ scopedRefs' = s
  BY <1>1, DetachMoves
<1>3. runOwned' \in BOOLEAN /\ coOwned' \in BOOLEAN /\ actionRefs' \in Nat /\ scopedRefs' \in Nat
  BY <1>2, Zenon
<1>4. lease' \in Leases \cup {NoLease} /\ my' \in [Threads -> Locals]
  BY <1>2 DEF Detached, Moves, TypeInv
<1>5. PlaceInv'
  BY <1>2, DetachPlaces
<1> QED
  BY <1>3, <1>4, <1>5 DEF RefsTyped

LEMMA AtMoves ==
  ASSUME TypeInv, NEW t \in Threads, NEW p \in Places, my' = [my EXCEPT ![t].at = p]
  PROVE  /\ Moves(t, p, my[t].op)
         /\ my'[t].drop = my[t].drop /\ my'[t].next = my[t].next /\ my'[t].missed = my[t].missed
<1>1. my[t] \in Locals
  BY DEF TypeInv
<1> DEFINE r == [my[t] EXCEPT !.at = p]
<1>2. r \in Locals
  BY <1>1 DEF Locals
<1>3. /\ r.at = p /\ r.op = my[t].op
      /\ r.drop = my[t].drop /\ r.next = my[t].next /\ r.missed = my[t].missed
  BY <1>1 DEF Locals
<1>4. my' = [my EXCEPT ![t] = r]
  BY DEF TypeInv
<1> HIDE DEF r
<1>5. Moves(t, p, my[t].op) /\ my'[t] = r
  BY <1>2, <1>3, <1>4, Changed
<1> QED
  BY <1>3, <1>5

\* The steps that take and release the lease.
LEMMA OwnershipTyped ==
  ASSUME Typed, use' = use, NEW t \in Threads
  PROVE  /\ DropRouter(t) => TypeInv' /\ PlaceInv'
         /\ DropStore(t) => TypeInv' /\ PlaceInv'
         /\ Acquire(t) => TypeInv' /\ PlaceInv'
         /\ GatesFail(t) => TypeInv' /\ PlaceInv'
         /\ OwnerReturns(t) => TypeInv' /\ PlaceInv'
<1> USE DEF Typed, At, storevars, refvars, lifevars, autovars, runvars, bounds
<1>1. ASSUME DropRouter(t) PROVE TypeInv' /\ PlaceInv'
  <2>1. /\ Moves(t, "dropped", my[t].op)
        /\ my'[t].drop = my[t].drop /\ my'[t].next = my[t].next
    BY <1>1, AtMoves DEF DropRouter, Places
  <2>2. TypeInv'
    BY <1>1, <2>1 DEF DropRouter, TypeInv, Moves
  <2>3. my[t].drop # NoLease /\ MayDrop(t, my[t].next)
    BY <1>1, Apart DEF DropRouter, MayDrop, PlaceInv, WatcherPlaced, UserPlaced, Dropping, Threads
  <2>4. StartingKept
    BY <1>1 DEF DropRouter, StartingKept, PlaceInv
  <2> QED
    BY <2>1, <2>2, <2>3, <2>4, DropPlaces
<1>2. ASSUME DropStore(t) PROVE TypeInv' /\ PlaceInv'
  <2> DEFINE p == my[t].next
  <2>1. MayDrop(t, p)
    BY <1>2, Apart DEF DropStore, MayDrop, PlaceInv, WatcherPlaced, UserPlaced, Dropping, Threads
  <2>2. p \in Places \ {"dropping", "dropped"} /\ MayBe(t, p, Kept(t, p))
    BY <2>1, Apart DEF MayDrop, MayBe, Kept, Places, Threads, PlaceInv, WatcherPlaced, UserPlaced, WatcherOnly,
       ResumePlaces,
                       ConfirmPlaces
  <2>3. Moves(t, p, Kept(t, p))
    BY <1>2, <2>2, GotoMoves DEF DropStore
  <2>4. TypeInv'
    BY <1>2, <2>3 DEF DropStore, TypeInv, Moves
  <2>5. StartingKept
    BY <1>2 DEF DropStore, StartingKept, PlaceInv
  <2> HIDE DEF p
  <2> QED
    BY <2>2, <2>3, <2>4, <2>5, PlainPlaces
<1>3. ASSUME Acquire(t) PROVE TypeInv' /\ PlaceInv'
  <2>1. StartingKept
    BY <1>3 DEF Acquire, StartingKept, PlaceInv
  <2>2. MayBe(t, "owner", Kept(t, "owner"))
    BY <1>3, Apart DEF Acquire, MayBe, Kept, PlaceInv, WatcherPlaced, UserPlaced, WatcherOnly, ResumePlaces,
       ConfirmPlaces
  <2>3. CASE Goto(t, "owner")
    <3>1. Moves(t, "owner", Kept(t, "owner"))
      BY <2>3, GotoMoves DEF Places
    <3>2. /\ lease' \in Leases \cup {NoLease} /\ held' \in Leases \cup {NoLease}
          /\ routed' \in Leases \cup {NoLease} /\ scopedRefs' \in Nat
      <4>1. CASE LeaseTaken /\ routed' = Fresh /\ scopedRefs' = 1
        BY <4>1, FreshLease DEF LeaseTaken, TypeInv
      <4>2. CASE UNCHANGED <<lease, held, routed>> /\ scopedRefs' \in {Shared, scopedRefs}
        BY <4>2 DEF TypeInv, Shared
      <4> QED
        BY <1>3, <4>1, <4>2 DEF Acquire
    <3>3. TypeInv'
      BY <1>3, <3>1, <3>2 DEF Acquire, TypeInv, Moves
    <3> QED
      BY <2>1, <2>2, <3>1, <3>3, PlainPlaces DEF Places
  <2>4. CASE Goto(t, Over(t, FALSE)) /\ UNCHANGED <<lease, held, routed, scopedRefs>>
    <3>1. Moves(t, Over(t, FALSE), Kept(t, Over(t, FALSE)))
      BY <2>4, GotoMoves, OverPlaces
    <3>2. TypeInv'
      BY <1>3, <2>4, <3>1 DEF Acquire, TypeInv, Moves
    <3> QED
      BY <2>1, <3>1, <3>2, PlainPlaces, OverPlaces
  <2> QED
    BY <1>3, <2>3, <2>4 DEF Acquire
<1>4. ASSUME GatesFail(t) PROVE TypeInv' /\ PlaceInv'
  <2>1. Over(t, FALSE) \in Places \ {"dropping", "dropped"}
    BY <1>4, OverPlaces DEF GatesFail, Places, TypeInv, Locals
  <2>2. Moves(t, Over(t, FALSE), Kept(t, Over(t, FALSE)))
    BY <1>4, <2>1, GotoMoves DEF GatesFail
  <2>3. TypeInv'
    BY <1>4, <2>2, LessNat, HostAssumption DEF GatesFail, TypeInv, Moves, Lives
  <2>4. MayBe(t, Over(t, FALSE), Kept(t, Over(t, FALSE)))
    BY <1>4, Apart, OverPlaces DEF GatesFail, MayBe, Kept, PlaceInv, WatcherPlaced, UserPlaced, WatcherOnly,
       ResumePlaces, ConfirmPlaces, Dropping, Starters
  <2>5. StartingKept
    BY <1>4 DEF GatesFail, StartingKept, PlaceInv
  <2> QED
    BY <2>1, <2>2, <2>3, <2>4, <2>5, PlainPlaces
<1>5. ASSUME OwnerReturns(t) PROVE TypeInv' /\ PlaceInv'
  <2>1. Over(t, FALSE) \in Places \ {"dropping", "dropped"}
    BY OverPlaces DEF Places
  <2>2. runOwned \in BOOLEAN /\ coOwned \in BOOLEAN /\ actionRefs \in Nat /\ Less(scopedRefs) \in Nat
    BY LessNat DEF TypeInv
  <2>3. Detach(t, Over(t, FALSE), runOwned, coOwned, actionRefs, Less(scopedRefs))
    BY <1>5 DEF OwnerReturns, Release
  <2>4. MayBe(t, Over(t, FALSE), Kept(t, Over(t, FALSE)))
    BY <1>5, Apart, OverPlaces DEF OwnerReturns, MayBe, Kept, PlaceInv, WatcherPlaced, UserPlaced, WatcherOnly,
       ResumePlaces, ConfirmPlaces, Starters
  <2>5. MayDrop(t, Over(t, FALSE))
    BY <1>5, Apart, OverPlaces DEF OwnerReturns, MayDrop, PlaceInv, WatcherPlaced, UserPlaced, WatcherOnly,
       ResumePlaces, ConfirmPlaces
  <2>6. StartingKept
    BY <1>5 DEF OwnerReturns, StartingKept, PlaceInv
  <2>7. RefsTyped' /\ PlaceInv'
    BY <2>1, <2>2, <2>3, <2>4, <2>5, <2>6, DetachTyped
  <2>8. TypeInv'
    BY <1>5, <2>7, HostAssumption DEF OwnerReturns, TypeInv, RefsTyped, Lives, Release
  <2> QED
    BY <2>7, <2>8
<1> QED
  BY <1>1, <1>2, <1>3, <1>4, <1>5

\* The resumes that end without a run of their own.
LEMMA EndTyped ==
  ASSUME Typed, use' = use, NEW t \in Threads
  PROVE  /\ ResumeFinishes(t) => TypeInv' /\ PlaceInv'
         /\ ResumeNothing(t) => TypeInv' /\ PlaceInv'
         /\ SteerUncleared(t) => TypeInv' /\ PlaceInv'
<1> USE DEF Typed, At, storevars, refvars, lifevars, autovars, runvars, bounds
<1>1. ASSUME ResumeFinishes(t) PROVE TypeInv' /\ PlaceInv'
  <2>1. Over(t, TRUE) \in Places \ {"dropping", "dropped"} /\ MayBe(t, Over(t, TRUE), Kept(t, Over(t, TRUE)))
    BY OverPlaces
  <2>2. Moves(t, Over(t, TRUE), Kept(t, Over(t, TRUE)))
    BY <1>1, <2>1, GotoMoves DEF ResumeFinishes
  <2>3. progress' \in Progress
    BY <1>1, ProgressTyped DEF ResumeFinishes, TypeInv
  <2>4. TypeInv'
    BY <1>1, <2>2, <2>3 DEF ResumeFinishes, TypeInv, Moves
  <2>5. StartingKept
    BY <1>1 DEF ResumeFinishes, StartingKept
  <2> QED
    BY <2>1, <2>2, <2>4, <2>5, PlainPlaces
<1>2. ASSUME NEW ok \in BOOLEAN, Release(t, Over(t, ok)), StartingKept PROVE RefsTyped' /\ PlaceInv'
  <2>1. /\ Over(t, ok) \in Places \ {"dropping", "dropped"} /\ MayBe(t, Over(t, ok), Kept(t, Over(t, ok)))
        /\ MayDrop(t, Over(t, ok))
    BY OverPlaces
  <2>2. runOwned \in BOOLEAN /\ coOwned \in BOOLEAN /\ actionRefs \in Nat /\ Less(scopedRefs) \in Nat
    BY LessNat DEF TypeInv
  <2>3. Detach(t, Over(t, ok), runOwned, coOwned, actionRefs, Less(scopedRefs))
    BY <1>2 DEF Release
  <2> QED
    BY <1>2, <2>1, <2>2, <2>3, DetachTyped
<1>3. ASSUME ResumeNothing(t) PROVE TypeInv' /\ PlaceInv'
  <2>1. Release(t, Over(t, TRUE)) /\ StartingKept
    BY <1>3 DEF ResumeNothing, StartingKept
  <2>2. RefsTyped' /\ PlaceInv'
    BY <1>2, <2>1
  <2>3. TypeInv'
    BY <1>3, <2>2 DEF ResumeNothing, TypeInv, RefsTyped
  <2> QED
    BY <2>2, <2>3
<1>4. ASSUME SteerUncleared(t) PROVE TypeInv' /\ PlaceInv'
  <2>1. Release(t, Over(t, FALSE)) /\ StartingKept
    BY <1>4 DEF SteerUncleared, StartingKept
  <2>2. RefsTyped' /\ PlaceInv'
    BY <1>2, <2>1
  <2>3. coord' \in Coordinators
    BY <1>4 DEF SteerUncleared, TypeInv, Coordinators
  <2>4. TypeInv'
    BY <1>4, <2>2, <2>3 DEF SteerUncleared, TypeInv, RefsTyped
  <2> QED
    BY <2>2, <2>4
<1> QED
  BY <1>1, <1>3, <1>4

\* The steps that start the coordinator.
LEMMA StartTyped ==
  ASSUME Typed, use' = use, NEW t \in Threads
  PROVE  /\ ResumeGates(t) => TypeInv' /\ PlaceInv'
         /\ Prompt(t) => TypeInv' /\ PlaceInv'
         /\ Publish(t) => TypeInv' /\ PlaceInv'
         /\ Withdraw(t) => TypeInv' /\ PlaceInv'
         /\ Transfer(t) => TypeInv' /\ PlaceInv'
<1> USE DEF Typed, At, storevars, refvars, lifevars, autovars, runvars, bounds
<1>1. ASSUME ResumeGates(t) PROVE TypeInv' /\ PlaceInv'
  <2>1. CASE Detach(t, "gated", FALSE, coOwned, actionRefs, scopedRefs) /\ At(t, "waited")
    <3>1. "gated" \in Places \ {"dropping", "dropped"}
      BY OverPlaces DEF Places
    <3>2. FALSE \in BOOLEAN /\ coOwned \in BOOLEAN /\ actionRefs \in Nat /\ scopedRefs \in Nat
      BY LessNat DEF TypeInv
    <3>3. Detach(t, "gated", FALSE, coOwned, actionRefs, scopedRefs)
      BY <1>1, <2>1 DEF ResumeGates
    <3>4. MayBe(t, "gated", Kept(t, "gated"))
      BY <1>1, <2>1, Apart, OverPlaces DEF ResumeGates, MayBe, Kept, PlaceInv, WatcherPlaced, UserPlaced,
         WatcherOnly, ResumePlaces, ConfirmPlaces, Starters
    <3>5. MayDrop(t, "gated")
      BY <1>1, <2>1, Apart, OverPlaces DEF ResumeGates, MayDrop, PlaceInv, WatcherPlaced, UserPlaced,
         WatcherOnly, ResumePlaces, ConfirmPlaces
    <3>6. StartingKept
      BY <1>1, <2>1 DEF ResumeGates, StartingKept, PlaceInv
    <3>7. RefsTyped' /\ PlaceInv'
      BY <3>1, <3>2, <3>3, <3>4, <3>5, <3>6, DetachTyped
    <3>8. TypeInv'
      BY <1>1, <2>1, <3>7, HostAssumption DEF ResumeGates, TypeInv, RefsTyped, Lives
    <3> QED
      BY <3>7, <3>8
  <2>2. CASE Goto(t, "gated") /\ UNCHANGED refvars /\ At(t, "admitted")
    <3>1. "gated" \in Places \ {"dropping", "dropped"}
      BY <1>1, <2>2, OverPlaces DEF ResumeGates, Places, TypeInv, Locals
    <3>2. Moves(t, "gated", Kept(t, "gated"))
      BY <1>1, <2>2, <3>1, GotoMoves DEF ResumeGates
    <3>3. TypeInv'
      BY <1>1, <2>2, <3>2, LessNat, HostAssumption DEF ResumeGates, TypeInv, Moves, Lives
    <3>4. MayBe(t, "gated", Kept(t, "gated"))
      BY <1>1, <2>2, Apart, OverPlaces DEF ResumeGates, MayBe, Kept, PlaceInv, WatcherPlaced, UserPlaced,
         WatcherOnly, ResumePlaces, ConfirmPlaces, Dropping, Starters
    <3>5. StartingKept
      BY <1>1, <2>2 DEF ResumeGates, StartingKept, PlaceInv
    <3> QED
      BY <3>1, <3>2, <3>3, <3>4, <3>5, PlainPlaces
  <2> QED
    BY <1>1, <2>1, <2>2 DEF ResumeGates
<1>2. ASSUME Prompt(t) PROVE TypeInv' /\ PlaceInv'
  <2>1. CASE Goto(t, "prompted") /\ UNCHANGED refvars
    <3>0. coord' \in Coordinators /\ run' \in Leases \cup {NoLease} /\ progress' \in Progress
      BY <1>2, <2>1, Planned, UseTyped DEF Prompt, TypeInv, Coordinators
    <3>1. "prompted" \in Places \ {"dropping", "dropped"}
      BY <1>2, <2>1, OverPlaces DEF Prompt, Places, TypeInv, Locals
    <3>2. Moves(t, "prompted", Kept(t, "prompted"))
      BY <1>2, <2>1, <3>1, GotoMoves DEF Prompt
    <3>3. TypeInv'
      BY <1>2, <2>1, <3>0, <3>2, LessNat, HostAssumption DEF Prompt, TypeInv, Moves, Lives
    <3>4. MayBe(t, "prompted", Kept(t, "prompted"))
      BY <1>2, <2>1, Apart, OverPlaces DEF Prompt, MayBe, Kept, PlaceInv, WatcherPlaced, UserPlaced,
         WatcherOnly, ResumePlaces, ConfirmPlaces, Dropping, Starters, ResumeOps
    <3>5. StartingKept
      BY <1>2, <2>1 DEF Prompt, StartingKept, PlaceInv
    <3> QED
      BY <3>1, <3>2, <3>3, <3>4, <3>5, PlainPlaces
  <2>2. CASE Release(t, Over(t, FALSE))
    <3>0. coord' \in Coordinators /\ run' \in Leases \cup {NoLease} /\ progress' \in Progress
      BY <1>2, <2>2, Planned, UseTyped DEF Prompt, TypeInv, Coordinators
    <3>1. Over(t, FALSE) \in Places \ {"dropping", "dropped"}
      BY OverPlaces DEF Places
    <3>2. runOwned \in BOOLEAN /\ coOwned \in BOOLEAN /\ actionRefs \in Nat /\ Less(scopedRefs) \in Nat
      BY LessNat DEF TypeInv
    <3>3. Detach(t, Over(t, FALSE), runOwned, coOwned, actionRefs, Less(scopedRefs))
      BY <1>2, <2>2 DEF Prompt, Release
    <3>4. MayBe(t, Over(t, FALSE), Kept(t, Over(t, FALSE)))
      BY <1>2, <2>2, Apart, OverPlaces DEF Prompt, MayBe, Kept, PlaceInv, WatcherPlaced, UserPlaced,
         WatcherOnly, ResumePlaces, ConfirmPlaces, Starters
    <3>5. MayDrop(t, Over(t, FALSE))
      BY <1>2, <2>2, Apart, OverPlaces DEF Prompt, MayDrop, PlaceInv, WatcherPlaced, UserPlaced, WatcherOnly,
         ResumePlaces, ConfirmPlaces
    <3>6. StartingKept
      BY <1>2, <2>2 DEF Prompt, StartingKept, PlaceInv
    <3>7. RefsTyped' /\ PlaceInv'
      BY <3>1, <3>2, <3>3, <3>4, <3>5, <3>6, DetachTyped
    <3>8. TypeInv'
      BY <1>2, <2>2, <3>0, <3>7, HostAssumption DEF Prompt, TypeInv, RefsTyped, Lives, Release
    <3> QED
      BY <3>7, <3>8
  <2> QED
    BY <1>2, <2>1, <2>2 DEF Prompt
<1>3. ASSUME Publish(t) PROVE TypeInv' /\ PlaceInv'
  <2>1. CASE Goto(t, "withdrawn") /\ UNCHANGED lifecycle
    <3>1. "withdrawn" \in Places \ {"dropping", "dropped"}
      BY <1>3, <2>1, OverPlaces DEF Publish, Places, TypeInv, Locals
    <3>2. Moves(t, "withdrawn", Kept(t, "withdrawn"))
      BY <1>3, <2>1, <3>1, GotoMoves DEF Publish
    <3>3. TypeInv'
      BY <1>3, <2>1, <3>2, LessNat, HostAssumption DEF Publish, TypeInv, Moves, Lives
    <3>4. MayBe(t, "withdrawn", Kept(t, "withdrawn"))
      BY <1>3, <2>1, Apart, OverPlaces DEF Publish, MayBe, Kept, PlaceInv, WatcherPlaced, UserPlaced,
         WatcherOnly, ResumePlaces, ConfirmPlaces, Dropping, Starters
    <3>5. StartingKept
      BY <1>3, <2>1 DEF Publish, StartingKept, PlaceInv
    <3> QED
      BY <3>1, <3>2, <3>3, <3>4, <3>5, PlainPlaces
  <2>2. CASE Goto(t, "published") /\ lifecycle' = "running"
    <3>1. "published" \in Places \ {"dropping", "dropped"}
      BY <1>3, <2>2, OverPlaces DEF Publish, Places, TypeInv, Locals
    <3>2. Moves(t, "published", Kept(t, "published"))
      BY <1>3, <2>2, <3>1, GotoMoves DEF Publish
    <3>3. TypeInv'
      BY <1>3, <2>2, <3>2, LessNat, HostAssumption DEF Publish, TypeInv, Moves, Lives
    <3>4. MayBe(t, "published", Kept(t, "published"))
      BY <1>3, <2>2, Apart, OverPlaces DEF Publish, MayBe, Kept, PlaceInv, WatcherPlaced, UserPlaced,
         WatcherOnly, ResumePlaces, ConfirmPlaces, Dropping, Starters
    <3>5. StartingKept
      BY <1>3, <2>2 DEF Publish, StartingKept, PlaceInv
    <3> QED
      BY <3>1, <3>2, <3>3, <3>4, <3>5, PlainPlaces
  <2> QED
    BY <1>3, <2>1, <2>2 DEF Publish
<1>4. ASSUME Withdraw(t) PROVE TypeInv' /\ PlaceInv'
  <2>1. Over(t, FALSE) \in Places \ {"dropping", "dropped"}
    BY OverPlaces DEF Places
  <2>2. runOwned \in BOOLEAN /\ coOwned \in BOOLEAN /\ actionRefs \in Nat /\ Less(scopedRefs) \in Nat
    BY LessNat DEF TypeInv
  <2>3. Detach(t, Over(t, FALSE), runOwned, coOwned, actionRefs, Less(scopedRefs))
    BY <1>4 DEF Withdraw, Release, StopCoordinator
  <2>4. MayBe(t, Over(t, FALSE), Kept(t, Over(t, FALSE)))
    BY <1>4, Apart, OverPlaces DEF Withdraw, MayBe, Kept, PlaceInv, WatcherPlaced, UserPlaced, WatcherOnly,
       ResumePlaces, ConfirmPlaces, Starters
  <2>5. MayDrop(t, Over(t, FALSE))
    BY <1>4, Apart, OverPlaces DEF Withdraw, MayDrop, PlaceInv, WatcherPlaced, UserPlaced, WatcherOnly,
       ResumePlaces, ConfirmPlaces
  <2>6. StartingKept
    BY <1>4 DEF Withdraw, StartingKept, PlaceInv
  <2>7. RefsTyped' /\ PlaceInv'
    BY <2>1, <2>2, <2>3, <2>4, <2>5, <2>6, DetachTyped
  <2>8. TypeInv'
    BY <1>4, <2>7, HostAssumption DEF Withdraw, TypeInv, RefsTyped, Lives, Release, StopCoordinator, Coordinators
  <2> QED
    BY <2>7, <2>8
<1>5. ASSUME Transfer(t) PROVE TypeInv' /\ PlaceInv'
  <2>1. CASE my[t].op = "leave"
    <3>1. "spawn" \in Places \ {"dropping", "dropped"}
      BY OverPlaces DEF Places
    <3>2. TRUE \in BOOLEAN /\ coOwned \in BOOLEAN /\ actionRefs \in Nat /\ scopedRefs \in Nat
      BY LessNat DEF TypeInv
    <3>3. Detach(t, "spawn", TRUE, coOwned, actionRefs, scopedRefs)
      BY <1>5, <2>1 DEF Transfer
    <3>4. MayBe(t, "spawn", Kept(t, "spawn"))
      BY <1>5, <2>1, Apart, OverPlaces DEF Transfer, MayBe, Kept, PlaceInv, WatcherPlaced, UserPlaced,
         WatcherOnly, ResumePlaces, ConfirmPlaces, Starters
    <3>5. ~(lease # NoLease /\ lease' = NoLease)
      <4>1. "spawn" \in Places
        BY DEF Places
      <4>2. lease' = NoLease /\ lease # NoLease => Unowned' /\ runOwned' = (TRUE)
        BY <3>2, <3>3, <4>1, DetachMoves
      <4>3. scopedRefs > 0
        BY <1>5, <2>1, Counted DEF Transfer, Holds
      <4>4. lease # NoLease => TRUE
        BY <1>5, <2>1, <4>3 DEF Transfer
      <4>5. lease' = NoLease /\ lease # NoLease => ~runOwned'
        BY <4>2 DEF Unowned
      <4> QED
        BY <4>2, <4>4, <4>5
    <3>6. StartingKept
      BY <1>5, <2>1 DEF Transfer, StartingKept, PlaceInv
    <3>7. RefsTyped' /\ PlaceInv'
      BY <3>1, <3>2, <3>3, <3>4, <3>5, <3>6, DetachTyped
    <3>8. TypeInv'
      BY <1>5, <2>1, <3>7, HostAssumption DEF Transfer, TypeInv, RefsTyped, Lives
    <3> QED
      BY <3>7, <3>8
  <2>2. CASE my[t].op # "leave"
    <3>1. "spawn" \in Places \ {"dropping", "dropped"}
      BY OverPlaces DEF Places
    <3>2. (runOwned \/ (lease # NoLease /\ scopedRefs > 0)) \in BOOLEAN /\ coOwned \in BOOLEAN /\ actionRefs \in Nat /\ Less(scopedRefs) \in Nat
      BY LessNat DEF TypeInv
    <3>3. Detach(t, "spawn", (runOwned \/ (lease # NoLease /\ scopedRefs > 0)), coOwned, actionRefs, Less(scopedRefs))
      BY <1>5, <2>2 DEF Transfer, TransferToRun
    <3>4. MayBe(t, "spawn", Kept(t, "spawn"))
      BY <1>5, <2>2, Apart, OverPlaces DEF Transfer, MayBe, Kept, PlaceInv, WatcherPlaced, UserPlaced,
         WatcherOnly, ResumePlaces, ConfirmPlaces, Starters
    <3>5. ~(lease # NoLease /\ lease' = NoLease)
      <4>1. "spawn" \in Places
        BY DEF Places
      <4>2. lease' = NoLease /\ lease # NoLease => Unowned' /\ runOwned' = ((runOwned \/ (lease # NoLease /\ scopedRefs > 0)))
        BY <3>2, <3>3, <4>1, DetachMoves
      <4>3. scopedRefs > 0
        BY <1>5, <2>2, Counted DEF Transfer, Holds
      <4>4. lease # NoLease => (runOwned \/ (lease # NoLease /\ scopedRefs > 0))
        BY <1>5, <2>2, <4>3 DEF Transfer
      <4>5. lease' = NoLease /\ lease # NoLease => ~runOwned'
        BY <4>2 DEF Unowned
      <4> QED
        BY <4>2, <4>4, <4>5
    <3>6. StartingKept
      BY <1>5, <2>2 DEF Transfer, StartingKept, PlaceInv
    <3>7. RefsTyped' /\ PlaceInv'
      BY <3>1, <3>2, <3>3, <3>4, <3>5, <3>6, DetachTyped
    <3>8. TypeInv'
      BY <1>5, <2>2, <3>7, HostAssumption DEF Transfer, TypeInv, RefsTyped, Lives, TransferToRun
    <3> QED
      BY <3>7, <3>8
  <2> QED
    BY <1>5, <2>1, <2>2 DEF Transfer
<1> QED
  BY <1>1, <1>2, <1>3, <1>4, <1>5

LEMMA PlacedAt ==
  ASSUME TypeInv, NEW t \in Threads, NEW p \in Places
  PROVE  Placed(t, p) \in Locals /\ Placed(t, p).at = p /\ Placed(t, p).op = Kept(t, p)
<1>1. my[t] \in Locals
  BY DEF TypeInv
<1>2. CASE p = "idle"
  BY <1>2 DEF Placed, Free, Kept, Locals, Places, Ops, Lives
<1>3. CASE p # "idle"
  <2> DEFINE r == [[[my[t] EXCEPT !.at = p] EXCEPT !.drop = NoLease] EXCEPT !.next = "idle"]
  <2>1. r \in Locals /\ r.at = p /\ r.op = my[t].op
    BY <1>1 DEF Locals, Places
  <2>2. Placed(t, p) = r
    BY <1>3 DEF Placed
  <2> HIDE DEF r
  <2> QED
    BY <1>3, <2>1, <2>2 DEF Kept
<1> QED
  BY <1>2, <1>3

\* A goroutine w that waits for the run, while t goes to p.
SpawnMoves(t, w, p) ==
  /\ my' \in [Threads -> Locals]
  /\ \A k \in Threads \ {t, w} : my'[k] = my[k]
  /\ my'[w].at = "wait" /\ my'[w].op = "none"
  /\ my'[t].at = p /\ my'[t].op = Kept(t, p)

LEMMA SpawnMoved ==
  ASSUME TypeInv, NEW t \in Threads, NEW w \in Threads \ {t}, NEW p \in Places,
         my' = [my EXCEPT ![w].at = "wait", ![w].op = "none", ![t] = Placed(t, p)]
  PROVE  SpawnMoves(t, w, p)
<1> DEFINE r == [[my[w] EXCEPT !.at = "wait"] EXCEPT !.op = "none"]
           mid == [my EXCEPT ![w] = r]
<1>1. my[w] \in Locals
  BY DEF TypeInv
<1>2. my' = [mid EXCEPT ![t] = Placed(t, p)]
  BY DEF TypeInv
<1>3. r \in Locals /\ r.at = "wait" /\ r.op = "none"
  BY <1>1 DEF Locals, Places, Ops
<1> HIDE DEF r
<1>4. mid \in [Threads -> Locals] /\ mid[w].at = "wait" /\ mid[w].op = "none"
  BY <1>3 DEF TypeInv
<1>5. \A k \in Threads \ {w} : mid[k] = my[k]
  BY DEF TypeInv
<1> HIDE DEF mid
<1>6. Placed(t, p) \in Locals /\ Placed(t, p).at = p /\ Placed(t, p).op = Kept(t, p)
  BY PlacedAt
<1> QED
  BY <1>2, <1>4, <1>5, <1>6 DEF SpawnMoves

\* The goroutine that waits for the run.
LEMMA SpawnTyped ==
  ASSUME Typed, use' = use, NEW t \in Threads
  PROVE  Spawn(t) => TypeInv' /\ PlaceInv'
<1> USE DEF Typed, At, storevars, refvars, lifevars, autovars, runvars, bounds
<1>1. ASSUME Spawn(t) PROVE TypeInv' /\ PlaceInv'
  <2>1. PICK w \in Watchers :
          /\ At(w, "idle")
          /\ my' = [my EXCEPT ![w].at = "wait", ![w].op = "none",
                              ![t] = Placed(t, IF my[t].op = "leave" THEN "leftCo" ELSE Over(t, TRUE))]
    BY <1>1 DEF Spawn
  <2> DEFINE p == IF my[t].op = "leave" THEN "leftCo" ELSE Over(t, TRUE)
  <2>2. w \in Threads /\ t # w 
    BY <1>1, <2>1 DEF Spawn, TypeInv, Threads
  <2>3. p \in Places \ {"dropping", "dropped"} /\ MayBe(t, p, Kept(t, p))
    <3>1. CASE my[t].op = "leave"
      BY <1>1, <3>1, Apart DEF Spawn, Places, MayBe, Kept, PlaceInv, WatcherPlaced, UserPlaced, WatcherOnly,
         ResumePlaces,
                            ConfirmPlaces, Starters
    <3>2. CASE my[t].op # "leave"
      BY <3>2, OverPlaces
    <3> QED
      BY <3>1, <3>2
  <2>5. SpawnMoves(t, w, p)
    BY <2>1, <2>2, <2>3, SpawnMoved
  <2> HIDE DEF p
  <2>6. TypeInv'
    <3>1. UNCHANGED <<storevars, routed, refvars, lifevars, autovars, runvars, bounds>>
      BY <1>1 DEF Spawn
    <3> QED
      BY <2>5, <3>1 DEF SpawnMoves, TypeInv
  <2>7. PlaceInv'
    <3>1. MayBe(w, "wait", "none")
      BY <2>1, Apart DEF MayBe, WatcherOnly, ResumePlaces, Threads
    <3>2. /\ ~Dropping(t)' /\ ~Dropping(w)'
          /\ my'[t].at = p /\ my'[t].op = Kept(t, p)
      BY <2>3, <2>5 DEF Dropping, SpawnMoves
    <3>3. ASSUME NEW k \in Watchers PROVE WatcherPlaced(k)'
      <4>1. CASE k = t
        BY <2>3, <3>2, <4>1 DEF MayBe, WatcherPlaced
      <4>2. CASE k = w
        BY <2>5, <3>1, <3>2, <4>2 DEF SpawnMoves, MayBe, WatcherPlaced
      <4>3. CASE k \notin {t, w}
        BY <2>5, <4>3 DEF SpawnMoves, PlaceInv, WatcherPlaced, Dropping, Threads
      <4> QED
        BY <4>1, <4>2, <4>3
    <3>4. ASSUME NEW k \in Users PROVE UserPlaced(k)' /\ ("confirm" \notin use.calls => my'[k].op # "confirm")
      <4>1. CASE k = t
        BY <2>3, <3>2, <4>1 DEF MayBe, UserPlaced
      <4>2. CASE k # t
        BY <2>1, <2>5, <4>2, Apart DEF SpawnMoves, PlaceInv, UserPlaced, Dropping, Threads
      <4> QED
        BY <4>1, <4>2
    <3>5. \A k \in Threads : Dropping(k)' => my'[k].drop # NoLease
      BY <2>5, <3>2 DEF SpawnMoves, PlaceInv, Dropping
    <3> QED
      BY <1>1, <3>3, <3>4, <3>5 DEF PlaceInv, Spawn
  <2> QED
    BY <2>6, <2>7
<1> QED
  BY <1>1

LEMMA StartingMoves ==
  ASSUME TypeInv, NEW t \in Threads, my' = [my EXCEPT ![t].at = "starting", ![t].was = lifecycle]
  PROVE  Moves(t, "starting", my[t].op)
<1> DEFINE r == [[my[t] EXCEPT !.at = "starting"] EXCEPT !.was = lifecycle]
<1>1. my[t] \in Locals
  BY DEF TypeInv
<1>2. r \in Locals /\ r.at = "starting" /\ r.op = my[t].op
  BY <1>1 DEF Locals, Places, TypeInv
<1>3. my' = [my EXCEPT ![t] = r]
  BY DEF TypeInv
<1> HIDE DEF r
<1> QED
  BY <1>2, <1>3, Changed

\* The steps of a confirmation.
LEMMA ConfirmTyped ==
  ASSUME Typed, use' = use, NEW t \in Threads
  PROVE  /\ BeginStartingRun(t) => TypeInv' /\ PlaceInv'
         /\ ConfirmPrompt(t) => TypeInv' /\ PlaceInv'
         /\ ConfirmPublish(t) => TypeInv' /\ PlaceInv'
         /\ RollBack(t) => TypeInv' /\ PlaceInv'
<1> USE DEF Typed, At, storevars, refvars, lifevars, autovars, runvars, bounds
<1>1. ASSUME BeginStartingRun(t) PROVE TypeInv' /\ PlaceInv'
  <2>1. CASE Release(t, "idle") /\ UNCHANGED lifevars
    <3>1. "idle" \in Places \ {"dropping", "dropped"}
      BY OverPlaces DEF Places
    <3>2. runOwned \in BOOLEAN /\ coOwned \in BOOLEAN /\ actionRefs \in Nat /\ Less(scopedRefs) \in Nat
      BY LessNat DEF TypeInv
    <3>3. Detach(t, "idle", runOwned, coOwned, actionRefs, Less(scopedRefs))
      BY <1>1, <2>1 DEF BeginStartingRun, Release
    <3>4. MayBe(t, "idle", Kept(t, "idle"))
      BY <1>1, <2>1, Apart, OverPlaces DEF BeginStartingRun, MayBe, Kept, PlaceInv, WatcherPlaced, UserPlaced,
         WatcherOnly, ResumePlaces, ConfirmPlaces, Starters
    <3>5. MayDrop(t, "idle")
      BY <1>1, <2>1, Apart, OverPlaces DEF BeginStartingRun, MayDrop, PlaceInv, WatcherPlaced, UserPlaced,
         WatcherOnly, ResumePlaces, ConfirmPlaces
    <3>6. StartingKept
      BY <1>1, <2>1 DEF BeginStartingRun, StartingKept, PlaceInv
    <3>7. RefsTyped' /\ PlaceInv'
      BY <3>1, <3>2, <3>3, <3>4, <3>5, <3>6, DetachTyped
    <3>8. TypeInv'
      BY <1>1, <2>1, <3>7, HostAssumption DEF BeginStartingRun, TypeInv, RefsTyped, Lives, Release
    <3> QED
      BY <3>7, <3>8
  <2>2. CASE /\ runOwned' = TRUE /\ scopedRefs' = scopedRefs - 1 /\ UNCHANGED <<lease, coOwned, actionRefs>>
              /\ lifecycle' = "running" /\ starting' = t /\ aborted' = FALSE /\ UNCHANGED cocreating
              /\ my' = [my EXCEPT ![t].at = "starting", ![t].was = lifecycle]
    <3>1. Moves(t, "starting", my[t].op)
      BY <1>1, <2>2, StartingMoves
    <3>2. MayBe(t, "starting", my[t].op) /\ t \in Users /\ "confirm" \in use.calls
      BY <1>1, <2>2, Apart DEF BeginStartingRun, MayBe, PlaceInv, WatcherPlaced, UserPlaced, WatcherOnly,
         ResumePlaces,
                            ConfirmPlaces
    <3>3. scopedRefs - 1 \in Nat
      BY <1>1, <2>2, Counted DEF BeginStartingRun, Holds
    <3>4. TypeInv'
      BY <1>1, <2>2, <3>1, <3>2, <3>3 DEF BeginStartingRun, TypeInv, Moves, Lives
    <3>5. StartingKept
      BY <3>2 DEF StartingKept
    <3> QED
      BY <3>1, <3>2, <3>4, <3>5, PlainPlaces DEF Places
  <2> QED
    BY <1>1, <2>1, <2>2 DEF BeginStartingRun
<1>2. ASSUME ConfirmPrompt(t) PROVE TypeInv' /\ PlaceInv'
  <2>1. CASE Goto(t, "confirming")
    <3>1. "confirming" \in Places \ {"dropping", "dropped"}
      BY <1>2, <2>1, OverPlaces DEF ConfirmPrompt, Places, TypeInv, Locals
    <3>2. Moves(t, "confirming", Kept(t, "confirming"))
      BY <1>2, <2>1, <3>1, GotoMoves DEF ConfirmPrompt
    <3>3. TypeInv'
      BY <1>2, <2>1, <3>2, LessNat, HostAssumption DEF ConfirmPrompt, TypeInv, Moves, Lives, Coordinators
    <3>4. MayBe(t, "confirming", Kept(t, "confirming"))
      BY <1>2, <2>1, Apart, OverPlaces DEF ConfirmPrompt, MayBe, Kept, PlaceInv, WatcherPlaced, UserPlaced,
         WatcherOnly, ResumePlaces, ConfirmPlaces, Dropping, Starters
    <3>5. StartingKept
      BY <1>2, <2>1 DEF ConfirmPrompt, StartingKept, PlaceInv
    <3> QED
      BY <3>1, <3>2, <3>3, <3>4, <3>5, PlainPlaces
  <2>2. CASE Goto(t, "unprompted")
    <3>1. "unprompted" \in Places \ {"dropping", "dropped"}
      BY <1>2, <2>2, OverPlaces DEF ConfirmPrompt, Places, TypeInv, Locals
    <3>2. Moves(t, "unprompted", Kept(t, "unprompted"))
      BY <1>2, <2>2, <3>1, GotoMoves DEF ConfirmPrompt
    <3>3. TypeInv'
      BY <1>2, <2>2, <3>2, LessNat, HostAssumption DEF ConfirmPrompt, TypeInv, Moves, Lives, Coordinators
    <3>4. MayBe(t, "unprompted", Kept(t, "unprompted"))
      BY <1>2, <2>2, Apart, OverPlaces DEF ConfirmPrompt, MayBe, Kept, PlaceInv, WatcherPlaced, UserPlaced,
         WatcherOnly, ResumePlaces, ConfirmPlaces, Dropping, Starters
    <3>5. StartingKept
      BY <1>2, <2>2 DEF ConfirmPrompt, StartingKept, PlaceInv
    <3> QED
      BY <3>1, <3>2, <3>3, <3>4, <3>5, PlainPlaces
  <2> QED
    BY <1>2, <2>1, <2>2 DEF ConfirmPrompt
<1>3. ASSUME ConfirmPublish(t) PROVE TypeInv' /\ PlaceInv'
  <2>1. CASE Goto(t, "spawn") /\ starting' = Nobody /\ progress' = Unplanned
    <3>0. coord' \in Coordinators /\ run' \in Leases \cup {NoLease} /\ progress' \in Progress /\ lifecycle' \in Lives /\ starting' \in Users \cup {Nobody} /\ aborted' \in BOOLEAN
      BY <1>3, <2>1, Planned, UseTyped DEF ConfirmPublish, TypeInv, StopCoordinator, Coordinators
    <3>1. "spawn" \in Places \ {"dropping", "dropped"}
      BY <1>3, <2>1, OverPlaces DEF ConfirmPublish, Places, TypeInv, Locals
    <3>2. Moves(t, "spawn", Kept(t, "spawn"))
      BY <1>3, <2>1, <3>1, GotoMoves DEF ConfirmPublish, StopCoordinator
    <3>3. TypeInv'
      BY <1>3, <2>1, <3>0, <3>2, LessNat, HostAssumption DEF ConfirmPublish, TypeInv, Moves, Lives, StopCoordinator
    <3>4. MayBe(t, "spawn", Kept(t, "spawn"))
      BY <1>3, <2>1, Apart, OverPlaces DEF ConfirmPublish, MayBe, Kept, PlaceInv, WatcherPlaced, UserPlaced,
         WatcherOnly, ResumePlaces, ConfirmPlaces, Dropping, Starters
    <3>5. StartingKept
      BY <1>3, <2>1 DEF ConfirmPublish, StartingKept, PlaceInv
    <3> QED
      BY <3>1, <3>2, <3>3, <3>4, <3>5, PlainPlaces
  <2>2. CASE Goto(t, "cancelled") /\ UNCHANGED <<starting, aborted, progress>>
    <3>0. coord' \in Coordinators /\ run' \in Leases \cup {NoLease} /\ progress' \in Progress /\ lifecycle' \in Lives /\ starting' \in Users \cup {Nobody} /\ aborted' \in BOOLEAN
      BY <1>3, <2>2, Planned, UseTyped DEF ConfirmPublish, TypeInv, StopCoordinator, Coordinators
    <3>1. "cancelled" \in Places \ {"dropping", "dropped"}
      BY <1>3, <2>2, OverPlaces DEF ConfirmPublish, Places, TypeInv, Locals
    <3>2. Moves(t, "cancelled", Kept(t, "cancelled"))
      BY <1>3, <2>2, <3>1, GotoMoves DEF ConfirmPublish, StopCoordinator
    <3>3. TypeInv'
      BY <1>3, <2>2, <3>0, <3>2, LessNat, HostAssumption DEF ConfirmPublish, TypeInv, Moves, Lives, StopCoordinator
    <3>4. MayBe(t, "cancelled", Kept(t, "cancelled"))
      BY <1>3, <2>2, Apart, OverPlaces DEF ConfirmPublish, MayBe, Kept, PlaceInv, WatcherPlaced, UserPlaced,
         WatcherOnly, ResumePlaces, ConfirmPlaces, Dropping, Starters
    <3>5. StartingKept
      BY <1>3, <2>2 DEF ConfirmPublish, StartingKept, PlaceInv
    <3> QED
      BY <3>1, <3>2, <3>3, <3>4, <3>5, PlainPlaces
  <2> QED
    BY <1>3, <2>1, <2>2 DEF ConfirmPublish
<1>4. ASSUME RollBack(t) PROVE TypeInv' /\ PlaceInv'
  <2>1. CASE Detach(t, "idle", FALSE, coOwned, actionRefs, scopedRefs) /\ starting' = Nobody
    <3>0. lifecycle' \in Lives /\ starting' \in Users \cup {Nobody} /\ aborted' \in BOOLEAN
      BY <1>4, <2>1, Planned, UseTyped DEF RollBack, TypeInv, Locals, Lives
    <3>1. "idle" \in Places \ {"dropping", "dropped"}
      BY OverPlaces DEF Places
    <3>2. FALSE \in BOOLEAN /\ coOwned \in BOOLEAN /\ actionRefs \in Nat /\ scopedRefs \in Nat
      BY LessNat DEF TypeInv
    <3>3. Detach(t, "idle", FALSE, coOwned, actionRefs, scopedRefs)
      BY <1>4, <2>1 DEF RollBack
    <3>4. MayBe(t, "idle", Kept(t, "idle"))
      BY <1>4, <2>1, Apart, OverPlaces DEF RollBack, MayBe, Kept, PlaceInv, WatcherPlaced, UserPlaced,
         WatcherOnly, ResumePlaces, ConfirmPlaces, Starters
    <3>5. MayDrop(t, "idle")
      BY <1>4, <2>1, Apart, OverPlaces DEF RollBack, MayDrop, PlaceInv, WatcherPlaced, UserPlaced, WatcherOnly,
         ResumePlaces, ConfirmPlaces
    <3>6. StartingKept
      BY <1>4, <2>1 DEF RollBack, StartingKept, PlaceInv
    <3>7. RefsTyped' /\ PlaceInv'
      BY <3>1, <3>2, <3>3, <3>4, <3>5, <3>6, DetachTyped
    <3>8. TypeInv'
      BY <1>4, <2>1, <3>0, <3>7, HostAssumption DEF RollBack, TypeInv, RefsTyped, Lives
    <3> QED
      BY <3>7, <3>8
  <2>2. CASE Goto(t, "idle") /\ UNCHANGED <<starting, aborted, lifecycle, refvars>>
    <3>1. "idle" \in Places \ {"dropping", "dropped"}
      BY <1>4, <2>2, OverPlaces DEF RollBack, Places, TypeInv, Locals
    <3>2. Moves(t, "idle", Kept(t, "idle"))
      BY <1>4, <2>2, <3>1, GotoMoves DEF RollBack
    <3>3. TypeInv'
      BY <1>4, <2>2, <3>2, LessNat, HostAssumption DEF RollBack, TypeInv, Moves, Lives
    <3>4. MayBe(t, "idle", Kept(t, "idle"))
      BY <1>4, <2>2, Apart, OverPlaces DEF RollBack, MayBe, Kept, PlaceInv, WatcherPlaced, UserPlaced,
         WatcherOnly, ResumePlaces, ConfirmPlaces, Dropping, Starters
    <3>5. StartingKept
      BY <1>4, <2>2 DEF RollBack, StartingKept, PlaceInv
    <3> QED
      BY <3>1, <3>2, <3>3, <3>4, <3>5, PlainPlaces
  <2> QED
    BY <1>4, <2>1, <2>2 DEF RollBack
<1> QED
  BY <1>1, <1>2, <1>3, <1>4

LEMMA PauseMoves ==
  ASSUME TypeInv, NEW t \in Threads, Pause(t)
  PROVE  /\ my' \in [Threads -> Locals]
         /\ \A k \in Threads :
              /\ my'[k].at = (IF k = t THEN "aborting" ELSE my[k].at)
              /\ my'[k].op = (IF k = t THEN "abort" ELSE my[k].op)
              /\ my'[k].drop = my[k].drop /\ my'[k].next = my[k].next
              /\ my[k].missed \/ Resumes(k) => my'[k].missed
<1> DEFINE r(k) == [[[my[k] EXCEPT !.missed = my[k].missed \/ Resumes(k)]
                            EXCEPT !.at = IF k = t THEN "aborting" ELSE my[k].at]
                            EXCEPT !.op = IF k = t THEN "abort" ELSE my[k].op]
<1>1. ASSUME NEW k \in Threads
      PROVE  /\ r(k) \in Locals
             /\ r(k).at = (IF k = t THEN "aborting" ELSE my[k].at)
             /\ r(k).op = (IF k = t THEN "abort" ELSE my[k].op)
             /\ r(k).drop = my[k].drop /\ r(k).next = my[k].next
             /\ my[k].missed \/ Resumes(k) => r(k).missed
  <2>1. my[k] \in Locals
    BY DEF TypeInv
  <2>2. (my[k].missed \/ Resumes(k)) \in BOOLEAN
    OBVIOUS
  <2>3. /\ (IF k = t THEN "aborting" ELSE my[k].at) \in Places
        /\ (IF k = t THEN "abort" ELSE my[k].op) \in Ops
    BY <2>1 DEF Locals, Places, Ops, OtherOps
  <2> QED
    BY <2>1, <2>2, <2>3 DEF Locals
<1>2. my' = [k \in Threads |-> r(k)]
  BY DEF Pause
<1> HIDE DEF r
<1> QED
  BY <1>1, <1>2

LEMMA PauseTyped ==
  ASSUME TypeInv, PlaceInv, use' = use, NEW t \in Users, Pause(t)
  PROVE  TypeInv' /\ PlaceInv'
<1>1. t \in Threads /\ t \notin Watchers
  BY Apart DEF Threads
<1>2. TypeInv'
  <2>1. my' \in [Threads -> Locals]
    BY <1>1, PauseMoves
  <2>2. aborted' \in BOOLEAN
    BY DEF Pause
  <2>3. lifecycle' = "paused" /\ UNCHANGED <<cocreating, starting, storevars, routed, refvars, autovars, runvars, bounds>>
    BY DEF Pause
  <2> QED
    BY <2>1, <2>2, <2>3 DEF TypeInv, Lives, storevars, refvars, autovars, runvars, bounds
<1>3. ASSUME NEW k \in Watchers PROVE WatcherPlaced(k)'
  <2>1. k \in Threads /\ k # t
    BY <1>1 DEF Threads
  <2>2. my'[k].at = my[k].at /\ my'[k].op = my[k].op /\ my'[k].next = my[k].next
    BY <1>1, <2>1, PauseMoves
  <2> QED
    BY <2>2 DEF PlaceInv, WatcherPlaced, Dropping
<1>4. ASSUME NEW k \in Users PROVE UserPlaced(k)' /\ ("confirm" \notin use.calls => my'[k].op # "confirm")
  <2>1. k \in Threads
    BY DEF Threads
  <2>2. CASE k = t
    <3>1. my'[k].at = "aborting" /\ my'[k].op = "abort"
      BY <1>1, <2>2, PauseMoves
    <3> QED
      BY <3>1 DEF UserPlaced, Dropping, WatcherOnly, ConfirmPlaces
  <2>3. CASE k # t
    <3>1. my'[k].at = my[k].at /\ my'[k].op = my[k].op /\ my'[k].next = my[k].next
      BY <1>1, <2>1, <2>3, PauseMoves
    <3> QED
      BY <3>1 DEF PlaceInv, UserPlaced, Dropping
  <2> QED
    BY <2>2, <2>3
<1>5. ASSUME NEW k \in Threads PROVE Dropping(k)' => my'[k].drop # NoLease
  <2>1. /\ my'[k].at = "aborting" \/ my'[k].at = my[k].at
        /\ my'[k].drop = my[k].drop
    BY <1>1, PauseMoves
  <2> QED
    BY <2>1 DEF PlaceInv, Dropping
<1> QED
  BY <1>2, <1>3, <1>4, <1>5 DEF PlaceInv, Pause

\* The steps of a pause and of a co-create.
LEMMA CoCreateTyped ==
  ASSUME Typed, use' = use, NEW t \in Threads
  PROVE  /\ AbortCoordinator(t) => TypeInv' /\ PlaceInv'
         /\ PauseForCoCreate(t) => TypeInv' /\ PlaceInv'
         /\ Occupy(t) => TypeInv' /\ PlaceInv'
         /\ TransferToCoCreate(t) => TypeInv' /\ PlaceInv'
         /\ WaitForIdle(t) => TypeInv' /\ PlaceInv'
         /\ Left(t) => TypeInv' /\ PlaceInv'
         /\ LeaveContinue(t) => TypeInv' /\ PlaceInv'
         /\ LeaveFails(t) => TypeInv' /\ PlaceInv'
         /\ LeaveCoCreate(t) => TypeInv' /\ PlaceInv'
         /\ RouteAction(t) => TypeInv' /\ PlaceInv'
         /\ EndAction(t) => TypeInv' /\ PlaceInv'
<1> USE DEF Typed, At, storevars, refvars, lifevars, autovars, runvars, bounds
<1>1. ASSUME AbortCoordinator(t) PROVE TypeInv' /\ PlaceInv'
  <2>1. "idle" \in Places \ {"dropping", "dropped"}
    BY <1>1, OverPlaces DEF AbortCoordinator, Places, TypeInv, Locals
  <2>2. Moves(t, "idle", Kept(t, "idle"))
    BY <1>1, <2>1, GotoMoves DEF AbortCoordinator, StopCoordinator
  <2>3. TypeInv'
    BY <1>1, <2>2, LessNat, HostAssumption DEF AbortCoordinator, TypeInv, Moves, Lives, StopCoordinator, Coordinators
  <2>4. MayBe(t, "idle", Kept(t, "idle"))
    BY <1>1, Apart, OverPlaces DEF AbortCoordinator, MayBe, Kept, PlaceInv, WatcherPlaced, UserPlaced,
       WatcherOnly, ResumePlaces, ConfirmPlaces, Dropping, Starters
  <2>5. StartingKept
    BY <1>1 DEF AbortCoordinator, StartingKept, PlaceInv
  <2> QED
    BY <2>1, <2>2, <2>3, <2>4, <2>5, PlainPlaces
<1>2. ASSUME PauseForCoCreate(t) PROVE TypeInv' /\ PlaceInv'
  <2>1. t \in Users
    BY <1>2 DEF PauseForCoCreate, PlaceInv, WatcherPlaced, WatcherOnly, ResumePlaces, Threads
  <2>2. CASE Pause(t)
    BY <2>1, <2>2, PauseTyped
  <2>3. CASE Goto(t, "idle") /\ UNCHANGED <<storevars, routed, refvars, lifevars, autovars, runvars, bounds>>
    <3>1. "idle" \in Places \ {"dropping", "dropped"}
      BY <1>2, <2>3, OverPlaces DEF PauseForCoCreate, Places, TypeInv, Locals
    <3>2. Moves(t, "idle", Kept(t, "idle"))
      BY <1>2, <2>3, <3>1, GotoMoves DEF PauseForCoCreate
    <3>3. TypeInv'
      BY <1>2, <2>3, <3>2, LessNat, HostAssumption DEF PauseForCoCreate, TypeInv, Moves, Lives
    <3>4. MayBe(t, "idle", Kept(t, "idle"))
      BY <1>2, <2>3, Apart, OverPlaces DEF PauseForCoCreate, MayBe, Kept, PlaceInv, WatcherPlaced, UserPlaced,
         WatcherOnly, ResumePlaces, ConfirmPlaces, Dropping, Starters
    <3>5. StartingKept
      BY <1>2, <2>3 DEF PauseForCoCreate, StartingKept, PlaceInv
    <3> QED
      BY <3>1, <3>2, <3>3, <3>4, <3>5, PlainPlaces
  <2> QED
    BY <1>2, <2>2, <2>3 DEF PauseForCoCreate
<1>3. ASSUME Occupy(t) PROVE TypeInv' /\ PlaceInv'
  <2>1. CASE Release(t, "idle") /\ UNCHANGED cocreating
    <3>1. "idle" \in Places \ {"dropping", "dropped"}
      BY OverPlaces DEF Places
    <3>2. runOwned \in BOOLEAN /\ coOwned \in BOOLEAN /\ actionRefs \in Nat /\ Less(scopedRefs) \in Nat
      BY LessNat DEF TypeInv
    <3>3. Detach(t, "idle", runOwned, coOwned, actionRefs, Less(scopedRefs))
      BY <1>3, <2>1 DEF Occupy, Release
    <3>4. MayBe(t, "idle", Kept(t, "idle"))
      BY <1>3, <2>1, Apart, OverPlaces DEF Occupy, MayBe, Kept, PlaceInv, WatcherPlaced, UserPlaced,
         WatcherOnly, ResumePlaces, ConfirmPlaces, Starters
    <3>5. MayDrop(t, "idle")
      BY <1>3, <2>1, Apart, OverPlaces DEF Occupy, MayDrop, PlaceInv, WatcherPlaced, UserPlaced, WatcherOnly,
         ResumePlaces, ConfirmPlaces
    <3>6. StartingKept
      BY <1>3, <2>1 DEF Occupy, StartingKept, PlaceInv
    <3>7. RefsTyped' /\ PlaceInv'
      BY <3>1, <3>2, <3>3, <3>4, <3>5, <3>6, DetachTyped
    <3>8. TypeInv'
      BY <1>3, <2>1, <3>7, HostAssumption DEF Occupy, TypeInv, RefsTyped, Lives, Release
    <3> QED
      BY <3>7, <3>8
  <2>2. CASE cocreating' = TRUE /\ Goto(t, "occupied") /\ UNCHANGED refvars
    <3>1. "occupied" \in Places \ {"dropping", "dropped"}
      BY <1>3, <2>2, OverPlaces DEF Occupy, Places, TypeInv, Locals
    <3>2. Moves(t, "occupied", Kept(t, "occupied"))
      BY <1>3, <2>2, <3>1, GotoMoves DEF Occupy
    <3>3. TypeInv'
      BY <1>3, <2>2, <3>2, LessNat, HostAssumption DEF Occupy, TypeInv, Moves, Lives
    <3>4. MayBe(t, "occupied", Kept(t, "occupied"))
      BY <1>3, <2>2, Apart, OverPlaces DEF Occupy, MayBe, Kept, PlaceInv, WatcherPlaced, UserPlaced,
         WatcherOnly, ResumePlaces, ConfirmPlaces, Dropping, Starters
    <3>5. StartingKept
      BY <1>3, <2>2 DEF Occupy, StartingKept, PlaceInv
    <3> QED
      BY <3>1, <3>2, <3>3, <3>4, <3>5, PlainPlaces
  <2> QED
    BY <1>3, <2>1, <2>2 DEF Occupy
<1>4. ASSUME TransferToCoCreate(t) PROVE TypeInv' /\ PlaceInv'
  <2>1. CASE my[t].was = "running"
    <3>1. "occupying" \in Places \ {"dropping", "dropped"}
      BY OverPlaces DEF Places
    <3>2. runOwned \in BOOLEAN /\ (coOwned \/ (lease # NoLease /\ scopedRefs > 0)) \in BOOLEAN /\ actionRefs \in Nat /\ Less(scopedRefs) \in Nat
      BY LessNat DEF TypeInv
    <3>3. Detach(t, "occupying", runOwned, (coOwned \/ (lease # NoLease /\ scopedRefs > 0)), actionRefs, Less(scopedRefs))
      BY <1>4, <2>1 DEF TransferToCoCreate
    <3>4. MayBe(t, "occupying", Kept(t, "occupying"))
      BY <1>4, <2>1, Apart, OverPlaces DEF TransferToCoCreate, MayBe, Kept, PlaceInv, WatcherPlaced, UserPlaced,
         WatcherOnly, ResumePlaces, ConfirmPlaces, Starters
    <3>5. MayDrop(t, "occupying")
      BY <1>4, <2>1, Apart, OverPlaces DEF TransferToCoCreate, MayDrop, PlaceInv, WatcherPlaced, UserPlaced,
         WatcherOnly, ResumePlaces, ConfirmPlaces
    <3>6. StartingKept
      BY <1>4, <2>1 DEF TransferToCoCreate, StartingKept, PlaceInv
    <3>7. RefsTyped' /\ PlaceInv'
      BY <3>1, <3>2, <3>3, <3>4, <3>5, <3>6, DetachTyped
    <3>8. TypeInv'
      BY <1>4, <2>1, <3>7, HostAssumption DEF TransferToCoCreate, TypeInv, RefsTyped, Lives
    <3> QED
      BY <3>7, <3>8
  <2>2. CASE my[t].was # "running"
    <3>1. "idle" \in Places \ {"dropping", "dropped"}
      BY OverPlaces DEF Places
    <3>2. runOwned \in BOOLEAN /\ (coOwned \/ (lease # NoLease /\ scopedRefs > 0)) \in BOOLEAN /\ actionRefs \in Nat /\ Less(scopedRefs) \in Nat
      BY LessNat DEF TypeInv
    <3>3. Detach(t, "idle", runOwned, (coOwned \/ (lease # NoLease /\ scopedRefs > 0)), actionRefs, Less(scopedRefs))
      BY <1>4, <2>2 DEF TransferToCoCreate
    <3>4. MayBe(t, "idle", Kept(t, "idle"))
      BY <1>4, <2>2, Apart, OverPlaces DEF TransferToCoCreate, MayBe, Kept, PlaceInv, WatcherPlaced, UserPlaced,
         WatcherOnly, ResumePlaces, ConfirmPlaces, Starters
    <3>5. MayDrop(t, "idle")
      BY <1>4, <2>2, Apart, OverPlaces DEF TransferToCoCreate, MayDrop, PlaceInv, WatcherPlaced, UserPlaced,
         WatcherOnly, ResumePlaces, ConfirmPlaces
    <3>6. StartingKept
      BY <1>4, <2>2 DEF TransferToCoCreate, StartingKept, PlaceInv
    <3>7. RefsTyped' /\ PlaceInv'
      BY <3>1, <3>2, <3>3, <3>4, <3>5, <3>6, DetachTyped
    <3>8. TypeInv'
      BY <1>4, <2>2, <3>7, HostAssumption DEF TransferToCoCreate, TypeInv, RefsTyped, Lives
    <3> QED
      BY <3>7, <3>8
  <2> QED
    BY <1>4, <2>1, <2>2 DEF TransferToCoCreate
<1>5. ASSUME WaitForIdle(t) PROVE TypeInv' /\ PlaceInv'
  <2> DEFINE p == IF my[t].op = "resume" THEN "waited" ELSE "gated"
  <2>p. p \in {"waited", "gated"} /\ (p = "waited" => my[t].op = "resume")
    OBVIOUS
  <2>2. Goto(t, p)
    BY <1>5 DEF WaitForIdle
  <2> HIDE DEF p
  <2>1. p \in Places \ {"dropping", "dropped"}
    BY <2>p DEF Places
  <2>m. Moves(t, p, Kept(t, p))
    BY <2>1, <2>2, GotoMoves
  <2>3. TypeInv'
    BY <1>5, <2>m DEF WaitForIdle, TypeInv, Moves
  <2>4. MayBe(t, p, Kept(t, p))
    BY <1>5, <2>p, Apart DEF WaitForIdle, MayBe, Kept, PlaceInv, WatcherPlaced, UserPlaced, WatcherOnly,
       ResumePlaces, ConfirmPlaces, Starters
  <2>5. StartingKept
    BY <1>5 DEF WaitForIdle, StartingKept, PlaceInv
  <2> QED
    BY <2>1, <2>m, <2>3, <2>4, <2>5, PlainPlaces
<1>6. ASSUME Left(t) PROVE TypeInv' /\ PlaceInv'
  <2>1. CASE Release(t, "idle") /\ UNCHANGED cocreating
    <3>1. "idle" \in Places \ {"dropping", "dropped"}
      BY OverPlaces DEF Places
    <3>2. runOwned \in BOOLEAN /\ coOwned \in BOOLEAN /\ actionRefs \in Nat /\ Less(scopedRefs) \in Nat
      BY LessNat DEF TypeInv
    <3>3. Detach(t, "idle", runOwned, coOwned, actionRefs, Less(scopedRefs))
      BY <1>6, <2>1 DEF Left, Release
    <3>4. MayBe(t, "idle", Kept(t, "idle"))
      BY <1>6, <2>1, Apart, OverPlaces DEF Left, MayBe, Kept, PlaceInv, WatcherPlaced, UserPlaced, WatcherOnly,
         ResumePlaces, ConfirmPlaces, Starters
    <3>5. MayDrop(t, "idle")
      BY <1>6, <2>1, Apart, OverPlaces DEF Left, MayDrop, PlaceInv, WatcherPlaced, UserPlaced, WatcherOnly,
         ResumePlaces, ConfirmPlaces
    <3>6. StartingKept
      BY <1>6, <2>1 DEF Left, StartingKept, PlaceInv
    <3>7. RefsTyped' /\ PlaceInv'
      BY <3>1, <3>2, <3>3, <3>4, <3>5, <3>6, DetachTyped
    <3>8. TypeInv'
      BY <1>6, <2>1, <3>7, HostAssumption DEF Left, TypeInv, RefsTyped, Lives, Release
    <3> QED
      BY <3>7, <3>8
  <2>2. CASE cocreating' = FALSE /\ Goto(t, "left") /\ my[t].op = "leave" /\ UNCHANGED refvars
    <3>0. cocreating' \in BOOLEAN
      BY <1>6, <2>2, Planned, UseTyped DEF Left, TypeInv
    <3>1. "left" \in Places \ {"dropping", "dropped"}
      BY <1>6, <2>2, OverPlaces DEF Left, Places, TypeInv, Locals
    <3>2. Moves(t, "left", Kept(t, "left"))
      BY <1>6, <2>2, <3>1, GotoMoves DEF Left
    <3>3. TypeInv'
      BY <1>6, <2>2, <3>0, <3>2, LessNat, HostAssumption DEF Left, TypeInv, Moves, Lives
    <3>4. MayBe(t, "left", Kept(t, "left"))
      BY <1>6, <2>2, Apart, OverPlaces DEF Left, MayBe, Kept, PlaceInv, WatcherPlaced, UserPlaced, WatcherOnly,
         ResumePlaces, ConfirmPlaces, Dropping, Starters
    <3>5. StartingKept
      BY <1>6, <2>2 DEF Left, StartingKept, PlaceInv
    <3> QED
      BY <3>1, <3>2, <3>3, <3>4, <3>5, PlainPlaces
  <2>3. CASE cocreating' = FALSE /\ Goto(t, "leftCo") /\ UNCHANGED refvars
    <3>0. cocreating' \in BOOLEAN
      BY <1>6, <2>3, Planned, UseTyped DEF Left, TypeInv
    <3>1. "leftCo" \in Places \ {"dropping", "dropped"}
      BY <1>6, <2>3, OverPlaces DEF Left, Places, TypeInv, Locals
    <3>2. Moves(t, "leftCo", Kept(t, "leftCo"))
      BY <1>6, <2>3, <3>1, GotoMoves DEF Left
    <3>3. TypeInv'
      BY <1>6, <2>3, <3>0, <3>2, LessNat, HostAssumption DEF Left, TypeInv, Moves, Lives
    <3>4. MayBe(t, "leftCo", Kept(t, "leftCo"))
      BY <1>6, <2>3, Apart, OverPlaces DEF Left, MayBe, Kept, PlaceInv, WatcherPlaced, UserPlaced, WatcherOnly,
         ResumePlaces, ConfirmPlaces, Dropping, Starters
    <3>5. StartingKept
      BY <1>6, <2>3 DEF Left, StartingKept, PlaceInv
    <3> QED
      BY <3>1, <3>2, <3>3, <3>4, <3>5, PlainPlaces
  <2> QED
    BY <1>6, <2>1, <2>2, <2>3 DEF Left
<1>7. ASSUME LeaveContinue(t) PROVE TypeInv' /\ PlaceInv'
  <2>1. CASE Goto(t, "leftCo") /\ UNCHANGED <<coord, run>>
    <3>1. "leftCo" \in Places \ {"dropping", "dropped"}
      BY <1>7, <2>1, OverPlaces DEF LeaveContinue, Places, TypeInv, Locals
    <3>2. Moves(t, "leftCo", Kept(t, "leftCo"))
      BY <1>7, <2>1, <3>1, GotoMoves DEF LeaveContinue
    <3>3. TypeInv'
      BY <1>7, <2>1, <3>2, LessNat, HostAssumption DEF LeaveContinue, TypeInv, Moves, Lives
    <3>4. MayBe(t, "leftCo", Kept(t, "leftCo"))
      BY <1>7, <2>1, Apart, OverPlaces DEF LeaveContinue, MayBe, Kept, PlaceInv, WatcherPlaced, UserPlaced,
         WatcherOnly, ResumePlaces, ConfirmPlaces, Dropping, Starters
    <3>5. StartingKept
      BY <1>7, <2>1 DEF LeaveContinue, StartingKept, PlaceInv
    <3> QED
      BY <3>1, <3>2, <3>3, <3>4, <3>5, PlainPlaces
  <2>2. CASE Goto(t, "prompted")
    <3>0. coord' \in Coordinators /\ run' \in Leases \cup {NoLease} /\ progress' \in Progress
      BY <1>7, <2>2, Planned, UseTyped DEF LeaveContinue, TypeInv, Coordinators
    <3>1. "prompted" \in Places \ {"dropping", "dropped"}
      BY <1>7, <2>2, OverPlaces DEF LeaveContinue, Places, TypeInv, Locals
    <3>2. Moves(t, "prompted", Kept(t, "prompted"))
      BY <1>7, <2>2, <3>1, GotoMoves DEF LeaveContinue
    <3>3. TypeInv'
      BY <1>7, <2>2, <3>0, <3>2, LessNat, HostAssumption DEF LeaveContinue, TypeInv, Moves, Lives
    <3>4. MayBe(t, "prompted", Kept(t, "prompted"))
      BY <1>7, <2>2, Apart, OverPlaces DEF LeaveContinue, MayBe, Kept, PlaceInv, WatcherPlaced, UserPlaced,
         WatcherOnly, ResumePlaces, ConfirmPlaces, Dropping, Starters
    <3>5. StartingKept
      BY <1>7, <2>2 DEF LeaveContinue, StartingKept, PlaceInv
    <3> QED
      BY <3>1, <3>2, <3>3, <3>4, <3>5, PlainPlaces
  <2> QED
    BY <1>7, <2>1, <2>2 DEF LeaveContinue
<1>8. ASSUME LeaveFails(t) PROVE TypeInv' /\ PlaceInv'
  <2>1. "idle" \in Places \ {"dropping", "dropped"}
    BY OverPlaces DEF Places
  <2>2. runOwned \in BOOLEAN /\ coOwned \in BOOLEAN /\ actionRefs \in Nat /\ Less(scopedRefs) \in Nat
    BY LessNat DEF TypeInv
  <2>3. Detach(t, "idle", runOwned, coOwned, actionRefs, Less(scopedRefs))
    BY <1>8 DEF LeaveFails, Release
  <2>4. MayBe(t, "idle", Kept(t, "idle"))
    BY <1>8, Apart, OverPlaces DEF LeaveFails, MayBe, Kept, PlaceInv, WatcherPlaced, UserPlaced, WatcherOnly,
       ResumePlaces, ConfirmPlaces, Starters
  <2>5. MayDrop(t, "idle")
    BY <1>8, Apart, OverPlaces DEF LeaveFails, MayDrop, PlaceInv, WatcherPlaced, UserPlaced, WatcherOnly,
       ResumePlaces, ConfirmPlaces
  <2>6. StartingKept
    BY <1>8 DEF LeaveFails, StartingKept, PlaceInv
  <2>7. RefsTyped' /\ PlaceInv'
    BY <2>1, <2>2, <2>3, <2>4, <2>5, <2>6, DetachTyped
  <2>8. TypeInv'
    BY <1>8, <2>7, HostAssumption DEF LeaveFails, TypeInv, RefsTyped, Lives, Release
  <2> QED
    BY <2>7, <2>8
<1>9. ASSUME LeaveCoCreate(t) PROVE TypeInv' /\ PlaceInv'
  <2>1. "idle" \in Places \ {"dropping", "dropped"}
    BY OverPlaces DEF Places
  <2>2. runOwned \in BOOLEAN /\ FALSE \in BOOLEAN /\ actionRefs \in Nat /\ Less(scopedRefs) \in Nat
    BY LessNat DEF TypeInv
  <2>3. Detach(t, "idle", runOwned, FALSE, actionRefs, Less(scopedRefs))
    BY <1>9 DEF LeaveCoCreate
  <2>4. MayBe(t, "idle", Kept(t, "idle"))
    BY <1>9, Apart, OverPlaces DEF LeaveCoCreate, MayBe, Kept, PlaceInv, WatcherPlaced, UserPlaced, WatcherOnly,
       ResumePlaces, ConfirmPlaces, Starters
  <2>5. MayDrop(t, "idle")
    BY <1>9, Apart, OverPlaces DEF LeaveCoCreate, MayDrop, PlaceInv, WatcherPlaced, UserPlaced, WatcherOnly,
       ResumePlaces, ConfirmPlaces
  <2>6. StartingKept
    BY <1>9 DEF LeaveCoCreate, StartingKept, PlaceInv
  <2>7. RefsTyped' /\ PlaceInv'
    BY <2>1, <2>2, <2>3, <2>4, <2>5, <2>6, DetachTyped
  <2>8. TypeInv'
    BY <1>9, <2>7, HostAssumption DEF LeaveCoCreate, TypeInv, RefsTyped, Lives
  <2> QED
    BY <2>7, <2>8
<1>10. ASSUME RouteAction(t) PROVE TypeInv' /\ PlaceInv'
  <2>1. "acting" \in Places \ {"dropping", "dropped"}
    BY <1>10, OverPlaces DEF RouteAction, Places, TypeInv, Locals
  <2>2. Moves(t, "acting", Kept(t, "acting"))
    BY <1>10, <2>1, GotoMoves DEF RouteAction
  <2>3. TypeInv'
    BY <1>10, <2>2, LessNat, HostAssumption DEF RouteAction, TypeInv, Moves, Lives
  <2>4. MayBe(t, "acting", Kept(t, "acting"))
    BY <1>10, Apart, OverPlaces DEF RouteAction, MayBe, Kept, PlaceInv, WatcherPlaced, UserPlaced, WatcherOnly,
       ResumePlaces, ConfirmPlaces, Dropping, Starters
  <2>5. StartingKept
    BY <1>10 DEF RouteAction, StartingKept, PlaceInv
  <2> QED
    BY <2>1, <2>2, <2>3, <2>4, <2>5, PlainPlaces
<1>11. ASSUME EndAction(t) PROVE TypeInv' /\ PlaceInv'
  <2>1. "idle" \in Places \ {"dropping", "dropped"}
    BY OverPlaces DEF Places
  <2>2. runOwned \in BOOLEAN /\ coOwned \in BOOLEAN /\ Less(actionRefs) \in Nat /\ scopedRefs \in Nat
    BY LessNat DEF TypeInv
  <2>3. Detach(t, "idle", runOwned, coOwned, Less(actionRefs), scopedRefs)
    BY <1>11 DEF EndAction
  <2>4. MayBe(t, "idle", Kept(t, "idle"))
    BY <1>11, Apart, OverPlaces DEF EndAction, MayBe, Kept, PlaceInv, WatcherPlaced, UserPlaced, WatcherOnly,
       ResumePlaces, ConfirmPlaces, Starters
  <2>5. MayDrop(t, "idle")
    BY <1>11, Apart, OverPlaces DEF EndAction, MayDrop, PlaceInv, WatcherPlaced, UserPlaced, WatcherOnly,
       ResumePlaces, ConfirmPlaces
  <2>6. StartingKept
    BY <1>11 DEF EndAction, StartingKept, PlaceInv
  <2>7. RefsTyped' /\ PlaceInv'
    BY <2>1, <2>2, <2>3, <2>4, <2>5, <2>6, DetachTyped
  <2>8. TypeInv'
    BY <1>11, <2>7, HostAssumption DEF EndAction, TypeInv, RefsTyped, Lives
  <2> QED
    BY <2>7, <2>8
<1> QED
  BY <1>1, <1>2, <1>3, <1>4, <1>5, <1>6, <1>7, <1>8, <1>9, <1>10, <1>11

LEMMA TryTyped ==
  ASSUME TypeInv, use' = use, NEW t \in Threads, TryAutoResume(t)
  PROVE  /\ attempts' \in 0..use'.attempts /\ autoCompleted' \in 0..Chapters /\ autoInFlight' \in BOOLEAN
         /\ lifecycle' \in Lives
<1>1. Tries \in 0..use.attempts
  BY UseTyped DEF TypeInv, Tries
<1>2. \/ attempts' \in {attempts, Tries}
      \/ Tries < use.attempts /\ attempts' = Tries + 1
  BY DEF TryAutoResume, MayTry, autovars
<1>3. attempts' \in 0..use.attempts
  BY <1>1, <1>2, UseTyped DEF TypeInv
<1>4. autoCompleted' = autoCompleted \/ (progress.done >= 0 /\ autoCompleted' = progress.done)
  BY DEF TryAutoResume, Incomplete, autovars
<1>5. autoCompleted' \in 0..Chapters
  <2>1. progress.done \in -1..Chapters
    BY DEF TypeInv, Progress
  <2> QED
    BY <1>4, <2>1, Planned DEF TypeInv
<1>6. (autoInFlight' = autoInFlight \/ autoInFlight' = TRUE) /\ lifecycle' \in {lifecycle, "idle"}
  BY DEF TryAutoResume, autovars
<1> QED
  BY <1>3, <1>5, <1>6 DEF TypeInv, Lives

LEMMA ReadmitMoves ==
  ASSUME TypeInv, NEW t \in Threads, my' = [my EXCEPT ![t].at = "admitted", ![t].missed = FALSE]
  PROVE  Moves(t, "admitted", my[t].op)
<1>1. my[t] \in Locals
  BY DEF TypeInv
<1> DEFINE r == [[my[t] EXCEPT !.at = "admitted"] EXCEPT !.missed = FALSE]
<1>2. r \in Locals /\ r.at = "admitted" /\ r.op = my[t].op
  BY <1>1 DEF Locals, Places
<1>3. my' = [my EXCEPT ![t] = r]
  BY DEF TypeInv
<1> HIDE DEF r
<1> QED
  BY <1>2, <1>3, Changed

\* The steps of the goroutine that waits for the run.
LEMMA RunTyped ==
  ASSUME Typed, use' = use, NEW t \in Threads
  PROVE  /\ Wake(t) => TypeInv' /\ PlaceInv'
         /\ TryRepair(t) => TypeInv' /\ PlaceInv'
         /\ TryAutoResume(t) => TypeInv' /\ PlaceInv'
         /\ AutoResume(t) => TypeInv' /\ PlaceInv'
         /\ AutoResumed(t) => TypeInv' /\ PlaceInv'
         /\ Terminal(t) => TypeInv' /\ PlaceInv'
         /\ ReleaseRun(t) => TypeInv' /\ PlaceInv'
<1> USE DEF Typed, At, storevars, refvars, lifevars, autovars, runvars, bounds
<1>1. ASSUME Wake(t) PROVE TypeInv' /\ PlaceInv'
  <2>1. "woke" \in Places \ {"dropping", "dropped"}
    BY <1>1, OverPlaces DEF Wake, Places, TypeInv, Locals
  <2>2. Moves(t, "woke", Kept(t, "woke"))
    BY <1>1, <2>1, GotoMoves DEF Wake
  <2>3. TypeInv'
    BY <1>1, <2>2, LessNat, HostAssumption DEF Wake, TypeInv, Moves, Lives
  <2>4. MayBe(t, "woke", Kept(t, "woke"))
    BY <1>1, Apart, OverPlaces DEF Wake, MayBe, Kept, PlaceInv, WatcherPlaced, UserPlaced, WatcherOnly,
       ResumePlaces, ConfirmPlaces, Dropping, Starters
  <2>5. StartingKept
    BY <1>1 DEF Wake, StartingKept, PlaceInv
  <2> QED
    BY <2>1, <2>2, <2>3, <2>4, <2>5, PlainPlaces
<1>2. ASSUME TryRepair(t) PROVE TypeInv' /\ PlaceInv'
  <2>1. Moves(t, "retry", "repair")
    BY <1>2, OpMoves DEF TryRepair, Places, Ops, Starters, OtherOps
  <2>2. TypeInv'
    BY <1>2, <2>1, UseTyped DEF TryRepair, TypeInv, Moves, Lives
  <2>3. MayBe(t, "retry", "repair")
    BY <1>2, Apart DEF TryRepair, MayBe, PlaceInv, WatcherPlaced, UserPlaced, WatcherOnly, ResumePlaces,
       ConfirmPlaces, Starters, OtherOps
  <2>4. StartingKept
    BY <1>2 DEF TryRepair, StartingKept, PlaceInv
  <2> QED
    BY <2>1, <2>2, <2>3, <2>4, PlainPlaces DEF Places
<1>3. ASSUME TryAutoResume(t) PROVE TypeInv' /\ PlaceInv'
  <2>1. CASE my' = [my EXCEPT ![t].at = "retry", ![t].op = "auto"]
    <3>0. attempts' \in 0..use'.attempts /\ autoCompleted' \in 0..Chapters /\ autoInFlight' \in BOOLEAN /\ lifecycle' \in Lives
      BY <1>3, <2>1, TryTyped
    <3>1. Moves(t, "retry", "auto")
      BY <1>3, <2>1, OpMoves DEF TryAutoResume, Places, Ops, Starters, OtherOps
    <3>2. TypeInv'
      BY <1>3, <2>1, <3>0, <3>1, UseTyped DEF TryAutoResume, TypeInv, Moves, Lives
    <3>3. MayBe(t, "retry", "auto")
      BY <1>3, <2>1, Apart DEF TryAutoResume, MayBe, PlaceInv, WatcherPlaced, UserPlaced, WatcherOnly,
         ResumePlaces, ConfirmPlaces, Starters, OtherOps
    <3>4. StartingKept
      BY <1>3, <2>1 DEF TryAutoResume, StartingKept, PlaceInv
    <3> QED
      BY <3>1, <3>2, <3>3, <3>4, PlainPlaces DEF Places
  <2>2. CASE Goto(t, "terminal")
    <3>0. attempts' \in 0..use'.attempts /\ autoCompleted' \in 0..Chapters /\ autoInFlight' \in BOOLEAN /\ lifecycle' \in Lives
      BY <1>3, <2>2, TryTyped
    <3>1. "terminal" \in Places \ {"dropping", "dropped"}
      BY <1>3, <2>2, OverPlaces DEF TryAutoResume, Places, TypeInv, Locals
    <3>2. Moves(t, "terminal", Kept(t, "terminal"))
      BY <1>3, <2>2, <3>1, GotoMoves DEF TryAutoResume
    <3>3. TypeInv'
      BY <1>3, <2>2, <3>0, <3>2, LessNat, HostAssumption DEF TryAutoResume, TypeInv, Moves, Lives
    <3>4. MayBe(t, "terminal", Kept(t, "terminal"))
      BY <1>3, <2>2, Apart, OverPlaces DEF TryAutoResume, MayBe, Kept, PlaceInv, WatcherPlaced, UserPlaced,
         WatcherOnly, ResumePlaces, ConfirmPlaces, Dropping, Starters
    <3>5. StartingKept
      BY <1>3, <2>2 DEF TryAutoResume, StartingKept, PlaceInv
    <3> QED
      BY <3>1, <3>2, <3>3, <3>4, <3>5, PlainPlaces
  <2> QED
    BY <1>3, <2>1, <2>2 DEF TryAutoResume
<1>4. ASSUME AutoResume(t) PROVE TypeInv' /\ PlaceInv'
  <2>1. CASE Goto(t, "unresumed")
    <3>0. attempts' \in 0..use'.attempts /\ autoCompleted' \in 0..Chapters /\ autoInFlight' \in BOOLEAN
      BY <1>4, <2>1, Planned, UseTyped DEF AutoResume, TypeInv
    <3>1. "unresumed" \in Places \ {"dropping", "dropped"}
      BY <1>4, <2>1, OverPlaces DEF AutoResume, Places, TypeInv, Locals
    <3>2. Moves(t, "unresumed", Kept(t, "unresumed"))
      BY <1>4, <2>1, <3>1, GotoMoves DEF AutoResume
    <3>3. TypeInv'
      BY <1>4, <2>1, <3>0, <3>2, LessNat, HostAssumption DEF AutoResume, TypeInv, Moves, Lives
    <3>4. MayBe(t, "unresumed", Kept(t, "unresumed"))
      BY <1>4, <2>1, Apart, OverPlaces DEF AutoResume, MayBe, Kept, PlaceInv, WatcherPlaced, UserPlaced,
         WatcherOnly, ResumePlaces, ConfirmPlaces, Dropping, Starters
    <3>5. StartingKept
      BY <1>4, <2>1 DEF AutoResume, StartingKept, PlaceInv
    <3> QED
      BY <3>1, <3>2, <3>3, <3>4, <3>5, PlainPlaces
  <2>2. CASE my' = [my EXCEPT ![t].at = "admitted", ![t].missed = FALSE]
    <3>0. attempts' \in 0..use'.attempts /\ autoCompleted' \in 0..Chapters /\ autoInFlight' \in BOOLEAN
      BY <1>4, <2>2, Planned, UseTyped DEF AutoResume, TypeInv
    <3>1. Moves(t, "admitted", my[t].op)
      BY <1>4, <2>2, ReadmitMoves
    <3>2. TypeInv'
      BY <1>4, <2>2, <3>0, <3>1, UseTyped DEF AutoResume, TypeInv, Moves, Lives
    <3>3. MayBe(t, "admitted", my[t].op)
      BY <1>4, <2>2, Apart DEF AutoResume, MayBe, PlaceInv, WatcherPlaced, UserPlaced, WatcherOnly,
         ResumePlaces, ConfirmPlaces, Starters, OtherOps
    <3>4. StartingKept
      BY <1>4, <2>2 DEF AutoResume, StartingKept, PlaceInv
    <3> QED
      BY <3>1, <3>2, <3>3, <3>4, PlainPlaces DEF Places
  <2> QED
    BY <1>4, <2>1, <2>2 DEF AutoResume
<1>5. ASSUME AutoResumed(t) PROVE TypeInv' /\ PlaceInv'
  <2>1. CASE At(t, "resumed") /\ Goto(t, "idle")
    <3>0. attempts' \in 0..use'.attempts /\ autoCompleted' \in 0..Chapters /\ autoInFlight' \in BOOLEAN /\ UNCHANGED <<storevars, routed, refvars, lifevars, runvars, bounds>>
      BY <1>5, <2>1, Planned, UseTyped DEF AutoResumed, TypeInv
    <3>1. "idle" \in Places \ {"dropping", "dropped"}
      BY <1>5, <2>1, OverPlaces DEF AutoResumed, Places, TypeInv, Locals
    <3>2. Moves(t, "idle", Kept(t, "idle"))
      BY <1>5, <2>1, <3>1, GotoMoves DEF AutoResumed
    <3>3. TypeInv'
      BY <1>5, <2>1, <3>0, <3>2, LessNat DEF TypeInv, Moves
    <3>4. MayBe(t, "idle", Kept(t, "idle"))
      BY <1>5, <2>1, Apart, OverPlaces DEF AutoResumed, MayBe, Kept, PlaceInv, WatcherPlaced, UserPlaced,
         WatcherOnly, ResumePlaces, ConfirmPlaces, Dropping, Starters
    <3>5. StartingKept
      BY <1>5, <2>1 DEF AutoResumed, StartingKept, PlaceInv
    <3> QED
      BY <3>1, <3>2, <3>3, <3>4, <3>5, PlainPlaces
  <2>2. CASE ~At(t, "resumed") /\ Goto(t, "terminal")
    <3>0. attempts' \in 0..use'.attempts /\ autoCompleted' \in 0..Chapters /\ autoInFlight' \in BOOLEAN /\ UNCHANGED <<storevars, routed, refvars, lifevars, runvars, bounds>>
      BY <1>5, <2>2, Planned, UseTyped DEF AutoResumed, TypeInv
    <3>1. "terminal" \in Places \ {"dropping", "dropped"}
      BY <1>5, <2>2, OverPlaces DEF AutoResumed, Places, TypeInv, Locals
    <3>2. Moves(t, "terminal", Kept(t, "terminal"))
      BY <1>5, <2>2, <3>1, GotoMoves DEF AutoResumed
    <3>3. TypeInv'
      BY <1>5, <2>2, <3>0, <3>2, LessNat DEF TypeInv, Moves
    <3>4. MayBe(t, "terminal", Kept(t, "terminal"))
      BY <1>5, <2>2, Apart, OverPlaces DEF AutoResumed, MayBe, Kept, PlaceInv, WatcherPlaced, UserPlaced,
         WatcherOnly, ResumePlaces, ConfirmPlaces, Dropping, Starters
    <3>5. StartingKept
      BY <1>5, <2>2 DEF AutoResumed, StartingKept, PlaceInv
    <3> QED
      BY <3>1, <3>2, <3>3, <3>4, <3>5, PlainPlaces
  <2>3. CASE ~At(t, "resumed") /\ Goto(t, "unrepaired")
    <3>0. attempts' \in 0..use'.attempts /\ autoCompleted' \in 0..Chapters /\ autoInFlight' \in BOOLEAN /\ UNCHANGED <<storevars, routed, refvars, lifevars, runvars, bounds>>
      BY <1>5, <2>3, Planned, UseTyped DEF AutoResumed, TypeInv
    <3>1. "unrepaired" \in Places \ {"dropping", "dropped"}
      BY <1>5, <2>3, OverPlaces DEF AutoResumed, Places, TypeInv, Locals
    <3>2. Moves(t, "unrepaired", Kept(t, "unrepaired"))
      BY <1>5, <2>3, <3>1, GotoMoves DEF AutoResumed
    <3>3. TypeInv'
      BY <1>5, <2>3, <3>0, <3>2, LessNat DEF TypeInv, Moves
    <3>4. MayBe(t, "unrepaired", Kept(t, "unrepaired"))
      BY <1>5, <2>3, Apart, OverPlaces DEF AutoResumed, MayBe, Kept, PlaceInv, WatcherPlaced, UserPlaced,
         WatcherOnly, ResumePlaces, ConfirmPlaces, Dropping, Starters
    <3>5. StartingKept
      BY <1>5, <2>3 DEF AutoResumed, StartingKept, PlaceInv
    <3> QED
      BY <3>1, <3>2, <3>3, <3>4, <3>5, PlainPlaces
  <2>4. \/ At(t, "resumed") /\ Goto(t, "idle")
        \/ ~At(t, "resumed") /\ (Goto(t, "terminal") \/ Goto(t, "unrepaired"))
    <3>1. CASE At(t, "resumed")
      BY <1>5, <3>1 DEF AutoResumed
    <3>2. CASE ~At(t, "resumed") /\ my[t].op = "auto"
      BY <1>5, <3>2 DEF AutoResumed
    <3>3. CASE ~At(t, "resumed") /\ my[t].op # "auto"
      BY <1>5, <3>3 DEF AutoResumed
    <3> QED
      BY <3>1, <3>2, <3>3
  <2> QED
    BY <2>1, <2>2, <2>3, <2>4
<1>6. ASSUME Terminal(t) PROVE TypeInv' /\ PlaceInv'
  <2>0. lifecycle' \in Lives
    BY <1>6, Planned, UseTyped DEF Terminal, TypeInv, Lives
  <2>1. "ending" \in Places \ {"dropping", "dropped"}
    BY <1>6, OverPlaces DEF Terminal, Places, TypeInv, Locals
  <2>2. Moves(t, "ending", Kept(t, "ending"))
    BY <1>6, <2>1, GotoMoves DEF Terminal
  <2>3. TypeInv'
    BY <1>6, <2>0, <2>2, LessNat, HostAssumption DEF Terminal, TypeInv, Moves, Lives
  <2>4. MayBe(t, "ending", Kept(t, "ending"))
    BY <1>6, Apart, OverPlaces DEF Terminal, MayBe, Kept, PlaceInv, WatcherPlaced, UserPlaced, WatcherOnly,
       ResumePlaces, ConfirmPlaces, Dropping, Starters
  <2>5. StartingKept
    BY <1>6 DEF Terminal, StartingKept, PlaceInv
  <2> QED
    BY <2>1, <2>2, <2>3, <2>4, <2>5, PlainPlaces
<1>7. ASSUME ReleaseRun(t) PROVE TypeInv' /\ PlaceInv'
  <2>1. "idle" \in Places \ {"dropping", "dropped"}
    BY OverPlaces DEF Places
  <2>2. FALSE \in BOOLEAN /\ coOwned \in BOOLEAN /\ actionRefs \in Nat /\ scopedRefs \in Nat
    BY LessNat DEF TypeInv
  <2>3. Detach(t, "idle", FALSE, coOwned, actionRefs, scopedRefs)
    BY <1>7 DEF ReleaseRun
  <2>4. MayBe(t, "idle", Kept(t, "idle"))
    BY <1>7, Apart, OverPlaces DEF ReleaseRun, MayBe, Kept, PlaceInv, WatcherPlaced, UserPlaced, WatcherOnly,
       ResumePlaces, ConfirmPlaces, Starters
  <2>5. MayDrop(t, "idle")
    BY <1>7, Apart, OverPlaces DEF ReleaseRun, MayDrop, PlaceInv, WatcherPlaced, UserPlaced, WatcherOnly,
       ResumePlaces, ConfirmPlaces
  <2>6. StartingKept
    BY <1>7 DEF ReleaseRun, StartingKept, PlaceInv
  <2>7. RefsTyped' /\ PlaceInv'
    BY <2>1, <2>2, <2>3, <2>4, <2>5, <2>6, DetachTyped
  <2>8. TypeInv'
    BY <1>7, <2>7, HostAssumption DEF ReleaseRun, TypeInv, RefsTyped, Lives
  <2> QED
    BY <2>7, <2>8
<1> QED
  BY <1>1, <1>2, <1>3, <1>4, <1>5, <1>6, <1>7

\* The steps of a new call.
LEMMA CallTyped ==
  ASSUME Typed, use' = use, NEW t \in use.users
  PROVE  /\ (\E o \in Starters : StartPrepared(t, o)) => TypeInv' /\ PlaceInv'
         /\ Resume(t) => TypeInv' /\ PlaceInv'
         /\ ResumeRefused(t) => TypeInv' /\ PlaceInv'
         /\ Abort(t) => TypeInv' /\ PlaceInv'
         /\ StopForReview(t) => TypeInv' /\ PlaceInv'
         /\ Enter(t) => TypeInv' /\ PlaceInv'
         /\ (\E o \in {"leave", "cancel"} : Leave(t, o)) => TypeInv' /\ PlaceInv'
         /\ Mutate(t) => TypeInv' /\ PlaceInv'
         /\ BeginNormalFlowAction(t) => TypeInv' /\ PlaceInv'
<1> USE DEF Typed, At, storevars, refvars, lifevars, autovars, runvars, bounds
<1>a. t \in Users /\ t \in Threads /\ t \notin Watchers
  BY UseTyped, Apart DEF Threads
<1> USE <1>a
<1>1. ASSUME \E o \in Starters : StartPrepared(t, o) PROVE TypeInv' /\ PlaceInv'
  <2>o. PICK o \in Starters : StartPrepared(t, o)
    BY <1>1
  <2>0. starts' \in 0..use'.starts /\ repairs' \in 0..use'.repairs
    BY <2>o, Planned, UseTyped DEF StartPrepared, TypeInv, MayStart, Started, bounds
  <2>1. Moves(t, "admitted", o)
    BY <2>o, CallMoves DEF StartPrepared, Ops, Starters, OtherOps
  <2>2. TypeInv'
    BY <2>o, <2>0, <2>1, UseTyped DEF StartPrepared, TypeInv, Moves, Lives
  <2>3. MayBe(t, "admitted", o)
    BY <2>o, Apart DEF StartPrepared, MayStart, MayBe, PlaceInv, WatcherPlaced, UserPlaced, WatcherOnly,
       ResumePlaces, ConfirmPlaces, Starters, OtherOps
  <2>4. StartingKept
    BY <2>o DEF StartPrepared, StartingKept, PlaceInv
  <2> QED
    BY <2>1, <2>2, <2>3, <2>4, PlainPlaces DEF Places
<1>2. ASSUME Resume(t) PROVE TypeInv' /\ PlaceInv'
  <2>0. starts' \in 0..use'.starts /\ repairs' \in 0..use'.repairs /\ attempts' \in 0..use'.attempts /\ autoCompleted' \in 0..Chapters
    BY <1>2, Planned, UseTyped DEF Resume, TypeInv, MayStart, Started, bounds
  <2>1. Moves(t, "admitted", "resume")
    BY <1>2, CallMoves DEF Resume, Ops, Starters, OtherOps
  <2>2. TypeInv'
    BY <1>2, <2>0, <2>1, UseTyped DEF Resume, TypeInv, Moves, Lives
  <2>3. MayBe(t, "admitted", "resume")
    BY <1>2, Apart DEF Resume, MayBe, PlaceInv, WatcherPlaced, UserPlaced, WatcherOnly, ResumePlaces,
       ConfirmPlaces, Starters, OtherOps
  <2>4. StartingKept
    BY <1>2 DEF Resume, StartingKept, PlaceInv
  <2> QED
    BY <2>1, <2>2, <2>3, <2>4, PlainPlaces DEF Places
<1>3. ASSUME ResumeRefused(t) PROVE TypeInv' /\ PlaceInv'
  <2>1. attempts' = 0 /\ autoCompleted' = 0 /\ UNCHANGED <<my, autoInFlight, storevars, routed, refvars, lifevars, runvars, bounds>>
    BY <1>3 DEF ResumeRefused
  <2>2. TypeInv'
    BY <2>1, UseTyped, Planned DEF TypeInv
  <2> QED
    BY <2>1, <2>2 DEF PlaceInv, WatcherPlaced, UserPlaced, Dropping
<1>4. ASSUME Abort(t) PROVE TypeInv' /\ PlaceInv'
  <2> QED
    BY <1>4, PauseTyped DEF Abort
<1>5. ASSUME StopForReview(t) PROVE TypeInv' /\ PlaceInv'
  <2>1. Moves(t, "aborting", "review")
    BY <1>5, OpMoves DEF StopForReview, Places, Ops, Starters, OtherOps
  <2>2. TypeInv'
    BY <1>5, <2>1, UseTyped DEF StopForReview, TypeInv, Moves, Lives
  <2>3. MayBe(t, "aborting", "review")
    BY <1>5, Apart DEF StopForReview, MayBe, PlaceInv, WatcherPlaced, UserPlaced, WatcherOnly, ResumePlaces,
       ConfirmPlaces, Starters, OtherOps
  <2>4. StartingKept
    BY <1>5 DEF StopForReview, StartingKept, PlaceInv
  <2> QED
    BY <2>1, <2>2, <2>3, <2>4, PlainPlaces DEF Places
<1>6. ASSUME Enter(t) PROVE TypeInv' /\ PlaceInv'
  <2>1. Moves(t, "admitted", "enter")
    BY <1>6, CallMoves DEF Enter, Ops, Starters, OtherOps
  <2>2. TypeInv'
    BY <1>6, <2>1, UseTyped DEF Enter, TypeInv, Moves, Lives
  <2>3. MayBe(t, "admitted", "enter")
    BY <1>6, Apart DEF Enter, MayBe, PlaceInv, WatcherPlaced, UserPlaced, WatcherOnly, ResumePlaces,
       ConfirmPlaces, Starters, OtherOps
  <2>4. StartingKept
    BY <1>6 DEF Enter, StartingKept, PlaceInv
  <2> QED
    BY <2>1, <2>2, <2>3, <2>4, PlainPlaces DEF Places
<1>7. ASSUME \E o \in {"leave", "cancel"} : Leave(t, o) PROVE TypeInv' /\ PlaceInv'
  <2>o. PICK o \in {"leave", "cancel"} : Leave(t, o)
    BY <1>7
  <2>0. starts' \in 0..use'.starts /\ repairs' \in 0..use'.repairs
    BY <2>o, Planned, UseTyped DEF Leave, TypeInv, MayStart, Started, bounds
  <2>1. Moves(t, "admitted", o)
    BY <2>o, CallMoves DEF Leave, Ops, Starters, OtherOps
  <2>2. TypeInv'
    BY <2>o, <2>0, <2>1, UseTyped DEF Leave, TypeInv, Moves, Lives
  <2>3. MayBe(t, "admitted", o)
    BY <2>o, Apart DEF Leave, MayBe, PlaceInv, WatcherPlaced, UserPlaced, WatcherOnly, ResumePlaces,
       ConfirmPlaces, Starters, OtherOps
  <2>4. StartingKept
    BY <2>o DEF Leave, StartingKept, PlaceInv
  <2> QED
    BY <2>1, <2>2, <2>3, <2>4, PlainPlaces DEF Places
<1>8. ASSUME Mutate(t) PROVE TypeInv' /\ PlaceInv'
  <2>1. Moves(t, "admitted", "mutate")
    BY <1>8, CallMoves DEF Mutate, Ops, Starters, OtherOps
  <2>2. TypeInv'
    BY <1>8, <2>1, UseTyped DEF Mutate, TypeInv, Moves, Lives
  <2>3. MayBe(t, "admitted", "mutate")
    BY <1>8, Apart DEF Mutate, MayBe, PlaceInv, WatcherPlaced, UserPlaced, WatcherOnly, ResumePlaces,
       ConfirmPlaces, Starters, OtherOps
  <2>4. StartingKept
    BY <1>8 DEF Mutate, StartingKept, PlaceInv
  <2> QED
    BY <2>1, <2>2, <2>3, <2>4, PlainPlaces DEF Places
<1>9. ASSUME BeginNormalFlowAction(t) PROVE TypeInv' /\ PlaceInv'
  <2>1. CASE my' = [my EXCEPT ![t].at = "acting", ![t].op = "act"] /\ UNCHANGED <<lease, held>> /\ actionRefs' = actionRefs + 1
    <3>1. Moves(t, "acting", "act")
      BY <1>9, <2>1, OpMoves DEF BeginNormalFlowAction, Places, Ops, Starters, OtherOps
    <3>2. TypeInv'
      BY <1>9, <2>1, <3>1, UseTyped DEF BeginNormalFlowAction, TypeInv, Moves, Lives
    <3>3. MayBe(t, "acting", "act")
      BY <1>9, <2>1, Apart DEF BeginNormalFlowAction, MayBe, PlaceInv, WatcherPlaced, UserPlaced, WatcherOnly,
         ResumePlaces, ConfirmPlaces, Starters, OtherOps
    <3>4. StartingKept
      BY <1>9, <2>1 DEF BeginNormalFlowAction, StartingKept, PlaceInv
    <3> QED
      BY <3>1, <3>2, <3>3, <3>4, PlainPlaces DEF Places
  <2>2. CASE my' = [my EXCEPT ![t].at = "routing", ![t].op = "act"] /\ LeaseTaken /\ actionRefs' = 1
    <3>0. lease' \in Leases \cup {NoLease} /\ held' \in Leases \cup {NoLease}
      BY <1>9, <2>2, FreshLease DEF BeginNormalFlowAction, TypeInv, LeaseTaken
    <3>1. Moves(t, "routing", "act")
      BY <1>9, <2>2, OpMoves DEF BeginNormalFlowAction, Places, Ops, Starters, OtherOps
    <3>2. TypeInv'
      BY <1>9, <2>2, <3>0, <3>1, UseTyped DEF BeginNormalFlowAction, TypeInv, Moves, Lives
    <3>3. MayBe(t, "routing", "act")
      BY <1>9, <2>2, Apart DEF BeginNormalFlowAction, MayBe, PlaceInv, WatcherPlaced, UserPlaced, WatcherOnly,
         ResumePlaces, ConfirmPlaces, Starters, OtherOps
    <3>4. StartingKept
      BY <1>9, <2>2 DEF BeginNormalFlowAction, StartingKept, PlaceInv
    <3> QED
      BY <3>1, <3>2, <3>3, <3>4, PlainPlaces DEF Places
  <2> QED
    BY <1>9, <2>1, <2>2 DEF BeginNormalFlowAction
<1> QED
  BY <1>1, <1>2, <1>3, <1>4, <1>5, <1>6, <1>7, <1>8, <1>9

\* The steps of the store and of the coordinator.
LEMMA RestTyped ==
  ASSUME Typed, use' = use, Revise \/ Write \/ Stop
  PROVE  TypeInv' /\ PlaceInv'
<1>1. UNCHANGED <<use, starting, my>>
  BY DEF Revise, Write, Stop, lifevars
<1>2. PlaceInv'
  BY <1>1 DEF Typed, PlaceInv, WatcherPlaced, UserPlaced, Dropping
<1>3. /\ revision' = revision \/ revision' = ~revision
      /\ progress' = progress \/ Plans \/ Opens \/ Commits
      /\ coord' = coord \/ coord' = "idle"
      /\ run' = run \/ run' = NoLease
      /\ UNCHANGED <<held, routed, refvars, lifevars, autovars, bounds>>
  BY DEF Revise, Write, Stop, storevars, runvars
<1>4. revision' \in BOOLEAN /\ progress' \in Progress
  <2>1. revision' \in BOOLEAN
    BY <1>3 DEF Typed, TypeInv
  <2>2. progress' \in Progress
    BY <1>3, ProgressTyped DEF Typed, TypeInv
  <2> QED
    BY <2>1, <2>2
<1>5. coord' \in Coordinators /\ run' \in Leases \cup {NoLease}
  BY <1>3 DEF Typed, TypeInv, Coordinators
<1>6. UNCHANGED <<use, starting, my, held, routed, refvars, lifevars, autovars, bounds>>
  BY <1>1, <1>3
<1>7. TypeInv'
  BY <1>4, <1>5, <1>6 DEF Typed, TypeInv, refvars, lifevars, autovars, bounds
<1> QED
  BY <1>2, <1>7

LEMMA TypedNext ==
  ASSUME Typed, [Next]_vars
  PROVE  TypeInv' /\ PlaceInv'
<1>1. CASE UNCHANGED vars
  BY <1>1 DEF Typed, vars, TypeInv, PlaceInv, WatcherPlaced, UserPlaced, Dropping
<1>2. ASSUME use' = use, NEW t \in Threads, Step(t) PROVE TypeInv' /\ PlaceInv'
  BY <1>2, OwnershipTyped, EndTyped, StartTyped, SpawnTyped, ConfirmTyped, CoCreateTyped, RunTyped DEF Step
<1>3. ASSUME use' = use, NEW t \in use.users, NewCall(t) PROVE TypeInv' /\ PlaceInv'
  BY <1>3, CallTyped DEF NewCall
<1>4. CASE use' = use /\ (Revise \/ Write \/ Stop)
  BY <1>4, RestTyped
<1> QED
  BY <1>1, <1>2, <1>3, <1>4 DEF Next

--------------------------------------------------------------------------------
(* The lease *)

HoldsSame(t) == Holds(t)' <=> Holds(t)
ActsSame(t) == Acts(t)' <=> Acts(t)

\* What the step of one thread does to the counts.
LEMMA RefsMove ==
  ASSUME RefsInv, NEW t \in Threads, \A k \in Threads \ {t} : my'[k] = my[k],
         \/ HoldsSame(t) /\ scopedRefs' = scopedRefs
         \/ Holds(t) /\ ~Holds(t)' /\ scopedRefs' = scopedRefs - 1
         \/ ~Holds(t) /\ Holds(t)' /\ scopedRefs' = scopedRefs + 1,
         \/ ActsSame(t) /\ actionRefs' = actionRefs
         \/ Acts(t) /\ ~Acts(t)' /\ actionRefs' = actionRefs - 1
         \/ ~Acts(t) /\ Acts(t)' /\ actionRefs' = actionRefs + 1
  PROVE  RefsInv'
<1>1. Holders \subseteq Threads /\ Holders' \subseteq Threads /\ Actors \subseteq Threads /\ Actors' \subseteq Threads
  BY DEF Holders, Actors
<1>2. Holders \ {t} = Holders' \ {t}
  BY DEF Holders, Holds
<1>3. Actors \ {t} = Actors' \ {t}
  BY DEF Actors, Acts
<1>4. (t \in Holders <=> Holds(t)) /\ (t \in Holders' <=> Holds(t)')
  BY DEF Holders
<1>5. (t \in Actors <=> Acts(t)) /\ (t \in Actors' <=> Acts(t)')
  BY DEF Actors
<1>6. scopedRefs' = Cardinality(Holders')
  <2>1. PICK S, T : S = Holders /\ T = Holders'
    OBVIOUS
  <2>2. /\ (t \in S <=> t \in T) => Cardinality(T) = Cardinality(S)
        /\ t \in S /\ t \notin T => Cardinality(T) = Cardinality(S) - 1
        /\ t \notin S /\ t \in T => Cardinality(T) = Cardinality(S) + 1
    BY <1>1, <1>2, <2>1, CountMoves
  <2> QED
    BY <1>4, <2>1, <2>2 DEF RefsInv, HoldsSame
<1>7. actionRefs' = Cardinality(Actors')
  <2>1. PICK S, T : S = Actors /\ T = Actors'
    OBVIOUS
  <2>2. /\ (t \in S <=> t \in T) => Cardinality(T) = Cardinality(S)
        /\ t \in S /\ t \notin T => Cardinality(T) = Cardinality(S) - 1
        /\ t \notin S /\ t \in T => Cardinality(T) = Cardinality(S) + 1
    BY <1>1, <1>3, <2>1, CountMoves
  <2> QED
    BY <1>5, <2>1, <2>2 DEF RefsInv, ActsSame
<1> QED
  BY <1>6, <1>7 DEF RefsInv

LEMMA PlainLease ==
  ASSUME TypeInv, LeaseInv, NEW t \in Threads, NEW p \in Places \ {"dropping", "dropped"}, NEW o, Moves(t, p, o),
         HoldsSame(t), ActsSame(t), UNCHANGED <<storevars, routed, refvars>>
  PROVE  LeaseInv'
<1>1. RefsInv'
  BY RefsMove DEF LeaseInv, Moves, refvars
<1>2. OwnedInv'
  BY DEF LeaseInv, OwnedInv, Unowned, refvars
<1>3. CurrentInv'
  <2>1. \A k \in Threads : k # t => my'[k] = my[k]
    BY DEF Moves
  <2>2. ~Dropping(t)' /\ ~At(t, "dropped")'
    BY DEF Moves, Dropping, At
  <2> QED
    BY <2>1, <2>2 DEF LeaseInv, CurrentInv, Dropping, At, refvars, storevars
<1> QED
  BY <1>1, <1>2, <1>3 DEF LeaseInv

LEMMA ReleaseLease ==
  ASSUME TypeInv, PlaceInv, LeaseInv, NEW t \in Threads, NEW next \in Places \ {"dropping", "dropped"},
         NEW r \in BOOLEAN, NEW c \in BOOLEAN, NEW a \in Nat, NEW s \in Nat,
         Detach(t, next, r, c, a, s), UNCHANGED <<storevars, routed>>,
         lease = NoLease => ~r /\ ~c,
         \/ HoldsSame(t) /\ s = scopedRefs
         \/ Holds(t) /\ ~Holds(t)' /\ s = scopedRefs - 1,
         \/ ActsSame(t) /\ a = actionRefs
         \/ Acts(t) /\ ~Acts(t)' /\ a = actionRefs - 1
  PROVE  LeaseInv'
<1>1. next \in Places
  OBVIOUS
<1>2. /\ Detached(t, next)
      /\ runOwned' = r /\ coOwned' = c /\ actionRefs' = a /\ scopedRefs' = s
      /\ lease' = NoLease /\ lease # NoLease => Unowned'
      /\ lease' # NoLease => lease' = lease /\ ~Unowned'
  BY <1>1, DetachMoves
<1>3. \A k \in Threads \ {t} : my'[k] = my[k]
  BY <1>2 DEF Detached, Moves
<1>4. RefsInv'
  <2>1. \/ HoldsSame(t) /\ scopedRefs' = scopedRefs
        \/ Holds(t) /\ ~Holds(t)' /\ scopedRefs' = scopedRefs - 1
    BY <1>2
  <2>2. \/ ActsSame(t) /\ actionRefs' = actionRefs
        \/ Acts(t) /\ ~Acts(t)' /\ actionRefs' = actionRefs - 1
    BY <1>2
  <2> QED
    BY <1>3, <2>1, <2>2, RefsMove DEF LeaseInv
<1>5. OwnedInv'
  <2>1. CASE lease = NoLease
    <3>1. lease' = NoLease
      BY <1>2, <2>1 DEF Detached
    <3>2. scopedRefs = 0 /\ actionRefs = 0
      BY <2>1 DEF LeaseInv, OwnedInv, Unowned
    <3>3. scopedRefs' = 0 /\ actionRefs' = 0
      BY <1>2, <3>2
    <3>4. ~runOwned' /\ ~coOwned'
      BY <1>2, <2>1
    <3> QED
      BY <3>1, <3>3, <3>4 DEF OwnedInv, Unowned
  <2>2. CASE lease # NoLease
    BY <1>2, <2>2 DEF OwnedInv
  <2> QED
    BY <2>1, <2>2
<1>6. CurrentInv'
  <2>1. CASE lease' = lease /\ Moves(t, next, Kept(t, next))
    <3>1. ~Dropping(t)' /\ ~At(t, "dropped")'
      BY <2>1 DEF Moves, Dropping, At
    <3> QED
      BY <1>3, <2>1, <3>1 DEF LeaseInv, CurrentInv, Dropping, At, storevars
  <2>2. CASE lease # NoLease /\ lease' = NoLease /\ my'[t].at = "dropping" /\ my'[t].drop = lease
    BY <1>3, <2>2 DEF LeaseInv, PlaceInv, CurrentInv, Dropping, At, storevars
  <2> QED
    BY <1>2, <2>1, <2>2 DEF Detached, Moves
<1> QED
  BY <1>4, <1>5, <1>6 DEF LeaseInv

Owned == TypeInv /\ PlaceInv /\ RefsInv /\ LeaseInv

\* The resumes that end without a run of their own.
LEMMA EndLease ==
  ASSUME Owned, use' = use, NEW t \in Threads
  PROVE  /\ ResumeFinishes(t) => LeaseInv'
         /\ ResumeNothing(t) => LeaseInv'
         /\ SteerUncleared(t) => LeaseInv'
<1> USE DEF Owned, At, storevars, refvars, lifevars, autovars, runvars, bounds
<1>1. ASSUME ResumeFinishes(t) PROVE LeaseInv'
  <2>1. Over(t, TRUE) \in Places \ {"dropping", "dropped"}
    BY OverPlaces
  <2>2. Moves(t, Over(t, TRUE), Kept(t, Over(t, TRUE)))
    BY <1>1, <2>1, GotoMoves DEF ResumeFinishes
  <2>3. HoldsSame(t) /\ ActsSame(t)
    BY <1>1, <2>2 DEF ResumeFinishes, Moves, Over, Holds, Acts, HoldsSame, ActsSame
  <2> QED
    BY <1>1, <2>1, <2>2, <2>3, PlainLease DEF ResumeFinishes
<1>2. ASSUME NEW ok \in BOOLEAN, Release(t, Over(t, ok)), my[t].at \in {"owner", "prompted"},
             UNCHANGED <<storevars, routed>>
      PROVE  LeaseInv'
  <2>1. Over(t, ok) \in Places \ {"dropping", "dropped"}
    BY OverPlaces
  <2>2. runOwned \in BOOLEAN /\ coOwned \in BOOLEAN /\ actionRefs \in Nat /\ Less(scopedRefs) \in Nat
    BY LessNat DEF TypeInv
  <2>3. Detach(t, Over(t, ok), runOwned, coOwned, actionRefs, Less(scopedRefs))
    BY <1>2 DEF Release
  <2>4. Detached(t, Over(t, ok))
    <3>1. Over(t, ok) \in Places
      BY <2>1
    <3> QED
      BY <2>2, <2>3, <3>1, DetachMoves
  <2>5. Holds(t) /\ ~Holds(t)' /\ Less(scopedRefs) = scopedRefs - 1 /\ ActsSame(t)
    BY <1>2, <2>4, Counted DEF Detached, Moves, Over, Less, Holds, Acts, ActsSame
  <2>6. lease = NoLease => ~runOwned /\ ~coOwned
    BY DEF LeaseInv, OwnedInv, Unowned
  <2> QED
    BY <1>2, <2>1, <2>2, <2>3, <2>5, <2>6, ReleaseLease
<1>3. ASSUME ResumeNothing(t) PROVE LeaseInv'
  BY <1>2, <1>3 DEF ResumeNothing
<1>4. ASSUME SteerUncleared(t) PROVE LeaseInv'
  BY <1>2, <1>4 DEF SteerUncleared
<1> QED
  BY <1>1, <1>3, <1>4

\* The steps that start the coordinator.
LEMMA StartLease ==
  ASSUME Owned, use' = use, NEW t \in Threads
  PROVE  /\ GatesFail(t) => LeaseInv'
         /\ OwnerReturns(t) => LeaseInv'
         /\ ResumeGates(t) => LeaseInv'
         /\ Prompt(t) => LeaseInv'
         /\ Publish(t) => LeaseInv'
         /\ Withdraw(t) => LeaseInv'
         /\ Transfer(t) => LeaseInv'
<1> USE DEF Owned, At, storevars, refvars, lifevars, autovars, runvars, bounds
<1>1. ASSUME GatesFail(t) PROVE LeaseInv'
  <2>1. Over(t, FALSE) \in Places \ {"dropping", "dropped"}
    BY <1>1, OverPlaces DEF Places
  <2>2. Moves(t, Over(t, FALSE), Kept(t, Over(t, FALSE)))
    BY <1>1, <2>1, GotoMoves DEF GatesFail, Ops, Starters, OtherOps
  <2>3. HoldsSame(t) /\ ActsSame(t)
    BY <1>1, <2>2 DEF GatesFail, Moves, Kept, Over, Holds, Acts, HoldsSame, ActsSame
  <2> QED
    BY <1>1, <2>1, <2>2, <2>3, PlainLease DEF GatesFail
<1>2. ASSUME OwnerReturns(t) PROVE LeaseInv'
  <2>1. Over(t, FALSE) \in Places \ {"dropping", "dropped"}
    BY OverPlaces DEF Places
  <2>2. runOwned \in BOOLEAN /\ coOwned \in BOOLEAN /\ actionRefs \in Nat /\ Less(scopedRefs) \in Nat
    BY LessNat DEF TypeInv
  <2>3. Detach(t, Over(t, FALSE), runOwned, coOwned, actionRefs, Less(scopedRefs))
    BY <1>2 DEF OwnerReturns, Release
  <2>4. Detached(t, Over(t, FALSE))
    <3>1. Over(t, FALSE) \in Places
      BY <2>1
    <3> QED
      BY <2>2, <2>3, <3>1, DetachMoves
  <2>5. /\ \/ HoldsSame(t) /\ (Less(scopedRefs)) = scopedRefs
           \/ Holds(t) /\ ~Holds(t)' /\ (Less(scopedRefs)) = scopedRefs - 1
        /\ \/ ActsSame(t) /\ (actionRefs) = actionRefs
           \/ Acts(t) /\ ~Acts(t)' /\ (actionRefs) = actionRefs - 1
    BY <1>2, <2>4, Counted DEF OwnerReturns, Detached, Moves, Kept, Over, Less, Holds, Acts, HoldsSame, ActsSame
  <2>6. lease = NoLease => ~(runOwned) /\ ~(coOwned)
    BY <1>2, Counted DEF OwnerReturns, LeaseInv, OwnedInv, Unowned, Holds
  <2>7. UNCHANGED <<storevars, routed>>
    BY <1>2 DEF OwnerReturns
  <2> QED
    BY <2>1, <2>2, <2>3, <2>5, <2>6, <2>7, ReleaseLease
<1>3. ASSUME ResumeGates(t) PROVE LeaseInv'
  <2>1. CASE Detach(t, "gated", FALSE, coOwned, actionRefs, scopedRefs) /\ At(t, "waited")
    <3>1. "gated" \in Places \ {"dropping", "dropped"}
      BY OverPlaces DEF Places
    <3>2. FALSE \in BOOLEAN /\ coOwned \in BOOLEAN /\ actionRefs \in Nat /\ scopedRefs \in Nat
      BY LessNat DEF TypeInv
    <3>3. Detach(t, "gated", FALSE, coOwned, actionRefs, scopedRefs)
      BY <1>3, <2>1 DEF ResumeGates
    <3>4. Detached(t, "gated")
      <4>1. "gated" \in Places
        BY <3>1
      <4> QED
        BY <3>2, <3>3, <4>1, DetachMoves
    <3>5. /\ \/ HoldsSame(t) /\ (scopedRefs) = scopedRefs
             \/ Holds(t) /\ ~Holds(t)' /\ (scopedRefs) = scopedRefs - 1
          /\ \/ ActsSame(t) /\ (actionRefs) = actionRefs
             \/ Acts(t) /\ ~Acts(t)' /\ (actionRefs) = actionRefs - 1
      BY <1>3, <2>1, <3>4, Counted DEF ResumeGates, Detached, Moves, Kept, Over, Less, Holds, Acts, HoldsSame,
         ActsSame
    <3>6. lease = NoLease => ~(FALSE) /\ ~(coOwned)
      BY <1>3, <2>1, Counted DEF ResumeGates, LeaseInv, OwnedInv, Unowned, Holds
    <3>7. UNCHANGED <<storevars, routed>>
      BY <1>3, <2>1 DEF ResumeGates
    <3> QED
      BY <3>1, <3>2, <3>3, <3>5, <3>6, <3>7, ReleaseLease
  <2>2. CASE Goto(t, "gated") /\ UNCHANGED refvars /\ At(t, "admitted")
    <3>1. "gated" \in Places \ {"dropping", "dropped"}
      BY <1>3, <2>2, OverPlaces DEF Places
    <3>2. Moves(t, "gated", Kept(t, "gated"))
      BY <1>3, <2>2, <3>1, GotoMoves DEF ResumeGates, Ops, Starters, OtherOps
    <3>3. HoldsSame(t) /\ ActsSame(t)
      BY <1>3, <2>2, <3>2 DEF ResumeGates, Moves, Kept, Over, Holds, Acts, HoldsSame, ActsSame
    <3> QED
      BY <1>3, <2>2, <3>1, <3>2, <3>3, PlainLease DEF ResumeGates
  <2> QED
    BY <1>3, <2>1, <2>2 DEF ResumeGates
<1>4. ASSUME Prompt(t) PROVE LeaseInv'
  <2>1. CASE Goto(t, "prompted") /\ UNCHANGED refvars
    <3>1. "prompted" \in Places \ {"dropping", "dropped"}
      BY <1>4, <2>1, OverPlaces DEF Places
    <3>2. Moves(t, "prompted", Kept(t, "prompted"))
      BY <1>4, <2>1, <3>1, GotoMoves DEF Prompt, Ops, Starters, OtherOps
    <3>3. HoldsSame(t) /\ ActsSame(t)
      BY <1>4, <2>1, <3>2 DEF Prompt, Moves, Kept, Over, Holds, Acts, HoldsSame, ActsSame
    <3> QED
      BY <1>4, <2>1, <3>1, <3>2, <3>3, PlainLease DEF Prompt
  <2>2. CASE Release(t, Over(t, FALSE))
    <3>1. Over(t, FALSE) \in Places \ {"dropping", "dropped"}
      BY OverPlaces DEF Places
    <3>2. runOwned \in BOOLEAN /\ coOwned \in BOOLEAN /\ actionRefs \in Nat /\ Less(scopedRefs) \in Nat
      BY LessNat DEF TypeInv
    <3>3. Detach(t, Over(t, FALSE), runOwned, coOwned, actionRefs, Less(scopedRefs))
      BY <1>4, <2>2 DEF Prompt, Release
    <3>4. Detached(t, Over(t, FALSE))
      <4>1. Over(t, FALSE) \in Places
        BY <3>1
      <4> QED
        BY <3>2, <3>3, <4>1, DetachMoves
    <3>5. /\ \/ HoldsSame(t) /\ (Less(scopedRefs)) = scopedRefs
             \/ Holds(t) /\ ~Holds(t)' /\ (Less(scopedRefs)) = scopedRefs - 1
          /\ \/ ActsSame(t) /\ (actionRefs) = actionRefs
             \/ Acts(t) /\ ~Acts(t)' /\ (actionRefs) = actionRefs - 1
      BY <1>4, <2>2, <3>4, Counted DEF Prompt, Detached, Moves, Kept, Over, Less, Holds, Acts, HoldsSame, ActsSame
    <3>6. lease = NoLease => ~(runOwned) /\ ~(coOwned)
      BY <1>4, <2>2, Counted DEF Prompt, LeaseInv, OwnedInv, Unowned, Holds
    <3>7. UNCHANGED <<storevars, routed>>
      BY <1>4, <2>2 DEF Prompt
    <3> QED
      BY <3>1, <3>2, <3>3, <3>5, <3>6, <3>7, ReleaseLease
  <2> QED
    BY <1>4, <2>1, <2>2 DEF Prompt
<1>5. ASSUME Publish(t) PROVE LeaseInv'
  <2>1. CASE Goto(t, "withdrawn")
    <3>1. "withdrawn" \in Places \ {"dropping", "dropped"}
      BY <1>5, <2>1, OverPlaces DEF Places
    <3>2. Moves(t, "withdrawn", Kept(t, "withdrawn"))
      BY <1>5, <2>1, <3>1, GotoMoves DEF Publish, Ops, Starters, OtherOps
    <3>3. HoldsSame(t) /\ ActsSame(t)
      BY <1>5, <2>1, <3>2 DEF Publish, Moves, Kept, Over, Holds, Acts, HoldsSame, ActsSame
    <3> QED
      BY <1>5, <2>1, <3>1, <3>2, <3>3, PlainLease DEF Publish
  <2>2. CASE Goto(t, "published")
    <3>1. "published" \in Places \ {"dropping", "dropped"}
      BY <1>5, <2>2, OverPlaces DEF Places
    <3>2. Moves(t, "published", Kept(t, "published"))
      BY <1>5, <2>2, <3>1, GotoMoves DEF Publish, Ops, Starters, OtherOps
    <3>3. HoldsSame(t) /\ ActsSame(t)
      BY <1>5, <2>2, <3>2 DEF Publish, Moves, Kept, Over, Holds, Acts, HoldsSame, ActsSame
    <3> QED
      BY <1>5, <2>2, <3>1, <3>2, <3>3, PlainLease DEF Publish
  <2> QED
    BY <1>5, <2>1, <2>2 DEF Publish
<1>6. ASSUME Withdraw(t) PROVE LeaseInv'
  <2>1. Over(t, FALSE) \in Places \ {"dropping", "dropped"}
    BY OverPlaces DEF Places
  <2>2. runOwned \in BOOLEAN /\ coOwned \in BOOLEAN /\ actionRefs \in Nat /\ Less(scopedRefs) \in Nat
    BY LessNat DEF TypeInv
  <2>3. Detach(t, Over(t, FALSE), runOwned, coOwned, actionRefs, Less(scopedRefs))
    BY <1>6 DEF Withdraw, Release
  <2>4. Detached(t, Over(t, FALSE))
    <3>1. Over(t, FALSE) \in Places
      BY <2>1
    <3> QED
      BY <2>2, <2>3, <3>1, DetachMoves
  <2>5. /\ \/ HoldsSame(t) /\ (Less(scopedRefs)) = scopedRefs
           \/ Holds(t) /\ ~Holds(t)' /\ (Less(scopedRefs)) = scopedRefs - 1
        /\ \/ ActsSame(t) /\ (actionRefs) = actionRefs
           \/ Acts(t) /\ ~Acts(t)' /\ (actionRefs) = actionRefs - 1
    BY <1>6, <2>4, Counted DEF Withdraw, Detached, Moves, Kept, Over, Less, Holds, Acts, HoldsSame, ActsSame
  <2>6. lease = NoLease => ~(runOwned) /\ ~(coOwned)
    BY <1>6, Counted DEF Withdraw, LeaseInv, OwnedInv, Unowned, Holds
  <2>7. UNCHANGED <<storevars, routed>>
    BY <1>6 DEF Withdraw
  <2> QED
    BY <2>1, <2>2, <2>3, <2>5, <2>6, <2>7, ReleaseLease
<1>7. ASSUME Transfer(t) PROVE LeaseInv'
  <2>1. CASE my[t].op = "leave"
    <3>1. "spawn" \in Places \ {"dropping", "dropped"}
      BY OverPlaces DEF Places
    <3>2. TRUE \in BOOLEAN /\ coOwned \in BOOLEAN /\ actionRefs \in Nat /\ scopedRefs \in Nat
      BY LessNat DEF TypeInv
    <3>3. Detach(t, "spawn", TRUE, coOwned, actionRefs, scopedRefs)
      BY <1>7, <2>1 DEF Transfer
    <3>4. Detached(t, "spawn")
      <4>1. "spawn" \in Places
        BY <3>1
      <4> QED
        BY <3>2, <3>3, <4>1, DetachMoves
    <3>d. Moves(t, "spawn", my[t].op)
      <4>1. "spawn" \in Places
        BY <3>1
      <4>2. runOwned' /\ (lease' = NoLease /\ lease # NoLease => Unowned')
        BY <3>2, <3>3, <4>1, DetachMoves
      <4> QED
        BY <3>4, <4>2 DEF Detached, Kept, Unowned
    <3>5. /\ \/ HoldsSame(t) /\ (scopedRefs) = scopedRefs
             \/ Holds(t) /\ ~Holds(t)' /\ (scopedRefs) = scopedRefs - 1
          /\ \/ ActsSame(t) /\ (actionRefs) = actionRefs
             \/ Acts(t) /\ ~Acts(t)' /\ (actionRefs) = actionRefs - 1
      BY <1>7, <2>1, <3>d DEF Transfer, Moves, Kept, Over, Less, Holds, Acts, HoldsSame, ActsSame
    <3>6. lease = NoLease => ~(TRUE) /\ ~(coOwned)
      BY <1>7, <2>1, Counted DEF Transfer, LeaseInv, OwnedInv, Unowned, Holds
    <3>7. UNCHANGED <<storevars, routed>>
      BY <1>7, <2>1 DEF Transfer
    <3> QED
      BY <3>1, <3>2, <3>3, <3>5, <3>6, <3>7, ReleaseLease
  <2>2. CASE my[t].op # "leave"
    <3>1. "spawn" \in Places \ {"dropping", "dropped"}
      BY OverPlaces DEF Places
    <3>2. (runOwned \/ (lease # NoLease /\ scopedRefs > 0)) \in BOOLEAN /\ coOwned \in BOOLEAN /\ actionRefs \in Nat /\ Less(scopedRefs) \in Nat
      BY LessNat DEF TypeInv
    <3>3. Detach(t, "spawn", (runOwned \/ (lease # NoLease /\ scopedRefs > 0)), coOwned, actionRefs, Less(scopedRefs))
      BY <1>7, <2>2 DEF Transfer, TransferToRun
    <3>4. Detached(t, "spawn")
      <4>1. "spawn" \in Places
        BY <3>1
      <4> QED
        BY <3>2, <3>3, <4>1, DetachMoves
    <3>5. /\ \/ HoldsSame(t) /\ (Less(scopedRefs)) = scopedRefs
             \/ Holds(t) /\ ~Holds(t)' /\ (Less(scopedRefs)) = scopedRefs - 1
          /\ \/ ActsSame(t) /\ (actionRefs) = actionRefs
             \/ Acts(t) /\ ~Acts(t)' /\ (actionRefs) = actionRefs - 1
      BY <1>7, <2>2, <3>4, Counted DEF Transfer, Detached, Moves, Kept, Over, Less, Holds, Acts, HoldsSame, ActsSame
    <3>6. lease = NoLease => ~((runOwned \/ (lease # NoLease /\ scopedRefs > 0))) /\ ~(coOwned)
      BY <1>7, <2>2, Counted DEF Transfer, LeaseInv, OwnedInv, Unowned, Holds
    <3>7. UNCHANGED <<storevars, routed>>
      BY <1>7, <2>2 DEF Transfer
    <3> QED
      BY <3>1, <3>2, <3>3, <3>5, <3>6, <3>7, ReleaseLease
  <2> QED
    BY <1>7, <2>1, <2>2 DEF Transfer
<1> QED
  BY <1>1, <1>2, <1>3, <1>4, <1>5, <1>6, <1>7

\* The lease is taken by a thread that has a reference to it from now on.
LEMMA TakeLease ==
  ASSUME TypeInv, LeaseInv, NEW t \in Threads, NEW p \in Places \ {"dropping", "dropped"}, NEW o, Moves(t, p, o),
         LeaseTaken, routed' \in {routed, Fresh}, UNCHANGED <<revision, runOwned, coOwned>>,
         \/ /\ ~Holds(t) /\ Holds(t)' /\ scopedRefs' = 1
            /\ ActsSame(t) /\ actionRefs' = actionRefs
         \/ /\ ~Acts(t) /\ Acts(t)' /\ actionRefs' = 1
            /\ HoldsSame(t) /\ scopedRefs' = scopedRefs
  PROVE  LeaseInv'
<1>1. scopedRefs = 0 /\ actionRefs = 0 /\ routed = NoLease /\ lease = NoLease /\ held = NoLease /\ ~revision
  BY DEF LeaseInv, OwnedInv, Unowned, CurrentInv, LeaseTaken
<1>2. Fresh # NoLease /\ \A k \in Threads : my[k].drop # Fresh
  BY FreshLease
<1>3. lease' = Fresh /\ held' = Fresh
  BY DEF LeaseTaken
<1>4. \A k \in Threads \ {t} : my'[k] = my[k]
  BY DEF Moves
<1>5. RefsInv'
  <2>1. \/ HoldsSame(t) /\ scopedRefs' = scopedRefs
        \/ Holds(t) /\ ~Holds(t)' /\ scopedRefs' = scopedRefs - 1
        \/ ~Holds(t) /\ Holds(t)' /\ scopedRefs' = scopedRefs + 1
    BY <1>1
  <2>2. \/ ActsSame(t) /\ actionRefs' = actionRefs
        \/ Acts(t) /\ ~Acts(t)' /\ actionRefs' = actionRefs - 1
        \/ ~Acts(t) /\ Acts(t)' /\ actionRefs' = actionRefs + 1
    BY <1>1
  <2> QED
    BY <1>4, <2>1, <2>2, RefsMove DEF LeaseInv
<1>6. OwnedInv'
  BY <1>2, <1>3 DEF OwnedInv, Unowned
<1>7. CurrentInv'
  <2>1. ~Dropping(t)' /\ ~At(t, "dropped")'
    BY DEF Moves, Dropping, At
  <2>2. \A k \in Threads : Dropping(k)' => my'[k].drop # Fresh
    BY <1>2, <1>4, <2>1 DEF Dropping
  <2>3. \A k \in Threads : At(k, "dropped")' => my'[k].drop # Fresh
    BY <1>2, <1>4, <2>1 DEF At
  <2> QED
    BY <1>1, <1>2, <1>3, <2>2, <2>3 DEF CurrentInv
<1> QED
  BY <1>5, <1>6, <1>7 DEF LeaseInv

\* A thread shares the lease.
LEMMA ShareLease ==
  ASSUME TypeInv, LeaseInv, NEW t \in Threads, NEW p \in Places \ {"dropping", "dropped"}, NEW o, Moves(t, p, o),
         lease # NoLease, UNCHANGED <<storevars, routed, lease, runOwned, coOwned>>,
         \/ /\ ~Holds(t) /\ Holds(t)' /\ scopedRefs' = scopedRefs + 1
            /\ ActsSame(t) /\ actionRefs' = actionRefs
         \/ /\ ~Acts(t) /\ Acts(t)' /\ actionRefs' = actionRefs + 1
            /\ HoldsSame(t) /\ scopedRefs' = scopedRefs
  PROVE  LeaseInv'
<1>1. \A k \in Threads \ {t} : my'[k] = my[k]
  BY DEF Moves
<1>2. RefsInv'
  BY <1>1, RefsMove DEF LeaseInv
<1>3. OwnedInv'
  BY DEF LeaseInv, OwnedInv, Unowned, TypeInv
<1>4. CurrentInv'
  <2>1. ~Dropping(t)' /\ ~At(t, "dropped")'
    BY DEF Moves, Dropping, At
  <2> QED
    BY <1>1, <2>1 DEF LeaseInv, CurrentInv, Dropping, At, storevars
<1> QED
  BY <1>2, <1>3, <1>4 DEF LeaseInv

\* The threads are where they were, as far as the lease is concerned.
LEMMA StillLease ==
  ASSUME TypeInv, LeaseInv, UNCHANGED <<routed, refvars>>,
         \/ UNCHANGED storevars
         \/ held = NoLease /\ held' = held,
         \A k \in Threads : HoldsSame(k) /\ ActsSame(k) /\ (Dropping(k)' => my'[k].at = my[k].at /\ my'[k].drop = my[k].drop)
  PROVE  LeaseInv'
<1>1. Holders' = Holders /\ Actors' = Actors
  BY DEF Holders, Actors, HoldsSame, ActsSame
<1>2. RefsInv'
  BY <1>1 DEF LeaseInv, RefsInv, refvars
<1>3. OwnedInv'
  BY DEF LeaseInv, OwnedInv, Unowned, refvars
<1>4. CurrentInv'
  BY DEF LeaseInv, CurrentInv, Dropping, At, refvars, storevars
<1> QED
  BY <1>2, <1>3, <1>4 DEF LeaseInv

\* The steps that take and release the lease.
LEMMA OwnershipLease ==
  ASSUME Owned, use' = use, NEW t \in Threads
  PROVE  /\ DropRouter(t) => LeaseInv'
         /\ DropStore(t) => LeaseInv'
         /\ Acquire(t) => LeaseInv'
         /\ Spawn(t) => LeaseInv'
         /\ BeginStartingRun(t) => LeaseInv'
<1> USE DEF Owned, At, storevars, refvars, lifevars, autovars, runvars, bounds
<1>1. ASSUME DropRouter(t) PROVE LeaseInv'
  <2>1. /\ Moves(t, "dropped", my[t].op) /\ my'[t].drop = my[t].drop
    BY <1>1, AtMoves DEF DropRouter, Places
  <2>2. routed' = NoLease /\ UNCHANGED <<storevars, refvars>> /\ Dropping(t)
    BY <1>1 DEF DropRouter, Dropping
  <2>3. HoldsSame(t) /\ ActsSame(t)
    BY <2>1, <2>2 DEF Dropping, Moves, Holds, Acts, HoldsSame, ActsSame
  <2>4. RefsInv'
    BY <2>1, <2>2, <2>3, RefsMove DEF Moves
  <2>5. OwnedInv'
    BY <2>2 DEF LeaseInv, OwnedInv, Unowned
  <2>6. CurrentInv'
    BY <2>1, <2>2 DEF LeaseInv, CurrentInv, Moves, Dropping
  <2> QED
    BY <2>4, <2>5, <2>6 DEF LeaseInv
<1>2. ASSUME DropStore(t) PROVE LeaseInv'
  <2> DEFINE p == my[t].next
  <2>1. p \in Places \ {"dropping", "dropped"} /\ ~(p \in {"owner", "prompted", "withdrawn", "published", "occupied", "left",
          "leftCo", "routing", "acting", "spawn"})
    BY <1>2, Apart DEF DropStore, Places, PlaceInv, WatcherPlaced, UserPlaced, Dropping, Threads
  <2>2. Moves(t, p, Kept(t, p))
    BY <1>2, <2>1, GotoMoves DEF DropStore
  <2> HIDE DEF p
  <2>3. HoldsSame(t) /\ ActsSame(t)
    BY <1>2, <2>1, <2>2 DEF DropStore, Moves, Holds, Acts, HoldsSame, ActsSame
  <2>4. /\ held' = held \/ (held = my[t].drop /\ held' = NoLease)
        /\ UNCHANGED <<revision, routed, refvars>> /\ At(t, "dropped")
    BY <1>2 DEF DropStore
  <2>5. RefsInv'
    BY <2>2, <2>3, <2>4, RefsMove DEF Moves
  <2>6. OwnedInv'
    BY <2>4 DEF LeaseInv, OwnedInv, Unowned
  <2>7. CurrentInv'
    <3>1. my[t].drop # lease /\ (held # NoLease /\ my[t].drop = held => routed = NoLease)
      BY <2>4 DEF LeaseInv, CurrentInv, Dropping
    <3>2. ~Dropping(t)' /\ \A k \in Threads \ {t} : my'[k] = my[k]
      BY <2>1, <2>2 DEF Moves, Dropping
    <3>3. lease' # NoLease => held' = lease' /\ ~revision'
      BY <2>4, <3>1 DEF LeaseInv, CurrentInv
    <3>4. routed' # NoLease => routed' = held'
      BY <2>4, <3>1 DEF LeaseInv, CurrentInv
    <3>5. \A k \in Threads : Dropping(k)' => my'[k].drop # lease'
      BY <2>4, <3>2 DEF LeaseInv, CurrentInv, Dropping
    <3>6. \A k \in Threads : At(k, "dropped")' /\ held' # NoLease /\ my'[k].drop = held' => routed' = NoLease
      BY <2>4, <3>2 DEF LeaseInv, CurrentInv, Dropping
    <3> QED
      BY <3>3, <3>4, <3>5, <3>6 DEF CurrentInv
  <2> QED
    BY <2>5, <2>6, <2>7 DEF LeaseInv
<1>3. ASSUME Acquire(t) PROVE LeaseInv'
  <2>1. ~Holds(t) /\ ~Acts(t) /\ UNCHANGED <<revision, runOwned, coOwned, actionRefs>>
    BY <1>3 DEF Acquire, Holds, Acts
  <2>2. CASE Goto(t, "owner")
    <3>1. Moves(t, "owner", Kept(t, "owner")) /\ "owner" \in Places \ {"dropping", "dropped"}
      BY <2>2, GotoMoves DEF Places
    <3>2. Holds(t)' /\ ActsSame(t)
      BY <2>1, <3>1 DEF Moves, Holds, Acts, ActsSame
    <3>3. CASE LeaseTaken /\ routed' = Fresh /\ scopedRefs' = 1
      BY <2>1, <3>1, <3>2, <3>3, TakeLease
    <3>4. CASE lease # NoLease /\ scopedRefs' = scopedRefs + 1 /\ UNCHANGED <<lease, held, routed>>
      BY <2>1, <3>1, <3>2, <3>4, ShareLease
    <3>5. CASE UNCHANGED <<lease, held, routed, scopedRefs>> /\ Goto(t, Over(t, FALSE))
      <4>1. my'[t].at = Over(t, FALSE)
        BY <3>5, GotoMoves, OverPlaces DEF Moves
      <4> QED
        BY <3>1, <4>1 DEF Moves, Over
    <3> QED
      BY <1>3, <2>2, <3>3, <3>4, <3>5 DEF Acquire, Shared
  <2>3. CASE Goto(t, Over(t, FALSE)) /\ UNCHANGED <<lease, held, routed, scopedRefs>>
    <3>1. Moves(t, Over(t, FALSE), Kept(t, Over(t, FALSE))) /\ Over(t, FALSE) \in Places \ {"dropping", "dropped"}
      BY <2>3, GotoMoves, OverPlaces
    <3>2. HoldsSame(t) /\ ActsSame(t)
      BY <2>1, <3>1 DEF Moves, Over, Holds, Acts, HoldsSame, ActsSame
    <3> QED
      BY <2>1, <2>3, <3>1, <3>2, PlainLease
  <2> QED
    BY <1>3, <2>2, <2>3 DEF Acquire
<1>4. ASSUME Spawn(t) PROVE LeaseInv'
  <2>1. PICK w \in Watchers :
          /\ At(w, "idle")
          /\ my' = [my EXCEPT ![w].at = "wait", ![w].op = "none",
                              ![t] = Placed(t, IF my[t].op = "leave" THEN "leftCo" ELSE Over(t, TRUE))]
    BY <1>4 DEF Spawn
  <2> DEFINE p == IF my[t].op = "leave" THEN "leftCo" ELSE Over(t, TRUE)
  <2>2. w \in Threads /\ t # w /\ At(t, "spawn")
    BY <1>4, <2>1 DEF Spawn, Threads
  <2>3. p \in {"leftCo", "idle", "resumed"} /\ (p = "leftCo" <=> my[t].op = "leave")
    BY DEF Over
  <2>4. SpawnMoves(t, w, p)
    <3>1. p \in Places
      BY <2>3 DEF Places
    <3> QED
      BY <2>1, <2>2, <3>1, SpawnMoved
  <2> HIDE DEF p
  <2>5. UNCHANGED <<storevars, routed, refvars>>
    BY <1>4 DEF Spawn
  <2>6. \A k \in Threads : HoldsSame(k) /\ ActsSame(k) /\ (Dropping(k)' => my'[k] = my[k])
    <3> SUFFICES ASSUME NEW k \in Threads PROVE HoldsSame(k) /\ ActsSame(k) /\ (Dropping(k)' => my'[k] = my[k])
      OBVIOUS
    <3>1. CASE k = t
      BY <2>2, <2>3, <2>4, <3>1 DEF SpawnMoves, Holds, Acts, HoldsSame, ActsSame, Dropping
    <3>2. CASE k = w
      BY <2>1, <2>2, <2>4, <3>2 DEF SpawnMoves, Holds, Acts, HoldsSame, ActsSame, Dropping
    <3>3. CASE k \notin {t, w}
      BY <2>4, <3>3 DEF SpawnMoves, Holds, Acts, HoldsSame, ActsSame
    <3> QED
      BY <3>1, <3>2, <3>3
  <2> QED
    BY <2>5, <2>6, StillLease
<1>5. ASSUME BeginStartingRun(t) PROVE LeaseInv'
  <2>1. CASE Release(t, "idle") /\ UNCHANGED lifevars
    <3>1. "idle" \in Places \ {"dropping", "dropped"}
      BY OverPlaces DEF Places
    <3>2. runOwned \in BOOLEAN /\ coOwned \in BOOLEAN /\ actionRefs \in Nat /\ Less(scopedRefs) \in Nat
      BY LessNat DEF TypeInv
    <3>3. Detach(t, "idle", runOwned, coOwned, actionRefs, Less(scopedRefs))
      BY <1>5, <2>1 DEF BeginStartingRun, Release
    <3>4. Detached(t, "idle")
      <4>1. "idle" \in Places
        BY <3>1
      <4> QED
        BY <3>2, <3>3, <4>1, DetachMoves
    <3>5. /\ \/ HoldsSame(t) /\ (Less(scopedRefs)) = scopedRefs
             \/ Holds(t) /\ ~Holds(t)' /\ (Less(scopedRefs)) = scopedRefs - 1
          /\ \/ ActsSame(t) /\ (actionRefs) = actionRefs
             \/ Acts(t) /\ ~Acts(t)' /\ (actionRefs) = actionRefs - 1
      BY <1>5, <2>1, <3>4, Counted DEF BeginStartingRun, Detached, Moves, Kept, Over, Less, Holds, Acts,
         HoldsSame, ActsSame
    <3>6. lease = NoLease => ~(runOwned) /\ ~(coOwned)
      BY <1>5, <2>1, Counted DEF BeginStartingRun, LeaseInv, OwnedInv, Unowned, Holds
    <3>7. UNCHANGED <<storevars, routed>>
      BY <1>5, <2>1 DEF BeginStartingRun
    <3> QED
      BY <3>1, <3>2, <3>3, <3>5, <3>6, <3>7, ReleaseLease
  <2>2. CASE /\ runOwned' = TRUE /\ scopedRefs' = scopedRefs - 1 /\ UNCHANGED <<lease, coOwned, actionRefs>>
              /\ my' = [my EXCEPT ![t].at = "starting", ![t].was = lifecycle]
    <3>1. Moves(t, "starting", my[t].op)
      BY <1>5, <2>2, StartingMoves
    <3>2. Holds(t) /\ ~Holds(t)' /\ ActsSame(t) /\ ~Dropping(t)'
      BY <1>5, <2>2, <3>1 DEF BeginStartingRun, Moves, Holds, Acts, ActsSame, Dropping
    <3>3. UNCHANGED <<storevars, routed>>
      BY <1>5, <2>2 DEF BeginStartingRun
    <3>4. RefsInv'
      BY <1>5, <2>2, <3>1, <3>2, RefsMove DEF Moves
    <3>5. lease # NoLease
      BY <3>2, Counted DEF LeaseInv, OwnedInv, Unowned
    <3>6. OwnedInv'
      BY <1>5, <2>2, <3>5 DEF OwnedInv, Unowned
    <3>7. CurrentInv'
      BY <1>5, <2>2, <3>1, <3>2, <3>3 DEF LeaseInv, CurrentInv, Moves, Dropping
    <3> QED
      BY <3>4, <3>6, <3>7 DEF LeaseInv
  <2> QED
    BY <1>5, <2>1, <2>2 DEF BeginStartingRun
<1> QED
  BY <1>1, <1>2, <1>3, <1>4, <1>5

LEMMA PauseLease ==
  ASSUME TypeInv, LeaseInv, NEW t \in Threads, my[t].at \in {"idle", "occupying"}, Pause(t)
  PROVE  LeaseInv'
<1>1. UNCHANGED <<storevars, routed, refvars>>
  BY DEF Pause
<1>2. \A k \in Threads : HoldsSame(k) /\ ActsSame(k) /\ (Dropping(k)' => my'[k].at = my[k].at /\ my'[k].drop = my[k].drop)
  <2> SUFFICES ASSUME NEW k \in Threads
               PROVE  HoldsSame(k) /\ ActsSame(k) /\ (Dropping(k)' => my'[k].at = my[k].at /\ my'[k].drop = my[k].drop)
    OBVIOUS
  <2>1. /\ my'[k].at = (IF k = t THEN "aborting" ELSE my[k].at)
        /\ my'[k].op = (IF k = t THEN "abort" ELSE my[k].op)
        /\ my'[k].drop = my[k].drop
    BY PauseMoves
  <2> QED
    BY <2>1 DEF Holds, Acts, HoldsSame, ActsSame, Dropping
<1> QED
  BY <1>1, <1>2, StillLease

\* The steps of a confirmation and of the goroutine that waits for the run.
LEMMA RunLease ==
  ASSUME Owned, use' = use, NEW t \in Threads
  PROVE  /\ ConfirmPrompt(t) => LeaseInv'
         /\ ConfirmPublish(t) => LeaseInv'
         /\ RollBack(t) => LeaseInv'
         /\ Wake(t) => LeaseInv'
         /\ TryRepair(t) => LeaseInv'
         /\ TryAutoResume(t) => LeaseInv'
         /\ AutoResume(t) => LeaseInv'
         /\ AutoResumed(t) => LeaseInv'
         /\ Terminal(t) => LeaseInv'
         /\ ReleaseRun(t) => LeaseInv'
<1> USE DEF Owned, At, storevars, refvars, lifevars, autovars, runvars, bounds
<1>1. ASSUME ConfirmPrompt(t) PROVE LeaseInv'
  <2>1. CASE Goto(t, "confirming")
    <3>1. "confirming" \in Places \ {"dropping", "dropped"}
      BY <1>1, <2>1, OverPlaces DEF Places
    <3>2. Moves(t, "confirming", Kept(t, "confirming"))
      BY <1>1, <2>1, <3>1, GotoMoves DEF ConfirmPrompt, Ops, Starters, OtherOps
    <3>3. HoldsSame(t) /\ ActsSame(t)
      BY <1>1, <2>1, <3>2 DEF ConfirmPrompt, Moves, Kept, Over, Holds, Acts, HoldsSame, ActsSame
    <3> QED
      BY <1>1, <2>1, <3>1, <3>2, <3>3, PlainLease DEF ConfirmPrompt
  <2>2. CASE Goto(t, "unprompted")
    <3>1. "unprompted" \in Places \ {"dropping", "dropped"}
      BY <1>1, <2>2, OverPlaces DEF Places
    <3>2. Moves(t, "unprompted", Kept(t, "unprompted"))
      BY <1>1, <2>2, <3>1, GotoMoves DEF ConfirmPrompt, Ops, Starters, OtherOps
    <3>3. HoldsSame(t) /\ ActsSame(t)
      BY <1>1, <2>2, <3>2 DEF ConfirmPrompt, Moves, Kept, Over, Holds, Acts, HoldsSame, ActsSame
    <3> QED
      BY <1>1, <2>2, <3>1, <3>2, <3>3, PlainLease DEF ConfirmPrompt
  <2> QED
    BY <1>1, <2>1, <2>2 DEF ConfirmPrompt
<1>2. ASSUME ConfirmPublish(t) PROVE LeaseInv'
  <2>1. CASE Goto(t, "spawn")
    <3>1. "spawn" \in Places \ {"dropping", "dropped"}
      BY <1>2, <2>1, OverPlaces DEF Places
    <3>2. Moves(t, "spawn", Kept(t, "spawn"))
      BY <1>2, <2>1, <3>1, GotoMoves DEF ConfirmPublish, Ops, Starters, OtherOps
    <3>3. HoldsSame(t) /\ ActsSame(t)
      <4>1. my[t].op = "confirm"
        BY <1>2, <2>1 DEF ConfirmPublish, Threads, PlaceInv, WatcherPlaced, UserPlaced, WatcherOnly,
           ResumePlaces, ConfirmPlaces
      <4> QED
        BY <1>2, <2>1, <3>2, <4>1 DEF ConfirmPublish, Moves, Kept, Over, Holds, Acts, HoldsSame, ActsSame
    <3> QED
      BY <1>2, <2>1, <3>1, <3>2, <3>3, PlainLease DEF ConfirmPublish
  <2>2. CASE Goto(t, "cancelled")
    <3>1. "cancelled" \in Places \ {"dropping", "dropped"}
      BY <1>2, <2>2, OverPlaces DEF Places
    <3>2. Moves(t, "cancelled", Kept(t, "cancelled"))
      BY <1>2, <2>2, <3>1, GotoMoves DEF ConfirmPublish, Ops, Starters, OtherOps
    <3>3. HoldsSame(t) /\ ActsSame(t)
      BY <1>2, <2>2, <3>2 DEF ConfirmPublish, Moves, Kept, Over, Holds, Acts, HoldsSame, ActsSame
    <3> QED
      BY <1>2, <2>2, <3>1, <3>2, <3>3, PlainLease DEF ConfirmPublish
  <2> QED
    BY <1>2, <2>1, <2>2 DEF ConfirmPublish
<1>3. ASSUME RollBack(t) PROVE LeaseInv'
  <2>1. CASE Detach(t, "idle", FALSE, coOwned, actionRefs, scopedRefs)
    <3>1. "idle" \in Places \ {"dropping", "dropped"}
      BY OverPlaces DEF Places
    <3>2. FALSE \in BOOLEAN /\ coOwned \in BOOLEAN /\ actionRefs \in Nat /\ scopedRefs \in Nat
      BY LessNat DEF TypeInv
    <3>3. Detach(t, "idle", FALSE, coOwned, actionRefs, scopedRefs)
      BY <1>3, <2>1 DEF RollBack
    <3>4. Detached(t, "idle")
      <4>1. "idle" \in Places
        BY <3>1
      <4> QED
        BY <3>2, <3>3, <4>1, DetachMoves
    <3>5. /\ \/ HoldsSame(t) /\ (scopedRefs) = scopedRefs
             \/ Holds(t) /\ ~Holds(t)' /\ (scopedRefs) = scopedRefs - 1
          /\ \/ ActsSame(t) /\ (actionRefs) = actionRefs
             \/ Acts(t) /\ ~Acts(t)' /\ (actionRefs) = actionRefs - 1
      BY <1>3, <2>1, <3>4, Counted DEF RollBack, Detached, Moves, Kept, Over, Less, Holds, Acts, HoldsSame, ActsSame
    <3>6. lease = NoLease => ~(FALSE) /\ ~(coOwned)
      BY <1>3, <2>1, Counted DEF RollBack, LeaseInv, OwnedInv, Unowned, Holds
    <3>7. UNCHANGED <<storevars, routed>>
      BY <1>3, <2>1 DEF RollBack
    <3> QED
      BY <3>1, <3>2, <3>3, <3>5, <3>6, <3>7, ReleaseLease
  <2>2. CASE Goto(t, "idle") /\ UNCHANGED refvars
    <3>1. "idle" \in Places \ {"dropping", "dropped"}
      BY <1>3, <2>2, OverPlaces DEF Places
    <3>2. Moves(t, "idle", Kept(t, "idle"))
      BY <1>3, <2>2, <3>1, GotoMoves DEF RollBack, Ops, Starters, OtherOps
    <3>3. HoldsSame(t) /\ ActsSame(t)
      BY <1>3, <2>2, <3>2 DEF RollBack, Moves, Kept, Over, Holds, Acts, HoldsSame, ActsSame
    <3> QED
      BY <1>3, <2>2, <3>1, <3>2, <3>3, PlainLease DEF RollBack
  <2> QED
    BY <1>3, <2>1, <2>2 DEF RollBack
<1>4. ASSUME Wake(t) PROVE LeaseInv'
  <2>1. "woke" \in Places \ {"dropping", "dropped"}
    BY <1>4, OverPlaces DEF Places
  <2>2. Moves(t, "woke", Kept(t, "woke"))
    BY <1>4, <2>1, GotoMoves DEF Wake, Ops, Starters, OtherOps
  <2>3. HoldsSame(t) /\ ActsSame(t)
    BY <1>4, <2>2 DEF Wake, Moves, Kept, Over, Holds, Acts, HoldsSame, ActsSame
  <2> QED
    BY <1>4, <2>1, <2>2, <2>3, PlainLease DEF Wake
<1>5. ASSUME TryRepair(t) PROVE LeaseInv'
  <2>1. "retry" \in Places \ {"dropping", "dropped"}
    BY <1>5, OverPlaces DEF Places
  <2>2. Moves(t, "retry", "repair")
    BY <1>5, <2>1, OpMoves DEF TryRepair, Ops, Starters, OtherOps
  <2>3. HoldsSame(t) /\ ActsSame(t)
    BY <1>5, <2>2 DEF TryRepair, Moves, Kept, Over, Holds, Acts, HoldsSame, ActsSame
  <2> QED
    BY <1>5, <2>1, <2>2, <2>3, PlainLease DEF TryRepair
<1>6. ASSUME TryAutoResume(t) PROVE LeaseInv'
  <2>1. CASE my' = [my EXCEPT ![t].at = "retry", ![t].op = "auto"]
    <3>1. "retry" \in Places \ {"dropping", "dropped"}
      BY <1>6, <2>1, OverPlaces DEF Places
    <3>2. Moves(t, "retry", "auto")
      BY <1>6, <2>1, <3>1, OpMoves DEF TryAutoResume, Ops, Starters, OtherOps
    <3>3. HoldsSame(t) /\ ActsSame(t)
      BY <1>6, <2>1, <3>2 DEF TryAutoResume, Moves, Kept, Over, Holds, Acts, HoldsSame, ActsSame
    <3> QED
      BY <1>6, <2>1, <3>1, <3>2, <3>3, PlainLease DEF TryAutoResume
  <2>2. CASE Goto(t, "terminal")
    <3>1. "terminal" \in Places \ {"dropping", "dropped"}
      BY <1>6, <2>2, OverPlaces DEF Places
    <3>2. Moves(t, "terminal", Kept(t, "terminal"))
      BY <1>6, <2>2, <3>1, GotoMoves DEF TryAutoResume, Ops, Starters, OtherOps
    <3>3. HoldsSame(t) /\ ActsSame(t)
      BY <1>6, <2>2, <3>2 DEF TryAutoResume, Moves, Kept, Over, Holds, Acts, HoldsSame, ActsSame
    <3> QED
      BY <1>6, <2>2, <3>1, <3>2, <3>3, PlainLease DEF TryAutoResume
  <2> QED
    BY <1>6, <2>1, <2>2 DEF TryAutoResume
<1>7. ASSUME AutoResume(t) PROVE LeaseInv'
  <2>1. CASE Goto(t, "unresumed")
    <3>1. "unresumed" \in Places \ {"dropping", "dropped"}
      BY <1>7, <2>1, OverPlaces DEF Places
    <3>2. Moves(t, "unresumed", Kept(t, "unresumed"))
      BY <1>7, <2>1, <3>1, GotoMoves DEF AutoResume, Ops, Starters, OtherOps
    <3>3. HoldsSame(t) /\ ActsSame(t)
      BY <1>7, <2>1, <3>2 DEF AutoResume, Moves, Kept, Over, Holds, Acts, HoldsSame, ActsSame
    <3> QED
      BY <1>7, <2>1, <3>1, <3>2, <3>3, PlainLease DEF AutoResume
  <2>2. CASE my' = [my EXCEPT ![t].at = "admitted", ![t].missed = FALSE]
    <3>1. "admitted" \in Places \ {"dropping", "dropped"}
      BY <1>7, <2>2, OverPlaces DEF Places
    <3>2. Moves(t, "admitted", my[t].op)
      BY <1>7, <2>2, <3>1, ReadmitMoves DEF AutoResume, Ops, Starters, OtherOps
    <3>3. HoldsSame(t) /\ ActsSame(t)
      BY <1>7, <2>2, <3>2 DEF AutoResume, Moves, Kept, Over, Holds, Acts, HoldsSame, ActsSame
    <3> QED
      BY <1>7, <2>2, <3>1, <3>2, <3>3, PlainLease DEF AutoResume
  <2> QED
    BY <1>7, <2>1, <2>2 DEF AutoResume
<1>8. ASSUME AutoResumed(t) PROVE LeaseInv'
  <2>1. CASE Goto(t, "idle")
    <3>1. "idle" \in Places \ {"dropping", "dropped"}
      BY <1>8, <2>1, OverPlaces DEF Places
    <3>2. Moves(t, "idle", Kept(t, "idle"))
      BY <1>8, <2>1, <3>1, GotoMoves DEF AutoResumed, Ops, Starters, OtherOps
    <3>3. HoldsSame(t) /\ ActsSame(t)
      BY <1>8, <2>1, <3>2 DEF AutoResumed, Moves, Kept, Over, Holds, Acts, HoldsSame, ActsSame
    <3> QED
      BY <1>8, <2>1, <3>1, <3>2, <3>3, PlainLease DEF AutoResumed
  <2>2. CASE Goto(t, "terminal")
    <3>1. "terminal" \in Places \ {"dropping", "dropped"}
      BY <1>8, <2>2, OverPlaces DEF Places
    <3>2. Moves(t, "terminal", Kept(t, "terminal"))
      BY <1>8, <2>2, <3>1, GotoMoves DEF AutoResumed, Ops, Starters, OtherOps
    <3>3. HoldsSame(t) /\ ActsSame(t)
      BY <1>8, <2>2, <3>2 DEF AutoResumed, Moves, Kept, Over, Holds, Acts, HoldsSame, ActsSame
    <3> QED
      BY <1>8, <2>2, <3>1, <3>2, <3>3, PlainLease DEF AutoResumed
  <2>3. CASE Goto(t, "unrepaired")
    <3>1. "unrepaired" \in Places \ {"dropping", "dropped"}
      BY <1>8, <2>3, OverPlaces DEF Places
    <3>2. Moves(t, "unrepaired", Kept(t, "unrepaired"))
      BY <1>8, <2>3, <3>1, GotoMoves DEF AutoResumed, Ops, Starters, OtherOps
    <3>3. HoldsSame(t) /\ ActsSame(t)
      BY <1>8, <2>3, <3>2 DEF AutoResumed, Moves, Kept, Over, Holds, Acts, HoldsSame, ActsSame
    <3> QED
      BY <1>8, <2>3, <3>1, <3>2, <3>3, PlainLease DEF AutoResumed
  <2> QED
    BY <1>8, <2>1, <2>2, <2>3 DEF AutoResumed
<1>9. ASSUME Terminal(t) PROVE LeaseInv'
  <2>1. "ending" \in Places \ {"dropping", "dropped"}
    BY <1>9, OverPlaces DEF Places
  <2>2. Moves(t, "ending", Kept(t, "ending"))
    BY <1>9, <2>1, GotoMoves DEF Terminal, Ops, Starters, OtherOps
  <2>3. HoldsSame(t) /\ ActsSame(t)
    BY <1>9, <2>2 DEF Terminal, Moves, Kept, Over, Holds, Acts, HoldsSame, ActsSame
  <2> QED
    BY <1>9, <2>1, <2>2, <2>3, PlainLease DEF Terminal
<1>10. ASSUME ReleaseRun(t) PROVE LeaseInv'
  <2>1. "idle" \in Places \ {"dropping", "dropped"}
    BY OverPlaces DEF Places
  <2>2. FALSE \in BOOLEAN /\ coOwned \in BOOLEAN /\ actionRefs \in Nat /\ scopedRefs \in Nat
    BY LessNat DEF TypeInv
  <2>3. Detach(t, "idle", FALSE, coOwned, actionRefs, scopedRefs)
    BY <1>10 DEF ReleaseRun
  <2>4. Detached(t, "idle")
    <3>1. "idle" \in Places
      BY <2>1
    <3> QED
      BY <2>2, <2>3, <3>1, DetachMoves
  <2>5. /\ \/ HoldsSame(t) /\ (scopedRefs) = scopedRefs
           \/ Holds(t) /\ ~Holds(t)' /\ (scopedRefs) = scopedRefs - 1
        /\ \/ ActsSame(t) /\ (actionRefs) = actionRefs
           \/ Acts(t) /\ ~Acts(t)' /\ (actionRefs) = actionRefs - 1
    BY <1>10, <2>4, Counted DEF ReleaseRun, Detached, Moves, Kept, Over, Less, Holds, Acts, HoldsSame, ActsSame
  <2>6. lease = NoLease => ~(FALSE) /\ ~(coOwned)
    BY <1>10, Counted DEF ReleaseRun, LeaseInv, OwnedInv, Unowned, Holds
  <2>7. UNCHANGED <<storevars, routed>>
    BY <1>10 DEF ReleaseRun
  <2> QED
    BY <2>1, <2>2, <2>3, <2>5, <2>6, <2>7, ReleaseLease
<1> QED
  BY <1>1, <1>2, <1>3, <1>4, <1>5, <1>6, <1>7, <1>8, <1>9, <1>10

\* The steps of a pause, of a co-create and of an action.
LEMMA CoCreateLease ==
  ASSUME Owned, use' = use, NEW t \in Threads
  PROVE  /\ AbortCoordinator(t) => LeaseInv'
         /\ PauseForCoCreate(t) => LeaseInv'
         /\ Occupy(t) => LeaseInv'
         /\ TransferToCoCreate(t) => LeaseInv'
         /\ WaitForIdle(t) => LeaseInv'
         /\ Left(t) => LeaseInv'
         /\ LeaveContinue(t) => LeaseInv'
         /\ LeaveFails(t) => LeaseInv'
         /\ LeaveCoCreate(t) => LeaseInv'
         /\ RouteAction(t) => LeaseInv'
         /\ EndAction(t) => LeaseInv'
<1> USE DEF Owned, At, storevars, refvars, lifevars, autovars, runvars, bounds
<1>1. ASSUME AbortCoordinator(t) PROVE LeaseInv'
  <2>1. "idle" \in Places \ {"dropping", "dropped"}
    BY <1>1, OverPlaces DEF Places
  <2>2. Moves(t, "idle", Kept(t, "idle"))
    BY <1>1, <2>1, GotoMoves DEF AbortCoordinator, Ops, Starters, OtherOps
  <2>3. HoldsSame(t) /\ ActsSame(t)
    BY <1>1, <2>2 DEF AbortCoordinator, Moves, Kept, Over, Holds, Acts, HoldsSame, ActsSame
  <2> QED
    BY <1>1, <2>1, <2>2, <2>3, PlainLease DEF AbortCoordinator
<1>2. ASSUME PauseForCoCreate(t) PROVE LeaseInv'
  <2>1. t \in Users
    BY <1>2 DEF PauseForCoCreate, PlaceInv, WatcherPlaced, WatcherOnly, ResumePlaces, Threads
  <2>2. CASE Pause(t)
    BY <1>2, <2>1, <2>2, PauseLease DEF PauseForCoCreate
  <2>3. CASE Goto(t, "idle") /\ UNCHANGED <<storevars, routed, refvars, lifevars, autovars, runvars, bounds>>
    <3>1. "idle" \in Places \ {"dropping", "dropped"}
      BY <1>2, <2>3, OverPlaces DEF Places
    <3>2. Moves(t, "idle", Kept(t, "idle"))
      BY <1>2, <2>3, <3>1, GotoMoves DEF PauseForCoCreate, Ops, Starters, OtherOps
    <3>3. HoldsSame(t) /\ ActsSame(t)
      BY <1>2, <2>3, <3>2 DEF PauseForCoCreate, Moves, Kept, Over, Holds, Acts, HoldsSame, ActsSame
    <3> QED
      BY <1>2, <2>3, <3>1, <3>2, <3>3, PlainLease
  <2> QED
    BY <1>2, <2>2, <2>3 DEF PauseForCoCreate
<1>3. ASSUME Occupy(t) PROVE LeaseInv'
  <2>1. CASE Release(t, "idle")
    <3>1. "idle" \in Places \ {"dropping", "dropped"}
      BY OverPlaces DEF Places
    <3>2. runOwned \in BOOLEAN /\ coOwned \in BOOLEAN /\ actionRefs \in Nat /\ Less(scopedRefs) \in Nat
      BY LessNat DEF TypeInv
    <3>3. Detach(t, "idle", runOwned, coOwned, actionRefs, Less(scopedRefs))
      BY <1>3, <2>1 DEF Occupy, Release
    <3>4. Detached(t, "idle")
      <4>1. "idle" \in Places
        BY <3>1
      <4> QED
        BY <3>2, <3>3, <4>1, DetachMoves
    <3>5. /\ \/ HoldsSame(t) /\ (Less(scopedRefs)) = scopedRefs
             \/ Holds(t) /\ ~Holds(t)' /\ (Less(scopedRefs)) = scopedRefs - 1
          /\ \/ ActsSame(t) /\ (actionRefs) = actionRefs
             \/ Acts(t) /\ ~Acts(t)' /\ (actionRefs) = actionRefs - 1
      BY <1>3, <2>1, <3>4, Counted DEF Occupy, Detached, Moves, Kept, Over, Less, Holds, Acts, HoldsSame, ActsSame
    <3>6. lease = NoLease => ~(runOwned) /\ ~(coOwned)
      BY <1>3, <2>1, Counted DEF Occupy, LeaseInv, OwnedInv, Unowned, Holds
    <3>7. UNCHANGED <<storevars, routed>>
      BY <1>3, <2>1 DEF Occupy
    <3> QED
      BY <3>1, <3>2, <3>3, <3>5, <3>6, <3>7, ReleaseLease
  <2>2. CASE Goto(t, "occupied") /\ UNCHANGED refvars
    <3>1. "occupied" \in Places \ {"dropping", "dropped"}
      BY <1>3, <2>2, OverPlaces DEF Places
    <3>2. Moves(t, "occupied", Kept(t, "occupied"))
      BY <1>3, <2>2, <3>1, GotoMoves DEF Occupy, Ops, Starters, OtherOps
    <3>3. HoldsSame(t) /\ ActsSame(t)
      BY <1>3, <2>2, <3>2 DEF Occupy, Moves, Kept, Over, Holds, Acts, HoldsSame, ActsSame
    <3> QED
      BY <1>3, <2>2, <3>1, <3>2, <3>3, PlainLease DEF Occupy
  <2> QED
    BY <1>3, <2>1, <2>2 DEF Occupy
<1>4. ASSUME TransferToCoCreate(t) PROVE LeaseInv'
  <2>1. CASE my[t].was = "running"
    <3>1. "occupying" \in Places \ {"dropping", "dropped"}
      BY OverPlaces DEF Places
    <3>2. runOwned \in BOOLEAN /\ (coOwned \/ (lease # NoLease /\ scopedRefs > 0)) \in BOOLEAN /\ actionRefs \in Nat /\ Less(scopedRefs) \in Nat
      BY LessNat DEF TypeInv
    <3>3. Detach(t, "occupying", runOwned, (coOwned \/ (lease # NoLease /\ scopedRefs > 0)), actionRefs, Less(scopedRefs))
      BY <1>4, <2>1 DEF TransferToCoCreate
    <3>4. Detached(t, "occupying")
      <4>1. "occupying" \in Places
        BY <3>1
      <4> QED
        BY <3>2, <3>3, <4>1, DetachMoves
    <3>5. /\ \/ HoldsSame(t) /\ (Less(scopedRefs)) = scopedRefs
             \/ Holds(t) /\ ~Holds(t)' /\ (Less(scopedRefs)) = scopedRefs - 1
          /\ \/ ActsSame(t) /\ (actionRefs) = actionRefs
             \/ Acts(t) /\ ~Acts(t)' /\ (actionRefs) = actionRefs - 1
      BY <1>4, <2>1, <3>4, Counted DEF TransferToCoCreate, Detached, Moves, Kept, Over, Less, Holds, Acts,
         HoldsSame, ActsSame
    <3>6. lease = NoLease => ~(runOwned) /\ ~((coOwned \/ (lease # NoLease /\ scopedRefs > 0)))
      BY <1>4, <2>1, Counted DEF TransferToCoCreate, LeaseInv, OwnedInv, Unowned, Holds
    <3>7. UNCHANGED <<storevars, routed>>
      BY <1>4, <2>1 DEF TransferToCoCreate
    <3> QED
      BY <3>1, <3>2, <3>3, <3>5, <3>6, <3>7, ReleaseLease
  <2>2. CASE my[t].was # "running"
    <3>1. "idle" \in Places \ {"dropping", "dropped"}
      BY OverPlaces DEF Places
    <3>2. runOwned \in BOOLEAN /\ (coOwned \/ (lease # NoLease /\ scopedRefs > 0)) \in BOOLEAN /\ actionRefs \in Nat /\ Less(scopedRefs) \in Nat
      BY LessNat DEF TypeInv
    <3>3. Detach(t, "idle", runOwned, (coOwned \/ (lease # NoLease /\ scopedRefs > 0)), actionRefs, Less(scopedRefs))
      BY <1>4, <2>2 DEF TransferToCoCreate
    <3>4. Detached(t, "idle")
      <4>1. "idle" \in Places
        BY <3>1
      <4> QED
        BY <3>2, <3>3, <4>1, DetachMoves
    <3>5. /\ \/ HoldsSame(t) /\ (Less(scopedRefs)) = scopedRefs
             \/ Holds(t) /\ ~Holds(t)' /\ (Less(scopedRefs)) = scopedRefs - 1
          /\ \/ ActsSame(t) /\ (actionRefs) = actionRefs
             \/ Acts(t) /\ ~Acts(t)' /\ (actionRefs) = actionRefs - 1
      BY <1>4, <2>2, <3>4, Counted DEF TransferToCoCreate, Detached, Moves, Kept, Over, Less, Holds, Acts,
         HoldsSame, ActsSame
    <3>6. lease = NoLease => ~(runOwned) /\ ~((coOwned \/ (lease # NoLease /\ scopedRefs > 0)))
      BY <1>4, <2>2, Counted DEF TransferToCoCreate, LeaseInv, OwnedInv, Unowned, Holds
    <3>7. UNCHANGED <<storevars, routed>>
      BY <1>4, <2>2 DEF TransferToCoCreate
    <3> QED
      BY <3>1, <3>2, <3>3, <3>5, <3>6, <3>7, ReleaseLease
  <2> QED
    BY <1>4, <2>1, <2>2 DEF TransferToCoCreate
<1>5. ASSUME WaitForIdle(t) PROVE LeaseInv'
  <2> DEFINE p == IF my[t].op = "resume" THEN "waited" ELSE "gated"
  <2>p. p \in {"waited", "gated"} /\ (p = "waited" => my[t].op = "resume")
    OBVIOUS
  <2>2. Goto(t, p)
    BY <1>5 DEF WaitForIdle
  <2> HIDE DEF p
  <2>1. p \in Places \ {"dropping", "dropped"}
    BY <2>p DEF Places
  <2>m. Moves(t, p, Kept(t, p))
    BY <2>1, <2>2, GotoMoves
  <2>3. HoldsSame(t) /\ ActsSame(t)
    BY <1>5, <2>p, <2>m DEF WaitForIdle, Moves, Holds, Acts, HoldsSame, ActsSame
  <2> QED
    BY <1>5, <2>1, <2>m, <2>3, PlainLease DEF WaitForIdle
<1>6. ASSUME Left(t) PROVE LeaseInv'
  <2>1. CASE Release(t, "idle")
    <3>1. "idle" \in Places \ {"dropping", "dropped"}
      BY OverPlaces DEF Places
    <3>2. runOwned \in BOOLEAN /\ coOwned \in BOOLEAN /\ actionRefs \in Nat /\ Less(scopedRefs) \in Nat
      BY LessNat DEF TypeInv
    <3>3. Detach(t, "idle", runOwned, coOwned, actionRefs, Less(scopedRefs))
      BY <1>6, <2>1 DEF Left, Release
    <3>4. Detached(t, "idle")
      <4>1. "idle" \in Places
        BY <3>1
      <4> QED
        BY <3>2, <3>3, <4>1, DetachMoves
    <3>5. /\ \/ HoldsSame(t) /\ (Less(scopedRefs)) = scopedRefs
             \/ Holds(t) /\ ~Holds(t)' /\ (Less(scopedRefs)) = scopedRefs - 1
          /\ \/ ActsSame(t) /\ (actionRefs) = actionRefs
             \/ Acts(t) /\ ~Acts(t)' /\ (actionRefs) = actionRefs - 1
      BY <1>6, <2>1, <3>4, Counted DEF Left, Detached, Moves, Kept, Over, Less, Holds, Acts, HoldsSame, ActsSame
    <3>6. lease = NoLease => ~(runOwned) /\ ~(coOwned)
      BY <1>6, <2>1, Counted DEF Left, LeaseInv, OwnedInv, Unowned, Holds
    <3>7. UNCHANGED <<storevars, routed>>
      BY <1>6, <2>1 DEF Left
    <3> QED
      BY <3>1, <3>2, <3>3, <3>5, <3>6, <3>7, ReleaseLease
  <2>2. CASE Goto(t, "left") /\ UNCHANGED refvars
    <3>1. "left" \in Places \ {"dropping", "dropped"}
      BY <1>6, <2>2, OverPlaces DEF Places
    <3>2. Moves(t, "left", Kept(t, "left"))
      BY <1>6, <2>2, <3>1, GotoMoves DEF Left, Ops, Starters, OtherOps
    <3>3. HoldsSame(t) /\ ActsSame(t)
      BY <1>6, <2>2, <3>2 DEF Left, Moves, Kept, Over, Holds, Acts, HoldsSame, ActsSame
    <3> QED
      BY <1>6, <2>2, <3>1, <3>2, <3>3, PlainLease DEF Left
  <2>3. CASE Goto(t, "leftCo") /\ UNCHANGED refvars
    <3>1. "leftCo" \in Places \ {"dropping", "dropped"}
      BY <1>6, <2>3, OverPlaces DEF Places
    <3>2. Moves(t, "leftCo", Kept(t, "leftCo"))
      BY <1>6, <2>3, <3>1, GotoMoves DEF Left, Ops, Starters, OtherOps
    <3>3. HoldsSame(t) /\ ActsSame(t)
      BY <1>6, <2>3, <3>2 DEF Left, Moves, Kept, Over, Holds, Acts, HoldsSame, ActsSame
    <3> QED
      BY <1>6, <2>3, <3>1, <3>2, <3>3, PlainLease DEF Left
  <2> QED
    BY <1>6, <2>1, <2>2, <2>3 DEF Left
<1>7. ASSUME LeaveContinue(t) PROVE LeaseInv'
  <2>1. CASE Goto(t, "leftCo")
    <3>1. "leftCo" \in Places \ {"dropping", "dropped"}
      BY <1>7, <2>1, OverPlaces DEF Places
    <3>2. Moves(t, "leftCo", Kept(t, "leftCo"))
      BY <1>7, <2>1, <3>1, GotoMoves DEF LeaveContinue, Ops, Starters, OtherOps
    <3>3. HoldsSame(t) /\ ActsSame(t)
      BY <1>7, <2>1, <3>2 DEF LeaveContinue, Moves, Kept, Over, Holds, Acts, HoldsSame, ActsSame
    <3> QED
      BY <1>7, <2>1, <3>1, <3>2, <3>3, PlainLease DEF LeaveContinue
  <2>2. CASE Goto(t, "prompted")
    <3>1. "prompted" \in Places \ {"dropping", "dropped"}
      BY <1>7, <2>2, OverPlaces DEF Places
    <3>2. Moves(t, "prompted", Kept(t, "prompted"))
      BY <1>7, <2>2, <3>1, GotoMoves DEF LeaveContinue, Ops, Starters, OtherOps
    <3>3. HoldsSame(t) /\ ActsSame(t)
      BY <1>7, <2>2, <3>2 DEF LeaveContinue, Moves, Kept, Over, Holds, Acts, HoldsSame, ActsSame
    <3> QED
      BY <1>7, <2>2, <3>1, <3>2, <3>3, PlainLease DEF LeaveContinue
  <2> QED
    BY <1>7, <2>1, <2>2 DEF LeaveContinue
<1>8. ASSUME LeaveFails(t) PROVE LeaseInv'
  <2>1. "idle" \in Places \ {"dropping", "dropped"}
    BY OverPlaces DEF Places
  <2>2. runOwned \in BOOLEAN /\ coOwned \in BOOLEAN /\ actionRefs \in Nat /\ Less(scopedRefs) \in Nat
    BY LessNat DEF TypeInv
  <2>3. Detach(t, "idle", runOwned, coOwned, actionRefs, Less(scopedRefs))
    BY <1>8 DEF LeaveFails, Release
  <2>4. Detached(t, "idle")
    <3>1. "idle" \in Places
      BY <2>1
    <3> QED
      BY <2>2, <2>3, <3>1, DetachMoves
  <2>5. /\ \/ HoldsSame(t) /\ (Less(scopedRefs)) = scopedRefs
           \/ Holds(t) /\ ~Holds(t)' /\ (Less(scopedRefs)) = scopedRefs - 1
        /\ \/ ActsSame(t) /\ (actionRefs) = actionRefs
           \/ Acts(t) /\ ~Acts(t)' /\ (actionRefs) = actionRefs - 1
    BY <1>8, <2>4, Counted DEF LeaveFails, Detached, Moves, Kept, Over, Less, Holds, Acts, HoldsSame, ActsSame
  <2>6. lease = NoLease => ~(runOwned) /\ ~(coOwned)
    BY <1>8, Counted DEF LeaveFails, LeaseInv, OwnedInv, Unowned, Holds
  <2>7. UNCHANGED <<storevars, routed>>
    BY <1>8 DEF LeaveFails
  <2> QED
    BY <2>1, <2>2, <2>3, <2>5, <2>6, <2>7, ReleaseLease
<1>9. ASSUME LeaveCoCreate(t) PROVE LeaseInv'
  <2>1. "idle" \in Places \ {"dropping", "dropped"}
    BY OverPlaces DEF Places
  <2>2. runOwned \in BOOLEAN /\ FALSE \in BOOLEAN /\ actionRefs \in Nat /\ Less(scopedRefs) \in Nat
    BY LessNat DEF TypeInv
  <2>3. Detach(t, "idle", runOwned, FALSE, actionRefs, Less(scopedRefs))
    BY <1>9 DEF LeaveCoCreate
  <2>4. Detached(t, "idle")
    <3>1. "idle" \in Places
      BY <2>1
    <3> QED
      BY <2>2, <2>3, <3>1, DetachMoves
  <2>5. /\ \/ HoldsSame(t) /\ (Less(scopedRefs)) = scopedRefs
           \/ Holds(t) /\ ~Holds(t)' /\ (Less(scopedRefs)) = scopedRefs - 1
        /\ \/ ActsSame(t) /\ (actionRefs) = actionRefs
           \/ Acts(t) /\ ~Acts(t)' /\ (actionRefs) = actionRefs - 1
    BY <1>9, <2>4, Counted DEF LeaveCoCreate, Detached, Moves, Kept, Over, Less, Holds, Acts, HoldsSame, ActsSame
  <2>6. lease = NoLease => ~(runOwned) /\ ~(FALSE)
    BY <1>9, Counted DEF LeaveCoCreate, LeaseInv, OwnedInv, Unowned, Holds
  <2>7. UNCHANGED <<storevars, routed>>
    BY <1>9 DEF LeaveCoCreate
  <2> QED
    BY <2>1, <2>2, <2>3, <2>5, <2>6, <2>7, ReleaseLease
<1>10. ASSUME RouteAction(t) PROVE LeaseInv'
  <2>1. Moves(t, "acting", Kept(t, "acting"))
    BY <1>10, GotoMoves DEF RouteAction, Places
  <2>2. routed' = lease /\ UNCHANGED <<storevars, refvars>> /\ Acts(t) /\ ~Holds(t)
    BY <1>10 DEF RouteAction, Acts, Holds
  <2>3. HoldsSame(t) /\ ActsSame(t) /\ ~Dropping(t)'
    BY <2>1, <2>2 DEF Moves, Holds, Acts, HoldsSame, ActsSame, Dropping
  <2>4. RefsInv'
    BY <2>1, <2>2, <2>3, RefsMove DEF Moves
  <2>5. OwnedInv'
    BY <2>2 DEF LeaseInv, OwnedInv, Unowned
  <2>6. lease # NoLease
    BY <2>2, Counted DEF LeaseInv, OwnedInv, Unowned
  <2>7. CurrentInv'
    BY <2>1, <2>2, <2>3, <2>6 DEF LeaseInv, CurrentInv, Moves, Dropping
  <2> QED
    BY <2>4, <2>5, <2>7 DEF LeaseInv
<1>11. ASSUME EndAction(t) PROVE LeaseInv'
  <2>1. "idle" \in Places \ {"dropping", "dropped"}
    BY OverPlaces DEF Places
  <2>2. runOwned \in BOOLEAN /\ coOwned \in BOOLEAN /\ Less(actionRefs) \in Nat /\ scopedRefs \in Nat
    BY LessNat DEF TypeInv
  <2>3. Detach(t, "idle", runOwned, coOwned, Less(actionRefs), scopedRefs)
    BY <1>11 DEF EndAction
  <2>4. Detached(t, "idle")
    <3>1. "idle" \in Places
      BY <2>1
    <3> QED
      BY <2>2, <2>3, <3>1, DetachMoves
  <2>5. /\ \/ HoldsSame(t) /\ (scopedRefs) = scopedRefs
           \/ Holds(t) /\ ~Holds(t)' /\ (scopedRefs) = scopedRefs - 1
        /\ \/ ActsSame(t) /\ (Less(actionRefs)) = actionRefs
           \/ Acts(t) /\ ~Acts(t)' /\ (Less(actionRefs)) = actionRefs - 1
    BY <1>11, <2>4, Counted DEF EndAction, Detached, Moves, Kept, Over, Less, Holds, Acts, HoldsSame, ActsSame
  <2>6. lease = NoLease => ~(runOwned) /\ ~(coOwned)
    BY <1>11, Counted DEF EndAction, LeaseInv, OwnedInv, Unowned, Holds
  <2>7. UNCHANGED <<storevars, routed>>
    BY <1>11 DEF EndAction
  <2> QED
    BY <2>1, <2>2, <2>3, <2>5, <2>6, <2>7, ReleaseLease
<1> QED
  BY <1>1, <1>2, <1>3, <1>4, <1>5, <1>6, <1>7, <1>8, <1>9, <1>10, <1>11

\* The steps of a new call.
LEMMA CallLease ==
  ASSUME Owned, use' = use, NEW t \in use.users
  PROVE  /\ (\E o \in Starters : StartPrepared(t, o)) => LeaseInv'
         /\ Resume(t) => LeaseInv'
         /\ ResumeRefused(t) => LeaseInv'
         /\ Abort(t) => LeaseInv'
         /\ StopForReview(t) => LeaseInv'
         /\ Enter(t) => LeaseInv'
         /\ (\E o \in {"leave", "cancel"} : Leave(t, o)) => LeaseInv'
         /\ Mutate(t) => LeaseInv'
         /\ BeginNormalFlowAction(t) => LeaseInv'
<1> USE DEF Owned, At, storevars, refvars, lifevars, autovars, runvars, bounds
<1>a. t \in Users /\ t \in Threads /\ t \notin Watchers
  BY UseTyped, Apart DEF Threads
<1> USE <1>a
<1>1. ASSUME \E o \in Starters : StartPrepared(t, o) PROVE LeaseInv'
  <2>o. PICK o \in Starters : StartPrepared(t, o)
    BY <1>1
  <2>1. "admitted" \in Places \ {"dropping", "dropped"}
    BY <2>o, OverPlaces DEF Places
  <2>2. Moves(t, "admitted", o)
    BY <2>o, <2>1, CallMoves DEF StartPrepared, Ops, Starters, OtherOps
  <2>3. HoldsSame(t) /\ ActsSame(t)
    BY <2>o, <2>2 DEF StartPrepared, Moves, Kept, Over, Holds, Acts, HoldsSame, ActsSame
  <2> QED
    BY <2>o, <2>1, <2>2, <2>3, PlainLease DEF StartPrepared
<1>2. ASSUME Resume(t) PROVE LeaseInv'
  <2>1. "admitted" \in Places \ {"dropping", "dropped"}
    BY <1>2, OverPlaces DEF Places
  <2>2. Moves(t, "admitted", "resume")
    BY <1>2, <2>1, CallMoves DEF Resume, Ops, Starters, OtherOps
  <2>3. HoldsSame(t) /\ ActsSame(t)
    BY <1>2, <2>2 DEF Resume, Moves, Kept, Over, Holds, Acts, HoldsSame, ActsSame
  <2> QED
    BY <1>2, <2>1, <2>2, <2>3, PlainLease DEF Resume
<1>3. ASSUME ResumeRefused(t) PROVE LeaseInv'
  <2>1. UNCHANGED <<my, storevars, routed, refvars>>
    BY <1>3 DEF ResumeRefused
  <2> QED
    BY <2>1, StillLease DEF HoldsSame, ActsSame, Holds, Acts
<1>4. ASSUME Abort(t) PROVE LeaseInv'
  <2> QED
    BY <1>4, PauseLease DEF Abort
<1>5. ASSUME StopForReview(t) PROVE LeaseInv'
  <2>1. "aborting" \in Places \ {"dropping", "dropped"}
    BY <1>5, OverPlaces DEF Places
  <2>2. Moves(t, "aborting", "review")
    BY <1>5, <2>1, OpMoves DEF StopForReview, Ops, Starters, OtherOps
  <2>3. HoldsSame(t) /\ ActsSame(t)
    BY <1>5, <2>2 DEF StopForReview, Moves, Kept, Over, Holds, Acts, HoldsSame, ActsSame
  <2> QED
    BY <1>5, <2>1, <2>2, <2>3, PlainLease DEF StopForReview
<1>6. ASSUME Enter(t) PROVE LeaseInv'
  <2>1. "admitted" \in Places \ {"dropping", "dropped"}
    BY <1>6, OverPlaces DEF Places
  <2>2. Moves(t, "admitted", "enter")
    BY <1>6, <2>1, CallMoves DEF Enter, Ops, Starters, OtherOps
  <2>3. HoldsSame(t) /\ ActsSame(t)
    BY <1>6, <2>2 DEF Enter, Moves, Kept, Over, Holds, Acts, HoldsSame, ActsSame
  <2> QED
    BY <1>6, <2>1, <2>2, <2>3, PlainLease DEF Enter
<1>7. ASSUME \E o \in {"leave", "cancel"} : Leave(t, o) PROVE LeaseInv'
  <2>o. PICK o \in {"leave", "cancel"} : Leave(t, o)
    BY <1>7
  <2>1. "admitted" \in Places \ {"dropping", "dropped"}
    BY <2>o, OverPlaces DEF Places
  <2>2. Moves(t, "admitted", o)
    BY <2>o, <2>1, CallMoves DEF Leave, Ops, Starters, OtherOps
  <2>3. HoldsSame(t) /\ ActsSame(t)
    BY <2>o, <2>2 DEF Leave, Moves, Kept, Over, Holds, Acts, HoldsSame, ActsSame
  <2> QED
    BY <2>o, <2>1, <2>2, <2>3, PlainLease DEF Leave
<1>8. ASSUME Mutate(t) PROVE LeaseInv'
  <2>1. "admitted" \in Places \ {"dropping", "dropped"}
    BY <1>8, OverPlaces DEF Places
  <2>2. Moves(t, "admitted", "mutate")
    BY <1>8, <2>1, CallMoves DEF Mutate, Ops, Starters, OtherOps
  <2>3. HoldsSame(t) /\ ActsSame(t)
    BY <1>8, <2>2 DEF Mutate, Moves, Kept, Over, Holds, Acts, HoldsSame, ActsSame
  <2> QED
    BY <1>8, <2>1, <2>2, <2>3, PlainLease DEF Mutate
<1>9. ASSUME BeginNormalFlowAction(t) PROVE LeaseInv'
  <2>1. ~Holds(t) /\ ~Acts(t) /\ UNCHANGED <<revision, routed, runOwned, coOwned, scopedRefs>>
    BY <1>9 DEF BeginNormalFlowAction, Holds, Acts
  <2>2. CASE /\ my' = [my EXCEPT ![t].at = "acting", ![t].op = "act"]
             /\ lease # NoLease /\ UNCHANGED <<lease, held>> /\ actionRefs' = actionRefs + 1
    <3>1. Moves(t, "acting", "act") /\ "acting" \in Places \ {"dropping", "dropped"}
      BY <2>2, OpMoves DEF Places, Ops, OtherOps
    <3>2. Acts(t)' /\ HoldsSame(t)
      BY <2>1, <3>1 DEF Moves, Holds, Acts, HoldsSame
    <3> QED
      BY <2>1, <2>2, <3>1, <3>2, ShareLease
  <2>3. CASE my' = [my EXCEPT ![t].at = "routing", ![t].op = "act"] /\ LeaseTaken /\ actionRefs' = 1
    <3>1. Moves(t, "routing", "act") /\ "routing" \in Places \ {"dropping", "dropped"}
      BY <2>3, OpMoves DEF Places, Ops, OtherOps
    <3>2. Acts(t)' /\ HoldsSame(t)
      BY <2>1, <3>1 DEF Moves, Holds, Acts, HoldsSame
    <3> QED
      BY <2>1, <2>3, <3>1, <3>2, TakeLease
  <2> QED
    BY <1>9, <2>2, <2>3 DEF BeginNormalFlowAction
<1> QED
  BY <1>1, <1>2, <1>3, <1>4, <1>5, <1>6, <1>7, <1>8, <1>9

\* The steps of the store and of the coordinator.
LEMMA RestLease ==
  ASSUME Owned, Revise \/ Write \/ Stop
  PROVE  LeaseInv'
<1>1. UNCHANGED <<my, routed, refvars>>
  BY DEF Revise, Write, Stop
<1>2. UNCHANGED storevars \/ (held = NoLease /\ held' = held)
  BY DEF Revise, Write, Stop
<1> QED
  BY <1>1, <1>2, StillLease DEF Owned, HoldsSame, ActsSame, Holds, Acts

LEMMA LeaseNext ==
  ASSUME Owned, [Next]_vars
  PROVE  LeaseInv'
<1>1. CASE UNCHANGED vars
  BY <1>1, StillLease DEF Owned, vars, HoldsSame, ActsSame, Holds, Acts, refvars, storevars
<1>2. ASSUME use' = use, NEW t \in Threads, Step(t) PROVE LeaseInv'
  BY <1>2, OwnershipLease, EndLease, StartLease, RunLease, CoCreateLease DEF Step
<1>3. ASSUME use' = use, NEW t \in use.users, NewCall(t) PROVE LeaseInv'
  BY <1>3, CallLease DEF NewCall
<1>4. CASE use' = use /\ (Revise \/ Write \/ Stop)
  BY <1>4, RestLease
<1> QED
  BY <1>1, <1>2, <1>3, <1>4 DEF Next

--------------------------------------------------------------------------------
(* What the runs check *)

LeasedInv == TypeInv /\ PlaceInv /\ LeaseInv

LEMMA InitLeased == Init => LeasedInv
<1> SUFFICES ASSUME Init PROVE LeasedInv
  OBVIOUS
<1>1. Free \in Locals /\ Free.at = "idle" /\ Free.op = "none"
  BY DEF Free, Locals, Places, Ops, Lives
<1>2. \A t \in Threads : my[t] = Free
  BY DEF Init
<1>3. TypeInv
  <2>1. use \in Uses /\ use.starts \in Nat /\ use.repairs \in Nat /\ use.attempts \in Nat
    BY HostAssumption DEF Init, Use
  <2>2. my \in [Threads -> Locals]
    BY <1>1 DEF Init
  <2>3. autoCompleted \in 0..Chapters /\ progress \in Progress
    BY Planned DEF Init
  <2>4. attempts \in 0..use.attempts /\ starts \in 0..use.starts /\ repairs \in 0..use.repairs
    BY <2>1 DEF Init
  <2> QED
    BY <2>1, <2>2, <2>3, <2>4 DEF Init, TypeInv, Lives, Coordinators
<1>4. PlaceInv
  BY <1>1, <1>2 DEF Init, PlaceInv, WatcherPlaced, UserPlaced, Dropping, Threads, WatcherOnly, ResumePlaces,
                    ConfirmPlaces
<1>5. Holders = {} /\ Actors = {}
  BY <1>1, <1>2 DEF Holders, Actors, Holds, Acts
<1>6. RefsInv
  BY <1>5, FS_EmptySet DEF RefsInv, Init
<1>7. OwnedInv
  BY DEF Init, OwnedInv, Unowned
<1>8. CurrentInv
  BY <1>1, <1>2 DEF Init, CurrentInv, Dropping, At
<1> QED
  BY <1>3, <1>4, <1>6, <1>7, <1>8 DEF LeasedInv, LeaseInv

LEMMA LeasedNext ==
  ASSUME LeasedInv, [Next]_vars
  PROVE  LeasedInv'
BY TypedNext, LeaseNext DEF LeasedInv, LeaseInv, Typed, Owned

\* The inductive invariant: the types, the places of the threads, and the
\* counts, the owner and the currency of the lease, through every step.
THEOREM Leased == Spec => []LeasedInv
<1>1. LeasedInv /\ [Next]_vars => LeasedInv'
  BY LeasedNext
<1> QED
  BY <1>1, InitLeased, PTL DEF Spec

\* The types, with the counts bounded by the threads.
THEOREM TypeCorrect == Spec => []TypeOK
<1>1. LeasedInv => TypeOK
  <2> SUFFICES ASSUME LeasedInv PROVE TypeOK
    OBVIOUS
  <2>1. TypeInv /\ PlaceInv /\ RefsInv
    BY DEF LeasedInv, LeaseInv
  <2>2. scopedRefs \in 0..Cardinality(Threads)
    <3>1. Holders \subseteq Threads
      BY DEF Holders
    <3>2. Cardinality(Holders) \in Nat /\ Cardinality(Holders) <= Cardinality(Threads)
      BY <3>1, PartFinite, ThreadsFinite, FS_Subset
    <3> QED
      BY <2>1, <3>2, ThreadsFinite DEF RefsInv
  <2>3. actionRefs \in 0..Cardinality(Users)
    <3>1. Actors \subseteq Users
      BY <2>1 DEF Actors, Acts, Threads, PlaceInv, WatcherPlaced, WatcherOnly, ResumePlaces
    <3>2. Cardinality(Actors) <= Cardinality(Users)
      BY <3>1, HostAssumption, FS_Subset
    <3>3. Actors \subseteq Threads
      BY DEF Actors
    <3>4. Cardinality(Actors) \in Nat /\ Cardinality(Users) \in Nat
      BY <3>3, PartFinite, HostAssumption, FS_CardinalityType
    <3> QED
      BY <2>1, <3>2, <3>4 DEF RefsInv
  <2>4. my \in [Threads -> Locals]
    BY <2>1 DEF TypeInv
  <2> QED
    BY <2>1, <2>2, <2>3, <2>4 DEF TypeOK, TypeInv, Locals, Ops
<1> QED
  BY <1>1, Leased, PTL

\* A lease of the host has an owner: a call, an action, a run or a co-create.
THEOREM LeaseOwned == Spec => []LeaseHasOwner
<1>1. LeasedInv => LeaseHasOwner
  <2> SUFFICES ASSUME LeasedInv PROVE LeaseHasOwner
    OBVIOUS
  <2>1. OwnedInv /\ actionRefs \in Nat /\ scopedRefs \in Nat
    BY DEF LeasedInv, LeaseInv, TypeInv
  <2> QED
    BY <2>1 DEF OwnedInv, Unowned, LeaseHasOwner, Acquirable
<1> QED
  BY <1>1, Leased, PTL

\* The leases of the host and of the router are the store's.
THEOREM LeaseKnown == Spec => []LeaseIsCurrent
<1>1. LeasedInv => LeaseIsCurrent
  BY DEF LeasedInv, LeaseInv, CurrentInv, LeaseIsCurrent
<1> QED
  BY <1>1, Leased, PTL

--------------------------------------------------------------------------------
(* Pauses, and the thread that carries the run *)

RunPlaces == {"starting", "confirming", "spawn", "wait"}
CarryPlaces == {"prompted", "withdrawn", "published", "confirming", "spawn", "wait"}

\* What a step of thread t does to the run that t carries, if it does.
CarriesOn(t) ==
  /\ \A k \in Threads \ {t} : my'[k] = my[k]
  /\ Carries(t)' => Carries(t)
  /\ my'[t].at \in RunPlaces => runOwned' \/ (my[t].at \in RunPlaces /\ runOwned' = runOwned)
  /\ runOwned /\ ~runOwned' => Carries(t)
  /\ coord' = "running" =>
       \/ coord = "running" /\ run' = run /\ (my[t].at \in CarryPlaces => my'[t].at \in CarryPlaces)
       \/ run' = lease /\ lease # NoLease /\ my'[t].at \in CarryPlaces
  /\ lease # NoLease => lease' \in {lease, NoLease}
  /\ starts' = starts

\* ... and to a pause.
KeepsPause(t) ==
  /\ "confirm" \notin use.calls /\ lifecycle' = "paused" => lifecycle = "paused"
  /\ t \in Watchers /\ my'[t].at \in ResumePlaces =>
       \/ my[t].at \in ResumePlaces /\ my'[t].missed = my[t].missed
       \/ lifecycle' # "paused"
  /\ At(t, "prompted") /\ my'[t].at = "published" => Publish(t)

Proceeds(t) == CarriesOn(t) /\ KeepsPause(t)

LEMMA HeldLease ==
  ASSUME LeasedInv, NEW t \in Threads, Holds(t)
  PROVE  lease # NoLease /\ scopedRefs > 0
BY Counted DEF LeasedInv, LeaseInv, OwnedInv, Unowned

\* The steps that start the coordinator.
LEMMA StartProceeds ==
  ASSUME LeasedInv, use' = use, NEW t \in Threads
  PROVE  /\ GatesFail(t) => Proceeds(t)
         /\ OwnerReturns(t) => Proceeds(t)
         /\ ResumeGates(t) => Proceeds(t)
         /\ Prompt(t) => Proceeds(t)
         /\ Publish(t) => Proceeds(t)
         /\ Withdraw(t) => Proceeds(t)
         /\ Transfer(t) => Proceeds(t)
<1> USE DEF LeasedInv, At, storevars, refvars, lifevars, autovars, runvars, bounds
<1>1. ASSUME GatesFail(t) PROVE Proceeds(t)
  <2>1. Over(t, FALSE) \in Places \ {"dropping", "dropped"}
    BY <1>1, OverPlaces DEF Places
  <2>2. Moves(t, Over(t, FALSE), Kept(t, Over(t, FALSE))) /\ (Over(t, FALSE) # "idle" => my'[t].missed = my[t].missed)
    BY <1>1, <2>1, GotoMoves DEF GatesFail, Ops, Starters, OtherOps
  <2>3. CarriesOn(t)
    BY <1>1, <2>2 DEF GatesFail, CarriesOn, Moves, Kept, Over, RunPlaces, CarryPlaces, Carries, Heading, Dropping
  <2>4. KeepsPause(t)
    BY <1>1, <2>2 DEF GatesFail, KeepsPause, Moves, Over, ResumePlaces
  <2> QED
    BY <2>3, <2>4 DEF Proceeds
<1>2. ASSUME OwnerReturns(t) PROVE Proceeds(t)
  <2>1. Over(t, FALSE) \in Places \ {"dropping", "dropped"}
    BY OverPlaces DEF Places
  <2>2. runOwned \in BOOLEAN /\ coOwned \in BOOLEAN /\ actionRefs \in Nat /\ Less(scopedRefs) \in Nat
    BY LessNat DEF TypeInv
  <2>3. Detach(t, Over(t, FALSE), runOwned, coOwned, actionRefs, Less(scopedRefs))
    BY <1>2 DEF OwnerReturns, Release
  <2>4. Detached(t, Over(t, FALSE)) /\ runOwned' = (runOwned)
    <3>1. Over(t, FALSE) \in Places
      BY <2>1
    <3> QED
      BY <2>2, <2>3, <3>1, DetachMoves
  <2>5. CarriesOn(t)
    BY <1>2, <2>1, <2>4, Counted DEF OwnerReturns, CarriesOn, Detached, Moves, Kept, Over, RunPlaces,
       CarryPlaces, Carries, Heading, Dropping
  <2>6. KeepsPause(t)
    BY <1>2, <2>1, <2>4 DEF OwnerReturns, KeepsPause, Detached, Moves, Over, ResumePlaces, PlaceInv, WatcherPlaced
  <2> QED
    BY <2>5, <2>6 DEF Proceeds
<1>3. ASSUME ResumeGates(t) PROVE Proceeds(t)
  <2>1. CASE Detach(t, "gated", FALSE, coOwned, actionRefs, scopedRefs) /\ At(t, "waited")
    <3>1. "gated" \in Places \ {"dropping", "dropped"}
      BY OverPlaces DEF Places
    <3>2. FALSE \in BOOLEAN /\ coOwned \in BOOLEAN /\ actionRefs \in Nat /\ scopedRefs \in Nat
      BY LessNat DEF TypeInv
    <3>3. Detach(t, "gated", FALSE, coOwned, actionRefs, scopedRefs)
      BY <1>3, <2>1 DEF ResumeGates
    <3>4. Detached(t, "gated") /\ runOwned' = (FALSE)
      <4>1. "gated" \in Places
        BY <3>1
      <4> QED
        BY <3>2, <3>3, <4>1, DetachMoves
    <3>5. CarriesOn(t)
      BY <1>3, <2>1, <3>1, <3>4, Counted DEF ResumeGates, CarriesOn, Detached, Moves, Kept, Over, RunPlaces,
         CarryPlaces, Carries, Heading, Dropping, Starters, PlaceInv, UserPlaced, WatcherPlaced, WatcherOnly, ResumePlaces,
         Threads
    <3>6. KeepsPause(t)
      BY <1>3, <2>1, <3>1, <3>4 DEF ResumeGates, KeepsPause, Detached, Moves, Over, ResumePlaces, PlaceInv,
         WatcherPlaced, WatcherOnly
    <3> QED
      BY <3>5, <3>6 DEF Proceeds
  <2>2. CASE Goto(t, "gated") /\ UNCHANGED refvars /\ At(t, "admitted")
    <3>1. "gated" \in Places \ {"dropping", "dropped"}
      BY <1>3, <2>2, OverPlaces DEF Places
    <3>2. Moves(t, "gated", Kept(t, "gated")) /\ ("gated" # "idle" => my'[t].missed = my[t].missed)
      BY <1>3, <2>2, <3>1, GotoMoves DEF ResumeGates, Ops, Starters, OtherOps
    <3>3. CarriesOn(t)
      BY <1>3, <2>2, <3>2 DEF ResumeGates, CarriesOn, Moves, Kept, Over, RunPlaces, CarryPlaces, Carries,
         Heading, Dropping
    <3>4. KeepsPause(t)
      BY <1>3, <2>2, <3>2 DEF ResumeGates, KeepsPause, Moves, Over, ResumePlaces
    <3> QED
      BY <3>3, <3>4 DEF Proceeds
  <2> QED
    BY <1>3, <2>1, <2>2 DEF ResumeGates
<1>4. ASSUME Prompt(t) PROVE Proceeds(t)
  <2>1. CASE Goto(t, "prompted") /\ UNCHANGED refvars
    <3>1. "prompted" \in Places \ {"dropping", "dropped"}
      BY <1>4, <2>1, OverPlaces DEF Places
    <3>2. Moves(t, "prompted", Kept(t, "prompted")) /\ ("prompted" # "idle" => my'[t].missed = my[t].missed)
      BY <1>4, <2>1, <3>1, GotoMoves DEF Prompt, Ops, Starters, OtherOps
    <3>h. lease # NoLease
      BY <1>4, <2>1, HeldLease DEF Prompt, Holds
    <3>3. CarriesOn(t)
      BY <1>4, <2>1, <3>h, <3>2 DEF Prompt, CarriesOn, Moves, Kept, Over, RunPlaces, CarryPlaces, Carries,
         Heading, Dropping
    <3>4. KeepsPause(t)
      BY <1>4, <2>1, <3>2 DEF Prompt, KeepsPause, Moves, Over, ResumePlaces
    <3> QED
      BY <3>3, <3>4 DEF Proceeds
  <2>2. CASE Release(t, Over(t, FALSE)) /\ UNCHANGED <<coord, run>>
    <3>1. Over(t, FALSE) \in Places \ {"dropping", "dropped"}
      BY OverPlaces DEF Places
    <3>2. runOwned \in BOOLEAN /\ coOwned \in BOOLEAN /\ actionRefs \in Nat /\ Less(scopedRefs) \in Nat
      BY LessNat DEF TypeInv
    <3>3. Detach(t, Over(t, FALSE), runOwned, coOwned, actionRefs, Less(scopedRefs))
      BY <1>4, <2>2 DEF Prompt, Release
    <3>4. Detached(t, Over(t, FALSE)) /\ runOwned' = (runOwned)
      <4>1. Over(t, FALSE) \in Places
        BY <3>1
      <4> QED
        BY <3>2, <3>3, <4>1, DetachMoves
    <3>5. CarriesOn(t)
      BY <1>4, <2>2, <3>1, <3>4, Counted DEF Prompt, CarriesOn, Detached, Moves, Kept, Over, RunPlaces,
         CarryPlaces, Carries, Heading, Dropping
    <3>6. KeepsPause(t)
      BY <1>4, <2>2, <3>1, <3>4 DEF Prompt, KeepsPause, Detached, Moves, Over, ResumePlaces, PlaceInv, WatcherPlaced
    <3> QED
      BY <3>5, <3>6 DEF Proceeds
  <2> QED
    BY <1>4, <2>1, <2>2 DEF Prompt
<1>5. ASSUME Publish(t) PROVE Proceeds(t)
  <2>1. CASE Goto(t, "withdrawn") /\ UNCHANGED lifecycle
    <3>1. "withdrawn" \in Places \ {"dropping", "dropped"}
      BY <1>5, <2>1, OverPlaces DEF Places
    <3>2. Moves(t, "withdrawn", Kept(t, "withdrawn")) /\ ("withdrawn" # "idle" => my'[t].missed = my[t].missed)
      BY <1>5, <2>1, <3>1, GotoMoves DEF Publish, Ops, Starters, OtherOps
    <3>3. CarriesOn(t)
      BY <1>5, <2>1, <3>2 DEF Publish, CarriesOn, Moves, Kept, Over, RunPlaces, CarryPlaces, Carries, Heading,
         Dropping
    <3>4. KeepsPause(t)
      BY <1>5, <2>1, <3>2 DEF Publish, KeepsPause, Moves, Over, ResumePlaces
    <3> QED
      BY <3>3, <3>4 DEF Proceeds
  <2>2. CASE Goto(t, "published")
    <3>1. "published" \in Places \ {"dropping", "dropped"}
      BY <1>5, <2>2, OverPlaces DEF Places
    <3>2. Moves(t, "published", Kept(t, "published")) /\ ("published" # "idle" => my'[t].missed = my[t].missed)
      BY <1>5, <2>2, <3>1, GotoMoves DEF Publish, Ops, Starters, OtherOps
    <3>3. CarriesOn(t)
      BY <1>5, <2>2, <3>2 DEF Publish, CarriesOn, Moves, Kept, Over, RunPlaces, CarryPlaces, Carries, Heading,
         Dropping
    <3>4. KeepsPause(t)
      BY <1>5, <2>2, <3>2 DEF Publish, KeepsPause, Moves, Over, ResumePlaces
    <3> QED
      BY <3>3, <3>4 DEF Proceeds
  <2> QED
    BY <1>5, <2>1, <2>2 DEF Publish
<1>6. ASSUME Withdraw(t) PROVE Proceeds(t)
  <2>1. Over(t, FALSE) \in Places \ {"dropping", "dropped"}
    BY OverPlaces DEF Places
  <2>2. runOwned \in BOOLEAN /\ coOwned \in BOOLEAN /\ actionRefs \in Nat /\ Less(scopedRefs) \in Nat
    BY LessNat DEF TypeInv
  <2>3. Detach(t, Over(t, FALSE), runOwned, coOwned, actionRefs, Less(scopedRefs))
    BY <1>6 DEF Withdraw, Release
  <2>4. Detached(t, Over(t, FALSE)) /\ runOwned' = (runOwned)
    <3>1. Over(t, FALSE) \in Places
      BY <2>1
    <3> QED
      BY <2>2, <2>3, <3>1, DetachMoves
  <2>5. CarriesOn(t)
    BY <1>6, <2>1, <2>4, Counted DEF Withdraw, CarriesOn, Detached, Moves, Kept, Over, RunPlaces, CarryPlaces,
       Carries, Heading, Dropping, StopCoordinator
  <2>6. KeepsPause(t)
    BY <1>6, <2>1, <2>4 DEF Withdraw, KeepsPause, Detached, Moves, Over, ResumePlaces, PlaceInv, WatcherPlaced
  <2> QED
    BY <2>5, <2>6 DEF Proceeds
<1>7. ASSUME Transfer(t) PROVE Proceeds(t)
  <2>1. CASE my[t].op = "leave"
    <3>1. "spawn" \in Places \ {"dropping", "dropped"}
      BY OverPlaces DEF Places
    <3>2. TRUE \in BOOLEAN /\ coOwned \in BOOLEAN /\ actionRefs \in Nat /\ scopedRefs \in Nat
      BY LessNat DEF TypeInv
    <3>3. Detach(t, "spawn", TRUE, coOwned, actionRefs, scopedRefs)
      BY <1>7, <2>1 DEF Transfer
    <3>4. Detached(t, "spawn") /\ runOwned' = (TRUE)
      <4>1. "spawn" \in Places
        BY <3>1
      <4> QED
        BY <3>2, <3>3, <4>1, DetachMoves
    <3>d. Moves(t, "spawn", my[t].op) /\ runOwned' /\ lease' = lease
      <4>1. "spawn" \in Places
        BY <3>1
      <4>2. lease # NoLease /\ scopedRefs > 0
        BY <1>7, <2>1, HeldLease DEF Transfer, Holds
      <4>3. runOwned' /\ (lease' = NoLease => Unowned') /\ (lease' # NoLease => lease' = lease)
        BY <3>2, <3>3, <3>4, <4>1, <4>2, DetachMoves
      <4> QED
        BY <3>4, <4>2, <4>3 DEF Detached, Kept, Unowned
    <3>5. CarriesOn(t)
      BY <1>7, <2>1, <3>1, <3>d DEF Transfer, CarriesOn, Moves, Kept, Over, RunPlaces, CarryPlaces, Carries,
         Heading, Dropping
    <3>6. KeepsPause(t)
      BY <1>7, <2>1, <3>1, <3>4 DEF Transfer, KeepsPause, Detached, Moves, Over, ResumePlaces, PlaceInv,
         WatcherPlaced
    <3> QED
      BY <3>5, <3>6 DEF Proceeds
  <2>2. CASE my[t].op # "leave"
    <3>1. "spawn" \in Places \ {"dropping", "dropped"}
      BY OverPlaces DEF Places
    <3>2. (runOwned \/ (lease # NoLease /\ scopedRefs > 0)) \in BOOLEAN /\ coOwned \in BOOLEAN /\ actionRefs \in Nat /\ Less(scopedRefs) \in Nat
      BY LessNat DEF TypeInv
    <3>3. Detach(t, "spawn", (runOwned \/ (lease # NoLease /\ scopedRefs > 0)), coOwned, actionRefs, Less(scopedRefs))
      BY <1>7, <2>2 DEF Transfer, TransferToRun
    <3>4. Detached(t, "spawn") /\ runOwned' = ((runOwned \/ (lease # NoLease /\ scopedRefs > 0)))
      <4>1. "spawn" \in Places
        BY <3>1
      <4> QED
        BY <3>2, <3>3, <4>1, DetachMoves
    <3>d. Moves(t, "spawn", my[t].op) /\ runOwned' /\ lease' = lease
      <4>1. "spawn" \in Places
        BY <3>1
      <4>2. lease # NoLease /\ scopedRefs > 0
        BY <1>7, <2>2, HeldLease DEF Transfer, Holds
      <4>3. runOwned' /\ (lease' = NoLease => Unowned') /\ (lease' # NoLease => lease' = lease)
        BY <3>2, <3>3, <3>4, <4>1, <4>2, DetachMoves
      <4> QED
        BY <3>4, <4>2, <4>3 DEF Detached, Kept, Unowned
    <3>5. CarriesOn(t)
      BY <1>7, <2>2, <3>1, <3>d DEF Transfer, CarriesOn, Moves, Kept, Over, RunPlaces, CarryPlaces, Carries,
         Heading, Dropping
    <3>6. KeepsPause(t)
      BY <1>7, <2>2, <3>1, <3>4 DEF Transfer, KeepsPause, Detached, Moves, Over, ResumePlaces, PlaceInv,
         WatcherPlaced
    <3> QED
      BY <3>5, <3>6 DEF Proceeds
  <2> QED
    BY <1>7, <2>1, <2>2 DEF Transfer
<1> QED
  BY <1>1, <1>2, <1>3, <1>4, <1>5, <1>6, <1>7

\* The steps that take and release the lease.
LEMMA OwnershipProceeds ==
  ASSUME LeasedInv, use' = use, NEW t \in Threads
  PROVE  /\ DropRouter(t) => Proceeds(t)
         /\ DropStore(t) => Proceeds(t)
         /\ Acquire(t) => Proceeds(t)
         /\ BeginStartingRun(t) => Proceeds(t)
<1> USE DEF LeasedInv, At, storevars, refvars, lifevars, autovars, runvars, bounds
<1>1. ASSUME DropRouter(t) PROVE Proceeds(t)
  <2>1. /\ Moves(t, "dropped", my[t].op) /\ my'[t].next = my[t].next
    BY <1>1, AtMoves DEF DropRouter, Places
  <2>2. CarriesOn(t)
    BY <1>1, <2>1 DEF DropRouter, CarriesOn, Moves, RunPlaces, CarryPlaces, Carries, Heading, Dropping
  <2>3. KeepsPause(t)
    BY <1>1, <2>1 DEF DropRouter, KeepsPause, Moves, ResumePlaces
  <2> QED
    BY <2>2, <2>3 DEF Proceeds
<1>2. ASSUME DropStore(t) PROVE Proceeds(t)
  <2> DEFINE p == my[t].next
  <2>1. p \in {"idle", "resumed", "unresumed", "gated", "occupying"} /\ (t \in Watchers => p \in {"idle", "resumed", "unresumed"})
    BY <1>2, Apart DEF DropStore, PlaceInv, WatcherPlaced, UserPlaced, Dropping, Threads
  <2>2. Moves(t, p, Kept(t, p))
    BY <1>2, <2>1, GotoMoves DEF DropStore, Places
  <2>3. Heading(t) = p /\ Heading(t)' = p
    BY <1>2, <2>1, <2>2 DEF DropStore, Heading, Dropping, Moves
  <2> HIDE DEF p
  <2>4. CarriesOn(t)
    BY <1>2, <2>1, <2>2, <2>3 DEF DropStore, CarriesOn, Moves, Kept, RunPlaces, CarryPlaces, Carries
  <2>5. KeepsPause(t)
    BY <1>2, <2>1, <2>2 DEF DropStore, KeepsPause, Moves, ResumePlaces
  <2> QED
    BY <2>4, <2>5 DEF Proceeds
<1>3. ASSUME Acquire(t) PROVE Proceeds(t)
  <2>0. lease # NoLease => lease' \in {lease, NoLease}
    BY <1>3 DEF Acquire, LeaseTaken
  <2>1. CASE Goto(t, "owner")
    <3>1. "owner" \in Places \ {"dropping", "dropped"}
      BY <1>3, <2>1, OverPlaces DEF Places
    <3>2. Moves(t, "owner", Kept(t, "owner")) /\ ("owner" # "idle" => my'[t].missed = my[t].missed)
      BY <1>3, <2>1, <3>1, GotoMoves DEF Acquire, Ops, Starters, OtherOps
    <3>3. CarriesOn(t)
      BY <1>3, <2>1, <3>2, <2>0 DEF Acquire, CarriesOn, Moves, Kept, Over, RunPlaces, CarryPlaces, Carries,
         Heading, Dropping
    <3>4. KeepsPause(t)
      BY <1>3, <2>1, <3>2 DEF Acquire, KeepsPause, Moves, Over, ResumePlaces
    <3> QED
      BY <3>3, <3>4 DEF Proceeds
  <2>2. CASE Goto(t, Over(t, FALSE))
    <3>1. Over(t, FALSE) \in Places \ {"dropping", "dropped"}
      BY <1>3, <2>2, OverPlaces DEF Places
    <3>2. Moves(t, Over(t, FALSE), Kept(t, Over(t, FALSE))) /\ (Over(t, FALSE) # "idle" => my'[t].missed = my[t].missed)
      BY <1>3, <2>2, <3>1, GotoMoves DEF Acquire, Ops, Starters, OtherOps
    <3>3. CarriesOn(t)
      BY <1>3, <2>2, <3>2, <2>0 DEF Acquire, CarriesOn, Moves, Kept, Over, RunPlaces, CarryPlaces, Carries,
         Heading, Dropping
    <3>4. KeepsPause(t)
      BY <1>3, <2>2, <3>2 DEF Acquire, KeepsPause, Moves, Over, ResumePlaces
    <3> QED
      BY <3>3, <3>4 DEF Proceeds
  <2> QED
    BY <1>3, <2>1, <2>2 DEF Acquire
<1>4. ASSUME BeginStartingRun(t) PROVE Proceeds(t)
  <2>1. CASE Release(t, "idle") /\ UNCHANGED lifevars
    <3>1. "idle" \in Places \ {"dropping", "dropped"}
      BY OverPlaces DEF Places
    <3>2. runOwned \in BOOLEAN /\ coOwned \in BOOLEAN /\ actionRefs \in Nat /\ Less(scopedRefs) \in Nat
      BY LessNat DEF TypeInv
    <3>3. Detach(t, "idle", runOwned, coOwned, actionRefs, Less(scopedRefs))
      BY <1>4, <2>1 DEF BeginStartingRun, Release
    <3>4. Detached(t, "idle") /\ runOwned' = (runOwned)
      <4>1. "idle" \in Places
        BY <3>1
      <4> QED
        BY <3>2, <3>3, <4>1, DetachMoves
    <3>5. CarriesOn(t)
      BY <1>4, <2>1, <3>1, <3>4, Counted DEF BeginStartingRun, CarriesOn, Detached, Moves, Kept, Over,
         RunPlaces, CarryPlaces, Carries, Heading, Dropping
    <3>6. KeepsPause(t)
      BY <1>4, <2>1, <3>1, <3>4 DEF BeginStartingRun, KeepsPause, Detached, Moves, Over, ResumePlaces, PlaceInv,
         WatcherPlaced
    <3> QED
      BY <3>5, <3>6 DEF Proceeds
  <2>2. CASE /\ runOwned' = TRUE /\ UNCHANGED lease /\ lifecycle' = "running"
              /\ my' = [my EXCEPT ![t].at = "starting", ![t].was = lifecycle]
    <3>1. Moves(t, "starting", my[t].op)
      BY <1>4, <2>2, StartingMoves
    <3>2. CarriesOn(t)
      BY <1>4, <2>2, <3>1 DEF BeginStartingRun, CarriesOn, Moves, RunPlaces, CarryPlaces, Carries, Heading, Dropping
    <3>3. KeepsPause(t)
      BY <1>4, <2>2, <3>1 DEF BeginStartingRun, KeepsPause, Moves, ResumePlaces
    <3> QED
      BY <3>2, <3>3 DEF Proceeds
  <2> QED
    BY <1>4, <2>1, <2>2 DEF BeginStartingRun
<1> QED
  BY <1>1, <1>2, <1>3, <1>4

\* The steps of a confirmation and of the goroutine that waits for the run.
LEMMA RunProceeds ==
  ASSUME LeasedInv, use' = use, NEW t \in Threads
  PROVE  /\ ConfirmPrompt(t) => Proceeds(t)
         /\ ConfirmPublish(t) => Proceeds(t)
         /\ RollBack(t) => Proceeds(t)
         /\ Wake(t) => Proceeds(t)
         /\ TryRepair(t) => Proceeds(t)
         /\ TryAutoResume(t) => Proceeds(t)
         /\ AutoResume(t) => Proceeds(t)
         /\ AutoResumed(t) => Proceeds(t)
         /\ Terminal(t) => Proceeds(t)
         /\ ReleaseRun(t) => Proceeds(t)
<1> USE DEF LeasedInv, At, storevars, refvars, lifevars, autovars, runvars, bounds
<1>1. ASSUME ConfirmPrompt(t) PROVE Proceeds(t)
  <2>1. CASE Goto(t, "confirming")
    <3>1. "confirming" \in Places \ {"dropping", "dropped"}
      BY <1>1, <2>1, OverPlaces DEF Places
    <3>2. Moves(t, "confirming", Kept(t, "confirming")) /\ ("confirming" # "idle" => my'[t].missed = my[t].missed)
      BY <1>1, <2>1, <3>1, GotoMoves DEF ConfirmPrompt, Ops, Starters, OtherOps
    <3>3. CarriesOn(t)
      BY <1>1, <2>1, <3>2 DEF ConfirmPrompt, CarriesOn, Moves, Kept, Over, RunPlaces, CarryPlaces, Carries,
         Heading, Dropping
    <3>4. KeepsPause(t)
      BY <1>1, <2>1, <3>2 DEF ConfirmPrompt, KeepsPause, Moves, Over, ResumePlaces
    <3> QED
      BY <3>3, <3>4 DEF Proceeds
  <2>2. CASE Goto(t, "unprompted") /\ UNCHANGED <<coord, run>>
    <3>1. "unprompted" \in Places \ {"dropping", "dropped"}
      BY <1>1, <2>2, OverPlaces DEF Places
    <3>2. Moves(t, "unprompted", Kept(t, "unprompted")) /\ ("unprompted" # "idle" => my'[t].missed = my[t].missed)
      BY <1>1, <2>2, <3>1, GotoMoves DEF ConfirmPrompt, Ops, Starters, OtherOps
    <3>3. CarriesOn(t)
      BY <1>1, <2>2, <3>2 DEF ConfirmPrompt, CarriesOn, Moves, Kept, Over, RunPlaces, CarryPlaces, Carries,
         Heading, Dropping
    <3>4. KeepsPause(t)
      BY <1>1, <2>2, <3>2 DEF ConfirmPrompt, KeepsPause, Moves, Over, ResumePlaces
    <3> QED
      BY <3>3, <3>4 DEF Proceeds
  <2> QED
    BY <1>1, <2>1, <2>2 DEF ConfirmPrompt
<1>2. ASSUME ConfirmPublish(t) PROVE Proceeds(t)
  <2>c. t \notin Watchers
    BY <1>2, Apart DEF ConfirmPublish, Threads, PlaceInv, WatcherPlaced, UserPlaced, WatcherOnly, ResumePlaces,
       ConfirmPlaces
  <2>1. CASE Goto(t, "spawn") /\ UNCHANGED coord
    <3>1. "spawn" \in Places \ {"dropping", "dropped"}
      BY <1>2, <2>1, OverPlaces DEF Places
    <3>2. Moves(t, "spawn", Kept(t, "spawn")) /\ ("spawn" # "idle" => my'[t].missed = my[t].missed)
      BY <1>2, <2>1, <3>1, GotoMoves DEF ConfirmPublish, Ops, Starters, OtherOps
    <3>3. CarriesOn(t)
      BY <1>2, <2>c, <2>1, <3>2 DEF ConfirmPublish, CarriesOn, Moves, Kept, Over, RunPlaces, CarryPlaces,
         Carries, Heading, Dropping
    <3>4. KeepsPause(t)
      BY <1>2, <2>c, <2>1, <3>2 DEF ConfirmPublish, KeepsPause, Moves, Over, ResumePlaces
    <3> QED
      BY <3>3, <3>4 DEF Proceeds
  <2>2. CASE Goto(t, "cancelled") /\ StopCoordinator
    <3>1. "cancelled" \in Places \ {"dropping", "dropped"}
      BY <1>2, <2>2, OverPlaces DEF Places
    <3>2. Moves(t, "cancelled", Kept(t, "cancelled")) /\ ("cancelled" # "idle" => my'[t].missed = my[t].missed)
      BY <1>2, <2>2, <3>1, GotoMoves DEF ConfirmPublish, Ops, Starters, OtherOps
    <3>3. CarriesOn(t)
      BY <1>2, <2>c, <2>2, <3>2 DEF ConfirmPublish, CarriesOn, Moves, Kept, Over, RunPlaces, CarryPlaces,
         Carries, Heading, Dropping, StopCoordinator
    <3>4. KeepsPause(t)
      BY <1>2, <2>c, <2>2, <3>2 DEF ConfirmPublish, KeepsPause, Moves, Over, ResumePlaces
    <3> QED
      BY <3>3, <3>4 DEF Proceeds
  <2> QED
    BY <1>2, <2>1, <2>2 DEF ConfirmPublish
<1>3. ASSUME RollBack(t) PROVE Proceeds(t)
  <2>c. t \in Users /\ my[t].op = "confirm" /\ "confirm" \in use.calls
    BY <1>3 DEF RollBack, Threads, PlaceInv, WatcherPlaced, UserPlaced, WatcherOnly, ResumePlaces, ConfirmPlaces
  <2>1. CASE Detach(t, "idle", FALSE, coOwned, actionRefs, scopedRefs)
    <3>1. "idle" \in Places \ {"dropping", "dropped"}
      BY OverPlaces DEF Places
    <3>2. FALSE \in BOOLEAN /\ coOwned \in BOOLEAN /\ actionRefs \in Nat /\ scopedRefs \in Nat
      BY LessNat DEF TypeInv
    <3>3. Detach(t, "idle", FALSE, coOwned, actionRefs, scopedRefs)
      BY <1>3, <2>c, <2>1 DEF RollBack
    <3>4. Detached(t, "idle") /\ runOwned' = (FALSE)
      <4>1. "idle" \in Places
        BY <3>1
      <4> QED
        BY <3>2, <3>3, <4>1, DetachMoves
    <3>5. CarriesOn(t)
      BY <1>3, <2>c, <2>1, <3>1, <3>4, Counted DEF RollBack, CarriesOn, Starters, Detached, Moves, Kept, Over,
         RunPlaces, CarryPlaces, Carries, Heading, Dropping
    <3>6. KeepsPause(t)
      BY <1>3, <2>c, <2>1, <3>1, <3>4 DEF RollBack, KeepsPause, Detached, Moves, Over, ResumePlaces, PlaceInv,
         WatcherPlaced
    <3> QED
      BY <3>5, <3>6 DEF Proceeds
  <2>2. CASE Goto(t, "idle") /\ UNCHANGED <<lifecycle, refvars>>
    <3>1. "idle" \in Places \ {"dropping", "dropped"}
      BY <1>3, <2>c, <2>2, OverPlaces DEF Places
    <3>2. Moves(t, "idle", Kept(t, "idle")) /\ ("idle" # "idle" => my'[t].missed = my[t].missed)
      BY <1>3, <2>c, <2>2, <3>1, GotoMoves DEF RollBack, Ops, Starters, OtherOps
    <3>3. CarriesOn(t)
      BY <1>3, <2>c, <2>2, <3>2 DEF RollBack, CarriesOn, Starters, Moves, Kept, Over, RunPlaces, CarryPlaces,
         Carries, Heading, Dropping
    <3>4. KeepsPause(t)
      BY <1>3, <2>c, <2>2, <3>2 DEF RollBack, KeepsPause, Moves, Over, ResumePlaces
    <3> QED
      BY <3>3, <3>4 DEF Proceeds
  <2> QED
    BY <1>3, <2>c, <2>1, <2>2 DEF RollBack
<1>4. ASSUME Wake(t) PROVE Proceeds(t)
  <2>1. "woke" \in Places \ {"dropping", "dropped"}
    BY <1>4, OverPlaces DEF Places
  <2>2. Moves(t, "woke", Kept(t, "woke")) /\ ("woke" # "idle" => my'[t].missed = my[t].missed)
    BY <1>4, <2>1, GotoMoves DEF Wake, Ops, Starters, OtherOps
  <2>3. CarriesOn(t)
    BY <1>4, <2>2 DEF Wake, CarriesOn, Moves, Kept, Over, RunPlaces, CarryPlaces, Carries, Heading, Dropping
  <2>4. KeepsPause(t)
    BY <1>4, <2>2 DEF Wake, KeepsPause, Moves, Over, ResumePlaces
  <2> QED
    BY <2>3, <2>4 DEF Proceeds
<1>5. ASSUME TryRepair(t) PROVE Proceeds(t)
  <2>c. t \in Watchers
    BY <1>5, Apart DEF TryRepair, Threads, PlaceInv, WatcherPlaced, UserPlaced, WatcherOnly, ResumePlaces,
       ConfirmPlaces
  <2>1. "retry" \in Places \ {"dropping", "dropped"}
    BY <1>5, OverPlaces DEF Places
  <2>2. Moves(t, "retry", "repair")
    BY <1>5, <2>1, OpMoves DEF TryRepair, Ops, Starters, OtherOps
  <2>3. CarriesOn(t)
    BY <1>5, <2>c, <2>2 DEF TryRepair, CarriesOn, Moves, Kept, Over, RunPlaces, CarryPlaces, Carries, Heading,
       Dropping
  <2>4. KeepsPause(t)
    BY <1>5, <2>c, <2>2 DEF TryRepair, KeepsPause, Moves, Over, ResumePlaces
  <2> QED
    BY <2>3, <2>4 DEF Proceeds
<1>6. ASSUME TryAutoResume(t) PROVE Proceeds(t)
  <2>c. t \in Watchers
    BY <1>6, Apart DEF TryAutoResume, Threads, PlaceInv, WatcherPlaced, UserPlaced, WatcherOnly, ResumePlaces,
       ConfirmPlaces
  <2>1. CASE my' = [my EXCEPT ![t].at = "retry", ![t].op = "auto"]
    <3>1. "retry" \in Places \ {"dropping", "dropped"}
      BY <1>6, <2>1, OverPlaces DEF Places
    <3>2. Moves(t, "retry", "auto")
      BY <1>6, <2>1, <3>1, OpMoves DEF TryAutoResume, Ops, Starters, OtherOps
    <3>3. CarriesOn(t)
      BY <1>6, <2>c, <2>1, <3>2 DEF TryAutoResume, CarriesOn, Moves, Kept, Over, RunPlaces, CarryPlaces,
         Carries, Heading, Dropping
    <3>4. KeepsPause(t)
      BY <1>6, <2>c, <2>1, <3>2 DEF TryAutoResume, KeepsPause, Moves, Over, ResumePlaces
    <3> QED
      BY <3>3, <3>4 DEF Proceeds
  <2>2. CASE Goto(t, "terminal")
    <3>1. "terminal" \in Places \ {"dropping", "dropped"}
      BY <1>6, <2>2, OverPlaces DEF Places
    <3>2. Moves(t, "terminal", Kept(t, "terminal")) /\ ("terminal" # "idle" => my'[t].missed = my[t].missed)
      BY <1>6, <2>2, <3>1, GotoMoves DEF TryAutoResume, Ops, Starters, OtherOps
    <3>3. CarriesOn(t)
      BY <1>6, <2>c, <2>2, <3>2 DEF TryAutoResume, CarriesOn, Moves, Kept, Over, RunPlaces, CarryPlaces,
         Carries, Heading, Dropping
    <3>4. KeepsPause(t)
      BY <1>6, <2>c, <2>2, <3>2 DEF TryAutoResume, KeepsPause, Moves, Over, ResumePlaces
    <3> QED
      BY <3>3, <3>4 DEF Proceeds
  <2> QED
    BY <1>6, <2>1, <2>2 DEF TryAutoResume
<1>7. ASSUME AutoResume(t) PROVE Proceeds(t)
  <2>1. CASE Goto(t, "unresumed")
    <3>1. "unresumed" \in Places \ {"dropping", "dropped"}
      BY <1>7, <2>1, OverPlaces DEF Places
    <3>2. Moves(t, "unresumed", Kept(t, "unresumed")) /\ ("unresumed" # "idle" => my'[t].missed = my[t].missed)
      BY <1>7, <2>1, <3>1, GotoMoves DEF AutoResume, Ops, Starters, OtherOps
    <3>3. CarriesOn(t)
      BY <1>7, <2>1, <3>2 DEF AutoResume, CarriesOn, Moves, Kept, Over, RunPlaces, CarryPlaces, Carries,
         Heading, Dropping
    <3>4. KeepsPause(t)
      BY <1>7, <2>1, <3>2 DEF AutoResume, KeepsPause, Moves, Over, ResumePlaces
    <3> QED
      BY <3>3, <3>4 DEF Proceeds
  <2>2. CASE my' = [my EXCEPT ![t].at = "admitted", ![t].missed = FALSE] /\ lifecycle # "paused"
    <3>1. "admitted" \in Places \ {"dropping", "dropped"}
      BY <1>7, <2>2, OverPlaces DEF Places
    <3>2. Moves(t, "admitted", my[t].op)
      BY <1>7, <2>2, <3>1, ReadmitMoves DEF AutoResume, Ops, Starters, OtherOps
    <3>3. CarriesOn(t)
      BY <1>7, <2>2, <3>2 DEF AutoResume, CarriesOn, Moves, Kept, Over, RunPlaces, CarryPlaces, Carries,
         Heading, Dropping
    <3>4. KeepsPause(t)
      BY <1>7, <2>2, <3>2 DEF AutoResume, KeepsPause, Moves, Over, ResumePlaces
    <3> QED
      BY <3>3, <3>4 DEF Proceeds
  <2> QED
    BY <1>7, <2>1, <2>2 DEF AutoResume
<1>8. ASSUME AutoResumed(t) PROVE Proceeds(t)
  <2>1. CASE Goto(t, "idle") /\ At(t, "resumed")
    <3>1. "idle" \in Places \ {"dropping", "dropped"}
      BY <1>8, <2>1, OverPlaces DEF Places
    <3>2. Moves(t, "idle", Kept(t, "idle")) /\ ("idle" # "idle" => my'[t].missed = my[t].missed)
      BY <1>8, <2>1, <3>1, GotoMoves DEF AutoResumed, Ops, Starters, OtherOps
    <3>3. CarriesOn(t)
      BY <1>8, <2>1, <3>2 DEF AutoResumed, CarriesOn, Moves, Kept, Over, RunPlaces, CarryPlaces, Carries,
         Heading, Dropping
    <3>4. KeepsPause(t)
      BY <1>8, <2>1, <3>2 DEF AutoResumed, KeepsPause, Moves, Over, ResumePlaces
    <3> QED
      BY <3>3, <3>4 DEF Proceeds
  <2>2. CASE Goto(t, "terminal") /\ ~At(t, "resumed")
    <3>1. "terminal" \in Places \ {"dropping", "dropped"}
      BY <1>8, <2>2, OverPlaces DEF Places
    <3>2. Moves(t, "terminal", Kept(t, "terminal")) /\ ("terminal" # "idle" => my'[t].missed = my[t].missed)
      BY <1>8, <2>2, <3>1, GotoMoves DEF AutoResumed, Ops, Starters, OtherOps
    <3>3. CarriesOn(t)
      BY <1>8, <2>2, <3>2 DEF AutoResumed, CarriesOn, Moves, Kept, Over, RunPlaces, CarryPlaces, Carries,
         Heading, Dropping
    <3>4. KeepsPause(t)
      BY <1>8, <2>2, <3>2 DEF AutoResumed, KeepsPause, Moves, Over, ResumePlaces
    <3> QED
      BY <3>3, <3>4 DEF Proceeds
  <2>3. CASE Goto(t, "unrepaired") /\ ~At(t, "resumed")
    <3>1. "unrepaired" \in Places \ {"dropping", "dropped"}
      BY <1>8, <2>3, OverPlaces DEF Places
    <3>2. Moves(t, "unrepaired", Kept(t, "unrepaired")) /\ ("unrepaired" # "idle" => my'[t].missed = my[t].missed)
      BY <1>8, <2>3, <3>1, GotoMoves DEF AutoResumed, Ops, Starters, OtherOps
    <3>3. CarriesOn(t)
      BY <1>8, <2>3, <3>2 DEF AutoResumed, CarriesOn, Moves, Kept, Over, RunPlaces, CarryPlaces, Carries,
         Heading, Dropping
    <3>4. KeepsPause(t)
      BY <1>8, <2>3, <3>2 DEF AutoResumed, KeepsPause, Moves, Over, ResumePlaces
    <3> QED
      BY <3>3, <3>4 DEF Proceeds
  <2> QED
    BY <1>8, <2>1, <2>2, <2>3 DEF AutoResumed
<1>9. ASSUME Terminal(t) PROVE Proceeds(t)
  <2>1. "ending" \in Places \ {"dropping", "dropped"}
    BY <1>9, OverPlaces DEF Places
  <2>2. Moves(t, "ending", Kept(t, "ending")) /\ ("ending" # "idle" => my'[t].missed = my[t].missed)
    BY <1>9, <2>1, GotoMoves DEF Terminal, Ops, Starters, OtherOps
  <2>3. CarriesOn(t)
    BY <1>9, <2>2 DEF Terminal, CarriesOn, Moves, Kept, Over, RunPlaces, CarryPlaces, Carries, Heading, Dropping
  <2>4. KeepsPause(t)
    BY <1>9, <2>2 DEF Terminal, KeepsPause, Moves, Over, ResumePlaces
  <2> QED
    BY <2>3, <2>4 DEF Proceeds
<1>10. ASSUME ReleaseRun(t) PROVE Proceeds(t)
  <2>c. t \in Watchers
    BY <1>10, Apart DEF ReleaseRun, Threads, PlaceInv, WatcherPlaced, UserPlaced, WatcherOnly, ResumePlaces,
       ConfirmPlaces
  <2>1. "idle" \in Places \ {"dropping", "dropped"}
    BY OverPlaces DEF Places
  <2>2. FALSE \in BOOLEAN /\ coOwned \in BOOLEAN /\ actionRefs \in Nat /\ scopedRefs \in Nat
    BY LessNat DEF TypeInv
  <2>3. Detach(t, "idle", FALSE, coOwned, actionRefs, scopedRefs)
    BY <1>10 DEF ReleaseRun
  <2>4. Detached(t, "idle") /\ runOwned' = (FALSE)
    <3>1. "idle" \in Places
      BY <2>1
    <3> QED
      BY <2>2, <2>3, <3>1, DetachMoves
  <2>5. CarriesOn(t)
    BY <1>10, <2>c, <2>1, <2>4, Counted DEF ReleaseRun, CarriesOn, Detached, Moves, Kept, Over, RunPlaces,
       CarryPlaces, Carries, Heading, Dropping
  <2>6. KeepsPause(t)
    BY <1>10, <2>c, <2>1, <2>4 DEF ReleaseRun, KeepsPause, Detached, Moves, Over, ResumePlaces, PlaceInv,
       WatcherPlaced
  <2> QED
    BY <2>5, <2>6 DEF Proceeds
<1> QED
  BY <1>1, <1>2, <1>3, <1>4, <1>5, <1>6, <1>7, <1>8, <1>9, <1>10

\* The steps of a co-create and of an action.
LEMMA CoCreateProceeds ==
  ASSUME LeasedInv, use' = use, NEW t \in Threads
  PROVE  /\ AbortCoordinator(t) => Proceeds(t)
         /\ Occupy(t) => Proceeds(t)
         /\ TransferToCoCreate(t) => Proceeds(t)
         /\ WaitForIdle(t) => Proceeds(t)
         /\ Left(t) => Proceeds(t)
         /\ LeaveContinue(t) => Proceeds(t)
         /\ LeaveFails(t) => Proceeds(t)
         /\ LeaveCoCreate(t) => Proceeds(t)
         /\ RouteAction(t) => Proceeds(t)
         /\ EndAction(t) => Proceeds(t)
<1> USE DEF LeasedInv, At, storevars, refvars, lifevars, autovars, runvars, bounds
<1>1. ASSUME AbortCoordinator(t) PROVE Proceeds(t)
  <2>1. "idle" \in Places \ {"dropping", "dropped"}
    BY <1>1, OverPlaces DEF Places
  <2>2. Moves(t, "idle", Kept(t, "idle")) /\ ("idle" # "idle" => my'[t].missed = my[t].missed)
    BY <1>1, <2>1, GotoMoves DEF AbortCoordinator, Ops, Starters, OtherOps
  <2>3. CarriesOn(t)
    BY <1>1, <2>2 DEF AbortCoordinator, CarriesOn, Moves, Kept, Over, RunPlaces, CarryPlaces, Carries, Heading,
       Dropping, StopCoordinator
  <2>4. KeepsPause(t)
    BY <1>1, <2>2 DEF AbortCoordinator, KeepsPause, Moves, Over, ResumePlaces
  <2> QED
    BY <2>3, <2>4 DEF Proceeds
<1>2. ASSUME Occupy(t) PROVE Proceeds(t)
  <2>1. CASE Release(t, "idle")
    <3>1. "idle" \in Places \ {"dropping", "dropped"}
      BY OverPlaces DEF Places
    <3>2. runOwned \in BOOLEAN /\ coOwned \in BOOLEAN /\ actionRefs \in Nat /\ Less(scopedRefs) \in Nat
      BY LessNat DEF TypeInv
    <3>3. Detach(t, "idle", runOwned, coOwned, actionRefs, Less(scopedRefs))
      BY <1>2, <2>1 DEF Occupy, Release
    <3>4. Detached(t, "idle") /\ runOwned' = (runOwned)
      <4>1. "idle" \in Places
        BY <3>1
      <4> QED
        BY <3>2, <3>3, <4>1, DetachMoves
    <3>5. CarriesOn(t)
      BY <1>2, <2>1, <3>1, <3>4, Counted DEF Occupy, CarriesOn, Detached, Moves, Kept, Over, RunPlaces,
         CarryPlaces, Carries, Heading, Dropping
    <3>6. KeepsPause(t)
      BY <1>2, <2>1, <3>1, <3>4 DEF Occupy, KeepsPause, Detached, Moves, Over, ResumePlaces, PlaceInv, WatcherPlaced
    <3> QED
      BY <3>5, <3>6 DEF Proceeds
  <2>2. CASE Goto(t, "occupied") /\ UNCHANGED refvars
    <3>1. "occupied" \in Places \ {"dropping", "dropped"}
      BY <1>2, <2>2, OverPlaces DEF Places
    <3>2. Moves(t, "occupied", Kept(t, "occupied")) /\ ("occupied" # "idle" => my'[t].missed = my[t].missed)
      BY <1>2, <2>2, <3>1, GotoMoves DEF Occupy, Ops, Starters, OtherOps
    <3>3. CarriesOn(t)
      BY <1>2, <2>2, <3>2 DEF Occupy, CarriesOn, Moves, Kept, Over, RunPlaces, CarryPlaces, Carries, Heading,
         Dropping
    <3>4. KeepsPause(t)
      BY <1>2, <2>2, <3>2 DEF Occupy, KeepsPause, Moves, Over, ResumePlaces
    <3> QED
      BY <3>3, <3>4 DEF Proceeds
  <2> QED
    BY <1>2, <2>1, <2>2 DEF Occupy
<1>3. ASSUME TransferToCoCreate(t) PROVE Proceeds(t)
  <2>1. CASE my[t].was = "running"
    <3>1. "occupying" \in Places \ {"dropping", "dropped"}
      BY OverPlaces DEF Places
    <3>2. runOwned \in BOOLEAN /\ (coOwned \/ (lease # NoLease /\ scopedRefs > 0)) \in BOOLEAN /\ actionRefs \in Nat /\ Less(scopedRefs) \in Nat
      BY LessNat DEF TypeInv
    <3>3. Detach(t, "occupying", runOwned, (coOwned \/ (lease # NoLease /\ scopedRefs > 0)), actionRefs, Less(scopedRefs))
      BY <1>3, <2>1 DEF TransferToCoCreate
    <3>4. Detached(t, "occupying") /\ runOwned' = (runOwned)
      <4>1. "occupying" \in Places
        BY <3>1
      <4> QED
        BY <3>2, <3>3, <4>1, DetachMoves
    <3>5. CarriesOn(t)
      BY <1>3, <2>1, <3>1, <3>4, Counted DEF TransferToCoCreate, CarriesOn, Detached, Moves, Kept, Over,
         RunPlaces, CarryPlaces, Carries, Heading, Dropping
    <3>6. KeepsPause(t)
      BY <1>3, <2>1, <3>1, <3>4 DEF TransferToCoCreate, KeepsPause, Detached, Moves, Over, ResumePlaces,
         PlaceInv, WatcherPlaced
    <3> QED
      BY <3>5, <3>6 DEF Proceeds
  <2>2. CASE my[t].was # "running"
    <3>1. "idle" \in Places \ {"dropping", "dropped"}
      BY OverPlaces DEF Places
    <3>2. runOwned \in BOOLEAN /\ (coOwned \/ (lease # NoLease /\ scopedRefs > 0)) \in BOOLEAN /\ actionRefs \in Nat /\ Less(scopedRefs) \in Nat
      BY LessNat DEF TypeInv
    <3>3. Detach(t, "idle", runOwned, (coOwned \/ (lease # NoLease /\ scopedRefs > 0)), actionRefs, Less(scopedRefs))
      BY <1>3, <2>2 DEF TransferToCoCreate
    <3>4. Detached(t, "idle") /\ runOwned' = (runOwned)
      <4>1. "idle" \in Places
        BY <3>1
      <4> QED
        BY <3>2, <3>3, <4>1, DetachMoves
    <3>5. CarriesOn(t)
      BY <1>3, <2>2, <3>1, <3>4, Counted DEF TransferToCoCreate, CarriesOn, Detached, Moves, Kept, Over,
         RunPlaces, CarryPlaces, Carries, Heading, Dropping
    <3>6. KeepsPause(t)
      BY <1>3, <2>2, <3>1, <3>4 DEF TransferToCoCreate, KeepsPause, Detached, Moves, Over, ResumePlaces,
         PlaceInv, WatcherPlaced
    <3> QED
      BY <3>5, <3>6 DEF Proceeds
  <2> QED
    BY <1>3, <2>1, <2>2 DEF TransferToCoCreate
<1>4. ASSUME WaitForIdle(t) PROVE Proceeds(t)
  <2> DEFINE p == IF my[t].op = "resume" THEN "waited" ELSE "gated"
  <2>p. p \in {"waited", "gated"} /\ (p = "waited" => my[t].op = "resume")
    OBVIOUS
  <2>2. Goto(t, p)
    BY <1>4 DEF WaitForIdle
  <2> HIDE DEF p
  <2>1. p \in Places /\ p # "idle"
    BY <2>p DEF Places
  <2>m. Moves(t, p, my[t].op) /\ my'[t].missed = my[t].missed
    BY <2>1, <2>2, GotoMoves DEF Kept
  <2>3. CarriesOn(t)
    BY <1>4, <2>p, <2>m DEF WaitForIdle, CarriesOn, Moves, RunPlaces, CarryPlaces, Carries, Heading, Dropping
  <2>4. KeepsPause(t)
    BY <1>4, <2>p, <2>m DEF WaitForIdle, KeepsPause, Moves, ResumePlaces
  <2> QED
    BY <2>3, <2>4 DEF Proceeds
<1>5. ASSUME Left(t) PROVE Proceeds(t)
  <2>1. CASE Release(t, "idle")
    <3>1. "idle" \in Places \ {"dropping", "dropped"}
      BY OverPlaces DEF Places
    <3>2. runOwned \in BOOLEAN /\ coOwned \in BOOLEAN /\ actionRefs \in Nat /\ Less(scopedRefs) \in Nat
      BY LessNat DEF TypeInv
    <3>3. Detach(t, "idle", runOwned, coOwned, actionRefs, Less(scopedRefs))
      BY <1>5, <2>1 DEF Left, Release
    <3>4. Detached(t, "idle") /\ runOwned' = (runOwned)
      <4>1. "idle" \in Places
        BY <3>1
      <4> QED
        BY <3>2, <3>3, <4>1, DetachMoves
    <3>5. CarriesOn(t)
      BY <1>5, <2>1, <3>1, <3>4, Counted DEF Left, CarriesOn, Detached, Moves, Kept, Over, RunPlaces,
         CarryPlaces, Carries, Heading, Dropping
    <3>6. KeepsPause(t)
      BY <1>5, <2>1, <3>1, <3>4 DEF Left, KeepsPause, Detached, Moves, Over, ResumePlaces, PlaceInv, WatcherPlaced
    <3> QED
      BY <3>5, <3>6 DEF Proceeds
  <2>2. CASE Goto(t, "left") /\ UNCHANGED refvars
    <3>1. "left" \in Places \ {"dropping", "dropped"}
      BY <1>5, <2>2, OverPlaces DEF Places
    <3>2. Moves(t, "left", Kept(t, "left")) /\ ("left" # "idle" => my'[t].missed = my[t].missed)
      BY <1>5, <2>2, <3>1, GotoMoves DEF Left, Ops, Starters, OtherOps
    <3>3. CarriesOn(t)
      BY <1>5, <2>2, <3>2 DEF Left, CarriesOn, Moves, Kept, Over, RunPlaces, CarryPlaces, Carries, Heading, Dropping
    <3>4. KeepsPause(t)
      BY <1>5, <2>2, <3>2 DEF Left, KeepsPause, Moves, Over, ResumePlaces
    <3> QED
      BY <3>3, <3>4 DEF Proceeds
  <2>3. CASE Goto(t, "leftCo") /\ UNCHANGED refvars
    <3>1. "leftCo" \in Places \ {"dropping", "dropped"}
      BY <1>5, <2>3, OverPlaces DEF Places
    <3>2. Moves(t, "leftCo", Kept(t, "leftCo")) /\ ("leftCo" # "idle" => my'[t].missed = my[t].missed)
      BY <1>5, <2>3, <3>1, GotoMoves DEF Left, Ops, Starters, OtherOps
    <3>3. CarriesOn(t)
      BY <1>5, <2>3, <3>2 DEF Left, CarriesOn, Moves, Kept, Over, RunPlaces, CarryPlaces, Carries, Heading, Dropping
    <3>4. KeepsPause(t)
      BY <1>5, <2>3, <3>2 DEF Left, KeepsPause, Moves, Over, ResumePlaces
    <3> QED
      BY <3>3, <3>4 DEF Proceeds
  <2> QED
    BY <1>5, <2>1, <2>2, <2>3 DEF Left
<1>6. ASSUME LeaveContinue(t) PROVE Proceeds(t)
  <2>c. t \notin Watchers
    BY <1>6, Apart DEF LeaveContinue, Threads, PlaceInv, WatcherPlaced, UserPlaced, WatcherOnly, ResumePlaces,
       ConfirmPlaces
  <2>1. CASE Goto(t, "leftCo") /\ UNCHANGED <<coord, run>>
    <3>1. "leftCo" \in Places \ {"dropping", "dropped"}
      BY <1>6, <2>1, OverPlaces DEF Places
    <3>2. Moves(t, "leftCo", Kept(t, "leftCo")) /\ ("leftCo" # "idle" => my'[t].missed = my[t].missed)
      BY <1>6, <2>1, <3>1, GotoMoves DEF LeaveContinue, Ops, Starters, OtherOps
    <3>3. CarriesOn(t)
      BY <1>6, <2>c, <2>1, <3>2 DEF LeaveContinue, CarriesOn, Moves, Kept, Over, RunPlaces, CarryPlaces,
         Carries, Heading, Dropping
    <3>4. KeepsPause(t)
      BY <1>6, <2>c, <2>1, <3>2 DEF LeaveContinue, KeepsPause, Moves, Over, ResumePlaces
    <3> QED
      BY <3>3, <3>4 DEF Proceeds
  <2>2. CASE Goto(t, "prompted")
    <3>1. "prompted" \in Places \ {"dropping", "dropped"}
      BY <1>6, <2>2, OverPlaces DEF Places
    <3>2. Moves(t, "prompted", Kept(t, "prompted")) /\ ("prompted" # "idle" => my'[t].missed = my[t].missed)
      BY <1>6, <2>2, <3>1, GotoMoves DEF LeaveContinue, Ops, Starters, OtherOps
    <3>h. lease # NoLease
      BY <1>6, <2>2, HeldLease DEF LeaveContinue, Holds
    <3>3. CarriesOn(t)
      BY <1>6, <2>c, <2>2, <3>h, <3>2 DEF LeaveContinue, CarriesOn, Moves, Kept, Over, RunPlaces, CarryPlaces,
         Carries, Heading, Dropping
    <3>4. KeepsPause(t)
      BY <1>6, <2>c, <2>2, <3>2 DEF LeaveContinue, KeepsPause, Moves, Over, ResumePlaces
    <3> QED
      BY <3>3, <3>4 DEF Proceeds
  <2> QED
    BY <1>6, <2>1, <2>2 DEF LeaveContinue
<1>7. ASSUME LeaveFails(t) PROVE Proceeds(t)
  <2>1. "idle" \in Places \ {"dropping", "dropped"}
    BY OverPlaces DEF Places
  <2>2. runOwned \in BOOLEAN /\ coOwned \in BOOLEAN /\ actionRefs \in Nat /\ Less(scopedRefs) \in Nat
    BY LessNat DEF TypeInv
  <2>3. Detach(t, "idle", runOwned, coOwned, actionRefs, Less(scopedRefs))
    BY <1>7 DEF LeaveFails, Release
  <2>4. Detached(t, "idle") /\ runOwned' = (runOwned)
    <3>1. "idle" \in Places
      BY <2>1
    <3> QED
      BY <2>2, <2>3, <3>1, DetachMoves
  <2>5. CarriesOn(t)
    BY <1>7, <2>1, <2>4, Counted DEF LeaveFails, CarriesOn, Detached, Moves, Kept, Over, RunPlaces, CarryPlaces,
       Carries, Heading, Dropping
  <2>6. KeepsPause(t)
    BY <1>7, <2>1, <2>4 DEF LeaveFails, KeepsPause, Detached, Moves, Over, ResumePlaces, PlaceInv, WatcherPlaced
  <2> QED
    BY <2>5, <2>6 DEF Proceeds
<1>8. ASSUME LeaveCoCreate(t) PROVE Proceeds(t)
  <2>1. "idle" \in Places \ {"dropping", "dropped"}
    BY OverPlaces DEF Places
  <2>2. runOwned \in BOOLEAN /\ FALSE \in BOOLEAN /\ actionRefs \in Nat /\ Less(scopedRefs) \in Nat
    BY LessNat DEF TypeInv
  <2>3. Detach(t, "idle", runOwned, FALSE, actionRefs, Less(scopedRefs))
    BY <1>8 DEF LeaveCoCreate
  <2>4. Detached(t, "idle") /\ runOwned' = (runOwned)
    <3>1. "idle" \in Places
      BY <2>1
    <3> QED
      BY <2>2, <2>3, <3>1, DetachMoves
  <2>5. CarriesOn(t)
    BY <1>8, <2>1, <2>4, Counted DEF LeaveCoCreate, CarriesOn, Detached, Moves, Kept, Over, RunPlaces,
       CarryPlaces, Carries, Heading, Dropping
  <2>6. KeepsPause(t)
    BY <1>8, <2>1, <2>4 DEF LeaveCoCreate, KeepsPause, Detached, Moves, Over, ResumePlaces, PlaceInv, WatcherPlaced
  <2> QED
    BY <2>5, <2>6 DEF Proceeds
<1>9. ASSUME RouteAction(t) PROVE Proceeds(t)
  <2>1. "acting" \in Places \ {"dropping", "dropped"}
    BY <1>9, OverPlaces DEF Places
  <2>2. Moves(t, "acting", Kept(t, "acting")) /\ ("acting" # "idle" => my'[t].missed = my[t].missed)
    BY <1>9, <2>1, GotoMoves DEF RouteAction, Ops, Starters, OtherOps
  <2>3. CarriesOn(t)
    BY <1>9, <2>2 DEF RouteAction, CarriesOn, Moves, Kept, Over, RunPlaces, CarryPlaces, Carries, Heading, Dropping
  <2>4. KeepsPause(t)
    BY <1>9, <2>2 DEF RouteAction, KeepsPause, Moves, Over, ResumePlaces
  <2> QED
    BY <2>3, <2>4 DEF Proceeds
<1>10. ASSUME EndAction(t) PROVE Proceeds(t)
  <2>1. "idle" \in Places \ {"dropping", "dropped"}
    BY OverPlaces DEF Places
  <2>2. runOwned \in BOOLEAN /\ coOwned \in BOOLEAN /\ Less(actionRefs) \in Nat /\ scopedRefs \in Nat
    BY LessNat DEF TypeInv
  <2>3. Detach(t, "idle", runOwned, coOwned, Less(actionRefs), scopedRefs)
    BY <1>10 DEF EndAction
  <2>4. Detached(t, "idle") /\ runOwned' = (runOwned)
    <3>1. "idle" \in Places
      BY <2>1
    <3> QED
      BY <2>2, <2>3, <3>1, DetachMoves
  <2>5. CarriesOn(t)
    BY <1>10, <2>1, <2>4, Counted DEF EndAction, CarriesOn, Detached, Moves, Kept, Over, RunPlaces, CarryPlaces,
       Carries, Heading, Dropping
  <2>6. KeepsPause(t)
    BY <1>10, <2>1, <2>4 DEF EndAction, KeepsPause, Detached, Moves, Over, ResumePlaces, PlaceInv, WatcherPlaced
  <2> QED
    BY <2>5, <2>6 DEF Proceeds
<1> QED
  BY <1>1, <1>2, <1>3, <1>4, <1>5, <1>6, <1>7, <1>8, <1>9, <1>10

LEMMA ProceedsPause ==
  ASSUME PauseInv, use' = use, NEW t \in Threads, CarriesOn(t), KeepsPause(t)
  PROVE  PauseInv'
<1> SUFFICES ASSUME "confirm" \notin use.calls, lifecycle' = "paused", NEW w \in Watchers, my'[w].at \in ResumePlaces
             PROVE  my'[w].missed
  BY DEF PauseInv
<1>1. lifecycle = "paused" /\ w \in Threads
  BY DEF KeepsPause, Threads
<1>2. CASE w = t
  BY <1>1, <1>2 DEF KeepsPause, PauseInv
<1>3. CASE w # t
  BY <1>1, <1>3 DEF CarriesOn, PauseInv
<1> QED
  BY <1>2, <1>3

\* Whoever is at one of these places carries the run, and has a lease for it.
LEMMA CarryPlaced ==
  ASSUME PlaceInv, NEW t \in Threads, my[t].at \in CarryPlaces \cup RunPlaces
  PROVE  Carries(t)
BY DEF PlaceInv, WatcherPlaced, UserPlaced, WatcherOnly, ResumePlaces, ConfirmPlaces, CarryPlaces, RunPlaces,
   Carries,
       Heading, Dropping, Threads, Starters

LEMMA CarryLeased ==
  ASSUME LeaseInv, NEW t \in Threads, my[t].at \in CarryPlaces, my[t].at \in RunPlaces => runOwned
  PROVE  lease # NoLease
<1>1. CASE my[t].at \in RunPlaces
  BY <1>1 DEF LeaseInv, OwnedInv, Unowned
<1>2. CASE my[t].at \notin RunPlaces
  <2>1. Holders \subseteq Threads /\ t \in Holders
    BY <1>2 DEF Holders, Holds, CarryPlaces, RunPlaces
  <2>2. Cardinality(Holders) # 0
    BY <2>1, PartFinite
  <2> QED
    BY <2>2 DEF LeaseInv, RefsInv, OwnedInv, Unowned
<1> QED
  BY <1>1, <1>2

LEMMA CarryPlacedNext ==
  ASSUME PlaceInv', NEW t \in Threads, my'[t].at \in CarryPlaces \cup RunPlaces
  PROVE  Carries(t)'
BY DEF PlaceInv, WatcherPlaced, UserPlaced, WatcherOnly, ResumePlaces, ConfirmPlaces, CarryPlaces, RunPlaces,
   Carries,
       Heading, Dropping, Threads, Starters

LEMMA CarryLeasedNext ==
  ASSUME LeaseInv', NEW t \in Threads, my'[t].at \in CarryPlaces, my'[t].at \in RunPlaces => runOwned'
  PROVE  lease' # NoLease
<1>1. CASE my'[t].at \in RunPlaces
  BY <1>1 DEF LeaseInv, OwnedInv, Unowned
<1>2. CASE my'[t].at \notin RunPlaces
  <2>1. Holders' \subseteq Threads /\ t \in Holders'
    BY <1>2 DEF Holders, Holds, CarryPlaces, RunPlaces
  <2>2. PICK S : S = Holders'
    OBVIOUS
  <2>3. Cardinality(S) # 0
    BY <2>1, <2>2, PartFinite
  <2> QED
    BY <2>2, <2>3 DEF LeaseInv, RefsInv, OwnedInv, Unowned
<1> QED
  BY <1>1, <1>2

\* The resumes that end without a run of their own: what was running before
\* runs no more, or it is stray.
LEMMA EndProceeds ==
  ASSUME LeasedInv, use' = use, NEW t \in Threads
  PROVE  /\ ResumeFinishes(t) => Proceeds(t)
         /\ ResumeNothing(t) => Proceeds(t)
         /\ SteerUncleared(t) => Proceeds(t)
<1> USE DEF LeasedInv, At, storevars, refvars, lifevars, autovars, runvars, bounds
<1>1. ASSUME ResumeFinishes(t) PROVE Proceeds(t)
  <2>1. Over(t, TRUE) \in Places
    BY OverPlaces
  <2>2. Moves(t, Over(t, TRUE), Kept(t, Over(t, TRUE)))
    BY <1>1, <2>1, GotoMoves DEF ResumeFinishes
  <2>3. CarriesOn(t)
    BY <1>1, <2>2 DEF ResumeFinishes, CarriesOn, Moves, Over, RunPlaces, CarryPlaces, Carries, Heading, Dropping
  <2>4. KeepsPause(t)
    BY <1>1, <2>2 DEF ResumeFinishes, KeepsPause, Moves, Over, ResumePlaces
  <2> QED
    BY <2>3, <2>4 DEF Proceeds
<1>2. ASSUME NEW ok \in BOOLEAN, Release(t, Over(t, ok)) PROVE Detached(t, Over(t, ok)) /\ runOwned' = runOwned
  <2>1. Over(t, ok) \in Places
    BY OverPlaces
  <2>2. runOwned \in BOOLEAN /\ coOwned \in BOOLEAN /\ actionRefs \in Nat /\ Less(scopedRefs) \in Nat
    BY LessNat DEF TypeInv
  <2>3. Detach(t, Over(t, ok), runOwned, coOwned, actionRefs, Less(scopedRefs))
    BY <1>2 DEF Release
  <2> QED
    BY <2>1, <2>2, <2>3, DetachMoves
<1>3. ASSUME ResumeNothing(t) PROVE Proceeds(t)
  <2>1. Detached(t, Over(t, TRUE)) /\ runOwned' = runOwned
    BY <1>2, <1>3 DEF ResumeNothing
  <2>2. CarriesOn(t)
    BY <1>3, <2>1 DEF ResumeNothing, CarriesOn, Detached, Moves, Over, RunPlaces, CarryPlaces, Carries, Heading,
       Dropping
  <2>3. KeepsPause(t)
    BY <1>3, <2>1 DEF ResumeNothing, KeepsPause, Detached, Moves, Over, ResumePlaces
  <2> QED
    BY <2>2, <2>3 DEF Proceeds
<1>4. ASSUME SteerUncleared(t) PROVE Proceeds(t)
  <2>1. Detached(t, Over(t, FALSE)) /\ runOwned' = runOwned
    BY <1>2, <1>4 DEF SteerUncleared
  <2>2. coord' # "running"
    BY <1>4 DEF SteerUncleared
  <2>c. Carries(t)
    BY <1>4, CarryPlaced DEF SteerUncleared, CarryPlaces
  <2>3. CarriesOn(t)
    BY <1>4, <2>1, <2>2, <2>c DEF SteerUncleared, CarriesOn, Detached, Moves, Over, RunPlaces
  <2>4. KeepsPause(t)
    BY <1>4, <2>1 DEF SteerUncleared, KeepsPause, Detached, Moves, Over, ResumePlaces
  <2> QED
    BY <2>3, <2>4 DEF Proceeds
<1> QED
  BY <1>1, <1>3, <1>4

\* The parts of ChainInv.
OneCarries == \A s, t \in Threads : Carries(s) /\ Carries(t) => s = t
NoneCarries == starts = 0 => \A t \in Threads : ~Carries(t)
RunIsOwned == \A t \in Threads : my[t].at \in RunPlaces => runOwned
RunIsCarried == coord = "running" => run = lease /\ \E t \in Threads : my[t].at \in CarryPlaces
ChainParts == OneCarries /\ NoneCarries /\ RunIsOwned /\ RunIsCarried

LEMMA ChainSplit ==
  ASSUME PlaceInv
  PROVE  ChainInv <=> (use.starts = 1 => ChainParts)
<1>1. ASSUME NEW t \in Threads PROVE Carrying(t) <=> my[t].at \in CarryPlaces
  BY CarryPlaced DEF Carrying, CarryPlaces
<1> QED
  BY <1>1 DEF ChainInv, ChainParts, OneCarries, NoneCarries, RunIsOwned, RunIsCarried, RunPlaces

LEMMA ChainSplitNext ==
  ASSUME PlaceInv'
  PROVE  ChainInv' <=> (use'.starts = 1 => ChainParts')
<1>1. ASSUME NEW t \in Threads PROVE Carrying(t)' <=> my'[t].at \in CarryPlaces
  BY CarryPlacedNext DEF Carrying, CarryPlaces
<1> QED
  BY <1>1 DEF ChainInv, ChainParts, OneCarries, NoneCarries, RunIsOwned, RunIsCarried, RunPlaces

LEMMA ProceedsChain ==
  ASSUME LeasedInv, LeasedInv', ChainInv, use' = use, NEW t \in Threads, CarriesOn(t)
  PROVE  ChainInv'
<1> SUFFICES ASSUME use.starts = 1 PROVE ChainParts'
  BY ChainSplitNext DEF LeasedInv
<1>1. ChainParts
  BY ChainSplit DEF LeasedInv
<1>2. \A k \in Threads : k # t => my'[k] = my[k]
  BY DEF CarriesOn
<1>3. \A k \in Threads : Carries(k)' => Carries(k)
  BY <1>2 DEF CarriesOn, Carries, Heading, Dropping
<1>4. OneCarries'
  BY <1>1, <1>3 DEF ChainParts, OneCarries
<1>5. NoneCarries'
  BY <1>1, <1>3 DEF ChainParts, NoneCarries, CarriesOn
<1>6. RunIsOwned'
  <2> SUFFICES ASSUME NEW k \in Threads, my'[k].at \in RunPlaces PROVE runOwned'
    BY DEF RunIsOwned
  <2>1. CASE k = t
    BY <1>1, <2>1 DEF CarriesOn, ChainParts, RunIsOwned
  <2>2. CASE k # t
    <3>1. my[k].at \in RunPlaces
      BY <1>2, <2>2
    <3>2. Carries(k) /\ runOwned
      BY <1>1, <3>1, CarryPlaced DEF LeasedInv, ChainParts, RunIsOwned
    <3>3. ~Carries(t)
      BY <1>1, <2>2, <3>2 DEF ChainParts, OneCarries
    <3> QED
      BY <3>2, <3>3 DEF CarriesOn
  <2> QED
    BY <2>1, <2>2
<1>7. RunIsCarried'
  <2> SUFFICES ASSUME coord' = "running" PROVE run' = lease' /\ \E k \in Threads : my'[k].at \in CarryPlaces
    BY DEF RunIsCarried
  <2>1. PICK k \in Threads : my'[k].at \in CarryPlaces /\ run' = lease /\ lease # NoLease
    <3>1. CASE coord = "running" /\ run' = run /\ (my[t].at \in CarryPlaces => my'[t].at \in CarryPlaces)
      <4>1. PICK c \in Threads : my[c].at \in CarryPlaces /\ run = lease
        BY <1>1, <3>1 DEF ChainParts, RunIsCarried
      <4>2. lease # NoLease
        BY <1>1, <4>1, CarryLeased DEF LeasedInv, ChainParts, RunIsOwned
      <4> QED
        BY <1>2, <3>1, <4>1, <4>2
    <3>2. CASE run' = lease /\ lease # NoLease /\ my'[t].at \in CarryPlaces
      BY <3>2
    <3> QED
      BY <3>1, <3>2 DEF CarriesOn
  <2>2. lease' # NoLease
    BY <1>6, <2>1, CarryLeasedNext DEF LeasedInv, RunIsOwned
  <2> QED
    BY <2>1, <2>2 DEF CarriesOn
<1> QED
  BY <1>4, <1>5, <1>6, <1>7 DEF ChainParts

\* No goroutine of waitDone publishes its resume in this step.
NonePublishes == \A w \in Watchers : At(w, "prompted") => my'[w].at # "published"

\* The step keeps everything that is said of pauses and of the run.
KeepsRun == PauseInv' /\ ChainInv' /\ ("confirm" \in use.calls \/ lifecycle # "paused" \/ NonePublishes)

RunInv == LeasedInv /\ PauseInv /\ ChainInv

LEMMA ProceedsRun ==
  ASSUME RunInv, LeasedInv', use' = use, NEW t \in Threads, Proceeds(t)
  PROVE  KeepsRun
<1>1. PauseInv' /\ ChainInv'
  BY ProceedsPause, ProceedsChain DEF RunInv, Proceeds
<1>2. SUFFICES ASSUME "confirm" \notin use.calls, lifecycle = "paused", NEW w \in Watchers, At(w, "prompted"),
                      my'[w].at = "published"
               PROVE  FALSE
  BY <1>1 DEF KeepsRun, NonePublishes
<1>3. w \in Threads
  BY DEF Threads
<1>4. w = t
  BY <1>2, <1>3 DEF Proceeds, CarriesOn, At
<1>5. Publish(w)
  BY <1>2, <1>4 DEF Proceeds, KeepsPause
<1>6. my[w].missed /\ my[w].op \in {"auto", "repair"}
  BY <1>2 DEF RunInv, LeasedInv, PauseInv, PlaceInv, WatcherPlaced, ResumePlaces, At
<1>7. Goto(w, "withdrawn")
  BY <1>5, <1>6 DEF Publish, ResumeOps
<1>8. my'[w].at = "withdrawn"
  BY <1>3, <1>7, GotoMoves DEF Moves, RunInv, LeasedInv, Places
<1> QED
  BY <1>2, <1>8

\* Nothing moves that carries the run, or has to.
LEMMA StillChain ==
  ASSUME LeasedInv, LeasedInv', ChainInv, use' = use, UNCHANGED <<runOwned, lease, starts>>,
         coord' = "running" => coord = "running" /\ run' = run,
         NEW t \in Threads, my[t].at \notin CarryPlaces, my'[t].at \notin RunPlaces, ~Carries(t)' \/ my'[t] = my[t],
         \A k \in Threads \ {t} : my'[k].at = my[k].at /\ my'[k].op = my[k].op /\ my'[k].next = my[k].next
  PROVE  ChainInv'
<1> SUFFICES ASSUME use.starts = 1 PROVE ChainParts'
  BY ChainSplitNext DEF LeasedInv
<1>1. ChainParts
  BY ChainSplit DEF LeasedInv
<1>2. \A k \in Threads : Carries(k)' => Carries(k)
  BY DEF Carries, Heading, Dropping
<1>3. \A k \in Threads : my'[k].at \in RunPlaces => my[k].at \in RunPlaces
  OBVIOUS
<1>4. \A k \in Threads : my[k].at \in CarryPlaces => my'[k].at \in CarryPlaces
  OBVIOUS
<1>5. OneCarries' /\ NoneCarries'
  BY <1>1, <1>2 DEF ChainParts, OneCarries, NoneCarries
<1>6. RunIsOwned'
  BY <1>1, <1>3 DEF ChainParts, RunIsOwned
<1>7. RunIsCarried'
  BY <1>1, <1>4 DEF ChainParts, RunIsCarried
<1> QED
  BY <1>5, <1>6, <1>7 DEF ChainParts

LEMMA PauseRun ==
  ASSUME RunInv, LeasedInv', use' = use, NEW t \in Users, my[t].at \in {"idle", "occupying"}, Pause(t)
  PROVE  KeepsRun
<1>1. t \in Threads /\ t \notin Watchers /\ TypeInv
  BY Apart DEF Threads, RunInv, LeasedInv
<1>2. \A k \in Threads :
        /\ my'[k].at = (IF k = t THEN "aborting" ELSE my[k].at)
        /\ my'[k].op = (IF k = t THEN "abort" ELSE my[k].op)
        /\ my'[k].drop = my[k].drop /\ my'[k].next = my[k].next
        /\ my[k].missed \/ Resumes(k) => my'[k].missed
  BY <1>1, PauseMoves
<1>3. PauseInv'
  <2> SUFFICES ASSUME NEW w \in Watchers, my'[w].at \in ResumePlaces PROVE my'[w].missed
    BY DEF PauseInv
  <2>1. w \in Threads /\ my[w].at \in ResumePlaces
    BY <1>1, <1>2 DEF Threads, ResumePlaces
  <2>2. Resumes(w)
    BY <2>1 DEF RunInv, LeasedInv, PlaceInv, WatcherPlaced, Resumes, ResumePlaces, ResumeOps
  <2> QED
    BY <1>2, <2>1, <2>2
<1>4. ChainInv'
  <2>1. /\ my[t].at \notin CarryPlaces /\ my'[t].at \notin RunPlaces /\ ~Carries(t)'
        /\ \A k \in Threads \ {t} : my'[k].at = my[k].at /\ my'[k].op = my[k].op /\ my'[k].next = my[k].next
    BY <1>1, <1>2 DEF CarryPlaces, RunPlaces, Carries, Starters
  <2>2. UNCHANGED <<runOwned, lease, starts, coord, run>>
    BY DEF Pause, refvars, bounds, runvars
  <2> QED
    BY <1>1, <2>1, <2>2, StillChain DEF RunInv
<1>5. NonePublishes
  <2>1. \A w \in Watchers : w \in Threads /\ w # t
    BY <1>1 DEF Threads
  <2> QED
    BY <1>2, <2>1 DEF NonePublishes, At
<1> QED
  BY <1>3, <1>4, <1>5 DEF KeepsRun

\* The run passes from the thread that prompted it to the goroutine that waits.
LEMMA SpawnRun ==
  ASSUME RunInv, LeasedInv', use' = use, NEW t \in Threads, Spawn(t)
  PROVE  KeepsRun
<1>1. PICK w \in Watchers :
        /\ At(w, "idle")
        /\ my' = [my EXCEPT ![w].at = "wait", ![w].op = "none",
                            ![t] = Placed(t, IF my[t].op = "leave" THEN "leftCo" ELSE Over(t, TRUE))]
  BY DEF Spawn
<1> DEFINE p == IF my[t].op = "leave" THEN "leftCo" ELSE Over(t, TRUE)
<1>2. w \in Threads /\ t # w /\ my[t].at = "spawn" /\ my[w].at = "idle" /\ TypeInv /\ PlaceInv /\ PlaceInv'
  BY <1>1 DEF Spawn, Threads, At, RunInv, LeasedInv
<1>3. p \in {"leftCo", "idle", "resumed"}
  BY DEF Over
<1>4. SpawnMoves(t, w, p)
  <2>1. p \in Places
    BY <1>3 DEF Places
  <2> QED
    BY <1>1, <1>2, <2>1, SpawnMoved
<1> HIDE DEF p
<1>5. UNCHANGED <<use, lease, runOwned, coord, run, lifecycle, starts>>
  BY DEF Spawn, refvars, runvars, lifevars, bounds
<1>6. \A k \in Threads \ {t, w} : my'[k] = my[k]
  BY <1>4 DEF SpawnMoves
<1>7. my'[w].at = "wait" /\ my'[t].at = p
  BY <1>4 DEF SpawnMoves
<1>8. PauseInv'
  <2> SUFFICES ASSUME "confirm" \notin use.calls, lifecycle = "paused", NEW k \in Watchers, my'[k].at \in ResumePlaces
               PROVE  my'[k].missed
    BY <1>5 DEF PauseInv
  <2>1. k \in Threads \ {t, w}
    BY <1>3, <1>7 DEF Threads, ResumePlaces
  <2>2. my'[k] = my[k]
    BY <1>6, <2>1
  <2> QED
    BY <2>2 DEF RunInv, PauseInv
<1>9. ChainInv'
  <2> SUFFICES ASSUME use.starts = 1 PROVE ChainParts'
    BY <1>2, ChainSplitNext
  <2>1. ChainParts
    BY <1>2, ChainSplit DEF RunInv
  <2>2. Carries(t)
    BY <1>2, CarryPlaced DEF RunPlaces
  <2>3. ~Carries(t)'
    BY <1>3, <1>7 DEF Carries, Heading, Dropping
  <2>4. \A k \in Threads : Carries(k)' => k = w
    BY <1>6, <2>1, <2>2, <2>3 DEF ChainParts, OneCarries, Carries, Heading, Dropping
  <2>5. OneCarries' /\ NoneCarries'
    BY <1>5, <2>1, <2>2, <2>4 DEF ChainParts, OneCarries, NoneCarries
  <2>6. RunIsOwned'
    BY <1>2, <1>5, <2>1 DEF ChainParts, RunIsOwned, RunPlaces
  <2>7. RunIsCarried'
    BY <1>2, <1>5, <1>7, <2>1 DEF ChainParts, RunIsCarried, CarryPlaces
  <2> QED
    BY <2>5, <2>6, <2>7 DEF ChainParts
<1>10. NonePublishes
  <2> SUFFICES ASSUME NEW k \in Watchers, At(k, "prompted") PROVE my'[k].at # "published"
    BY DEF NonePublishes
  <2>1. k \in Threads \ {t, w}
    BY <1>2 DEF At, Threads
  <2> QED
    BY <1>6, <2>1 DEF At
<1> QED
  BY <1>8, <1>9, <1>10 DEF KeepsRun

\* A call that starts a run: the only one, if there is one.
LEMMA StartRun ==
  ASSUME RunInv, LeasedInv', use' = use, NEW t \in Users, NEW o, Moves(t, "admitted", o), At(t, "idle"),
         starts < use.starts, starts' = starts + 1, UNCHANGED <<runOwned, lease, coord, run, lifecycle>>
  PROVE  KeepsRun
<1>1. t \in Threads /\ t \notin Watchers /\ TypeInv /\ PlaceInv
  BY Apart DEF Threads, RunInv, LeasedInv
<1>2. \A k \in Threads \ {t} : my'[k] = my[k]
  BY DEF Moves
<1>3. PauseInv'
  BY <1>1, <1>2 DEF RunInv, PauseInv, Threads
<1>4. ChainInv'
  <2> SUFFICES ASSUME use.starts = 1 PROVE ChainParts'
    BY ChainSplitNext DEF LeasedInv
  <2>1. ChainParts
    BY ChainSplit DEF RunInv, LeasedInv
  <2>2. starts = 0 /\ starts' = 1
    BY <1>1 DEF TypeInv
  <2>3. \A k \in Threads : ~Carries(k)
    BY <2>1, <2>2 DEF ChainParts, NoneCarries
  <2>4. \A k \in Threads : Carries(k)' => k = t
    BY <1>2, <2>3 DEF Carries, Heading, Dropping
  <2>5. OneCarries' /\ NoneCarries'
    BY <2>2, <2>4 DEF OneCarries, NoneCarries
  <2>6. \A k \in Threads : my[k].at \notin CarryPlaces \cup RunPlaces
    BY <1>1, <2>3, CarryPlaced
  <2>7. RunIsOwned'
    BY <1>2, <2>6 DEF Moves, RunIsOwned, RunPlaces
  <2>8. RunIsCarried'
    BY <2>1, <2>6 DEF ChainParts, RunIsCarried
  <2> QED
    BY <2>5, <2>7, <2>8 DEF ChainParts
<1>5. NonePublishes
  BY <1>1, <1>2 DEF NonePublishes, At, Threads
<1> QED
  BY <1>3, <1>4, <1>5 DEF KeepsRun

\* No thread moves, and the run may only end.
LEMMA StillRun ==
  ASSUME RunInv, LeasedInv', use' = use, UNCHANGED <<my, lease, runOwned, starts, lifecycle>>,
         coord' # "running" \/ UNCHANGED <<coord, run>>
  PROVE  KeepsRun
<1>1. PauseInv' /\ NonePublishes
  BY DEF RunInv, PauseInv, NonePublishes, At
<1>2. \A k \in Threads : Carries(k)' <=> Carries(k)
  BY DEF Carries, Heading, Dropping
<1>3. \A k \in Threads : Carrying(k)' <=> Carrying(k)
  BY <1>2 DEF Carrying
<1>4. ChainInv'
  BY <1>2, <1>3 DEF RunInv, ChainInv
<1> QED
  BY <1>1, <1>4 DEF KeepsRun

\* The steps of a new call.
LEMMA CallRun ==
  ASSUME RunInv, LeasedInv', use' = use, NEW t \in use.users
  PROVE  /\ (\E o \in Starters : StartPrepared(t, o)) => KeepsRun
         /\ Resume(t) => KeepsRun
         /\ ResumeRefused(t) => KeepsRun
         /\ Abort(t) => KeepsRun
         /\ StopForReview(t) => KeepsRun
         /\ Enter(t) => KeepsRun
         /\ (\E o \in {"leave", "cancel"} : Leave(t, o)) => KeepsRun
         /\ Mutate(t) => KeepsRun
         /\ BeginNormalFlowAction(t) => KeepsRun
<1> USE DEF RunInv, LeasedInv, At, storevars, refvars, lifevars, autovars, runvars, bounds
<1>a. t \in Users /\ t \in Threads /\ t \notin Watchers
  BY UseTyped, Apart DEF Threads
<1> USE <1>a
<1>1. ASSUME \E o \in Starters : StartPrepared(t, o) PROVE KeepsRun
  <2>o. PICK o \in Starters : StartPrepared(t, o)
    BY <1>1
  <2>1. Moves(t, "admitted", o)
    BY <2>o, CallMoves DEF StartPrepared, Ops, Starters, OtherOps
  <2>2. At(t, "idle") /\ starts < use.starts /\ starts' = starts + 1
    BY <2>o DEF StartPrepared, MayStart, Started
  <2>3. UNCHANGED <<runOwned, lease, coord, run, lifecycle>>
    BY <2>o DEF StartPrepared
  <2> QED
    BY <2>1, <2>2, <2>3, StartRun
<1>2. ASSUME Resume(t) PROVE KeepsRun
  <2>1. Moves(t, "admitted", "resume")
    BY <1>2, CallMoves DEF Resume, Ops, Starters, OtherOps
  <2>2. At(t, "idle") /\ starts < use.starts /\ starts' = starts + 1
    BY <1>2 DEF Resume, MayStart, Started
  <2>3. UNCHANGED <<runOwned, lease, coord, run, lifecycle>>
    BY <1>2 DEF Resume
  <2> QED
    BY <2>1, <2>2, <2>3, StartRun
<1>3. ASSUME ResumeRefused(t) PROVE KeepsRun
  <2>1. UNCHANGED <<my, lease, runOwned, coord, run, lifecycle, starts>>
    BY <1>3 DEF ResumeRefused
  <2> QED
    BY <2>1, StillRun
<1>4. ASSUME Abort(t) PROVE KeepsRun
  <2> QED
    BY <1>4, PauseRun DEF Abort
<1>5. ASSUME StopForReview(t) PROVE KeepsRun
  <2>1. Moves(t, "aborting", "review")
    BY <1>5, OpMoves DEF StopForReview, Places, Ops, Starters, OtherOps
  <2>2. CarriesOn(t)
    BY <1>5, <2>1 DEF StopForReview, CarriesOn, Moves, RunPlaces, CarryPlaces, Carries, Heading, Dropping, Starters
  <2>3. KeepsPause(t)
    BY <1>5, <2>1 DEF StopForReview, KeepsPause, Moves
  <2> QED
    BY <2>2, <2>3, ProceedsRun DEF Proceeds
<1>6. ASSUME Enter(t) PROVE KeepsRun
  <2>1. Moves(t, "admitted", "enter")
    BY <1>6, CallMoves DEF Enter, Places, Ops, Starters, OtherOps
  <2>2. CarriesOn(t)
    BY <1>6, <2>1 DEF Enter, CarriesOn, Moves, RunPlaces, CarryPlaces, Carries, Heading, Dropping, Starters
  <2>3. KeepsPause(t)
    BY <1>6, <2>1 DEF Enter, KeepsPause, Moves
  <2> QED
    BY <2>2, <2>3, ProceedsRun DEF Proceeds
<1>7. ASSUME \E o \in {"leave", "cancel"} : Leave(t, o) PROVE KeepsRun
  <2>o. PICK o \in {"leave", "cancel"} : Leave(t, o)
    BY <1>7
  <2>1. CASE o = "leave"
    <3>1. Moves(t, "admitted", "leave")
      BY <2>o, <2>1, CallMoves DEF Leave, Ops, Starters, OtherOps
    <3>2. At(t, "idle") /\ starts < use.starts /\ starts' = starts + 1
      BY <2>o, <2>1 DEF Leave, MayStart, Started
    <3>3. UNCHANGED <<runOwned, lease, coord, run, lifecycle>>
      BY <2>o, <2>1 DEF Leave
    <3> QED
      BY <3>1, <3>2, <3>3, StartRun
  <2>2. CASE o = "cancel"
    <3>1. Moves(t, "admitted", "cancel")
      BY <2>o, <2>2, CallMoves DEF Leave, Places, Ops, Starters, OtherOps
    <3>2. CarriesOn(t)
      BY <2>o, <2>2, <3>1 DEF Leave, CarriesOn, Moves, RunPlaces, CarryPlaces, Carries, Heading, Dropping, Starters
    <3>3. KeepsPause(t)
      BY <2>o, <2>2, <3>1 DEF Leave, KeepsPause, Moves
    <3> QED
      BY <3>2, <3>3, ProceedsRun DEF Proceeds
  <2> QED
    BY <2>o, <2>1, <2>2
<1>8. ASSUME Mutate(t) PROVE KeepsRun
  <2>1. Moves(t, "admitted", "mutate")
    BY <1>8, CallMoves DEF Mutate, Places, Ops, Starters, OtherOps
  <2>2. CarriesOn(t)
    BY <1>8, <2>1 DEF Mutate, CarriesOn, Moves, RunPlaces, CarryPlaces, Carries, Heading, Dropping, Starters
  <2>3. KeepsPause(t)
    BY <1>8, <2>1 DEF Mutate, KeepsPause, Moves
  <2> QED
    BY <2>2, <2>3, ProceedsRun DEF Proceeds
<1>9. ASSUME BeginNormalFlowAction(t) PROVE KeepsRun
  <2>1. CASE my' = [my EXCEPT ![t].at = "acting", ![t].op = "act"] /\ UNCHANGED lease
    <3>1. Moves(t, "acting", "act")
      BY <1>9, <2>1, OpMoves DEF BeginNormalFlowAction, Places, Ops, Starters, OtherOps
    <3>2. CarriesOn(t)
      BY <1>9, <2>1, <3>1 DEF BeginNormalFlowAction, CarriesOn, Moves, RunPlaces, CarryPlaces, Carries, Heading,
         Dropping, Starters
    <3>3. KeepsPause(t)
      BY <1>9, <2>1, <3>1 DEF BeginNormalFlowAction, KeepsPause, Moves
    <3> QED
      BY <3>2, <3>3, ProceedsRun DEF Proceeds
  <2>2. CASE my' = [my EXCEPT ![t].at = "routing", ![t].op = "act"] /\ lease = NoLease
    <3>1. Moves(t, "routing", "act")
      BY <1>9, <2>2, OpMoves DEF BeginNormalFlowAction, Places, Ops, Starters, OtherOps
    <3>2. CarriesOn(t)
      BY <1>9, <2>2, <3>1 DEF BeginNormalFlowAction, CarriesOn, Moves, RunPlaces, CarryPlaces, Carries, Heading,
         Dropping, Starters
    <3>3. KeepsPause(t)
      BY <1>9, <2>2, <3>1 DEF BeginNormalFlowAction, KeepsPause, Moves
    <3> QED
      BY <3>2, <3>3, ProceedsRun DEF Proceeds
  <2> QED
    BY <1>9, <2>1, <2>2 DEF BeginNormalFlowAction, LeaseTaken
<1> QED
  BY <1>1, <1>2, <1>3, <1>4, <1>5, <1>6, <1>7, <1>8, <1>9

LEMMA CoCreatePauseRun ==
  ASSUME RunInv, LeasedInv', use' = use, NEW t \in Threads, PauseForCoCreate(t)
  PROVE  KeepsRun
<1>1. t \in Users /\ my[t].at = "occupying" /\ TypeInv
  BY DEF PauseForCoCreate, At, RunInv, LeasedInv, PlaceInv, WatcherPlaced, WatcherOnly, ResumePlaces, Threads
<1>2. CASE Pause(t)
  BY <1>1, <1>2, PauseRun
<1>3. CASE Goto(t, "idle") /\ UNCHANGED <<storevars, routed, refvars, lifevars, autovars, runvars, bounds>>
  <2>1. Moves(t, "idle", "none")
    BY <1>1, <1>3, GotoMoves DEF Kept, Places
  <2>2. CarriesOn(t)
    BY <1>1, <1>3, <2>1, Apart DEF CarriesOn, Moves, RunPlaces, CarryPlaces, Carries, Heading, Dropping,
       refvars, runvars, bounds
  <2>3. KeepsPause(t)
    BY <1>1, <1>3, <2>1 DEF KeepsPause, Moves, At, ResumePlaces, lifevars
  <2> QED
    BY <2>2, <2>3, ProceedsRun DEF Proceeds
<1> QED
  BY <1>2, <1>3 DEF PauseForCoCreate

LEMMA InitRun == Init => RunInv
<1> SUFFICES ASSUME Init PROVE RunInv
  OBVIOUS
<1>1. LeasedInv
  BY InitLeased
<1>2. \A t \in Threads : my[t].at = "idle"
  BY DEF Init, Free
<1>3. PauseInv
  BY DEF Init, PauseInv
<1>4. ChainInv
  BY <1>2 DEF Init, ChainInv, Carries, Carrying, Heading, Dropping
<1> QED
  BY <1>1, <1>3, <1>4 DEF RunInv

LEMMA RunNext ==
  ASSUME RunInv, [Next]_vars
  PROVE  RunInv' /\ KeepsRun
<1>1. LeasedInv'
  BY LeasedNext DEF RunInv
<1>2. ASSUME UNCHANGED vars PROVE KeepsRun
  <2>1. use' = use /\ UNCHANGED <<my, lease, runOwned, starts, lifecycle>> /\ UNCHANGED <<coord, run>>
    BY <1>2 DEF vars, storevars, refvars, lifevars, autovars, runvars, bounds
  <2> QED
    BY <1>1, <2>1, StillRun
<1>3. ASSUME use' = use, NEW t \in Threads, Step(t) PROVE KeepsRun
  <2>1. CASE Spawn(t)
    BY <1>1, <1>3, <2>1, SpawnRun
  <2>2. CASE PauseForCoCreate(t)
    BY <1>1, <1>3, <2>2, CoCreatePauseRun
  <2>3. CASE ~Spawn(t) /\ ~PauseForCoCreate(t)
    <3>1. Proceeds(t)
      BY <1>3, <2>3, OwnershipProceeds, EndProceeds, StartProceeds, RunProceeds, CoCreateProceeds DEF Step, RunInv
    <3> QED
      BY <1>1, <1>3, <3>1, ProceedsRun
  <2> QED
    BY <2>1, <2>2, <2>3
<1>4. ASSUME use' = use, NEW t \in use.users, NewCall(t) PROVE KeepsRun
  BY <1>1, <1>4, CallRun DEF NewCall
<1>5. ASSUME use' = use, Revise \/ Write \/ Stop PROVE KeepsRun
  <2>1. use' = use /\ UNCHANGED <<my, lease, runOwned, starts, lifecycle>>
    BY <1>5 DEF Revise, Write, Stop, refvars, lifevars, runvars, bounds
  <2>2. coord' # "running" \/ UNCHANGED <<coord, run>>
    BY <1>5 DEF Revise, Write, Stop, refvars, lifevars, runvars, bounds
  <2> QED
    BY <1>1, <2>1, <2>2, StillRun
<1>6. KeepsRun
  BY <1>2, <1>3, <1>4, <1>5 DEF Next
<1> QED
  BY <1>1, <1>6 DEF RunInv, KeepsRun

\* With it, that a pause stays visible to a resume in flight, and that one
\* thread at a time carries the only run.
THEOREM Running == Spec => []RunInv
<1>1. RunInv /\ [Next]_vars => RunInv'
  BY RunNext
<1> QED
  BY <1>1, InitRun, PTL DEF Spec

\* A run that was started once writes under the lease that the store knows.
THEOREM RunLeased == Spec => []RunKeepsLease
<1>1. RunInv => RunKeepsLease
  <2> SUFFICES ASSUME RunInv, use.starts = 1, coord = "running" PROVE held = run
    BY DEF RunKeepsLease
  <2>1. ChainParts
    BY ChainSplit DEF RunInv, LeasedInv
  <2>2. PICK t \in Threads : my[t].at \in CarryPlaces /\ run = lease
    BY <2>1 DEF ChainParts, RunIsCarried
  <2>3. lease # NoLease
    BY <2>1, <2>2, CarryLeased DEF RunInv, LeasedInv, ChainParts, RunIsOwned
  <2> QED
    BY <2>2, <2>3 DEF RunInv, LeasedInv, LeaseInv, CurrentInv
<1> QED
  BY <1>1, Running, PTL

\* A goroutine does not publish a resume that a pause has overtaken.
THEOREM PauseKept == Spec => PauseIsKept
<1> DEFINE A == \A w \in Watchers : "confirm" \notin use.calls /\ At(w, "prompted") /\ my'[w].at = "published"
                  => lifecycle # "paused"
<1>1. ASSUME RunInv, [Next]_vars PROVE A
  BY <1>1, RunNext DEF KeepsRun, NonePublishes
<1>2. RunInv /\ [Next]_vars => [A]_vars
  BY <1>1
<1> HIDE DEF A
<1>3. Spec => [][A]_vars
  BY <1>2, Running, PTL DEF Spec
<1> QED
  BY <1>3 DEF PauseIsKept, A

================================================================================

----------------------------- MODULE HostLifecycle -----------------------------
(* The run of one book in one process (internal/host/host.go): calls of the    *)
(* author, the Web and the scheduler start, pause and resume the coordinator,  *)
(* a goroutine (waitDone) waits for each run and resumes it a bounded number   *)
(* of times, and all of them share one lease of the revision store by counting *)
(* references. The coordinator is a library: a prompt starts it when idle.     *)
EXTENDS Integers, FiniteSets

CONSTANTS
  Users,        \* threads that call the host, one call at a time
  Watchers,     \* bound: goroutines of waitDone alive at the same time
  Nobody,
  Chapters,     \* chapters of the book
  Uses          \* the uses of a host to look at

Threads == Users \cup Watchers
Starters == {"start", "resume", "continue", "confirm", "leave"}
OtherOps == {"enter", "cancel", "mutate", "act", "abort", "review", "revise"}

\* calls: those that are made, by which users; starts and repairs: bounds on the
\* calls that start a run, and on the outlines found blocked and repaired;
\* attempts: maxAutomaticResumeAttempts.
Use == [calls : SUBSET (Starters \cup OtherOps), users : SUBSET Users,
        starts : Nat, repairs : Nat, attempts : Nat]

ASSUME HostAssumption ==
  /\ IsFiniteSet(Users) /\ IsFiniteSet(Watchers) /\ Users \cap Watchers = {}
  /\ Nobody \notin Threads
  /\ Uses \subseteq Use
  /\ Chapters \in Nat \ {0}

NoLease == 0
\* The stray coordinator runs, but the resume that prompted it has failed.
Coordinators == {"idle", "running", "stopping", "stray"}
\* done: completed chapters, -1 while the book is not planned; open: a chapter
\* is in progress; complete: the phase is complete (else writing, or planning).
Progress == [done : -1..Chapters, open : BOOLEAN, complete : BOOLEAN]
Unplanned == [done |-> -1, open |-> FALSE, complete |-> FALSE]
Lives == {"idle", "running", "paused", "completed"}

VARIABLES
  use,          \* one of Uses; it does not change
  held,         \* the store's lease, of the writing flow
  revision,     \* the store has an active revision session
  lease, routed,                               \* Host.normalFlowLease, and the router's copy
  runOwned, coOwned, actionRefs, scopedRefs,   \* who uses it
  lifecycle, cocreating,
  starting, aborted,                           \* Host.startingRun: its thread, and whether it was aborted
  autoInFlight, attempts, autoCompleted,       \* automatic resumes, and the progress they are counted for
  coord, run,                                  \* the coordinator, and the lease it writes under
  progress,                                    \* progress.json
  my,                                          \* per thread: where it is, and its local variables
  starts, repairs

storevars == <<held, revision>>
refvars == <<lease, runOwned, coOwned, actionRefs, scopedRefs>>
lifevars == <<lifecycle, cocreating, starting, aborted>>
autovars == <<autoInFlight, attempts, autoCompleted>>
runvars == <<coord, run, progress>>
bounds == <<starts, repairs>>
vars == <<use, held, revision, lease, routed, runOwned, coOwned, actionRefs, scopedRefs, lifecycle, cocreating,
          starting, aborted, autoInFlight, attempts, autoCompleted, coord, run, progress, my, starts, repairs>>

Places == {"idle", "admitted", "waited", "gated", "owner", "prompted", "withdrawn", "published", "spawn", "starting",
           "confirming", "unprompted", "cancelled", "aborting", "occupied", "occupying", "left", "leftCo",
           "routing", "acting", "dropping", "dropped",
           "wait", "woke", "retry", "resumed", "unresumed", "unrepaired", "terminal", "ending"}
\* enough names for the leases in use and one more
Leases == 1..(Cardinality(Threads) + 5)

TypeOK ==
  /\ use \in Uses
  /\ {held, lease, routed, run} \subseteq Leases \cup {NoLease}
  /\ {revision, runOwned, coOwned, cocreating, aborted, autoInFlight} \subseteq BOOLEAN
  /\ actionRefs \in 0..Cardinality(Users) /\ scopedRefs \in 0..Cardinality(Threads)
  /\ lifecycle \in Lives /\ starting \in Users \cup {Nobody}
  /\ attempts \in 0..use.attempts /\ autoCompleted \in 0..Chapters
  /\ coord \in Coordinators /\ progress \in Progress
  /\ my \in [Threads -> [at : Places, op : Starters \cup OtherOps \cup {"auto", "repair", "none"}, missed : BOOLEAN,
                         was : Lives, drop : Leases \cup {NoLease}, next : Places]]
  /\ starts \in 0..use.starts /\ repairs \in 0..use.repairs

Free == [at |-> "idle", op |-> "none", missed |-> FALSE, was |-> "idle", drop |-> NoLease, next |-> "idle"]

Init ==
  /\ use \in Uses
  /\ held = NoLease /\ revision = FALSE /\ lease = NoLease /\ routed = NoLease
  /\ runOwned = FALSE /\ coOwned = FALSE /\ actionRefs = 0 /\ scopedRefs = 0
  /\ lifecycle = "idle" /\ cocreating = FALSE /\ starting = Nobody /\ aborted = FALSE
  /\ autoInFlight = FALSE /\ attempts = 0 /\ autoCompleted = 0
  /\ coord = "idle" /\ run = NoLease /\ progress = Unplanned
  /\ my = [t \in Threads |-> Free]
  /\ starts = 0 /\ repairs = 0
--------------------------------------------------------------------------------
At(t, p) == my[t].at = p
Placed(t, p) == IF p = "idle" THEN Free ELSE [my[t] EXCEPT !.at = p, !.drop = NoLease, !.next = "idle"]
Goto(t, p) == my' = [my EXCEPT ![t] = Placed(t, p)]
Call(u, o) == my' = [my EXCEPT ![u].at = "admitted", ![u].op = o, ![u].missed = FALSE, ![u].was = lifecycle]

\* Where a thread goes when its call is over: a watcher called resume itself.
Over(t, ok) == IF t \in Users THEN "idle" ELSE IF ok THEN "resumed" ELSE "unresumed"

\* The counts change, and whoever leaves none detaches the lease, in one locked section.
Detach(t, next, r, c, a, s) ==
  /\ runOwned' = r /\ coOwned' = c /\ actionRefs' = a /\ scopedRefs' = s
  /\ IF lease # NoLease /\ ~r /\ ~c /\ a = 0 /\ s = 0
     THEN lease' = NoLease /\ my' = [my EXCEPT ![t].at = "dropping", ![t].drop = lease, ![t].next = next]
     ELSE lease' = lease /\ Goto(t, next)

Mut_DropRouter(t) ==   \* the store first
  /\ At(t, "dropping")
  /\ held' = IF held = my[t].drop THEN NoLease ELSE held
  /\ my' = [my EXCEPT ![t].at = "dropped"]
  /\ UNCHANGED <<revision, routed, refvars, lifevars, autovars, runvars, bounds>>

\* The lease is released outside the lock: the router first, then the store.
DropRouter(t) ==
  /\ At(t, "dropping")
  /\ routed' = NoLease
  /\ my' = [my EXCEPT ![t].at = "dropped"]
  /\ UNCHANGED <<storevars, refvars, lifevars, autovars, runvars, bounds>>

\* A release that fails is only warned about: the store keeps its lease.
DropStore(t) ==
  /\ At(t, "dropped")
  /\ held' = held \/ (held = my[t].drop /\ held' = NoLease)
  /\ Goto(t, my[t].next)
  /\ UNCHANGED <<revision, routed, refvars, lifevars, autovars, runvars, bounds>>

Less(n) == IF n > 0 THEN n - 1 ELSE 0
Release(t, next) == Detach(t, next, runOwned, coOwned, actionRefs, Less(scopedRefs))
TransferToRun(t, next) == Detach(t, next, runOwned \/ (lease # NoLease /\ scopedRefs > 0), coOwned, actionRefs, Less(scopedRefs))

\* A lease nobody remembers.
Fresh == CHOOSE k \in Leases : k \notin {held, lease, routed, run} \cup {my[t].drop : t \in Threads}

LeaseTaken == /\ lease = NoLease /\ held = NoLease /\ ~revision
              /\ lease' = Fresh /\ held' = Fresh

Acquirable == lease # NoLease => runOwned \/ coOwned \/ actionRefs > 0 \/ scopedRefs > 0

Shared == scopedRefs + 1

\* acquireNormalFlowOwnership: share the lease or take it.
Acquire(t) ==
  /\ \/ At(t, "admitted") /\ my[t].op \notin {"resume", "auto", "repair", "leave", "cancel"}
     \/ At(t, "gated")
  /\ \/ /\ lease # NoLease /\ Acquirable
        /\ scopedRefs' = Shared
        /\ Goto(t, "owner")
        /\ UNCHANGED <<lease, held, routed>>
     \/ /\ LeaseTaken
        /\ routed' = Fresh /\ scopedRefs' = 1
        /\ Goto(t, "owner")
     \/ /\ lease = NoLease /\ (held # NoLease \/ revision)
        /\ Goto(t, Over(t, FALSE))
        /\ UNCHANGED <<lease, held, routed, scopedRefs>>
  /\ UNCHANGED <<revision, runOwned, coOwned, actionRefs, lifevars, autovars, runvars, bounds>>
--------------------------------------------------------------------------------
\* The call is over before it has a reference: its gates refuse it (revision,
\* budget, cast, continuation, adaptation).
GatesFail(t) ==
  /\ At(t, "admitted") \/ At(t, "gated")
  /\ Goto(t, Over(t, FALSE))
  /\ UNCHANGED <<storevars, routed, refvars, lifevars, autovars, runvars, bounds>>

\* ... or with one: whatever fails before the coordinator is prompted; a
\* mutation (beginNormalFlowMutation) has done its work.
OwnerReturns(t) ==
  /\ At(t, "owner")
  /\ Release(t, Over(t, FALSE))
  /\ UNCHANGED <<storevars, routed, lifevars, autovars, runvars, bounds>>

MayStart(o) == o \in use.calls /\ starts < use.starts
Started == starts' = starts + 1 /\ UNCHANGED repairs

\* StartPrepared and ConfirmAdaptationProposal; Continue when stopped.
StartPrepared(u, o) ==
  /\ At(u, "idle") /\ o \in {"start", "confirm", "continue"} /\ MayStart(o)
  /\ lifecycle # "running" /\ ~cocreating
  /\ Call(u, o) /\ Started
  /\ UNCHANGED <<storevars, routed, refvars, lifevars, autovars, runvars>>

\* A refused Resume has reset the attempts.
ResumeRefused(u) ==
  /\ At(u, "idle") /\ "resume" \in use.calls
  /\ lifecycle = "running" \/ cocreating
  /\ ~autoInFlight /\ attempts' = 0 /\ autoCompleted' = 0
  /\ UNCHANGED <<my, autoInFlight, storevars, routed, refvars, lifevars, runvars, bounds>>

Resume(u) ==
  /\ At(u, "idle") /\ MayStart("resume")
  /\ lifecycle # "running" /\ ~cocreating
  /\ attempts' = IF autoInFlight THEN attempts ELSE 0
  /\ autoCompleted' = IF autoInFlight THEN autoCompleted ELSE 0
  /\ Call(u, "resume") /\ Started
  /\ UNCHANGED <<autoInFlight, storevars, routed, refvars, lifevars, runvars>>

\* finalizeLegacyCompletedBookBeforeResume: every chapter is there and the audit
\* passes, so the book is complete, and the resume has succeeded without a run.
ResumeFinishes(t) ==
  /\ At(t, "admitted") /\ my[t].op \in {"resume", "auto"}   \* no adaptation
  /\ progress.done = Chapters /\ ~progress.complete
  /\ progress' = [progress EXCEPT !.complete = TRUE]
  /\ Goto(t, Over(t, TRUE))
  /\ UNCHANGED <<coord, run, storevars, routed, refvars, lifevars, autovars, bounds>>

\* A manual resume waits for the last run and takes away what it owned.
ResumeGates(t) ==
  /\ \/ At(t, "waited") /\ Detach(t, "gated", FALSE, coOwned, actionRefs, scopedRefs)
     \/ At(t, "admitted") /\ my[t].op \in {"auto", "repair"} /\ Goto(t, "gated") /\ UNCHANGED refvars
  /\ UNCHANGED <<storevars, routed, lifevars, autovars, runvars, bounds>>

ResumeOps == {"resume", "auto", "repair"}

\* There is nothing to resume (buildResumePrompt has no label), which is no
\* error: a complete book, or one that was never started.
ResumeNothing(t) ==
  /\ At(t, "owner") /\ my[t].op \in ResumeOps
  /\ progress.complete \/ (progress.done = -1 /\ t \in Users)
  /\ Release(t, Over(t, TRUE))
  /\ UNCHANGED <<storevars, routed, lifevars, autovars, runvars, bounds>>

\* The prompt starts an idle coordinator with the lease it finds; Continue
\* queues its text when a run is still there. Start has reset the progress.
Prompt(t) ==
  /\ At(t, "owner") /\ my[t].op \in ResumeOps \cup {"start", "continue"}
  /\ my[t].op \in ResumeOps => ~progress.complete
  /\ progress' = IF my[t].op = "start" THEN Unplanned ELSE progress
  /\ \/ /\ coord = "idle" /\ coord' = "running" /\ run' = lease
        /\ Goto(t, "prompted") /\ UNCHANGED refvars
     \/ /\ coord # "idle" /\ my[t].op = "continue"
        /\ Goto(t, "prompted") /\ UNCHANGED <<coord, run, refvars>>
     \/ /\ coord # "idle" /\ my[t].op # "continue"
        /\ Release(t, Over(t, FALSE)) /\ UNCHANGED <<coord, run>>
  /\ UNCHANGED <<storevars, routed, lifevars, autovars, bounds>>

\* The steer that the prompt handled cannot be cleared: resume fails and releases
\* its reference, and nobody stops the coordinator or waits for it.
SteerUncleared(t) ==
  /\ At(t, "prompted") /\ my[t].op \in ResumeOps
  /\ coord' = IF coord = "running" THEN "stray" ELSE coord
  /\ Release(t, Over(t, FALSE))
  /\ UNCHANGED <<run, progress, storevars, routed, lifevars, autovars, bounds>>

Mut_Publish(t) ==   \* no epoch
  /\ At(t, "prompted")
  /\ lifecycle' = "running" /\ Goto(t, "published")
  /\ UNCHANGED <<storevars, routed, refvars, cocreating, starting, aborted, autovars, runvars, bounds>>

\* The run is running, but a resume that was paused meanwhile gives it up.
Publish(t) ==
  /\ At(t, "prompted")
  /\ IF my[t].missed /\ my[t].op \in ResumeOps
     THEN Goto(t, "withdrawn") /\ UNCHANGED lifecycle
     ELSE lifecycle' = "running" /\ Goto(t, "published")
  /\ UNCHANGED <<storevars, routed, refvars, cocreating, starting, aborted, autovars, runvars, bounds>>

StopCoordinator == coord' = IF coord \in {"running", "stray"} THEN "stopping" ELSE coord

Withdraw(t) ==
  /\ At(t, "withdrawn")
  /\ StopCoordinator /\ UNCHANGED <<run, progress>>
  /\ Release(t, Over(t, FALSE))
  /\ UNCHANGED <<storevars, routed, lifevars, autovars, bounds>>

Mut_Transfer(t) ==   \* a release
  /\ At(t, "published")
  /\ IF my[t].op = "leave"   \* Continue's own reference
     THEN Detach(t, "spawn", TRUE, coOwned, actionRefs, scopedRefs) ELSE Release(t, "spawn")
  /\ UNCHANGED <<storevars, routed, lifevars, autovars, runvars, bounds>>

Transfer(t) ==
  /\ At(t, "published")
  /\ IF my[t].op = "leave"   \* Continue's own reference
     THEN Detach(t, "spawn", TRUE, coOwned, actionRefs, scopedRefs) ELSE TransferToRun(t, "spawn")
  /\ UNCHANGED <<storevars, routed, lifevars, autovars, runvars, bounds>>

\* go h.waitDone()
Spawn(t) ==
  /\ At(t, "spawn")
  /\ \E w \in Watchers :
       /\ At(w, "idle")
       /\ my' = [my EXCEPT ![w].at = "wait", ![w].op = "none",
                           ![t] = Placed(t, IF my[t].op = "leave" THEN "leftCo" ELSE Over(t, TRUE))]
  /\ UNCHANGED <<storevars, routed, refvars, lifevars, autovars, runvars, bounds>>
--------------------------------------------------------------------------------
\* ConfirmAdaptationProposal is running before it prompts, and can be rolled back.
BeginStartingRun(t) ==
  /\ At(t, "owner") /\ my[t].op = "confirm"
  /\ IF lifecycle = "running" \/ cocreating
     THEN Release(t, "idle") /\ UNCHANGED lifevars
     ELSE /\ runOwned' = TRUE /\ scopedRefs' = scopedRefs - 1 /\ UNCHANGED <<lease, coOwned, actionRefs>>
          /\ lifecycle' = "running" /\ starting' = t /\ aborted' = FALSE /\ UNCHANGED cocreating
          /\ my' = [my EXCEPT ![t].at = "starting", ![t].was = lifecycle]
  /\ UNCHANGED <<storevars, routed, autovars, runvars, bounds>>

ConfirmPrompt(t) ==
  /\ At(t, "starting")
  /\ \/ /\ ~(aborted /\ starting = t) /\ coord = "idle" /\ lease # NoLease
        /\ coord' = "running" /\ run' = lease /\ Goto(t, "confirming")
     \/ Goto(t, "unprompted") /\ UNCHANGED <<coord, run>>
  /\ UNCHANGED <<progress, storevars, routed, refvars, lifevars, autovars, bounds>>

\* The last check, the end of the transaction and the start are one locked
\* section; the transaction may fail to end.
ConfirmPublish(t) ==
  /\ At(t, "confirming")
  /\ \/ /\ starting = t /\ ~aborted /\ lifecycle = "running"
        /\ starting' = Nobody /\ aborted' = FALSE /\ progress' = Unplanned
        /\ Goto(t, "spawn") /\ UNCHANGED coord
     \/ StopCoordinator /\ Goto(t, "cancelled") /\ UNCHANGED <<starting, aborted, progress>>
  /\ UNCHANGED <<run, lifecycle, cocreating, storevars, routed, refvars, autovars, bounds>>

Mut_RollBack(t) ==   \* keeps the lease
  /\ At(t, "unprompted") \/ (At(t, "cancelled") /\ coord = "idle")
  /\ IF starting = t
     THEN /\ starting' = Nobody /\ aborted' = FALSE /\ lifecycle' = IF aborted THEN "paused" ELSE my[t].was
          /\ runOwned' = FALSE /\ Goto(t, "idle") /\ UNCHANGED <<lease, coOwned, actionRefs, scopedRefs>>
     ELSE Goto(t, "idle") /\ UNCHANGED <<starting, aborted, lifecycle, refvars>>
  /\ UNCHANGED <<cocreating, storevars, routed, autovars, runvars, bounds>>

RollBack(t) ==
  /\ At(t, "unprompted") \/ (At(t, "cancelled") /\ coord = "idle")
  /\ IF starting = t
     THEN /\ starting' = Nobody /\ aborted' = FALSE /\ lifecycle' = IF aborted THEN "paused" ELSE my[t].was
          /\ Detach(t, "idle", FALSE, coOwned, actionRefs, scopedRefs)
     ELSE Goto(t, "idle") /\ UNCHANGED <<starting, aborted, lifecycle, refvars>>
  /\ UNCHANGED <<cocreating, storevars, routed, autovars, runvars, bounds>>
--------------------------------------------------------------------------------
Resumes(t) == my[t].op \in ResumeOps
              /\ my[t].at \in {"admitted", "waited", "gated", "owner", "prompted", "withdrawn", "published", "spawn", "dropping", "dropped"}
Active == lifecycle = "running" \/ autoInFlight \/ \E t \in Threads : Resumes(t)

\* abortWithEvent: the lifecycle first, then the coordinator; every resume in
\* flight has missed the pause (pauseEpoch).
Pause(t) ==
  /\ lifecycle' = "paused" /\ aborted' = (aborted \/ starting # Nobody)
  /\ my' = [k \in Threads |-> [my[k] EXCEPT !.missed = @ \/ Resumes(k), !.at = IF k = t THEN "aborting" ELSE @,
                                           !.op = IF k = t THEN "abort" ELSE @]]
  /\ UNCHANGED <<cocreating, starting, storevars, routed, refvars, autovars, runvars, bounds>>

Abort(u) ==
  /\ At(u, "idle") /\ u \in Users /\ "abort" \in use.calls
  /\ Active
  /\ Pause(u)

\* stopForPlanningReview and stopForCharacterConfirmation are no pause.
StopForReview(u) ==
  /\ At(u, "idle") /\ "review" \in use.calls
  /\ lifecycle = "running"
  /\ lifecycle' = "idle" /\ my' = [my EXCEPT ![u].at = "aborting", ![u].op = "review"]
  /\ UNCHANGED <<cocreating, starting, aborted, storevars, routed, refvars, autovars, runvars, bounds>>

AbortCoordinator(t) ==
  /\ At(t, "aborting")
  /\ StopCoordinator /\ Goto(t, "idle")
  /\ UNCHANGED <<run, progress, storevars, routed, refvars, lifevars, autovars, bounds>>
--------------------------------------------------------------------------------
\* PauseForCoCreate
Enter(u) ==
  /\ At(u, "idle") /\ "enter" \in use.calls
  /\ ~cocreating /\ lifecycle # "completed"
  /\ Call(u, "enter")
  /\ UNCHANGED <<storevars, routed, refvars, lifevars, autovars, runvars, bounds>>

Occupy(t) ==
  /\ At(t, "owner") /\ my[t].op = "enter"
  /\ IF cocreating \/ lifecycle = "completed"
     THEN Release(t, "idle") /\ UNCHANGED cocreating
     ELSE cocreating' = TRUE /\ Goto(t, "occupied") /\ UNCHANGED refvars
  /\ UNCHANGED <<lifecycle, starting, aborted, storevars, routed, autovars, runvars, bounds>>

\* It stops the run that it saw when it was called.
TransferToCoCreate(t) ==
  /\ At(t, "occupied")
  /\ Detach(t, IF my[t].was = "running" THEN "occupying" ELSE "idle",
            runOwned, coOwned \/ (lease # NoLease /\ scopedRefs > 0), actionRefs, Less(scopedRefs))
  /\ UNCHANGED <<storevars, routed, lifevars, autovars, runvars, bounds>>

PauseForCoCreate(t) ==
  /\ At(t, "occupying")
  /\ IF Active THEN Pause(t)
     ELSE Goto(t, "idle") /\ UNCHANGED <<storevars, routed, refvars, lifevars, autovars, runvars, bounds>>

\* ResumeFromCoCreate and CancelCoCreate wait for the coordinator first.
Leave(u, o) ==
  /\ At(u, "idle") /\ cocreating
  /\ \/ o = "leave" /\ MayStart(o) /\ Started
     \/ o = "cancel" /\ o \in use.calls /\ UNCHANGED bounds
  /\ Call(u, o)
  /\ UNCHANGED <<storevars, routed, refvars, lifevars, autovars, runvars>>

\* ... and so does Resume.
WaitForIdle(t) ==
  /\ At(t, "admitted") /\ my[t].op \in {"leave", "cancel", "resume"}
  /\ coord = "idle"
  /\ Goto(t, IF my[t].op = "resume" THEN "waited" ELSE "gated")
  /\ UNCHANGED <<storevars, routed, refvars, lifevars, autovars, runvars, bounds>>

Left(t) ==
  /\ At(t, "owner") /\ my[t].op \in {"leave", "cancel"}
  /\ IF ~cocreating THEN Release(t, "idle") /\ UNCHANGED cocreating
     ELSE cocreating' = FALSE /\ Goto(t, IF my[t].op = "leave" THEN "left" ELSE "leftCo") /\ UNCHANGED refvars
  /\ UNCHANGED <<lifecycle, starting, aborted, storevars, routed, autovars, runvars, bounds>>

\* ... and Continue, which may refuse the author's text.
LeaveContinue(t) ==
  /\ At(t, "left")
  /\ \/ lifecycle = "running" /\ Goto(t, "leftCo") /\ UNCHANGED <<coord, run>>
     \/ /\ lifecycle # "running"
        /\ Goto(t, "prompted")
        /\ IF coord = "idle" THEN coord' = "running" /\ run' = lease ELSE UNCHANGED <<coord, run>>
  /\ UNCHANGED <<progress, storevars, routed, refvars, lifevars, autovars, bounds>>

LeaveFails(t) ==
  /\ At(t, "left")
  /\ cocreating' = TRUE
  /\ Release(t, "idle")
  /\ UNCHANGED <<lifecycle, starting, aborted, storevars, routed, autovars, runvars, bounds>>

LeaveCoCreate(t) ==
  /\ At(t, "leftCo")
  /\ Detach(t, "idle", runOwned, FALSE, actionRefs, Less(scopedRefs))
  /\ UNCHANGED <<storevars, routed, lifevars, autovars, runvars, bounds>>
--------------------------------------------------------------------------------
\* Steer, and every other call that changes the book while no run is started.
Mutate(u) ==
  /\ At(u, "idle") /\ "mutate" \in use.calls
  /\ Call(u, "mutate")
  /\ UNCHANGED <<storevars, routed, refvars, lifevars, autovars, runvars, bounds>>

\* A job of the Web never shares the lease of a short call; the router gets it
\* after the lock.
BeginNormalFlowAction(u) ==
  /\ At(u, "idle") /\ "act" \in use.calls
  /\ \/ /\ lease # NoLease /\ (runOwned \/ coOwned \/ actionRefs > 0)
        /\ actionRefs' = actionRefs + 1 /\ UNCHANGED <<lease, held>>
        /\ my' = [my EXCEPT ![u].at = "acting", ![u].op = "act"]
     \/ /\ LeaseTaken
        /\ actionRefs' = 1
        /\ my' = [my EXCEPT ![u].at = "routing", ![u].op = "act"]
  /\ UNCHANGED <<revision, routed, runOwned, coOwned, scopedRefs, lifevars, autovars, runvars, bounds>>

RouteAction(u) ==
  /\ At(u, "routing")
  /\ routed' = lease /\ Goto(u, "acting")
  /\ UNCHANGED <<storevars, refvars, lifevars, autovars, runvars, bounds>>

EndAction(u) ==
  /\ At(u, "acting")
  /\ Detach(u, "idle", runOwned, coOwned, Less(actionRefs), scopedRefs)
  /\ UNCHANGED <<storevars, routed, lifevars, autovars, runvars, bounds>>

\* The store starts a revision only when nobody holds the lease, and vice versa.
Revise ==
  /\ "revise" \in use.calls
  /\ held = NoLease
  /\ revision' = ~revision
  /\ UNCHANGED <<held, routed, refvars, lifevars, autovars, runvars, my, bounds>>
--------------------------------------------------------------------------------
\* The run writes if the store still knows its lease. It opens any chapter, one
\* past the last one too, and the book is open again; a commit, of the next
\* chapter or of one once more, closes the chapter, and completes the book or not.
Plans == progress.done = -1 /\ progress' = [Unplanned EXCEPT !.done = 0]
Opens == progress.done >= 0 /\ progress' = [progress EXCEPT !.open = TRUE, !.complete = FALSE]
Commits == \E n \in {progress.done, progress.done + 1} \cap 1..Chapters, c \in BOOLEAN :
             /\ c => n = Chapters
             /\ progress' = [done |-> n, open |-> FALSE, complete |-> c]
Write ==
  /\ coord # "idle" /\ held = run
  /\ Plans \/ Opens \/ Commits
  /\ UNCHANGED <<coord, run, storevars, routed, refvars, lifevars, autovars, my, bounds>>

\* A run ends, asked to or not.
Stop ==
  /\ coord # "idle" /\ coord' = "idle"
  /\ run' = NoLease
  /\ UNCHANGED <<progress, storevars, routed, refvars, lifevars, autovars, my, bounds>>

Wake(w) ==
  /\ At(w, "wait")
  /\ coord = "idle"
  /\ Goto(w, "woke")
  /\ UNCHANGED <<storevars, routed, refvars, lifevars, autovars, runvars, bounds>>

\* tryRepairStoppedAdaptation: the host is idle for a moment.
TryRepair(w) ==
  /\ At(w, "woke")
  /\ repairs < use.repairs /\ ~revision
  /\ lifecycle = "running"
  /\ lifecycle' = "idle" /\ repairs' = repairs + 1
  /\ my' = [my EXCEPT ![w].at = "retry", ![w].op = "repair"]
  /\ UNCHANGED <<starts, cocreating, starting, aborted, storevars, routed, refvars, autovars, runvars>>

Tries == IF progress.done > autoCompleted THEN 0 ELSE attempts

MayTry == Tries < use.attempts

\* hasIncompleteCreativeProgress
Incomplete == progress.done >= 0 /\ ~progress.complete /\ (progress.open \/ progress.done < Chapters)

TryAutoResume(w) ==
  /\ At(w, "woke") \/ At(w, "unrepaired")
  /\ IF Incomplete /\ lifecycle = "running" /\ ~cocreating /\ ~autoInFlight
     THEN /\ autoCompleted' = IF progress.done > autoCompleted THEN progress.done ELSE autoCompleted
          /\ IF MayTry
             THEN /\ attempts' = Tries + 1 /\ autoInFlight' = TRUE /\ lifecycle' = "idle"
                  /\ my' = [my EXCEPT ![w].at = "retry", ![w].op = "auto"]
             ELSE attempts' = Tries /\ UNCHANGED <<autoInFlight, lifecycle>> /\ Goto(w, "terminal")
     ELSE Goto(w, "terminal") /\ UNCHANGED <<lifecycle, autovars>>
  /\ UNCHANGED <<cocreating, starting, aborted, storevars, routed, refvars, runvars, bounds>>

\* resume(true): refused after a pause, and by whoever runs already.
AutoResume(w) ==
  /\ At(w, "retry")
  /\ attempts' = IF autoInFlight \/ lifecycle = "paused" THEN attempts ELSE 0
  /\ autoCompleted' = IF autoInFlight \/ lifecycle = "paused" THEN autoCompleted ELSE 0
  /\ IF lifecycle \in {"paused", "running"} \/ cocreating
     THEN Goto(w, "unresumed") ELSE my' = [my EXCEPT ![w].at = "admitted", ![w].missed = FALSE]
  /\ UNCHANGED <<autoInFlight, storevars, routed, refvars, lifevars, runvars, bounds>>

AutoResumed(w) ==
  /\ At(w, "resumed") \/ At(w, "unresumed")
  /\ autoInFlight' = IF my[w].op = "auto" THEN FALSE ELSE autoInFlight
  /\ Goto(w, IF At(w, "resumed") THEN "idle" ELSE IF my[w].op = "auto" THEN "terminal" ELSE "unrepaired")
  /\ UNCHANGED <<attempts, autoCompleted, storevars, routed, refvars, lifevars, runvars, bounds>>

\* waitDone: the final lifecycle, and then the lease of the run.
Terminal(w) ==
  /\ At(w, "terminal")
  /\ lifecycle' = IF progress.complete THEN "completed" ELSE IF lifecycle = "running" THEN "idle" ELSE lifecycle
  /\ Goto(w, "ending")
  /\ UNCHANGED <<cocreating, starting, aborted, storevars, routed, refvars, autovars, runvars, bounds>>

Mut_ReleaseRun(w) ==   \* keeps the lease
  /\ At(w, "ending")
  /\ runOwned' = FALSE /\ Goto(w, "idle") /\ UNCHANGED <<lease, coOwned, actionRefs, scopedRefs>>
  /\ UNCHANGED <<storevars, routed, lifevars, autovars, runvars, bounds>>

ReleaseRun(w) ==
  /\ At(w, "ending")
  /\ Detach(w, "idle", FALSE, coOwned, actionRefs, scopedRefs)
  /\ UNCHANGED <<storevars, routed, lifevars, autovars, runvars, bounds>>
--------------------------------------------------------------------------------
\* What a thread does that is under way.
Step(t) ==
  \/ DropRouter(t) \/ DropStore(t)
  \/ GatesFail(t) \/ OwnerReturns(t) \/ ResumeFinishes(t) \/ ResumeGates(t) \/ ResumeNothing(t)
  \/ Acquire(t) \/ Prompt(t) \/ SteerUncleared(t)
  \/ Publish(t) \/ Withdraw(t) \/ Transfer(t) \/ Spawn(t)
  \/ BeginStartingRun(t) \/ ConfirmPrompt(t) \/ ConfirmPublish(t) \/ RollBack(t)
  \/ AbortCoordinator(t)
  \/ Occupy(t) \/ TransferToCoCreate(t) \/ PauseForCoCreate(t)
  \/ WaitForIdle(t) \/ Left(t) \/ LeaveContinue(t) \/ LeaveFails(t) \/ LeaveCoCreate(t)
  \/ RouteAction(t) \/ EndAction(t)
  \/ Wake(t) \/ TryRepair(t) \/ TryAutoResume(t) \/ AutoResume(t) \/ AutoResumed(t) \/ Terminal(t) \/ ReleaseRun(t)

NewCall(u) ==
  \/ \E o \in Starters : StartPrepared(u, o)
  \/ Resume(u) \/ ResumeRefused(u) \/ Abort(u) \/ StopForReview(u)
  \/ Enter(u) \/ (\E o \in {"leave", "cancel"} : Leave(u, o))
  \/ Mutate(u) \/ BeginNormalFlowAction(u)

Next ==
  /\ UNCHANGED use
  /\ \/ \E t \in Threads : Step(t)
     \/ \E u \in use.users : NewCall(u)
     \/ Revise \/ Write \/ Stop

\* Goroutines are scheduled, and every run ends (a model stream that never
\* ends keeps its run).
Fairness ==
  /\ WF_vars(Stop /\ UNCHANGED use)
  /\ \A t \in Threads : WF_vars(Step(t) /\ UNCHANGED use)
Spec == Init /\ [][Next]_vars
FairSpec == Spec /\ Fairness
--------------------------------------------------------------------------------
(* Properties *)

\* The host never keeps a lease that nobody uses: acquireNormalFlowOwnership
\* would refuse every call from then on ("normal flow lease has no live owner").
LeaseHasOwner == Acquirable

\* The lease in the host and the one in the router are the store's: the router
\* never dispatches under a lease that was released, and no revision starts
\* while the host has one.
LeaseIsCurrent ==
  /\ lease # NoLease => held = lease /\ ~revision
  /\ routed # NoLease => routed = held

\* A paused book is not resumed automatically: a resume that waitDone began
\* before the pause does not make it run again (host.go 1778: a manual pause
\* "不会被自动恢复"). An adaptation's confirmation that is paused and started
\* anew under such a resume is left out: it makes the paused book run.
PauseIsKept ==
  [][\A w \in Watchers : "confirm" \notin use.calls /\ At(w, "prompted") /\ my'[w].at = "published"
       => lifecycle # "paused"]_vars

\* A run that was started once has the lease until it is over, through pauses,
\* repairs and automatic resumes (host.go 1085: the resumed run cannot inherit a
\* lease that waitDone is about to clear), and what it writes is accepted. Only
\* the stray run loses it, whose resume failed after the prompt.
RunKeepsLease == use.starts = 1 /\ coord = "running" => held = run

\* What the code does leave behind: when the automatic resume finds nothing to
\* do it succeeds, and waitDone, which takes it for the replacement run (host.go
\* 1787), keeps the lease of the run that ended; the book is complete.
LeftByResume == progress.complete /\ lifecycle \in {"idle", "paused"}

\* Whatever calls do, a book that nobody starts any more comes to rest: the
\* automatic resumes end, and no run leaves its lease behind but that one.
ComesToRest == <>[](/\ coord = "idle" /\ ~autoInFlight
                    /\ runOwned => LeftByResume
                    /\ lease = NoLease \/ coOwned \/ actionRefs > 0 \/ scopedRefs > 0 \/ LeftByResume)
================================================================================

--------------------------- MODULE ResumeScheduler ---------------------------
(***************************************************************************)
(* The web server's scheduled resume (entry/web/resume_scheduler.go): at   *)
(* every configured time of the day, and for the times of the day it       *)
(* missed, it evaluates every project of the library once.  A batch and    *)
(* the result of each project are saved, so that a server that stops or    *)
(* dies goes on with the projects that are left.                           *)
(*                                                                         *)
(* What resuming a project does, and the summary of a batch for the        *)
(* settings page, are abstracted: only that a project was evaluated.       *)
(***************************************************************************)
EXTENDS Integers, FiniteSets, FiniteSetsExt

CONSTANTS
  Projects,
  Schedules,      \* [times, zone]: what a user may configure
  DayLength,      \* ticks of a day
  MaxConcurrent,
  ZoneSpread,     \* how far apart clocks may be: 26 hours in the code, -12 to +14
  KeepDays,       \* 2 in the code
  RetryDelay,
  MaxTime,        \* bound of the clock
  Settings        \* [schedules, moves, projects, until, troubles, trash]: which of them there
                  \* are, which schedule the user may turn into which, where the clock ends,
                  \* how many reads and writes fail or servers stop and crash at the most,
                  \* which projects may be removed

ASSUME SchedulerAssumption ==
  /\ DayLength \in Nat \ {0} /\ MaxConcurrent \in Nat \ {0}
  /\ ZoneSpread \in Nat /\ KeepDays \in Nat /\ RetryDelay \in Nat \ {0} /\ MaxTime \in Nat
  /\ \A x \in Settings : /\ x.schedules \subseteq Schedules /\ x.moves \subseteq x.schedules \X x.schedules
                         /\ x.until \in 0..MaxTime
                         /\ x.troubles \in Nat /\ x.projects \subseteq Projects /\ x.trash \subseteq Projects
  /\ \A s \in Schedules : s.times \subseteq 0..DayLength - 1 /\ s.zone \in 0..ZoneSpread

VARIABLES
  setting,                 \* one of Settings
  now, schedule, library,  \* the clock, the saved settings, the projects there are
  disk,                    \* scheduled-resume-state.json
  mem,                     \* Run's copy of it
  at,                      \* where Run is
  left, listed, busy,      \* the batch run: to be handed out, byID, with a worker
  timer, wake, stopping,   \* what Run's select waits for
  saving,                  \* a schedule is saved and Wake not called yet
  troubles,                \* what may still go wrong
  setAt,                   \* when the timer was set
  asked,                   \* what this process has evaluated: <<occurrence, project>>
  settled,                 \* of which a result was ever saved
  forgotten                \* occurrences that were done KeepDays ago when a batch ended

vars == <<setting, now, schedule, library, disk, mem, at, left, listed, busy, timer, wake,
          stopping, saving, troubles, setAt, asked, settled, forgotten>>
world == <<setting, now, schedule, library>>
round == <<left, listed, busy>>
clock == <<timer, setAt>>
signals == <<wake, saving>>
ghost == <<asked, settled, forgotten>>

Never == -1   \* no timer is set

\* An occurrence: a day and a time of that day, by the configured wall clock.  The
\* clock of the westmost zone is now, the others are ahead of it.
Occurrences == (0..((MaxTime + ZoneSpread) \div DayLength) + 2) \X (0..DayLength - 1)
Local(s) == now + s.zone
Today(s) == Local(s) \div DayLength
TimeOf(o, s) == o[1] * DayLength + o[2] - s.zone
Configured(o, s) == o[2] \in s.times

NoBatch == [occurrences |-> {}, status |-> <<>>]
Active(s) == s.batch # NoBatch
Completed(s) == {c[1] : c \in s.completed}
Mut_Pending(b) == DOMAIN b.status           \* hands out what is done again
Pending(b) == {p \in DOMAIN b.status : b.status[p] = "pending"}

\* Occurrences of today whose time has come and that are not done.
Due(s) ==
  {o \in Occurrences : o[1] = Today(schedule) /\ Configured(o, schedule)
                       /\ TimeOf(o, schedule) <= now} \ Completed(s)

\* The next one of today that is not done, or else the first of tomorrow.
Upcoming(s) ==
  {o \in Occurrences : o[1] = Today(schedule) /\ Configured(o, schedule)
                       /\ TimeOf(o, schedule) >= now} \ Completed(s)
Mut_NextOccurrence(s) ==                    \* knows the first time of a day only
  IF Today(schedule) * DayLength + Min(schedule.times) - schedule.zone >= now
    THEN TimeOf(<<Today(schedule), Min(schedule.times)>>, schedule)
    ELSE TimeOf(<<Today(schedule) + 1, Min(schedule.times)>>, schedule)
NextOccurrence(s) ==
  IF Upcoming(s) # {} THEN Min({TimeOf(o, schedule) : o \in Upcoming(s)})
  ELSE TimeOf(<<Today(schedule) + 1, Min(schedule.times)>>, schedule)

Mut_NextTrigger ==                          \* forgets the batch that is left
  IF schedule.times = {} THEN Never ELSE NextOccurrence(mem)

NextTrigger ==
  IF Active(mem) THEN now
  ELSE IF schedule.times = {} THEN Never
  ELSE NextOccurrence(mem)

Mut_Prune(completed) == {c \in completed : c[2] >= now}   \* forgets today's
TooOld(completed) == {c \in completed : c[2] < now - KeepDays * DayLength}
Prune(completed) == {c \in completed : c[2] >= now - KeepDays * DayLength}

Finished(s) ==
  [completed |-> Prune({c \in s.completed : c[1] \notin s.batch.occurrences}
                         \cup (s.batch.occurrences \X {now})),
   batch |-> NoBatch]

Trouble == troubles > 0 /\ troubles' = troubles - 1

\* The whole state is written to a temporary file that replaces the old one.
Save(s) == disk' = s /\ UNCHANGED troubles
SaveFails == Trouble /\ UNCHANGED disk

Init ==
  /\ setting \in Settings
  /\ now = 0
  /\ schedule \in setting.schedules
  /\ library = setting.projects
  /\ disk = [completed |-> {}, batch |-> NoBatch]
  /\ mem = disk
  /\ at = "down"
  /\ left = {} /\ listed = {} /\ busy = {}
  /\ timer = Never /\ wake = FALSE /\ stopping = FALSE /\ saving = FALSE
  /\ troubles \in 0..setting.troubles
  /\ setAt = 0
  /\ asked = {} /\ settled = {} /\ forgotten = {}
------------------------------------------------------------------------------
(* Run and evaluate *)

Start ==
  /\ at = "down"
  /\ mem' = disk
  /\ at' = "evaluate"
  /\ UNCHANGED <<world, disk, round, clock, signals, stopping, troubles, ghost>>

NothingDue ==
  /\ at = "evaluate"
  /\ ~Active(mem) /\ Due(mem) = {}
  /\ at' = "next"
  /\ UNCHANGED <<world, disk, mem, round, clock, signals, stopping, troubles, ghost>>

\* The batch is in memory before it is saved, and stays there if it is not.
OpenBatch ==
  /\ at = "evaluate"
  /\ ~Active(mem) /\ Due(mem) # {}
  /\ mem' = [mem EXCEPT !.batch = [occurrences |-> Due(mem),
                                   status |-> [p \in library |-> "pending"]]]
  /\ \/ Save(mem') /\ at' = "batch"
     \/ SaveFails /\ at' = "next"
  /\ UNCHANGED <<world, round, clock, signals, stopping, ghost>>

AtBatch == at = "batch" \/ (at = "evaluate" /\ Active(mem))

\* The settings are invalid, or the projects cannot be listed.
EvaluateFails ==
  /\ AtBatch \/ at = "evaluate"
  /\ Trouble
  /\ at' = "next"
  /\ UNCHANGED <<world, disk, mem, round, clock, signals, stopping, ghost>>

RunBatch ==
  /\ AtBatch
  /\ at' = "dispatch"
  /\ listed' = library
  /\ left' = Pending(mem.batch)
  /\ busy' = {}
  /\ UNCHANGED <<world, disk, mem, clock, signals, stopping, troubles, ghost>>

\* A worker takes the project and evaluates it, unless it is gone.
Dispatch(p) ==
  /\ at = "dispatch"
  /\ p \in left
  /\ Cardinality(busy) < MaxConcurrent
  /\ left' = left \ {p}
  /\ busy' = busy \cup {p}
  /\ asked' = IF p \in listed THEN asked \cup (mem.batch.occurrences \X {p}) ELSE asked
  /\ UNCHANGED <<world, disk, mem, at, listed, clock, signals, stopping, troubles, settled, forgotten>>

\* Whatever became of it, the project is done; a failed save is only logged.
FinishProject(p) ==
  /\ p \in busy
  /\ busy' = busy \ {p}
  /\ mem' = [mem EXCEPT !.batch.status[p] = "done"]
  /\ \/ Save(mem') /\ settled' = settled \cup (mem.batch.occurrences \X {p})
     \/ SaveFails /\ UNCHANGED settled
  /\ UNCHANGED <<world, at, left, listed, clock, signals, stopping, asked, forgotten>>

AbandonDispatch ==
  /\ at = "dispatch" /\ stopping /\ left # {}
  /\ left' = {}
  /\ UNCHANGED <<world, disk, mem, at, listed, busy, clock, signals, stopping, troubles, ghost>>

FinishBatch ==
  /\ at = "dispatch" /\ left = {} /\ busy = {} /\ ~stopping
  /\ mem' = Finished(mem)
  /\ Save(mem') \/ SaveFails
  /\ forgotten' = forgotten \cup {c[1] : c \in TooOld(mem.completed)}
  /\ at' = "next"
  /\ UNCHANGED <<world, round, clock, signals, stopping, asked, settled>>

SetTimer ==
  /\ at = "next" /\ ~stopping
  /\ at' = "wait"
  /\ setAt' = now
  /\ \/ timer' = NextTrigger /\ UNCHANGED troubles
     \/ ~Active(mem) /\ Trouble /\ timer' = now + RetryDelay
  /\ UNCHANGED <<world, disk, mem, round, signals, stopping, ghost>>

TimerFires ==
  /\ at = "wait"
  /\ timer # Never /\ timer <= now
  /\ at' = "evaluate"
  /\ UNCHANGED <<world, disk, mem, round, clock, signals, stopping, troubles, ghost>>

Woken ==
  /\ at = "wait" /\ wake
  /\ wake' = FALSE
  /\ at' = "evaluate"
  /\ UNCHANGED <<world, disk, mem, round, clock, saving, stopping, troubles, ghost>>

Down ==
  /\ at' = "down"
  /\ mem' = [completed |-> {}, batch |-> NoBatch]
  /\ left' = {} /\ listed' = {} /\ busy' = {}
  /\ timer' = Never /\ setAt' = 0 /\ wake' = FALSE /\ stopping' = FALSE /\ saving' = FALSE
  /\ asked' = {}
  /\ UNCHANGED <<world, disk, settled, forgotten>>

Exit ==
  /\ stopping
  /\ at \in {"next", "wait"} \/ (at = "dispatch" /\ left = {} /\ busy = {})
  /\ Down
  /\ UNCHANGED troubles
------------------------------------------------------------------------------
(* The world around it *)

\* The server is closed; Run stops when its workers have finished.
Close ==
  /\ at # "down" /\ ~stopping
  /\ Trouble
  /\ stopping' = TRUE
  /\ UNCHANGED <<world, disk, mem, at, round, clock, signals, ghost>>

Crash == at # "down" /\ Trouble /\ Down

\* The settings page saves a schedule, which Run may read before it is woken.
SaveSchedule(s) ==
  /\ s # schedule /\ <<schedule, s>> \in setting.moves
  /\ ~saving
  /\ schedule' = s
  /\ saving' = (at # "down")
  /\ UNCHANGED <<setting, now, library, disk, mem, at, round, clock, wake, stopping, troubles, ghost>>

Wake ==
  /\ saving
  /\ saving' = FALSE /\ wake' = TRUE
  /\ UNCHANGED <<world, disk, mem, at, round, clock, stopping, troubles, ghost>>

Trash(p) ==
  /\ p \in library \cap setting.trash
  /\ library' = library \ {p}
  /\ UNCHANGED <<setting, now, schedule, disk, mem, at, round, clock, signals, stopping, troubles, ghost>>

Tick ==
  /\ now < setting.until
  /\ now' = now + 1
  /\ UNCHANGED <<setting, schedule, library, disk, mem, at, round, clock, signals, stopping, troubles, ghost>>

Step ==
  \/ Start \/ NothingDue \/ OpenBatch \/ EvaluateFails \/ RunBatch
  \/ \E p \in Projects : Dispatch(p)
  \/ AbandonDispatch \/ FinishBatch \/ SetTimer \/ TimerFires \/ Woken \/ Exit

Next ==
  \/ Step
  \/ \E p \in Projects : FinishProject(p) \/ Trash(p)
  \/ \E s \in Schedules : SaveSchedule(s)
  \/ Wake \/ Close \/ Crash \/ Tick

Spec == Init /\ [][Next]_vars

\* Run goes on, every worker comes back, and a server that died is started again.
Fairness == WF_vars(Step) /\ \A p \in Projects : WF_vars(FinishProject(p))
FairSpec == Spec /\ Fairness
------------------------------------------------------------------------------
(* Properties *)

States ==
  [completed : SUBSET (Occurrences \X (0..MaxTime)),
   batch : [occurrences : SUBSET Occurrences,
            status : UNION {[S -> {"pending", "done"}] : S \in SUBSET Projects}]]

\* The types of the variables.
TypeOK ==
  /\ setting \in Settings /\ now \in 0..MaxTime /\ schedule \in setting.schedules
  /\ library \subseteq Projects
  /\ disk \in States /\ mem \in States
  /\ at \in {"down", "evaluate", "batch", "dispatch", "next", "wait"}
  /\ left \subseteq Projects /\ listed \subseteq Projects /\ busy \subseteq Projects
  /\ timer \in Nat \cup {Never} /\ setAt \in 0..MaxTime
  /\ wake \in BOOLEAN /\ saving \in BOOLEAN /\ stopping \in BOOLEAN /\ troubles \in 0..setting.troubles
  /\ asked \subseteq Occurrences \X Projects /\ settled \subseteq Occurrences \X Projects
  /\ forgotten \subseteq Occurrences

Asks(p) == p \in busy' \ busy /\ p \in listed

\* The user has clocks to choose from that are further apart than the days that
\* completions outlive the day they are of: what was done under one may be
\* forgotten while its day lasts under another.
Wide ==
  \E s, t \in setting.schedules : s.zone - t.zone > (KeepDays - 1) * DayLength
Lost == {o \in forgotten : Wide}

\* One process evaluates a project once for an occurrence, however saves fail,
\* the settings change and old occurrences are forgotten: with clocks at most a
\* day apart (KeepDays is two) for good, with clocks further apart as long as
\* the completion is kept.
OncePerLife ==
  [][\A p \in Projects :
       Asks(p) => asked \cap (mem.batch.occurrences \X {p}) \subseteq Lost \X {p}]_vars

\* A restarted server evaluates no project whose result for the occurrence was
\* saved, as long and under the same clocks: "RestartsOnlyPendingProjects"
\* (resume_scheduler_test.go:100), in any order of crashes, failed writes and new
\* batches.
ResultsSurvive ==
  [][\A p \in Projects :
       Asks(p) => settled \cap (mem.batch.occurrences \X {p}) \subseteq Lost \X {p}]_vars

\* The scheduler waits past no occurrence that was still to come when it began
\* to wait, whatever the user changes meanwhile.
NothingSleptThrough ==
  at = "wait" /\ ~wake /\ ~saving =>
    \A o \in Occurrences :
      Configured(o, schedule) /\ TimeOf(o, schedule) >= setAt /\ o \notin Completed(mem)
        => timer # Never /\ timer <= Max({TimeOf(o, schedule), setAt + RetryDelay})

\* A batch that was saved is finished, by this process or a later one.
BatchesEnd == Active(disk) ~> (at # "down" /\ ~Active(mem))
==============================================================================

----------------------- MODULE ResumeScheduler_proofs ------------------------
(***************************************************************************)
(* Proofs about ResumeScheduler, for any projects, schedules, days and     *)
(* numbers of troubles.  A project is not evaluated again for an           *)
(* occurrence because the batch in memory, and the one that a later        *)
(* process reads from the file, know of it (Known), or the occurrence is   *)
(* forgotten: after its day is over in every zone the user may choose      *)
(* (Over), unless these are too far apart (Wide).                          *)
(***************************************************************************)
EXTENDS ResumeScheduler, WellFoundedInduction, TLAPS

(* A worker has what was handed out, and none of it waits any more.        *)
BatchInv ==
  /\ at # "dispatch" => busy = {}
  /\ at = "down" => asked = {}
  /\ at = "dispatch" => left \subseteq Pending(mem.batch) \ busy
  /\ busy \subseteq DOMAIN mem.batch.status

(* The day of an occurrence is over wherever the user says the clock is.   *)
Over(o) ==
  \A z \in setting.schedules : o[1] * DayLength + DayLength <= now + z.zone

(* An occurrence is taken up, and done, when its day has begun somewhere.  *)
Started(d, time) ==
  \E z \in setting.schedules : d * DayLength <= time + z.zone
Begun(s) ==
  /\ \A o \in s.batch.occurrences : Started(o[1], now)
  /\ \A c \in s.completed : Started(c[1][1], c[2])

(* What a state remembers of a project that was evaluated.                 *)
Known(s, o, p) ==
  \/ o \in Lost
  \/ IF o \in s.batch.occurrences
       THEN p \in DOMAIN s.batch.status /\ s.batch.status[p] = "done"
       ELSE o \in Completed(s) \/ Over(o)

SettledInv ==
  \A o \in Occurrences, p \in Projects : <<o, p>> \in settled =>
    Known(disk, o, p) /\ (at # "down" => Known(mem, o, p))

AskedInv ==
  \A o \in Occurrences, p \in Projects : <<o, p>> \in asked =>
    Known(mem, o, p) \/ (o \in mem.batch.occurrences /\ p \in busy)

OnceInv ==
  /\ TypeOK
  /\ BatchInv
  /\ Begun(mem) /\ Begun(disk)
  /\ SettledInv /\ AskedInv

-----------------------------------------------------------------------------
(* Days.                                                                   *)

LEMMA LeastExists ==
  ASSUME NEW S \in SUBSET Nat, S # {}
  PROVE  \E x \in S : \A y \in S : x <= y
<1> DEFINE R == {ss \in Nat \X Nat : ss[1] < ss[2]}
<1>1. IsWellFoundedOn(R, Nat)
  BY NatLessThanWellFounded DEF OpToRel
<1> HIDE DEF R
<1>2. PICK x \in S : \A y \in S : ~(<<y, x>> \in R)
  BY <1>1, WFMin
<1>3. ASSUME NEW y \in S PROVE x <= y
  <2>1. ~(<<y, x>> \in R)
    BY <1>2
  <2>2. x \in Nat /\ y \in Nat
    OBVIOUS
  <2>3. ~(y < x)
    BY <2>1, <2>2 DEF R
  <2> QED
    BY <2>2, <2>3
<1> QED
  BY <1>3

LEMMA MinLeast ==
  ASSUME NEW S \in SUBSET Nat, S # {}
  PROVE  Min(S) \in S /\ \A y \in S : Min(S) <= y
BY LeastExists DEF Min

LEMMA MaxOfTwo ==
  ASSUME NEW a \in Int, NEW b \in Int
  PROVE  Max({a, b}) \in Int /\ a <= Max({a, b}) /\ b <= Max({a, b})
<1>1. \E x \in {a, b} : \A y \in {a, b} : x >= y
  <2>1. CASE a >= b
    BY <2>1
  <2>2. CASE b >= a
    BY <2>2
  <2> QED
    BY <2>1, <2>2
<1> QED
  BY <1>1 DEF Max

LEMMA DayOf ==
  ASSUME NEW x \in Nat, NEW D \in Nat \ {0}
  PROVE  /\ x \div D \in Nat
         /\ (x \div D) * D <= x /\ x < (x \div D) * D + D
OBVIOUS

LEMMA DayOrder ==
  ASSUME NEW d \in Int, NEW e \in Int, NEW D \in Nat \ {0}, d < e
  PROVE  d * D + D <= e * D
<1>1. PICK k \in Nat : e = d + 1 + k
  <2>1. e - d - 1 \in Nat /\ e = d + 1 + (e - d - 1)
    OBVIOUS
  <2> QED
    BY <2>1
<1>2. e * D = d * D + D + k * D
  BY <1>1
<1>3. k * D >= 0
  OBVIOUS
<1>4. d * D \in Int /\ k * D \in Int
  OBVIOUS
<1> QED
  BY <1>2, <1>3, <1>4

LEMMA Constants ==
  /\ DayLength \in Nat \ {0} /\ MaxTime \in Nat /\ ZoneSpread \in Nat
  /\ KeepDays * DayLength \in Nat
  /\ (KeepDays - 1) * DayLength = KeepDays * DayLength - DayLength
  /\ RetryDelay \in Nat \ {0}
<1>1. /\ DayLength \in Nat \ {0} /\ MaxTime \in Nat /\ ZoneSpread \in Nat /\ KeepDays \in Nat
      /\ RetryDelay \in Nat \ {0}
  BY SchedulerAssumption
<1>2. KeepDays * DayLength \in Nat /\ (KeepDays - 1) * DayLength = KeepDays * DayLength - DayLength
  BY <1>1
<1> QED
  BY <1>1, <1>2

LEMMA Zones ==
  ASSUME TypeOK
  PROVE  \A z \in setting.schedules : z \in Schedules /\ z.zone \in 0..ZoneSpread /\ z.zone \in Nat
BY SchedulerAssumption, Constants DEF TypeOK

LEMMA Clock ==
  ASSUME TypeOK
  PROVE  /\ now \in Nat /\ schedule \in Schedules
         /\ schedule.zone \in Nat /\ schedule.times \subseteq 0..DayLength - 1
         /\ Local(schedule) = now + schedule.zone /\ Local(schedule) \in Nat
         /\ Today(schedule) \in Nat
         /\ Today(schedule) * DayLength \in Nat
         /\ Today(schedule) * DayLength <= now + schedule.zone
         /\ now + schedule.zone < Today(schedule) * DayLength + DayLength
<1>1. now \in Nat /\ schedule \in Schedules
  BY Constants, SchedulerAssumption DEF TypeOK
<1>2. schedule.zone \in Nat /\ schedule.times \subseteq 0..DayLength - 1
  BY <1>1, Constants, SchedulerAssumption
<1>3. Local(schedule) = now + schedule.zone /\ Local(schedule) \in Nat
  BY <1>1, <1>2, Constants DEF Local
<1>4. PICK x \in Nat : x = now + schedule.zone
  BY <1>1, <1>2, Constants
<1>5. Today(schedule) = x \div DayLength
  BY <1>3, <1>4 DEF Today
<1>6. /\ x \div DayLength \in Nat
      /\ (x \div DayLength) * DayLength <= x /\ x < (x \div DayLength) * DayLength + DayLength
  BY <1>4, DayOf, Constants
<1>7. (x \div DayLength) * DayLength \in Nat
  BY <1>6, Constants
<1> QED
  BY <1>1, <1>2, <1>3, <1>4, <1>5, <1>6, <1>7

LEMMA Occurs ==
  ASSUME NEW o \in Occurrences
  PROVE  o[1] \in Nat /\ o[2] \in 0..DayLength - 1 /\ o[2] \in Nat /\ o[1] * DayLength \in Nat
<1>1. o[1] \in Nat /\ o[2] \in 0..DayLength - 1
  BY Constants DEF Occurrences
<1> QED
  BY <1>1, Constants

(* An occurrence that is due belongs to a day that has begun and is not    *)
(* over.                                                                   *)
LEMMA DueToday ==
  ASSUME TypeOK, NEW s, NEW o \in Due(s)
  PROVE  /\ o \in Occurrences /\ o \notin Completed(s)
         /\ Started(o[1], now)
         /\ ~Over(o)
<1>1. o \in Occurrences /\ o \notin Completed(s) /\ o[1] = Today(schedule)
  BY DEF Due
<1>2. o[1] * DayLength \in Nat
  BY <1>1, Occurs
<1>3. /\ o[1] * DayLength <= now + schedule.zone
      /\ now + schedule.zone < o[1] * DayLength + DayLength
      /\ now \in Nat /\ schedule.zone \in Nat
  BY <1>1, Clock
<1>4. schedule \in setting.schedules
  BY DEF TypeOK
<1>5. Started(o[1], now)
  BY <1>3, <1>4 DEF Started
<1>6. ~Over(o)
  <2>1. ~(o[1] * DayLength + DayLength <= now + schedule.zone)
    BY <1>2, <1>3, Constants
  <2> QED
    BY <1>4, <2>1 DEF Over
<1> QED
  BY <1>1, <1>5, <1>6
-----------------------------------------------------------------------------
(* Types.                                                                  *)

Statuses == UNION {[S -> {"pending", "done"}] : S \in SUBSET Projects}

LEMMA BatchType ==
  ASSUME NEW O \in SUBSET Occurrences, NEW f \in Statuses, NEW C \in SUBSET (Occurrences \X (0..MaxTime))
  PROVE  [completed |-> C, batch |-> [occurrences |-> O, status |-> f]] \in States
BY DEF States, Statuses

LEMMA StateFields ==
  ASSUME NEW s \in States
  PROVE  /\ s = [completed |-> s.completed, batch |-> s.batch]
         /\ s.completed \in SUBSET (Occurrences \X (0..MaxTime))
         /\ s.batch = [occurrences |-> s.batch.occurrences, status |-> s.batch.status]
         /\ s.batch.occurrences \in SUBSET Occurrences
         /\ s.batch.status \in Statuses
         /\ DOMAIN s.batch.status \subseteq Projects
BY DEF States, Statuses

LEMMA StateParts ==
  ASSUME NEW s \in States
  PROVE  \E C \in SUBSET (Occurrences \X (0..MaxTime)), O \in SUBSET Occurrences, f \in Statuses :
           s = [completed |-> C, batch |-> [occurrences |-> O, status |-> f]]
BY DEF States, Statuses

LEMMA NoBatchType ==
  ASSUME NEW C \in SUBSET (Occurrences \X (0..MaxTime))
  PROVE  /\ [completed |-> C, batch |-> NoBatch] \in States
         /\ NoBatch.occurrences = {} /\ DOMAIN NoBatch.status = {}
<1>1. << >> \in [{} -> {"pending", "done"}]
  OBVIOUS
<1>2. << >> \in Statuses
  BY <1>1 DEF Statuses
<1>3. {} \in SUBSET Occurrences
  OBVIOUS
<1> QED
  BY <1>2, <1>3, BatchType DEF NoBatch

(* What OpenBatch, FinishProject and FinishBatch make of a state.          *)
LEMMA Opened ==
  ASSUME TypeOK, NEW t, t = [mem EXCEPT !.batch = [occurrences |-> Due(mem),
                                                   status |-> [p \in library |-> "pending"]]]
  PROVE  /\ t \in States
         /\ t.completed = mem.completed
         /\ t.batch.occurrences = Due(mem)
<1>1. mem \in States /\ library \subseteq Projects
  BY DEF TypeOK
<1>2. Due(mem) \in SUBSET Occurrences
  BY DEF Due
<1>3. [p \in library |-> "pending"] \in Statuses
  BY <1>1 DEF Statuses
<1>4. PICK O, f : O = Due(mem) /\ f = [p \in library |-> "pending"]
  OBVIOUS
<1>5. PICK C \in SUBSET (Occurrences \X (0..MaxTime)), P \in SUBSET Occurrences, g \in Statuses :
           mem = [completed |-> C, batch |-> [occurrences |-> P, status |-> g]]
  BY <1>1, StateParts
<1>6. t = [completed |-> C, batch |-> [occurrences |-> O, status |-> f]]
  BY <1>4, <1>5
<1>7. O \in SUBSET Occurrences /\ f \in Statuses
  BY <1>2, <1>3, <1>4
<1>8. [completed |-> C, batch |-> [occurrences |-> O, status |-> f]] \in States
  BY <1>7, BatchType
<1> QED
  BY <1>4, <1>5, <1>6, <1>8

LEMMA Done ==
  ASSUME TypeOK, NEW p, NEW t, t = [mem EXCEPT !.batch.status[p] = "done"]
  PROVE  /\ t \in States
         /\ t.completed = mem.completed
         /\ t.batch.occurrences = mem.batch.occurrences
         /\ t.batch.status = [mem.batch.status EXCEPT ![p] = "done"]
<1>1. PICK C \in SUBSET (Occurrences \X (0..MaxTime)), O \in SUBSET Occurrences, g \in Statuses :
           mem = [completed |-> C, batch |-> [occurrences |-> O, status |-> g]]
  BY StateParts DEF TypeOK
<1>2. PICK f : f = [g EXCEPT ![p] = "done"]
  OBVIOUS
<1>3. f \in Statuses
  BY <1>2 DEF Statuses
<1>4. mem.batch.status = g
  BY <1>1
<1>5. t = [completed |-> C, batch |-> [occurrences |-> O, status |-> f]]
  BY <1>1, <1>2
<1>6. [completed |-> C, batch |-> [occurrences |-> O, status |-> f]] \in States
  BY <1>3, BatchType
<1> QED
  BY <1>1, <1>2, <1>4, <1>5, <1>6

LEMMA FinishedState ==
  ASSUME TypeOK, NEW t, t = Finished(mem)
  PROVE  /\ t \in States
         /\ t.batch.occurrences = {}
         /\ t.completed = Prune({c \in mem.completed : c[1] \notin mem.batch.occurrences}
                                  \cup (mem.batch.occurrences \X {now}))
<1> DEFINE C == Prune({c \in mem.completed : c[1] \notin mem.batch.occurrences}
                        \cup (mem.batch.occurrences \X {now}))
<1>1. mem \in States /\ now \in 0..MaxTime
  BY DEF TypeOK
<1>2. C \in SUBSET (Occurrences \X (0..MaxTime))
  BY <1>1, StateFields DEF Prune
<1>3. t = [completed |-> C, batch |-> NoBatch]
  BY DEF Finished
<1> HIDE DEF C
<1>4. t \in States /\ t.batch.occurrences = {} /\ t.completed = C
  BY <1>2, <1>3, NoBatchType
<1> QED
  BY <1>4 DEF C

(* The timer is set to a time to come.                                     *)
LEMMA NextTriggerType ==
  ASSUME TypeOK
  PROVE  NextTrigger \in Nat \cup {Never}
<1>1. CASE Active(mem)
  BY <1>1, Clock DEF NextTrigger
<1>2. CASE ~Active(mem) /\ schedule.times = {}
  BY <1>2 DEF NextTrigger
<1>3. CASE ~Active(mem) /\ schedule.times # {}
  <2>1. NextTrigger = NextOccurrence(mem)
    BY <1>3 DEF NextTrigger
  <2>2. CASE Upcoming(mem) # {}
    <3> DEFINE S == {TimeOf(o, schedule) : o \in Upcoming(mem)}
    <3>1. \A o \in Upcoming(mem) : TimeOf(o, schedule) \in Nat
      <4>1. SUFFICES ASSUME NEW o \in Upcoming(mem) PROVE TimeOf(o, schedule) \in Nat
        OBVIOUS
      <4>2. o \in Occurrences /\ TimeOf(o, schedule) >= now
        BY DEF Upcoming
      <4>3. TimeOf(o, schedule) \in Int
        BY <4>2, Occurs, Clock, Constants DEF TimeOf
      <4> QED
        BY <4>2, <4>3, Clock
    <3>2. S \in SUBSET Nat /\ S # {}
      BY <2>2, <3>1
    <3>3. Min(S) \in Nat
      BY <3>2, MinLeast
    <3> QED
      BY <2>1, <2>2, <3>3 DEF NextOccurrence
  <2>3. CASE Upcoming(mem) = {}
    <3> DEFINE d == Today(schedule)
               m == Min(schedule.times)
    <3>1. m \in 0..DayLength - 1
      BY <1>3, Clock, MinLeast, Constants
    <3>2. d \in Nat /\ d * DayLength \in Nat /\ (d + 1) * DayLength = d * DayLength + DayLength
      BY Clock, Constants
    <3>3. now + schedule.zone < d * DayLength + DayLength /\ now \in Nat /\ schedule.zone \in Nat
      BY Clock, Constants
    <3>4. NextTrigger = (d + 1) * DayLength + m - schedule.zone
      BY <2>1, <2>3 DEF NextOccurrence, TimeOf
    <3> HIDE DEF d, m
    <3> QED
      BY <3>1, <3>2, <3>3, <3>4, Constants
  <2> QED
    BY <2>2, <2>3
<1> QED
  BY <1>1, <1>2, <1>3

LEMMA InitType == Init => TypeOK
<1> SUFFICES ASSUME Init PROVE TypeOK
  OBVIOUS
<1>1. setting \in Settings /\ setting.projects \subseteq Projects /\ setting.troubles \in Nat
  BY SchedulerAssumption DEF Init
<1>2. [completed |-> {}, batch |-> NoBatch] \in States
  BY NoBatchType
<1>3. setting.schedules \subseteq Schedules /\ MaxTime \in Nat
  BY <1>1, SchedulerAssumption
<1>4. disk \in States /\ mem \in States
  BY <1>2 DEF Init
<1>5. troubles \in 0..setting.troubles /\ now = 0 /\ setAt = 0 /\ timer = Never
  BY DEF Init
<1>6. 0 \in 0..MaxTime
  BY <1>3
<1>7. /\ setting \in Settings /\ schedule \in setting.schedules /\ library \subseteq Projects
      /\ at = "down" /\ left = {} /\ listed = {} /\ busy = {}
      /\ wake = FALSE /\ saving = FALSE /\ stopping = FALSE
      /\ asked = {} /\ settled = {} /\ forgotten = {}
  BY <1>1 DEF Init
<1> QED
  BY <1>4, <1>5, <1>6, <1>7 DEF TypeOK

LEMMA TypeNext ==
  ASSUME TypeOK, [Next]_vars
  PROVE  TypeOK'
<1> USE DEF world, round, clock, signals, ghost, vars
<1>0. /\ setting \in Settings /\ setting.troubles \in Nat /\ setting.until \in 0..MaxTime
      /\ setting.schedules \subseteq Schedules
      /\ MaxTime \in Nat /\ RetryDelay \in Nat /\ now \in Nat
  BY Clock, Constants, SchedulerAssumption DEF TypeOK
<1>1. CASE UNCHANGED vars
  BY <1>1 DEF TypeOK
<1>2. CASE Start \/ NothingDue \/ RunBatch \/ AbandonDispatch \/ TimerFires \/ Woken
  <2>1. Pending(mem.batch) \subseteq Projects
    BY StateFields DEF TypeOK, Pending
  <2> QED
    BY <1>2, <2>1 DEF TypeOK, Start, NothingDue, RunBatch, AbandonDispatch, TimerFires, Woken
<1>3. CASE OpenBatch
  <2>1. mem' \in States
    BY <1>3, Opened DEF OpenBatch
  <2> QED
    BY <1>0, <1>3, <2>1 DEF TypeOK, OpenBatch, Save, SaveFails, Trouble
<1>4. CASE EvaluateFails
  BY <1>0, <1>4 DEF TypeOK, EvaluateFails, Trouble
<1>5. ASSUME NEW p \in Projects, Dispatch(p) PROVE TypeOK'
  <2>1. mem.batch.occurrences \X {p} \subseteq Occurrences \X Projects
    BY StateFields DEF TypeOK
  <2> QED
    BY <1>5, <2>1 DEF TypeOK, Dispatch
<1>6. CASE FinishBatch
  <2>1. mem' \in States
    BY <1>6, FinishedState DEF FinishBatch
  <2>2. forgotten' \subseteq Occurrences
    <3>1. TooOld(mem.completed) \subseteq Occurrences \X (0..MaxTime)
      BY StateFields DEF TypeOK, TooOld
    <3>2. forgotten' = forgotten \cup {c[1] : c \in TooOld(mem.completed)}
      BY <1>6 DEF FinishBatch
    <3> QED
      BY <3>1, <3>2 DEF TypeOK
  <2> QED
    BY <1>0, <1>6, <2>1, <2>2 DEF TypeOK, FinishBatch, Save, SaveFails, Trouble
<1>7. CASE SetTimer
  <2>1. timer' \in Nat \cup {Never}
    BY <1>0, <1>7, NextTriggerType DEF SetTimer
  <2> QED
    BY <1>0, <1>7, <2>1 DEF TypeOK, SetTimer, Trouble
<1>8. CASE Exit \/ Crash
  <2>1. [completed |-> {}, batch |-> NoBatch] \in States
    BY NoBatchType
  <2>2. Down /\ troubles' \in 0..setting.troubles
    BY <1>0, <1>8 DEF TypeOK, Exit, Crash, Trouble
  <2>3. mem' \in States
    BY <2>1, <2>2 DEF Down
  <2>4. 0 \in 0..MaxTime /\ Never \in Nat \cup {Never} /\ setAt' = 0 /\ timer' = Never
    BY <1>0, <2>2 DEF Down
  <2> QED
    BY <2>2, <2>3, <2>4 DEF TypeOK, Down
<1>9. ASSUME NEW p \in Projects, FinishProject(p) PROVE TypeOK'
  <2>1. mem' \in States
    BY <1>9, Done DEF FinishProject
  <2>2. mem.batch.occurrences \X {p} \subseteq Occurrences \X Projects
    BY StateFields DEF TypeOK
  <2> QED
    BY <1>0, <1>9, <2>1, <2>2 DEF TypeOK, FinishProject, Save, SaveFails, Trouble
<1>10. ASSUME NEW p \in Projects, Trash(p) PROVE TypeOK'
  BY <1>10 DEF TypeOK, Trash
<1>11. ASSUME NEW s \in Schedules, SaveSchedule(s) PROVE TypeOK'
  <2>1. s \in setting.schedules
    BY <1>0, <1>11, SchedulerAssumption DEF SaveSchedule
  <2> QED
    BY <1>11, <2>1 DEF TypeOK, SaveSchedule
<1>12. CASE Close
  BY <1>0, <1>12 DEF TypeOK, Close, Trouble
<1>14. CASE Wake
  BY <1>14 DEF TypeOK, Wake
<1>13. CASE Tick
  BY <1>0, <1>13 DEF TypeOK, Tick
<1> QED
  BY <1>1, <1>2, <1>3, <1>4, <1>5, <1>6, <1>7, <1>8, <1>9, <1>10, <1>11, <1>12, <1>13, <1>14 DEF Next, Step
-----------------------------------------------------------------------------
(* What a state knows, it goes on to know.                                 *)

(* The day of an occurrence that was done is over before it is forgotten,  *)
(* unless the clocks are too far apart.                                    *)
LEMMA Forgotten ==
  ASSUME TypeOK, NEW C \in SUBSET (Occurrences \X (0..MaxTime)), NEW c \in C,
         Started(c[1][1], c[2]), c \notin Prune(C)
  PROVE  c \in TooOld(C) /\ (Wide \/ Over(c[1]))
<1>1. c[1] \in Occurrences /\ c[2] \in Nat /\ now \in Nat
  BY Constants, Clock
<1>2. c[2] < now - KeepDays * DayLength
  <2>1. ~(c[2] >= now - KeepDays * DayLength)
    BY DEF Prune
  <2> QED
    BY <1>1, <2>1, Constants
<1>3. c[1][1] * DayLength \in Nat
  BY <1>1, Occurs
<1>4. ASSUME ~Wide, NEW z \in setting.schedules
      PROVE  c[1][1] * DayLength + DayLength <= now + z.zone
  <2>1. PICK y \in setting.schedules : c[1][1] * DayLength <= c[2] + y.zone
    BY DEF Started
  <2>2. y.zone \in Nat /\ z.zone \in Nat
    BY <1>4, <2>1, Zones
  <2>3. ~(y.zone - z.zone > (KeepDays - 1) * DayLength)
    BY <1>4, <2>1 DEF Wide
  <2>4. y.zone - z.zone <= KeepDays * DayLength - DayLength
    BY <2>2, <2>3, Constants
  <2> QED
    BY <1>1, <1>2, <1>3, <2>1, <2>2, <2>4, Constants
<1>5. c \in TooOld(C)
  BY <1>2 DEF TooOld
<1> QED
  BY <1>4, <1>5 DEF Over

LEMMA FinishedKnows ==
  ASSUME TypeOK, Begun(mem), NEW o \in Occurrences, NEW p, Known(mem, o, p),
         NEW t, t = Finished(mem)
  PROVE  \/ o \in Lost \/ o \in Completed(t) \/ Over(o)
         \/ Wide /\ \E c \in TooOld(mem.completed) : c[1] = o
<1> DEFINE C == {c \in mem.completed : c[1] \notin mem.batch.occurrences}
                  \cup (mem.batch.occurrences \X {now})
<1>1. t.batch.occurrences = {} /\ t.completed = Prune(C)
  BY FinishedState
<1>2. /\ mem.completed \in SUBSET (Occurrences \X (0..MaxTime))
      /\ mem.batch.occurrences \in SUBSET Occurrences /\ now \in 0..MaxTime
  BY StateFields DEF TypeOK
<1>3. C \in SUBSET (Occurrences \X (0..MaxTime))
  BY <1>2
<1>4. ASSUME o \in mem.batch.occurrences PROVE o \in Completed(t)
  <2>1. <<o, now>> \in C
    BY <1>4
  <2>2. now >= now - KeepDays * DayLength
    BY Constants, Clock
  <2>3. <<o, now>> \in Prune(C)
    BY <2>1, <2>2 DEF Prune
  <2>4. <<o, now>> \in t.completed
    BY <1>1, <2>3
  <2> QED
    BY <2>4 DEF Completed
<1>5. ASSUME o \notin mem.batch.occurrences, ~Over(o), o \notin Lost,
             ~(Wide /\ \E c \in TooOld(mem.completed) : c[1] = o)
      PROVE  o \in Completed(t)
  <2>1. PICK c \in mem.completed : c[1] = o
    BY <1>5 DEF Known, Completed
  <2>2. c \in C
    BY <1>5, <2>1
  <2>3. Started(c[1][1], c[2])
    BY <2>1 DEF Begun
  <2>5. c \in TooOld(C) => c \in TooOld(mem.completed)
    BY <2>1 DEF TooOld
  <2> HIDE DEF C
  <2>4. c \in Prune(C)
    BY <1>3, <1>5, <2>1, <2>2, <2>3, <2>5, Forgotten
  <2> QED
    BY <1>1, <2>1, <2>4 DEF Completed
<1> QED
  BY <1>4, <1>5

LEMMA OpenedKnows ==
  ASSUME TypeOK, NEW o \in Occurrences, NEW p, Known(mem, o, p), ~Active(mem),
         NEW t, t.completed = mem.completed, t.batch.occurrences = Due(mem)
  PROVE  Known(t, o, p)
<1>1. mem.batch.occurrences = {}
  BY NoBatchType DEF Active, TypeOK
<1>2. o \in Lost \/ o \in Completed(mem) \/ Over(o)
  BY <1>1 DEF Known
<1>3. o \in Lost \/ o \notin Due(mem)
  BY <1>2, DueToday
<1> QED
  BY <1>2, <1>3 DEF Known, Completed

LEMMA DoneKnows ==
  ASSUME TypeOK, NEW o, NEW q, NEW p \in DOMAIN mem.batch.status,
         NEW t, t = [mem EXCEPT !.batch.status[p] = "done"]
  PROVE  /\ Known(mem, o, q) => Known(t, o, q)
         /\ o \in mem.batch.occurrences => Known(t, o, p)
<1>1. /\ t.completed = mem.completed
      /\ t.batch.occurrences = mem.batch.occurrences
      /\ t.batch.status = [mem.batch.status EXCEPT ![p] = "done"]
  BY Done
<1> QED
  BY <1>1 DEF Known, Completed

(* Time passes, and days that are over stay over.                          *)
LEMMA LaterOver ==
  ASSUME TypeOK, setting' = setting, now' \in Nat, now <= now', NEW o \in Occurrences
  PROVE  Over(o) => Over(o)'
<1>1. ASSUME NEW z \in setting.schedules, o[1] * DayLength + DayLength <= now + z.zone
      PROVE  o[1] * DayLength + DayLength <= now' + z.zone
  BY <1>1, Zones, Occurs, Constants, Clock
<1> QED
  BY <1>1 DEF Over

LEMMA LaterStarted ==
  ASSUME TypeOK, setting' = setting, now' \in Nat, now <= now', NEW o \in Occurrences,
         Started(o[1], now)
  PROVE  Started(o[1], now)'
<1>1. PICK z \in setting.schedules : o[1] * DayLength <= now + z.zone
  BY DEF Started
<1>2. o[1] * DayLength <= now' + z.zone
  BY <1>1, Zones, Occurs, Constants, Clock
<1> QED
  BY <1>1, <1>2 DEF Started

LEMMA SameStarted == setting' = setting => \A d, t : Started(d, t) <=> Started(d, t)'
BY DEF Started

LEMMA SameDay ==
  /\ setting' = setting /\ now' = now => \A o : Over(o) <=> Over(o)'
  /\ setting' = setting /\ now' = now => \A d : Started(d, now) <=> Started(d, now)'
BY DEF Over, Started

LEMMA LostStays ==
  /\ setting' = setting /\ forgotten \subseteq forgotten' => Lost \subseteq Lost'
  /\ setting' = setting /\ forgotten' = forgotten => Lost' = Lost
BY DEF Lost, Wide

(* A state goes on to be known of what it is known of while the day lasts. *)
LEMMA SameKnows ==
  ASSUME setting' = setting, now' = now, forgotten' = forgotten
  PROVE  /\ \A o, p : Known(disk, o, p) /\ disk' = disk => Known(disk, o, p)'
         /\ \A o, p : Known(mem, o, p)' /\ disk' = mem' => Known(disk, o, p)'
         /\ \A t, o, p : Known(t, o, p) /\ t = mem' => Known(mem, o, p)'
<1>1. \A o : Over(o) <=> Over(o)'
  BY SameDay
<1>2. Lost' = Lost
  BY LostStays
<1> QED
  BY <1>1, <1>2 DEF Known, Completed
-----------------------------------------------------------------------------
(* The invariant.                                                          *)

LEMMA InitOnce == Init => OnceInv
<1> SUFFICES ASSUME Init PROVE OnceInv
  OBVIOUS
<1>1. TypeOK
  BY InitType
<1>2. BatchInv
  BY DEF Init, BatchInv
<1>3. disk.completed = {} /\ disk.batch.occurrences = {} /\ mem = disk
  BY DEF Init, NoBatch
<1>4. Begun(mem) /\ Begun(disk)
  BY <1>3 DEF Begun
<1>5. SettledInv /\ AskedInv
  BY DEF Init, SettledInv, AskedInv
<1> QED
  BY <1>1, <1>2, <1>4, <1>5 DEF OnceInv

(* Nothing is learnt or forgotten, but time may pass.                      *)
LEMMA QuietKnows ==
  ASSUME OnceInv, TypeOK', UNCHANGED <<setting, mem, disk, busy, ghost>>, now <= now',
         at' # "down" => at # "down"
  PROVE  Begun(mem)' /\ Begun(disk)' /\ SettledInv' /\ AskedInv'
<1>1. TypeOK /\ now' \in Nat /\ mem \in States /\ disk \in States
  BY Constants DEF OnceInv, TypeOK
<1>2. Begun(mem)' /\ Begun(disk)'
  <2>1. Begun(mem) /\ Begun(disk)
    BY DEF OnceInv
  <2>2. mem.batch.occurrences \subseteq Occurrences /\ disk.batch.occurrences \subseteq Occurrences
    BY <1>1, StateFields
  <2>3. /\ \A o \in mem.batch.occurrences : Started(o[1], now)'
        /\ \A o \in disk.batch.occurrences : Started(o[1], now)'
    BY <1>1, <2>1, <2>2, LaterStarted DEF Begun
  <2>4. /\ \A c \in mem.completed : Started(c[1][1], c[2])'
        /\ \A c \in disk.completed : Started(c[1][1], c[2])'
    BY <2>1, SameStarted DEF Begun
  <2> QED
    BY <2>3, <2>4 DEF Begun
<1>3. ASSUME NEW o \in Occurrences, NEW p \in Projects
      PROVE  /\ Known(mem, o, p) => Known(mem, o, p)'
             /\ Known(disk, o, p) => Known(disk, o, p)'
  <2>1. Over(o) => Over(o)'
    BY <1>1, LaterOver
  <2>2. Lost' = Lost
    BY LostStays DEF ghost
  <2> QED
    BY <2>1, <2>2 DEF Known, Completed
<1> QED
  BY <1>2, <1>3 DEF OnceInv, SettledInv, AskedInv, ghost

(* The file holds what it held, or what memory holds now.                  *)
LEMMA SavedBegun ==
  ASSUME Begun(disk), Begun(mem)', setting' = setting, now' = now, disk' = disk \/ disk' = mem'
  PROVE  Begun(disk)'
<1>1. CASE disk' = mem'
  BY <1>1 DEF Begun
<1>2. CASE disk' = disk
  <2>1. \A o \in disk.batch.occurrences : Started(o[1], now)'
    BY SameDay DEF Begun
  <2>2. \A c \in disk.completed : Started(c[1][1], c[2])'
    BY SameStarted DEF Begun
  <2> QED
    BY <1>2, <2>1, <2>2 DEF Begun
<1> QED
  BY <1>1, <1>2

LEMMA OpenKnows ==
  ASSUME OnceInv, OpenBatch
  PROVE  Begun(mem)' /\ Begun(disk)' /\ SettledInv' /\ AskedInv'
<1> USE DEF world, round, clock, signals, ghost
<1>1. /\ TypeOK /\ UNCHANGED <<now, setting, busy, asked, settled, forgotten>>
      /\ disk' = disk \/ disk' = mem'
      /\ ~Active(mem) /\ at # "down" /\ busy = {} /\ at' # "down"
  BY DEF OnceInv, BatchInv, OpenBatch, Save, SaveFails
<1>2. mem'.completed = mem.completed /\ mem'.batch.occurrences = Due(mem)
  BY <1>1, Opened DEF OpenBatch
<1>3. Begun(mem)'
  <2>1. \A o \in Due(mem) : Started(o[1], now)'
    BY <1>1, DueToday, SameDay
  <2>2. \A c \in mem.completed : Started(c[1][1], c[2])'
    BY <1>1, SameStarted DEF OnceInv, Begun
  <2> QED
    BY <1>2, <2>1, <2>2 DEF Begun
<1>4. ASSUME NEW o \in Occurrences, NEW p \in Projects, Known(mem, o, p) PROVE Known(mem, o, p)'
  <2>1. PICK t : t = mem'
    OBVIOUS
  <2>2. Known(t, o, p)
    BY <1>1, <1>2, <1>4, <2>1, OpenedKnows
  <2> QED
    BY <1>1, <2>1, <2>2, SameKnows
<1>5. ASSUME NEW o \in Occurrences, NEW p \in Projects, Known(disk, o, p), Known(mem, o, p)'
      PROVE  Known(disk, o, p)'
  BY <1>1, <1>5, SameKnows
<1>6. SettledInv' /\ AskedInv'
  BY <1>1, <1>4, <1>5 DEF OnceInv, SettledInv, AskedInv
<1> QED
  BY <1>1, <1>3, <1>6, SavedBegun DEF OnceInv

LEMMA FinishKnows ==
  ASSUME OnceInv, FinishBatch
  PROVE  Begun(mem)' /\ Begun(disk)' /\ SettledInv' /\ AskedInv'
<1> USE DEF world, round, clock, signals, ghost
<1>1. /\ TypeOK /\ UNCHANGED <<now, setting, busy, asked, settled>>
      /\ forgotten' = forgotten \cup {c[1] : c \in TooOld(mem.completed)}
      /\ disk' = disk \/ disk' = mem'
      /\ at # "down" /\ busy = {} /\ at' # "down" /\ mem' = Finished(mem)
  BY DEF OnceInv, FinishBatch, Save, SaveFails
<1>2. PICK t : t = mem'
  OBVIOUS
<1>3. /\ t.batch.occurrences = {}
      /\ t.completed = Prune({c \in mem.completed : c[1] \notin mem.batch.occurrences}
                               \cup (mem.batch.occurrences \X {now}))
  BY <1>1, <1>2, FinishedState
<1>4. Begun(mem)'
  <2>1. ASSUME NEW c \in t.completed PROVE Started(c[1][1], c[2])'
    <3>1. c \in mem.completed \/ c \in mem.batch.occurrences \X {now}
      BY <1>3 DEF Prune
    <3>2. CASE c \in mem.completed
      BY <1>1, <3>2, SameStarted DEF OnceInv, Begun
    <3>3. CASE c \in mem.batch.occurrences \X {now}
      <4>1. Started(c[1][1], now) /\ c[2] = now
        BY <3>3 DEF OnceInv, Begun
      <4> QED
        BY <1>1, <4>1, SameStarted
    <3> QED
      BY <3>1, <3>2, <3>3
  <2> QED
    BY <1>2, <1>3, <2>1 DEF Begun
<1>8. Lost \subseteq Lost' /\ (\A o : Over(o) <=> Over(o)')
  BY <1>1, LostStays, SameDay
<1>5. ASSUME NEW o \in Occurrences, NEW p \in Projects, Known(mem, o, p) PROVE Known(mem, o, p)'
  <2>1. \/ o \in Lost \/ o \in Completed(t) \/ Over(o)
        \/ Wide /\ \E c \in TooOld(mem.completed) : c[1] = o
    BY <1>1, <1>2, <1>5, FinishedKnows DEF OnceInv
  <2>2. CASE o \in Lost \/ o \in Completed(t) \/ Over(o)
    BY <1>2, <1>3, <1>8, <2>2 DEF Known, Completed
  <2>3. CASE Wide /\ \E c \in TooOld(mem.completed) : c[1] = o
    <3>1. o \in forgotten'
      BY <1>1, <2>3
    <3>2. Wide'
      BY <1>1, <2>3 DEF Wide
    <3> QED
      BY <3>1, <3>2 DEF Known, Lost
  <2> QED
    BY <2>1, <2>2, <2>3
<1>6. ASSUME NEW o \in Occurrences, NEW p \in Projects, Known(disk, o, p), Known(mem, o, p)'
      PROVE  Known(disk, o, p)'
  <2>1. CASE disk' = mem'
    BY <1>6, <2>1 DEF Known, Completed
  <2>2. CASE disk' = disk
    BY <1>6, <1>8, <2>2 DEF Known, Completed
  <2> QED
    BY <1>1, <2>1, <2>2
<1>7. SettledInv' /\ AskedInv'
  BY <1>1, <1>5, <1>6 DEF OnceInv, SettledInv, AskedInv
<1> QED
  BY <1>1, <1>4, <1>7, SavedBegun DEF OnceInv

LEMMA ProjectKnows ==
  ASSUME OnceInv, NEW p \in Projects, FinishProject(p)
  PROVE  Begun(mem)' /\ Begun(disk)' /\ SettledInv' /\ AskedInv'
<1> USE DEF world, round, clock, signals, ghost
<1>1. /\ TypeOK /\ UNCHANGED <<now, setting, at, asked, forgotten>>
      /\ mem' = [mem EXCEPT !.batch.status[p] = "done"]
      /\ busy' = busy \ {p} /\ p \in busy /\ at = "dispatch"
      /\ p \in DOMAIN mem.batch.status
  BY DEF OnceInv, BatchInv, FinishProject
<1>2. \/ disk' = mem' /\ settled' = settled \cup (mem.batch.occurrences \X {p})
      \/ disk' = disk /\ settled' = settled
  BY DEF FinishProject, Save, SaveFails
<1>3. PICK t : t = mem'
  OBVIOUS
<1>4. t.completed = mem.completed /\ t.batch.occurrences = mem.batch.occurrences
  BY <1>1, <1>3, Done
<1>5. Begun(mem)'
  <2>1. \A o \in mem.batch.occurrences : Started(o[1], now)'
    BY <1>1, SameDay DEF OnceInv, Begun
  <2>2. \A c \in mem.completed : Started(c[1][1], c[2])'
    BY <1>1, SameStarted DEF OnceInv, Begun
  <2> QED
    BY <1>3, <1>4, <2>1, <2>2 DEF Begun
<1>6. ASSUME NEW o \in Occurrences, NEW q \in Projects
      PROVE  /\ Known(mem, o, q) => Known(mem, o, q)'
             /\ o \in mem.batch.occurrences => Known(mem, o, p)'
  <2>1. /\ Known(mem, o, q) => Known(t, o, q)
        /\ o \in mem.batch.occurrences => Known(t, o, p)
    BY <1>1, <1>3, DoneKnows
  <2> QED
    BY <1>1, <1>3, <2>1, SameKnows
<1>7. ASSUME NEW o \in Occurrences, NEW q \in Projects, Known(mem, o, q)', disk' = mem'
      PROVE  Known(disk, o, q)'
  BY <1>1, <1>7, SameKnows
<1>8. ASSUME NEW o \in Occurrences, NEW q \in Projects, Known(disk, o, q), disk' = disk
      PROVE  Known(disk, o, q)'
  BY <1>1, <1>8, SameKnows
<1>9. AskedInv'
  BY <1>1, <1>3, <1>4, <1>6 DEF OnceInv, AskedInv
<1>10. SettledInv'
  <2> SUFFICES ASSUME NEW o \in Occurrences, NEW q \in Projects, <<o, q>> \in settled'
               PROVE  Known(disk, o, q)' /\ Known(mem, o, q)'
    BY DEF SettledInv
  <2>1. CASE <<o, q>> \in settled
    <3>1. Known(disk, o, q) /\ Known(mem, o, q)
      BY <1>1, <2>1 DEF OnceInv, SettledInv
    <3> QED
      BY <1>2, <1>6, <1>7, <1>8, <3>1
  <2>2. CASE <<o, q>> \notin settled
    <3>1. disk' = mem' /\ o \in mem.batch.occurrences /\ q = p
      BY <1>2, <2>2
    <3> QED
      BY <1>6, <1>7, <3>1
  <2> QED
    BY <2>1, <2>2
<1> QED
  BY <1>1, <1>2, <1>5, <1>9, <1>10, SavedBegun DEF OnceInv

LEMMA DispatchKnows ==
  ASSUME OnceInv, NEW p \in Projects, Dispatch(p)
  PROVE  Begun(mem)' /\ Begun(disk)' /\ SettledInv' /\ AskedInv'
<1> USE DEF world, round, clock, signals, ghost
<1>1. /\ UNCHANGED <<now, setting, mem, disk, settled, forgotten, at>> /\ busy' = busy \cup {p}
      /\ asked' \subseteq asked \cup (mem.batch.occurrences \X {p})
  BY DEF Dispatch
<1>2. \A o, q : (Known(mem, o, q) => Known(mem, o, q)') /\ (Known(disk, o, q) => Known(disk, o, q)')
  BY <1>1, SameKnows
<1>3. Begun(mem)' /\ Begun(disk)'
  <2>1. /\ \A o \in mem.batch.occurrences : Started(o[1], now)'
        /\ \A c \in mem.completed : Started(c[1][1], c[2])'
    BY <1>1, SameDay, SameStarted DEF OnceInv, Begun
  <2>2. Begun(mem)'
    BY <1>1, <2>1 DEF Begun
  <2> QED
    BY <1>1, <2>2, SavedBegun DEF OnceInv
<1> QED
  BY <1>1, <1>2, <1>3 DEF OnceInv, SettledInv, AskedInv

LEMMA StartKnows ==
  ASSUME OnceInv, Start \/ Down
  PROVE  Begun(mem)' /\ Begun(disk)' /\ SettledInv' /\ AskedInv'
<1> USE DEF world, round, clock, signals, ghost
<1>1. UNCHANGED <<now, setting, disk, settled, forgotten>> /\ asked' = {}
  BY DEF OnceInv, BatchInv, Start, Down
<1>2. \A o, q : Known(disk, o, q) => Known(disk, o, q)'
  BY <1>1, SameKnows
<1>5. Begun(disk)'
  <2>1. /\ \A o \in disk.batch.occurrences : Started(o[1], now)'
        /\ \A c \in disk.completed : Started(c[1][1], c[2])'
    BY <1>1, SameDay, SameStarted DEF OnceInv, Begun
  <2> QED
    BY <1>1, <2>1 DEF Begun
<1>3. CASE Start
  <2>1. mem' = disk
    BY <1>3 DEF Start
  <2>2. \A o, q : Known(disk, o, q) => Known(mem, o, q)'
    BY <1>1, <2>1, SameKnows
  <2>3. Begun(mem)'
    BY <1>1, <1>5, <2>1 DEF Begun
  <2> QED
    BY <1>1, <1>2, <1>5, <2>2, <2>3 DEF OnceInv, SettledInv, AskedInv
<1>4. CASE Down
  <2>1. mem'.completed = {} /\ mem'.batch.occurrences = {} /\ at' = "down"
    BY <1>4, NoBatchType DEF Down
  <2>2. Begun(mem)'
    BY <2>1 DEF Begun
  <2> QED
    BY <1>1, <1>2, <1>5, <2>1, <2>2 DEF OnceInv, SettledInv, AskedInv
<1> QED
  BY <1>3, <1>4

LEMMA BatchNext ==
  ASSUME OnceInv, [Next]_vars
  PROVE  BatchInv'
<1> USE DEF world, round, clock, signals, ghost, vars
<1>0. BatchInv /\ TypeOK
  BY DEF OnceInv
<1>1. CASE UNCHANGED vars
  BY <1>0, <1>1 DEF BatchInv, Pending
<1>2. CASE \/ NothingDue \/ EvaluateFails \/ AbandonDispatch \/ SetTimer \/ TimerFires \/ Woken
           \/ Wake \/ Close \/ Tick \/ (\E p \in Projects : Trash(p)) \/ (\E s \in Schedules : SaveSchedule(s))
  BY <1>0, <1>2 DEF BatchInv, Pending, NothingDue, EvaluateFails, AtBatch, AbandonDispatch, SetTimer,
     TimerFires, Woken, Wake, Close, Tick, Trash, SaveSchedule
<1>3. CASE Start \/ OpenBatch \/ RunBatch \/ FinishBatch
  BY <1>0, <1>3 DEF BatchInv, Start, OpenBatch, RunBatch, AtBatch, FinishBatch
<1>4. ASSUME NEW p \in Projects, Dispatch(p) PROVE BatchInv'
  BY <1>0, <1>4 DEF BatchInv, Dispatch, Pending
<1>5. CASE Exit \/ Crash
  BY <1>5 DEF BatchInv, Exit, Crash, Down
<1>6. ASSUME NEW p \in Projects, FinishProject(p) PROVE BatchInv'
  <2>1. /\ mem'.batch.status = [mem.batch.status EXCEPT ![p] = "done"]
        /\ busy' = busy \ {p} /\ p \in busy /\ UNCHANGED <<at, left, asked>>
    BY <1>0, <1>6, Done DEF FinishProject
  <2> QED
    BY <1>0, <2>1 DEF BatchInv, Pending
<1> QED
  BY <1>1, <1>2, <1>3, <1>4, <1>5, <1>6 DEF Next, Step

LEMMA OnceNext ==
  ASSUME OnceInv, [Next]_vars
  PROVE  OnceInv'
<1>1. TypeOK' /\ BatchInv'
  BY TypeNext, BatchNext DEF OnceInv
<1>2. now \in Nat
  BY Clock DEF OnceInv
<1>3. CASE \/ UNCHANGED vars
           \/ NothingDue \/ EvaluateFails \/ AbandonDispatch \/ SetTimer \/ TimerFires \/ Woken \/ RunBatch
           \/ Wake \/ Close \/ Tick \/ (\E p \in Projects : Trash(p)) \/ (\E s \in Schedules : SaveSchedule(s))
  <2>1. UNCHANGED <<setting, mem, disk, busy, ghost>> /\ (at' # "down" => at # "down")
    BY <1>3 DEF OnceInv, BatchInv, NothingDue, EvaluateFails, AtBatch, AbandonDispatch, SetTimer,
       TimerFires, Woken, RunBatch, Wake, Close, Tick, Trash, SaveSchedule, world, round, ghost, vars
  <2>2. now' = now \/ now' = now + 1
    BY <1>3 DEF NothingDue, EvaluateFails, AbandonDispatch, SetTimer,
       TimerFires, Woken, RunBatch, Wake, Close, Tick, Trash, SaveSchedule, world, vars
  <2>3. now <= now'
    BY <1>2, <2>2
  <2> QED
    BY <1>1, <2>1, <2>3, QuietKnows DEF OnceInv
<1>4. CASE Start \/ Exit \/ Crash
  BY <1>1, <1>4, StartKnows DEF OnceInv, Exit, Crash
<1>5. CASE OpenBatch
  BY <1>1, <1>5, OpenKnows DEF OnceInv
<1>6. CASE FinishBatch
  BY <1>1, <1>6, FinishKnows DEF OnceInv
<1>7. ASSUME NEW p \in Projects, Dispatch(p) \/ FinishProject(p) PROVE OnceInv'
  BY <1>1, <1>7, DispatchKnows, ProjectKnows DEF OnceInv
<1> QED
  BY <1>3, <1>4, <1>5, <1>6, <1>7 DEF Next, Step

(* The types.                                                              *)
THEOREM TypeCorrect == Spec => []TypeOK
<1>1. TypeOK /\ [Next]_vars => TypeOK'
  BY TypeNext
<1> QED
  BY <1>1, InitType, PTL DEF Spec

(* What memory and file know of what was evaluated is never lost.          *)
THEOREM OnceInvariant == Spec => []OnceInv
<1>1. OnceInv /\ [Next]_vars => OnceInv'
  BY OnceNext
<1> QED
  BY <1>1, InitOnce, PTL DEF Spec

(* A project is taken up only by Dispatch, where it is pending.            *)
LEMMA AsksPending ==
  ASSUME OnceInv, Next, NEW p \in Projects, Asks(p)
  PROVE  /\ p \in DOMAIN mem.batch.status /\ mem.batch.status[p] = "pending"
         /\ p \notin busy /\ at # "down"
<1> USE DEF world, round, clock, signals, ghost
<1>1. p \in busy' /\ p \notin busy
  BY DEF Asks
<1>2. CASE \E q \in Projects : Dispatch(q)
  <2>1. PICK q \in Projects : Dispatch(q)
    BY <1>2
  <2>2. q = p /\ p \in left /\ at = "dispatch"
    BY <1>1, <2>1 DEF Dispatch
  <2> QED
    BY <1>1, <2>2 DEF OnceInv, BatchInv, Pending
<1>3. CASE ~\E q \in Projects : Dispatch(q)
  <2>1. busy' \subseteq busy
    BY <1>3 DEF Next, Step, Start, NothingDue, OpenBatch, EvaluateFails, RunBatch, AbandonDispatch,
       FinishBatch, SetTimer, TimerFires, Woken, Exit, Down, Wake, Close, Crash, SaveSchedule, Trash, Tick,
       FinishProject
  <2> QED
    BY <1>1, <2>1
<1> QED
  BY <1>2, <1>3

(* In one process no project is evaluated twice for an occurrence, whatever *)
(* saves fail, unless the clocks are wide apart and it was forgotten.       *)
THEOREM OnceCorrect == Spec => OncePerLife
<1>1. OnceInv /\ [Next]_vars =>
        [\A p \in Projects : Asks(p) => asked \cap (mem.batch.occurrences \X {p}) \subseteq Lost \X {p}]_vars
  <2> SUFFICES ASSUME OnceInv, Next, NEW p \in Projects, Asks(p),
                      NEW x \in asked \cap (mem.batch.occurrences \X {p})
               PROVE  x \in Lost \X {p}
    OBVIOUS
  <2>1. PICK o \in mem.batch.occurrences : x = <<o, p>>
    OBVIOUS
  <2>2. o \in Occurrences
    BY <2>1, StateFields DEF OnceInv, TypeOK
  <2>3. Known(mem, o, p) \/ p \in busy
    BY <2>1, <2>2 DEF OnceInv, AskedInv
  <2> QED
    BY <2>1, <2>3, AsksPending DEF Known
<1> QED
  BY <1>1, OnceInvariant, PTL DEF Spec, OncePerLife

(* No later process evaluates a project for an occurrence of which a       *)
(* result was saved.                                                       *)
THEOREM SurviveCorrect == Spec => ResultsSurvive
<1>1. OnceInv /\ [Next]_vars =>
        [\A p \in Projects : Asks(p) => settled \cap (mem.batch.occurrences \X {p}) \subseteq Lost \X {p}]_vars
  <2> SUFFICES ASSUME OnceInv, Next, NEW p \in Projects, Asks(p),
                      NEW x \in settled \cap (mem.batch.occurrences \X {p})
               PROVE  x \in Lost \X {p}
    OBVIOUS
  <2>1. PICK o \in mem.batch.occurrences : x = <<o, p>>
    OBVIOUS
  <2>2. o \in Occurrences
    BY <2>1, StateFields DEF OnceInv, TypeOK
  <2>3. Known(mem, o, p)
    BY <2>1, <2>2, AsksPending DEF OnceInv, SettledInv
  <2> QED
    BY <2>1, <2>3, AsksPending DEF Known
<1> QED
  BY <1>1, OnceInvariant, PTL DEF Spec, ResultsSurvive

(* With clocks at most KeepDays - 1 days apart there are no exceptions.     *)
THEOREM OnceForGood ==
  ASSUME \A x \in Settings : \A y, z \in x.schedules : y.zone - z.zone <= (KeepDays - 1) * DayLength
  PROVE  Spec => [][\A p \in Projects : Asks(p) =>
                      (asked \cup settled) \cap (mem.batch.occurrences \X {p}) = {}]_vars
<1>1. TypeOK => Lost = {}
  <2> SUFFICES ASSUME TypeOK, Wide PROVE FALSE
    BY DEF Lost
  <2>1. PICK y, z \in setting.schedules : y.zone - z.zone > (KeepDays - 1) * DayLength
    BY DEF Wide
  <2>2. y.zone \in Nat /\ z.zone \in Nat /\ (KeepDays - 1) * DayLength \in Int
    BY <2>1, Zones, Constants
  <2>3. y.zone - z.zone <= (KeepDays - 1) * DayLength
    BY <2>1 DEF TypeOK
  <2> QED
    BY <2>1, <2>2, <2>3
<1>2. /\ Lost = {}
      /\ [\A p \in Projects : Asks(p) => asked \cap (mem.batch.occurrences \X {p}) \subseteq Lost \X {p}]_vars
      /\ [\A p \in Projects : Asks(p) => settled \cap (mem.batch.occurrences \X {p}) \subseteq Lost \X {p}]_vars
      => [\A p \in Projects : Asks(p) =>
            (asked \cup settled) \cap (mem.batch.occurrences \X {p}) = {}]_vars
  OBVIOUS
<1> QED
  BY <1>1, <1>2, TypeCorrect, OnceCorrect, SurviveCorrect, PTL DEF OncePerLife, ResultsSurvive

-----------------------------------------------------------------------------
(* What the timer is set to.                                               *)

(* An occurrence to come is not before the next trigger.                   *)
LEMMA TriggerInTime ==
  ASSUME TypeOK, NEW o \in Occurrences, Configured(o, schedule),
         TimeOf(o, schedule) >= now, o \notin Completed(mem)
  PROVE  NextTrigger # Never /\ NextTrigger <= TimeOf(o, schedule)
<1> DEFINE d == Today(schedule)
<1>1. /\ o[1] \in Nat /\ o[2] \in 0..DayLength - 1 /\ o[2] \in Nat /\ o[1] * DayLength \in Nat
      /\ schedule.times # {} /\ o[2] \in schedule.times
  BY Occurs DEF Configured
<1>2. TimeOf(o, schedule) = o[1] * DayLength + o[2] - schedule.zone
  BY DEF TimeOf
<1>3. /\ now \in Nat /\ schedule.zone \in Nat /\ schedule.times \subseteq 0..DayLength - 1
      /\ d \in Nat /\ d * DayLength \in Nat /\ d * DayLength <= now + schedule.zone
      /\ now + schedule.zone < d * DayLength + DayLength
      /\ (d + 1) * DayLength = d * DayLength + DayLength
  BY Clock, Constants
<1>4. DayLength \in Nat \ {0}
  BY Constants
<1> HIDE DEF d
<1>5. CASE Active(mem)
  BY <1>3, <1>5 DEF NextTrigger, Never
<1>6. CASE ~Active(mem)
  <2>1. NextTrigger = NextOccurrence(mem)
    BY <1>1, <1>6 DEF NextTrigger
  <2>2. ~(o[1] < d)
    <3>1. ASSUME o[1] < d PROVE FALSE
      <4>1. o[1] * DayLength + DayLength <= d * DayLength
        BY <1>1, <1>3, <1>4, <3>1, DayOrder
      <4> QED
        BY <1>1, <1>2, <1>3, <1>4, <4>1
    <3> QED
      BY <3>1
  <2>3. CASE Upcoming(mem) # {}
    <3> DEFINE S == {TimeOf(u, schedule) : u \in Upcoming(mem)}
    <3>1. ASSUME NEW u \in Upcoming(mem)
          PROVE  /\ u[1] = d /\ TimeOf(u, schedule) \in Nat
                 /\ TimeOf(u, schedule) < d * DayLength + DayLength - schedule.zone
      <4>1. u \in Occurrences /\ u[1] = d /\ TimeOf(u, schedule) >= now
        BY DEF Upcoming, d
      <4>2. u[2] \in 0..DayLength - 1 /\ TimeOf(u, schedule) = d * DayLength + u[2] - schedule.zone
        BY <4>1, Occurs DEF TimeOf
      <4> QED
        BY <1>3, <1>4, <4>1, <4>2
    <3>2. S \in SUBSET Nat /\ S # {}
      BY <2>3, <3>1
    <3>3. Min(S) \in S /\ \A y \in S : Min(S) <= y
      BY <3>2, MinLeast
    <3>4. NextTrigger = Min(S)
      BY <2>1, <2>3 DEF NextOccurrence
    <3>5. CASE o[1] = d
      <4>1. o \in Upcoming(mem)
        BY <3>5 DEF Upcoming, d
      <4>2. TimeOf(o, schedule) \in S
        BY <4>1
      <4> QED
        BY <3>2, <3>3, <3>4, <4>2 DEF Never
    <3>6. CASE o[1] # d
      <4>1. d * DayLength + DayLength <= o[1] * DayLength
        BY <1>1, <1>3, <1>4, <2>2, <3>6, DayOrder
      <4>2. PICK u \in Upcoming(mem) : Min(S) = TimeOf(u, schedule)
        BY <3>3
      <4>3. Min(S) \in Nat /\ Min(S) < d * DayLength + DayLength - schedule.zone
        BY <3>1, <4>2
      <4> HIDE DEF S
      <4> QED
        BY <1>1, <1>2, <1>3, <1>4, <3>4, <4>1, <4>3 DEF Never
    <3> QED
      BY <3>5, <3>6
  <2>4. CASE Upcoming(mem) = {}
    <3>1. PICK m : m = Min(schedule.times)
      OBVIOUS
    <3>2. m \in 0..DayLength - 1 /\ \A y \in schedule.times : m <= y
      BY <1>1, <1>3, <3>1, MinLeast
    <3>3. NextTrigger = d * DayLength + DayLength + m - schedule.zone
      <4>1. NextTrigger = (d + 1) * DayLength + m - schedule.zone
        BY <2>1, <2>4, <3>1 DEF NextOccurrence, TimeOf, d
      <4> QED
        BY <1>3, <4>1
    <3>4. o[1] # d
      BY <2>4 DEF Upcoming, d
    <3>5. CASE o[1] = d + 1
      <4>1. o[1] * DayLength = d * DayLength + DayLength
        BY <1>3, <3>5
      <4> QED
        BY <1>1, <1>2, <1>3, <1>4, <3>2, <3>3, <4>1 DEF Never
    <3>6. CASE o[1] # d + 1
      <4>1. (d + 1) * DayLength + DayLength <= o[1] * DayLength
        <5>1. d + 1 < o[1] /\ d + 1 \in Int /\ o[1] \in Int
          BY <1>1, <1>3, <2>2, <3>4, <3>6
        <5> QED
          BY <1>4, <5>1, DayOrder
      <4> QED
        BY <1>1, <1>2, <1>3, <1>4, <3>2, <3>3, <4>1 DEF Never
    <3> QED
      BY <3>5, <3>6
  <2> QED
    BY <2>3, <2>4
<1> QED
  BY <1>5, <1>6

LEMMA TimerNext ==
  ASSUME TypeOK, BatchInv, NothingSleptThrough, [Next]_vars
  PROVE  NothingSleptThrough'
<1> USE DEF world, round, clock, signals, ghost, vars
<1>1. CASE SetTimer
  <2> SUFFICES ASSUME NEW o \in Occurrences, Configured(o, schedule)',
                      TimeOf(o, schedule)' >= setAt', o \notin Completed(mem)'
               PROVE  timer' # Never /\ timer' <= Max({TimeOf(o, schedule)', setAt' + RetryDelay})
    BY DEF NothingSleptThrough, Occurrences
  <2>1. UNCHANGED <<schedule, mem, now>> /\ setAt' = now
    BY <1>1 DEF SetTimer
  <2>2. /\ Configured(o, schedule) /\ TimeOf(o, schedule) >= now /\ o \notin Completed(mem)
        /\ TimeOf(o, schedule)' = TimeOf(o, schedule)
    BY <2>1 DEF Configured, TimeOf, Completed
  <2>3. now \in Nat /\ RetryDelay \in Nat /\ now + RetryDelay \in Int /\ TimeOf(o, schedule) \in Int
    BY Clock, Constants, Occurs DEF TimeOf
  <2>4. PICK a, b : a = TimeOf(o, schedule) /\ b = now + RetryDelay
    OBVIOUS
  <2>5. Max({a, b}) \in Int /\ a <= Max({a, b}) /\ b <= Max({a, b})
    BY <2>3, <2>4, MaxOfTwo
  <2>6. timer' = NextTrigger \/ timer' = now + RetryDelay
    BY <1>1 DEF SetTimer
  <2>7. CASE timer' = NextTrigger
    <3>1. NextTrigger # Never /\ NextTrigger <= a /\ NextTrigger \in Int
      BY <2>2, <2>4, TriggerInTime, NextTriggerType DEF Never
    <3>2. NextTrigger <= Max({a, b})
      BY <2>3, <2>4, <2>5, <3>1
    <3> QED
      BY <2>1, <2>2, <2>4, <2>7, <3>1, <3>2
  <2>8. CASE timer' = now + RetryDelay
    <3>1. now + RetryDelay # Never
      BY <2>3 DEF Never
    <3> QED
      BY <2>1, <2>2, <2>4, <2>5, <2>8, <3>1
  <2> QED
    BY <2>6, <2>7, <2>8
<1>2. CASE ~SetTimer
  <2>1. at' = "wait" /\ ~wake' /\ ~saving' => at = "wait" /\ ~wake /\ ~saving /\ UNCHANGED <<schedule, mem, timer, setAt>>
    BY <1>2 DEF BatchInv, TypeOK, Next, Step, Start, NothingDue, OpenBatch, EvaluateFails, RunBatch,
       AbandonDispatch,
       Dispatch, FinishBatch, TimerFires, Woken, Exit, Down, Wake, Close, Crash, SaveSchedule, Trash, Tick,
       FinishProject
  <2> QED
    BY <2>1 DEF NothingSleptThrough, Configured, TimeOf, Completed, Occurrences
<1> QED
  BY <1>1, <1>2

(* Between the clock it read and the timer it set, no occurrence is slept  *)
(* through by more than the retry delay.                                   *)
THEOREM WaitCorrect == Spec => []NothingSleptThrough
<1>1. Init => NothingSleptThrough
  BY DEF Init, NothingSleptThrough
<1>2. OnceInv /\ NothingSleptThrough /\ [Next]_vars => NothingSleptThrough'
  BY TimerNext DEF OnceInv
<1> QED
  BY <1>1, <1>2, OnceInvariant, PTL DEF Spec
=============================================================================

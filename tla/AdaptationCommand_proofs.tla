---------------------- MODULE AdaptationCommand_proofs ----------------------
(***************************************************************************)
(* Proofs about AdaptationCommand, for any processes, keys and number of   *)
(* faults.  What makes the invariants inductive is the journal: every file *)
(* is, at every moment, as it was saved beside the journal or as the       *)
(* command of the journal leaves it, and which of the two follows from     *)
(* what is still to be written (Files).  A process that dies anywhere      *)
(* leaves that to the next one.                                            *)
(***************************************************************************)
EXTENDS AdaptationCommand, TLAPS

(* What may be left to write.                                              *)
DoTodo(op) ==
  { <<"service", "journal", "fence">>, <<"journal", "fence">>, <<"fence">> } \union
  CASE op = "preview" -> {<<"state", "runtime", "service", "journal", "fence">>,
                          <<"runtime", "service", "journal", "fence">>}
    [] op = "advance" -> {<<"state", "service", "journal", "fence">>}
    [] op = "cancel"  -> {<<"runtime", "state", "service", "journal", "fence">>,
                          <<"state", "service", "journal", "fence">>}
    [] op = "publish" -> {<<"plan", "runtime", "state", "service", "journal", "fence">>,
                          <<"runtime", "state", "service", "journal", "fence">>,
                          <<"state", "service", "journal", "fence">>}

UndoTodo ==
  { <<"runtime", "plan", "service", "state", "journal", "fence">>,
    <<"plan", "runtime", "service", "state", "journal", "fence">>,
    <<"plan", "service", "state", "journal", "fence">>,
    <<"runtime", "service", "state", "journal", "fence">>,
    <<"service", "state", "journal", "fence">>,
    <<"state", "journal", "fence">>, <<"journal", "fence">>, <<"fence">> }

FinishTodo ==
  { <<"service", "runtime", "journal", "fence">>, <<"runtime", "journal", "fence">>,
    <<"journal", "fence">>, <<"fence">> }

DoTodos == UNION {DoTodo(op) : op \in Ops}
Todo == {<< >>} \union DoTodos \union UndoTodo \union FinishTodo

Files(todo) == {todo[i] : i \in DOMAIN todo}
Left(p, file) == file \in Files(job[p].todo)

Modes == {"idle", "recover", "claim", "claimed", "do", "undo", "finish"}
Jobs == [mode : Modes, key : Keys \union {None}, op : Ops, todo : Todo]

(* One process has the lock, and only it has a job.                        *)
OneAtATime ==
  /\ job \in [Procs -> Jobs]
  /\ \A p \in Procs : lock = p <=> Mode(p) # "idle"

(* Journal and fence end with the last two writes.                         *)
JobInv(p) ==
  /\ Mode(p) \in {"idle", "recover", "claim", "claimed"} => job[p].todo = << >>
  /\ Mode(p) = "idle" => job[p] = Idle
  /\ Mode(p) \in {"claim", "claimed", "do"} => job[p].key # None
  /\ Mode(p) \in {"claim", "claimed"} => journal = None
  /\ Mode(p) = "claim" => disk.state.fence = None
  /\ Mode(p) \in {"claimed", "do"} => disk.state.fence = job[p].key
  /\ Mode(p) = "claimed" => disk.state.gen < MaxGeneration
  /\ Mode(p) = "do" => job[p].todo \in DoTodo(job[p].op)
  /\ Mode(p) = "undo" => job[p].todo \in UndoTodo
  /\ Mode(p) = "finish" => job[p].todo \in FinishTodo
  /\ Mode(p) \in {"do", "undo", "finish"} => (Left(p, "journal") <=> journal # None)
  /\ Mode(p) = "do" /\ journal # None => journal.key = job[p].key /\ journal.op = job[p].op
  /\ Mode(p) = "finish" /\ journal # None /\ journal.op # "publish" =>
       job[p].todo = <<"journal", "fence">>

(* What the command of the journal makes of the files.                     *)
Before == journal.before
AfterState == Committed(journal, Before.state)
AfterRuntime ==
  CASE journal.op = "preview" -> Before.state.next + 1
    [] journal.op = "advance" -> Before.runtime
    [] OTHER -> 0
AfterPlan == IF journal.op = "publish" THEN Before.state.session ELSE Before.plan
AfterService == Before.service \union {journal.key}

(* The saved files are those of the moment the fence was taken.            *)
JournalInv ==
  journal # None =>
    /\ disk.state.fence = journal.key
    /\ Before.state.fence = journal.key
    /\ ~Before.state.lease
    /\ journal.key \notin Before.service
    /\ Before.state.gen \in 1..(MaxGeneration - 1)
    /\ {Before.state.session, Before.runtime, Before.plan} \subseteq 0..Before.state.next

(* The state is written once, by a command that was admitted.              *)
StateInv ==
  journal # None =>
    \/ disk.state = Before.state
    \/ /\ disk.state = AfterState
       /\ journal.key \notin Before.state.done
       /\ journal.op = "preview" <=> Before.state.session = 0

(* What is left to do was not done, what is not left was.                  *)
DoInv(p) ==
  Mode(p) = "do" /\ journal # None =>
    /\ disk.state = IF Left(p, "state") THEN Before.state ELSE AfterState
    /\ disk.runtime = IF Left(p, "runtime") THEN Before.runtime ELSE AfterRuntime
    /\ disk.plan = IF Left(p, "plan") THEN Before.plan ELSE AfterPlan
    /\ disk.service = IF Left(p, "service") THEN Before.service ELSE AfterService

UndoInv(p) ==
  Mode(p) = "undo" /\ journal # None =>
    /\ ~Left(p, "state") => disk.state = Before.state
    /\ ~Left(p, "runtime") => disk.runtime = Before.runtime
    /\ ~Left(p, "plan") => disk.plan = Before.plan
    /\ ~Left(p, "service") => disk.service = Before.service

FenceInv == disk.state.fence # None => ~disk.state.lease

(* What holds whatever the writes report.                                  *)
CommandInv ==
  /\ TypeOK
  /\ OneAtATime
  /\ \A p \in Procs : JobInv(p) /\ DoInv(p) /\ UndoInv(p)
  /\ JournalInv
  /\ StateInv
  /\ FenceInv
  /\ late \in BOOLEAN

(* A command that has happened is carried out to the end, one that has not *)
(* is undone.                                                              *)
Decided == Receipted \/ Published

AgreeFiles ==
  /\ journal = None =>
       disk.runtime = disk.state.session /\ disk.service = disk.state.done
  /\ journal # None =>
       Before.runtime = Before.state.session /\ Before.service = Before.state.done
  /\ journal # None /\ Decided =>
       /\ disk.state = AfterState
       /\ disk.runtime = AfterRuntime
       /\ disk.plan = AfterPlan
       /\ disk.service \in {Before.service, AfterService}
       /\ journal.op # "publish" => disk.service = AfterService
  /\ journal # None /\ ~Decided =>
       /\ disk.service = Before.service
       /\ journal.op = "publish" => disk.state = Before.state

AgreeWork(p) ==
  journal # None =>
    /\ Mode(p) = "undo" => ~Decided
    /\ Mode(p) = "finish" => Decided
    /\ Mode(p) = "finish" /\ ~Left(p, "service") => Receipted

AgreeInv == ~late => AgreeFiles /\ \A p \in Procs : AgreeWork(p)

(* No generation comes back for another state.                             *)
Since(s) == s.gen >= held.gen /\ (s.gen = held.gen => s.done = held.done)
HeldInv ==
  held # None => /\ held.gen \in Nat
                 /\ held.free => /\ Since(disk.state)
                                 /\ journal # None => Since(Before.state)
-----------------------------------------------------------------------------
(* What is left to write, as a set.                                        *)

DoFiles == {"state", "runtime", "plan", "service"}

(* Of each list, the set.                                                  *)
LEMMA FilesFacts ==
  /\ Files(<<"plan", "runtime", "state", "service", "journal", "fence">>) =
       {"plan", "runtime", "state", "service", "journal", "fence"}
  /\ Files(<<"runtime", "state", "service", "journal", "fence">>) =
       {"runtime", "state", "service", "journal", "fence"}
  /\ Files(<<"state", "runtime", "service", "journal", "fence">>) =
       {"state", "runtime", "service", "journal", "fence"}
  /\ Files(<<"runtime", "service", "journal", "fence">>) =
       {"runtime", "service", "journal", "fence"}
  /\ Files(<<"state", "service", "journal", "fence">>) =
       {"state", "service", "journal", "fence"}
  /\ Files(<<"service", "journal", "fence">>) =
       {"service", "journal", "fence"}
  /\ Files(<<"journal", "fence">>) =
       {"journal", "fence"}
  /\ Files(<<"fence">>) =
       {"fence"}
  /\ Files(<<"runtime", "plan", "service", "state", "journal", "fence">>) =
       {"runtime", "plan", "service", "state", "journal", "fence"}
  /\ Files(<<"plan", "runtime", "service", "state", "journal", "fence">>) =
       {"plan", "runtime", "service", "state", "journal", "fence"}
  /\ Files(<<"plan", "service", "state", "journal", "fence">>) =
       {"plan", "service", "state", "journal", "fence"}
  /\ Files(<<"runtime", "service", "state", "journal", "fence">>) =
       {"runtime", "service", "state", "journal", "fence"}
  /\ Files(<<"service", "state", "journal", "fence">>) =
       {"service", "state", "journal", "fence"}
  /\ Files(<<"state", "journal", "fence">>) =
       {"state", "journal", "fence"}
  /\ Files(<<"service", "runtime", "journal", "fence">>) =
       {"service", "runtime", "journal", "fence"}
  /\ Files(<<"runtime", "journal", "fence">>) =
       {"runtime", "journal", "fence"}
  BY DEF Files

(* A command writes its files before the receipt, and the receipt before   *)
(* it ends.                                                                *)
LEMMA DoFacts ==
  ASSUME NEW op \in Ops, NEW t \in DoTodo(op)
  PROVE  /\ t # << >> /\ Head(t) \in Files(t)
         /\ Head(t) \in DoFiles \union {"journal", "fence"}
         /\ Head(t) = "fence" => Tail(t) = << >>
         /\ Head(t) # "fence" => /\ Tail(t) # << >> /\ Tail(t) \in DoTodo(op)
                                 /\ Files(Tail(t)) = Files(t) \ {Head(t)}
         /\ Head(t) = "fence" <=> "journal" \notin Files(t)
         /\ Head(t) \in Ending => Files(t) \intersect {"state", "runtime", "plan"} = {}
         /\ Head(t) = "journal" => "service" \notin Files(t)
         /\ op = "preview" /\ Head(t) = "runtime" => "state" \notin Files(t)
         /\ op = "publish" /\ Head(t) = "state" =>
              "runtime" \notin Files(t) /\ "plan" \notin Files(t)
         /\ Head(t) = "plan" => op = "publish" /\ "state" \in Files(t)
         /\ op = "publish" /\ Head(t) \in {"state", "runtime", "plan"} => "state" \in Files(t)
         /\ "service" \notin Files(t) => Files(t) \intersect {"state", "runtime", "plan"} = {}
         /\ op = "publish" /\ "state" \notin Files(t) =>
              Files(t) \intersect {"runtime", "plan"} = {}
         /\ Head(t) = "runtime" => op # "advance"
         /\ Head(t) \in {"state", "runtime", "plan"} => "service" \in Files(t)
PROOF
  <1>1. CASE t = <<"plan", "runtime", "state", "service", "journal", "fence">>
    BY <1>1, FilesFacts DEF DoTodo, Ops, DoFiles, Ending
  <1>2. CASE t = <<"runtime", "state", "service", "journal", "fence">>
    BY <1>2, FilesFacts DEF DoTodo, Ops, DoFiles, Ending
  <1>3. CASE t = <<"state", "runtime", "service", "journal", "fence">>
    BY <1>3, FilesFacts DEF DoTodo, Ops, DoFiles, Ending
  <1>4. CASE t = <<"runtime", "service", "journal", "fence">>
    BY <1>4, FilesFacts DEF DoTodo, Ops, DoFiles, Ending
  <1>5. CASE t = <<"state", "service", "journal", "fence">>
    BY <1>5, FilesFacts DEF DoTodo, Ops, DoFiles, Ending
  <1>6. CASE t = <<"service", "journal", "fence">>
    BY <1>6, FilesFacts DEF DoTodo, Ops, DoFiles, Ending
  <1>7. CASE t = <<"journal", "fence">>
    BY <1>7, FilesFacts DEF DoTodo, Ops, DoFiles, Ending
  <1>8. CASE t = <<"fence">>
    BY <1>8, FilesFacts DEF DoTodo, Ops, DoFiles, Ending
  <1> QED BY <1>1, <1>2, <1>3, <1>4, <1>5, <1>6, <1>7, <1>8 DEF DoTodo, Ops

LEMMA UndoFacts ==
  ASSUME NEW t \in UndoTodo
  PROVE  /\ t # << >> /\ Head(t) \in Files(t)
         /\ Head(t) \in DoFiles \union {"journal", "fence"}
         /\ Head(t) = "fence" => Tail(t) = << >>
         /\ Head(t) # "fence" => /\ Tail(t) # << >> /\ Tail(t) \in UndoTodo
                                 /\ Files(Tail(t)) = Files(t) \ {Head(t)}
         /\ Head(t) = "fence" <=> "journal" \notin Files(t)
         /\ Head(t) \in {"journal", "fence"} => Files(t) \intersect DoFiles = {}
         /\ Head(t) = "state" => "runtime" \notin Files(t) /\ "plan" \notin Files(t)
PROOF
  <1>1. CASE t = <<"runtime", "plan", "service", "state", "journal", "fence">>
    BY <1>1, FilesFacts DEF UndoTodo, DoFiles
  <1>2. CASE t = <<"plan", "runtime", "service", "state", "journal", "fence">>
    BY <1>2, FilesFacts DEF UndoTodo, DoFiles
  <1>3. CASE t = <<"plan", "service", "state", "journal", "fence">>
    BY <1>3, FilesFacts DEF UndoTodo, DoFiles
  <1>4. CASE t = <<"runtime", "service", "state", "journal", "fence">>
    BY <1>4, FilesFacts DEF UndoTodo, DoFiles
  <1>5. CASE t = <<"service", "state", "journal", "fence">>
    BY <1>5, FilesFacts DEF UndoTodo, DoFiles
  <1>6. CASE t = <<"state", "journal", "fence">>
    BY <1>6, FilesFacts DEF UndoTodo, DoFiles
  <1>7. CASE t = <<"journal", "fence">>
    BY <1>7, FilesFacts DEF UndoTodo, DoFiles
  <1>8. CASE t = <<"fence">>
    BY <1>8, FilesFacts DEF UndoTodo, DoFiles
  <1> QED BY <1>1, <1>2, <1>3, <1>4, <1>5, <1>6, <1>7, <1>8 DEF UndoTodo

LEMMA FinishFacts ==
  ASSUME NEW t \in FinishTodo
  PROVE  /\ t # << >> /\ Head(t) \in Files(t)
         /\ Head(t) \in {"service", "runtime", "journal", "fence"}
         /\ Head(t) = "fence" => Tail(t) = << >>
         /\ Head(t) # "fence" => /\ Tail(t) # << >> /\ Tail(t) \in FinishTodo
                                 /\ Files(Tail(t)) = Files(t) \ {Head(t)}
         /\ Head(t) = "fence" <=> "journal" \notin Files(t)
         /\ Head(t) \in {"journal", "fence"} => "service" \notin Files(t)
         /\ t = <<"journal", "fence">> => Head(t) = "journal"
PROOF
  <1>1. CASE t = <<"service", "runtime", "journal", "fence">>
    BY <1>1, FilesFacts DEF FinishTodo
  <1>2. CASE t = <<"runtime", "journal", "fence">>
    BY <1>2, FilesFacts DEF FinishTodo
  <1>3. CASE t = <<"journal", "fence">>
    BY <1>3, FilesFacts DEF FinishTodo
  <1>4. CASE t = <<"fence">>
    BY <1>4, FilesFacts DEF FinishTodo
  <1> QED BY <1>1, <1>2, <1>3, <1>4 DEF FinishTodo

(* Where they start.                                                       *)
LEMMA BodyFacts ==
  ASSUME NEW op \in Ops
  PROVE  /\ Body(op) \in DoTodo(op)
         /\ {"state", "service", "journal"} \subseteq Files(Body(op))
         /\ op # "advance" => "runtime" \in Files(Body(op))
         /\ op = "publish" => "plan" \in Files(Body(op))
  BY DEF Body, DoTodo, Files, Ops

LEMMA UndoStarts ==
  Undo \in UndoTodo /\ Files(Undo) = DoFiles \union {"journal", "fence"}
  BY DEF Undo, UndoTodo, Files, DoFiles
-----------------------------------------------------------------------------
(* CommandInv.                                                             *)

DiskInv ==
  /\ disk \in Disk
  /\ disk.state.gen \in 1..MaxGeneration
  /\ {disk.state.session, disk.runtime, disk.plan} \subseteq 0..disk.state.next
  /\ journal \in Journal \union {None}

FilesInv == DiskInv /\ JournalInv /\ StateInv /\ FenceInv
WorkInv(p) == JobInv(p) /\ DoInv(p) /\ UndoInv(p)

LEMMA IdleJob == Idle \in Jobs
  BY DEF Idle, Jobs, Modes, Ops, Todo

LEMMA TodoType ==
  /\ << >> \in Todo
  /\ \A op \in Ops : DoTodo(op) \subseteq Todo
  /\ UndoTodo \subseteq Todo
  /\ FinishTodo \subseteq Todo
PROOF
  <1>1. \A op \in Ops : DoTodo(op) \subseteq DoTodos
    BY DEF DoTodos
  <1> QED BY <1>1 DEF Todo

LEMMA JobTurns ==
  ASSUME OneAtATime, NEW p \in Procs, NEW m \in Modes, NEW t \in Todo,
         job' = [job EXCEPT ![p].mode = m], job[p].todo = t
  PROVE  /\ job' \in [Procs -> Jobs] /\ \A q \in Procs \ {p} : job'[q] = job[q]
         /\ job'[p].mode = m /\ job'[p].todo = t
         /\ job'[p].key = job[p].key /\ job'[p].op = job[p].op
PROOF
  <1>1. job[p] \in Jobs /\ job \in [Procs -> Jobs]
    BY DEF OneAtATime
  <1>2. job' = [job EXCEPT ![p] = [job[p] EXCEPT !.mode = m, !.todo = t]]
    BY <1>1 DEF Jobs, Mode
  <1>3. [job[p] EXCEPT !.mode = m, !.todo = t] \in Jobs
    BY <1>1 DEF Jobs
  <1>4. job'[p] = [job[p] EXCEPT !.mode = m, !.todo = t]
    BY <1>1, <1>2
  <1>5. job' \in [Procs -> Jobs] /\ \A q \in Procs \ {p} : job'[q] = job[q]
    BY <1>1, <1>2, <1>3
  <1> QED BY <1>1, <1>4, <1>5 DEF Jobs

LEMMA JobAdvances ==
  ASSUME OneAtATime, NEW p \in Procs, NEW m \in Modes, NEW t \in Todo,
         job' = [job EXCEPT ![p].todo = t], Mode(p) = m
  PROVE  /\ job' \in [Procs -> Jobs] /\ \A q \in Procs \ {p} : job'[q] = job[q]
         /\ job'[p].mode = m /\ job'[p].todo = t
         /\ job'[p].key = job[p].key /\ job'[p].op = job[p].op
PROOF
  <1>1. job[p] \in Jobs /\ job \in [Procs -> Jobs]
    BY DEF OneAtATime
  <1>2. job' = [job EXCEPT ![p] = [job[p] EXCEPT !.mode = m, !.todo = t]]
    BY <1>1 DEF Jobs, Mode
  <1>3. [job[p] EXCEPT !.mode = m, !.todo = t] \in Jobs
    BY <1>1 DEF Jobs
  <1>4. job'[p] = [job[p] EXCEPT !.mode = m, !.todo = t]
    BY <1>1, <1>2
  <1>5. job' \in [Procs -> Jobs] /\ \A q \in Procs \ {p} : job'[q] = job[q]
    BY <1>1, <1>2, <1>3
  <1> QED BY <1>1, <1>4, <1>5 DEF Jobs

LEMMA JobUndone ==
  ASSUME OneAtATime, NEW p \in Procs, ToUndo(p)
  PROVE  /\ job' \in [Procs -> Jobs] /\ \A q \in Procs \ {p} : job'[q] = job[q]
         /\ job'[p].mode = "undo" /\ job'[p].todo = Undo /\ job'[p].key = None
PROOF
  <1>1. [Idle EXCEPT !.mode = "undo", !.todo = Undo] \in Jobs
    BY TodoType, UndoStarts DEF Idle, Jobs, Modes, Ops
  <1> QED BY <1>1 DEF OneAtATime, ToUndo, Idle

(* A step of the process that has the lock, or takes it.                   *)
LEMMA StepOfOne ==
  ASSUME CommandInv, UNCHANGED late, NEW p \in Procs, lock \in {None, p},
         job' \in [Procs -> Jobs], \A q \in Procs \ {p} : job'[q] = job[q],
         lock' = IF job'[p].mode = "idle" THEN None ELSE p,
         FilesInv', WorkInv(p)'
  PROVE  CommandInv'
PROOF
  <1> USE DEF CommandInv, OneAtATime, Mode
  <1>1. \A q \in Procs \ {p} : job[q].mode = "idle" /\ job[q] = Idle
    BY ConstantsAssumption DEF JobInv
  <1>2. OneAtATime'
    BY <1>1, ConstantsAssumption
  <1>3. ASSUME NEW q \in Procs, q # p PROVE WorkInv(q)'
    BY <1>1, <1>3 DEF WorkInv, JobInv, DoInv, UndoInv, Idle
  <1>4. TypeOK'
    BY <1>2 DEF TypeOK, FilesInv, DiskInv, Jobs, Modes
  <1> QED BY <1>2, <1>3, <1>4 DEF WorkInv, FilesInv

(* A command that returns needs nothing.                                   *)
LEMMA ReturnStep ==
  ASSUME CommandInv, NEW p \in Procs, Return(p)
  PROVE  /\ job' \in [Procs -> Jobs] /\ \A q \in Procs \ {p} : job'[q] = job[q]
         /\ job'[p] = Idle /\ lock' = None
         /\ lock' = IF job'[p].mode = "idle" THEN None ELSE p
         /\ WorkInv(p)'
  BY IdleJob DEF Return, CommandInv, OneAtATime, WorkInv, JobInv, DoInv, UndoInv, Mode, Idle

(* After a recovery there is neither a journal nor a fence.                *)
LEMMA RecoveredStep ==
  ASSUME CommandInv, NEW p \in Procs, Mode(p) # "idle", Recovered(p),
         journal' = None, disk'.state.fence = None
  PROVE  /\ job' \in [Procs -> Jobs] /\ \A q \in Procs \ {p} : job'[q] = job[q]
         /\ lock' = IF job'[p].mode = "idle" THEN None ELSE p
         /\ WorkInv(p)'
PROOF
  <1>1. CASE Return(p)
    BY <1>1, ReturnStep
  <1>2. CASE /\ job[p].key # None
             /\ job' = [job EXCEPT ![p] = [@ EXCEPT !.mode = "claim", !.todo = << >>]]
             /\ UNCHANGED lock
    <2>1. job[p] \in Jobs /\ lock = p
      BY DEF CommandInv, OneAtATime
    <2>2. job'[p] = [job[p] EXCEPT !.mode = "claim", !.todo = << >>]
      BY <1>2 DEF CommandInv, OneAtATime
    <2>3. job'[p] \in Jobs /\ job'[p].mode = "claim" /\ job'[p].todo = << >>
          /\ job'[p].key = job[p].key
      BY <2>1, <2>2, TodoType DEF Jobs, Modes
    <2>4. WorkInv(p)'
      BY <1>2, <2>3 DEF WorkInv, JobInv, DoInv, UndoInv, Mode
    <2> QED BY <1>2, <2>1, <2>3, <2>4 DEF CommandInv, OneAtATime
  <1> QED BY <1>1, <1>2 DEF Recovered

LEMMA FilesStay ==
  ASSUME CommandInv, UNCHANGED <<disk, journal>>
  PROVE  FilesInv'
  BY DEF CommandInv, FilesInv, TypeOK, DiskInv, JournalInv, StateInv, FenceInv, Before, AfterState,
         Committed, Sessions

(* A request, a refusal or a crash writes nothing.                         *)
LEMMA CommandCalls ==
  ASSUME CommandInv, UNCHANGED late, NEW p \in Procs,
         \/ \E key \in Keys, op \in Ops : Request(p, key, op)
         \/ Open(p) \/ ClaimRefused(p) \/ RecoverFails(p) \/ Crash(p)
         \/ Refuse(p) \/ RecoverUndo(p) \/ RecoverCommitted(p)
  PROVE  CommandInv'
PROOF
  <1> USE DEF OneAtATime, Mode
  <1>1. UNCHANGED <<disk, journal>> /\ FilesInv'
    BY FilesStay DEF Request, Open, ClaimRefused, RecoverFails, Crash, Refuse, RecoverUndo,
           RecoverCommitted
  <1>2. job \in [Procs -> Jobs] /\ job[p] \in Jobs /\ None \notin Procs
    BY ConstantsAssumption DEF CommandInv
  <1>3. CASE ClaimRefused(p) \/ RecoverFails(p) \/ Crash(p)
    <2>1. Return(p) /\ lock = p
      BY <1>3 DEF ClaimRefused, RecoverFails, Crash, CommandInv
    <2> QED BY <1>1, <2>1, ReturnStep, StepOfOne
  <1>4. CASE Open(p) \/ \E key \in Keys, op \in Ops : Request(p, key, op)
    <2>1. /\ job' \in [Procs -> Jobs] /\ \A q \in Procs \ {p} : job'[q] = job[q]
          /\ job'[p].mode = "recover" /\ job'[p].todo = << >> /\ lock = None /\ lock' = p
      BY <1>2, <1>4, IdleJob, TodoType DEF Open, Request, Jobs, Modes, Idle
    <2>2. WorkInv(p)'
      BY <2>1 DEF WorkInv, JobInv, DoInv, UndoInv
    <2> QED BY <1>1, <2>1, <2>2, StepOfOne
  <1>5. CASE Refuse(p) \/ RecoverUndo(p)
    <2>1. journal # None /\ lock = p
      <3>1. CASE Refuse(p)
        <4>1. Mode(p) = "do" /\ Head(job[p].todo) \notin Ending
          BY <3>1 DEF Refuse, Allowed
        <4>2. job[p].todo \in DoTodo(job[p].op) /\ job[p].op \in Ops
          BY <1>2, <4>1 DEF CommandInv, JobInv, Jobs
        <4>3. Left(p, "journal")
          BY <4>1, <4>2, DoFacts DEF Left, Ending
        <4> QED BY <4>1, <4>3 DEF CommandInv, JobInv
      <3>2. CASE RecoverUndo(p)
        BY <3>2 DEF RecoverUndo, CommandInv
      <3> QED BY <1>5, <3>1, <3>2
    <2>2. "undo" \in Modes /\ Undo \in Todo
      BY TodoType, UndoStarts DEF Modes
    <2>3. /\ job' \in [Procs -> Jobs] /\ \A q \in Procs \ {p} : job'[q] = job[q]
          /\ job'[p].mode = "undo" /\ job'[p].todo = Undo /\ lock' = p
      <3>1. CASE Refuse(p)
        BY <3>1, <2>1, JobUndone DEF Refuse, CommandInv
      <3>2. CASE RecoverUndo(p)
        <4>1. job'[p] = [job[p] EXCEPT !.mode = "undo", !.todo = Undo]
          BY <1>2, <3>2 DEF RecoverUndo
        <4>2. job'[p] \in Jobs /\ job'[p].mode = "undo" /\ job'[p].todo = Undo
          BY <1>2, <2>2, <4>1 DEF Jobs
        <4> QED BY <1>2, <2>1, <3>2, <4>2 DEF RecoverUndo
      <3> QED BY <1>5, <3>1, <3>2
    <2>4. WorkInv(p)'
      BY <1>1, <2>1, <2>3, UndoStarts DEF WorkInv, JobInv, DoInv, UndoInv, Left, DoFiles
    <2> QED BY <1>1, <2>1, <2>3, <2>4, StepOfOne
  <1>6. CASE RecoverCommitted(p)
    <2> USE DEF RecoverCommitted
    <2>1. PICK t \in FinishTodo :
            /\ job' = [job EXCEPT ![p] = [@ EXCEPT !.mode = "finish", !.todo = t]]
            /\ t # <<"fence">>
            /\ journal.op # "publish" => t = <<"journal", "fence">>
      BY <1>6 DEF FinishTodo, ToFinish
    <2>2. /\ job' \in [Procs -> Jobs] /\ \A q \in Procs \ {p} : job'[q] = job[q]
          /\ job'[p].mode = "finish" /\ job'[p].todo = t /\ lock = p /\ lock' = p
      <3>1. job'[p] = [job[p] EXCEPT !.mode = "finish", !.todo = t]
        BY <1>2, <2>1
      <3>2. "finish" \in Modes /\ t \in Todo
        BY TodoType DEF Modes
      <3>3. job'[p] \in Jobs /\ job'[p].mode = "finish" /\ job'[p].todo = t
        BY <1>2, <3>1, <3>2 DEF Jobs
      <3> QED BY <1>2, <1>6, <2>1, <3>3 DEF CommandInv
    <2>3. "journal" \in Files(t)
      BY <2>1, FilesFacts DEF FinishTodo
    <2>4. WorkInv(p)'
      BY <1>1, <1>6, <2>1, <2>2, <2>3 DEF WorkInv, JobInv, DoInv, UndoInv, Left
    <2> QED BY <1>1, <2>2, <2>4, StepOfOne
  <1> QED BY <1>3, <1>4, <1>5, <1>6

LEMMA CommandStutter ==
  ASSUME CommandInv, UNCHANGED <<disk, journal, lock, job, late>>
  PROVE  CommandInv'
PROOF
  <1>1. TypeOK' /\ OneAtATime'
    BY DEF CommandInv, TypeOK, OneAtATime, Mode
  <1>2. \A p \in Procs : JobInv(p)'
    BY DEF CommandInv, JobInv, Mode, Left
  <1>3. \A p \in Procs : DoInv(p)' /\ UndoInv(p)'
    BY DEF CommandInv, DoInv, UndoInv, Mode, Left, Before, AfterState, AfterRuntime, AfterPlan,
           AfterService, Committed, Sessions
  <1>4. FilesInv'
    BY FilesStay
  <1> QED BY <1>1, <1>2, <1>3, <1>4 DEF CommandInv, FilesInv

(* The writing flow and the foundation find no command under way.          *)
LEMMA CommandFlow ==
  ASSUME CommandInv, UNCHANGED late, FlowAcquire \/ FlowRelease \/ FoundationPreview
  PROVE  CommandInv'
PROOF
  <1> USE DEF CommandInv
  <1>1. CASE FoundationPreview
    BY <1>1, CommandStutter DEF FoundationPreview
  <1>2. CASE FlowAcquire \/ FlowRelease
    <2>1. disk.state.fence = None /\ journal = None
      BY <1>2, ConstantsAssumption
         DEF FlowAcquire, FlowRelease, FenceInv, JournalInv, TypeOK, Journal
    <2>2. PICK l \in BOOLEAN : disk' = [disk EXCEPT !.state.lease = l, !.state.gen = @ + 1]
      BY <1>2 DEF FlowAcquire, FlowRelease
    <2>3. disk.state.gen < MaxGeneration /\ UNCHANGED <<journal, lock, job>>
      BY <1>2 DEF FlowAcquire, FlowRelease
    <2>4. disk \in Disk /\ disk.state \in State
      BY DEF TypeOK, Disk
    <2>5. /\ disk' \in Disk /\ disk'.state.gen = disk.state.gen + 1
          /\ disk'.state.fence = None /\ disk'.state.session = disk.state.session
          /\ disk'.state.next = disk.state.next
          /\ disk'.runtime = disk.runtime /\ disk'.plan = disk.plan
      <3>1. disk' = [disk EXCEPT !.state = [disk.state EXCEPT !.lease = l, !.gen = @ + 1]]
        BY <2>2, <2>4 DEF Disk, State
      <3>2. disk.state.gen + 1 \in Nat
        BY <2>4 DEF State
      <3>3. [disk.state EXCEPT !.lease = l, !.gen = @ + 1] \in State
        BY <2>4, <3>2 DEF State
      <3> QED BY <2>1, <2>4, <3>1, <3>3 DEF Disk, State
    <2>6. TypeOK'
      BY <2>3, <2>5, ConstantsAssumption DEF TypeOK, Mode
    <2>7. \A p \in Procs : JobInv(p)'
      BY <2>1, <2>3, <2>5 DEF JobInv, Left, Mode
    <2> QED BY <2>1, <2>3, <2>5, <2>6, <2>7
            DEF OneAtATime, Mode, DoInv, UndoInv, JournalInv, StateInv, FenceInv
  <1> QED BY <1>1, <1>2

(* Taking the fence, giving it back, and saving the files.                 *)
LEMMA CommandFence ==
  ASSUME CommandInv, UNCHANGED late, NEW p \in Procs,
         RecoverNothing(p) \/ Claim(p) \/ Replay(p) \/ Prepare(p)
  PROVE  CommandInv'
PROOF
  <1>1. lock = p /\ job \in [Procs -> Jobs] /\ job[p] \in Jobs /\ None \notin Procs
    BY ConstantsAssumption
       DEF CommandInv, OneAtATime, RecoverNothing, Claim, Replay, Prepare, Mode
  <1>0. OneAtATime /\ JobInv(p) /\ TypeOK /\ FenceInv
    BY DEF CommandInv
  <1>2. journal = None
    BY <1>0 DEF RecoverNothing, Claim, Replay, Prepare, JobInv
  <1>3. ASSUME NEW f \in Keys \union {None}, disk' = [disk EXCEPT !.state.fence = f],
               UNCHANGED journal, f = None \/ ~disk.state.lease
        PROVE  FilesInv' /\ disk'.state.fence = f
    BY <1>0, <1>2, <1>3 DEF TypeOK, FilesInv, DiskInv, JournalInv, StateInv, FenceInv, Disk, State
  <1>4. CASE RecoverNothing(p)
    <2>1. FilesInv' /\ disk'.state.fence = None
      BY <1>3, <1>4 DEF RecoverNothing, Release
    <2> QED BY <1>1, <1>2, <1>4, <2>1, RecoveredStep, StepOfOne DEF RecoverNothing
  <1>5. CASE Replay(p)
    <2>1. FilesInv'
      BY <1>3, <1>5 DEF Replay, Release
    <2> QED BY <1>1, <1>5, <2>1, ReturnStep, StepOfOne DEF Replay
  <1>6. CASE Claim(p)
    <2>1. /\ FilesInv' /\ disk'.state.fence = job[p].key /\ job[p].key # None
          /\ disk'.state.gen < MaxGeneration
      BY <1>0, <1>1, <1>3, <1>6 DEF Claim, JobInv, Jobs, TypeOK, Disk, State
    <2>2. /\ job' \in [Procs -> Jobs] /\ \A q \in Procs \ {p} : job'[q] = job[q]
          /\ job'[p].mode = "claimed" /\ job'[p].todo = << >>
          /\ job'[p].key = job[p].key /\ lock' = p
      <3>1. "claimed" \in Modes /\ << >> \in Todo /\ job[p].todo = << >>
        BY <1>0, <1>6, TodoType DEF Claim, Modes, JobInv
      <3>2. job' = [job EXCEPT ![p].mode = "claimed"] /\ lock' = p
        BY <1>1, <1>6 DEF Claim
      <3>3. OneAtATime
        BY <1>0
      <3> QED BY <3>1, <3>2, <3>3, JobTurns
    <2>3. WorkInv(p)'
      BY <1>2, <1>6, <2>1, <2>2 DEF Claim, WorkInv, JobInv, DoInv, UndoInv, Mode
    <2> QED BY <1>1, <2>1, <2>2, <2>3, StepOfOne
  <1>7. CASE Prepare(p)
    <2>1. PICK op \in Ops, key \in Keys :
            job[p].op = op /\ job[p].key = key /\ disk.state.fence = key
      BY <1>0, <1>1, <1>7 DEF Prepare, JobInv, Jobs
    <2>2. /\ journal' = [key |-> key, op |-> op, before |-> disk] /\ key \notin disk.service
          /\ job' = [job EXCEPT ![p] = [@ EXCEPT !.mode = "do", !.todo = Body(op)]]
          /\ UNCHANGED <<disk, lock>>
      BY <1>7, <2>1 DEF Prepare, Saved
    <2>3. /\ journal' \in Journal /\ journal' # None
          /\ journal'.key = key /\ journal'.op = op /\ journal'.before = disk
      BY <1>0, <2>2, ConstantsAssumption DEF Journal, TypeOK
    <2>4. /\ job' \in [Procs -> Jobs] /\ \A q \in Procs \ {p} : job'[q] = job[q]
          /\ job'[p].mode = "do" /\ job'[p].todo = Body(op) /\ job'[p].op = op
          /\ job'[p].key = key
      <3>1. job'[p] = [job[p] EXCEPT !.mode = "do", !.todo = Body(op)]
        BY <1>1, <2>2
      <3>2. "do" \in Modes /\ Body(op) \in Todo
        BY BodyFacts, TodoType DEF Modes
      <3>3. /\ job'[p] \in Jobs /\ job'[p].mode = "do" /\ job'[p].todo = Body(op)
            /\ job'[p].op = op /\ job'[p].key = key
        BY <1>1, <2>1, <3>1, <3>2 DEF Jobs
      <3> QED BY <1>1, <2>2, <3>3
    <2>5. FilesInv'
      <3>1. disk.state.gen < MaxGeneration /\ ~disk.state.lease
        BY <1>0, <1>7, <2>1, ConstantsAssumption DEF Prepare, JobInv, FenceInv
      <3> QED
        BY <1>0, <2>1, <2>2, <2>3, <3>1, ConstantsAssumption
           DEF FilesInv, DiskInv, TypeOK, JournalInv, StateInv, FenceInv, Before, Disk, State
    <2>6. WorkInv(p)'
      <3>1. JobInv(p)'
        BY <2>1, <2>2, <2>3, <2>4, BodyFacts, ConstantsAssumption DEF JobInv, Mode, Left
      <3>2. DoInv(p)' /\ UndoInv(p)'
        BY <2>1, <2>2, <2>3, <2>4, BodyFacts
           DEF DoInv, UndoInv, Mode, Left, Before, AfterRuntime, AfterPlan, Ops
      <3> QED BY <3>1, <3>2 DEF WorkInv
    <2> QED BY <1>1, <2>2, <2>4, <2>5, <2>6, StepOfOne
  <1> QED BY <1>4, <1>5, <1>6, <1>7

(* What the writes of a command, and those that undo it, change.           *)
LEMMA CommittedFacts ==
  ASSUME NEW c, c.key \in Keys, c.op \in Ops, NEW s \in State
  PROVE  /\ Committed(c, s) \in State
         /\ Committed(c, s).gen = s.gen + 1
         /\ Committed(c, s).fence = s.fence
         /\ Committed(c, s).lease = s.lease
         /\ Committed(c, s).done = s.done \union {c.key}
         /\ Committed(c, s).next = IF c.op = "preview" THEN s.next + 1 ELSE s.next
         /\ Committed(c, s).session = CASE c.op = "preview" -> s.next + 1
                                        [] c.op = "advance" -> s.session
                                        [] OTHER -> 0
PROOF
  <1>1. PICK n \in Nat, m \in Nat :
          /\ n = IF c.op = "preview" THEN s.next + 1 ELSE s.next
          /\ m = CASE c.op = "preview" -> s.next + 1
                   [] c.op = "advance" -> s.session
                   [] OTHER -> 0
    BY DEF State
  <1>2. Committed(c, s) = [s EXCEPT !.gen = s.gen + 1, !.done = s.done \union {c.key},
                                    !.next = n, !.session = m]
    BY <1>1 DEF Committed, Sessions, Advanced, State
  <1>3. s.gen + 1 \in Nat /\ s.done \union {c.key} \subseteq Keys
    BY DEF State
  <1> QED BY <1>1, <1>2, <1>3 DEF State

LEMMA WrittenFacts ==
  ASSUME disk \in Disk, NEW c, c.key \in Keys, c.op \in Ops, NEW file \in DoFiles
  PROVE  /\ Written(c, file) \in Disk
         /\ Written(c, file).state = IF file = "state" THEN Committed(c, disk.state)
                                     ELSE disk.state
         /\ Written(c, file).runtime =
              IF file # "runtime" THEN disk.runtime
              ELSE IF c.op = "preview" THEN disk.state.session ELSE 0
         /\ Written(c, file).plan = IF file = "plan" THEN disk.state.session ELSE disk.plan
         /\ Written(c, file).service = IF file = "service" THEN disk.service \union {c.key}
                                       ELSE disk.service
PROOF
  <1>1. disk.state \in State /\ Committed(c, disk.state) \in State
    BY CommittedFacts DEF Disk
  <1>2. disk.state.session \in Nat
    BY <1>1 DEF State
  <1> QED BY <1>1, <1>2 DEF Written, Disk, DoFiles

LEMMA AfterFacts ==
  ASSUME journal \in Journal
  PROVE  /\ AfterState \in State
         /\ AfterState.gen = Before.state.gen + 1
         /\ AfterState.fence = Before.state.fence
         /\ AfterState.lease = Before.state.lease
         /\ AfterState.done = Before.state.done \union {journal.key}
         /\ AfterState.next = IF journal.op = "preview" THEN Before.state.next + 1
                              ELSE Before.state.next
         /\ AfterState.session = CASE journal.op = "preview" -> Before.state.next + 1
                                   [] journal.op = "advance" -> Before.state.session
                                   [] OTHER -> 0
PROOF
  <1>1. PICK s \in State : s = Before.state
    BY DEF Before, Journal, Disk
  <1>2. PICK c : c = journal
    OBVIOUS
  <1>3. c.key \in Keys /\ c.op \in Ops /\ AfterState = Committed(c, s)
    BY <1>1, <1>2 DEF Journal, AfterState
  <1> QED BY <1>1, <1>2, <1>3, CommittedFacts

LEMMA AfterStay ==
  ASSUME UNCHANGED journal
  PROVE  UNCHANGED <<Before, AfterState, AfterRuntime, AfterPlan, AfterService>>
  BY DEF Before, AfterState, AfterRuntime, AfterPlan, AfterService, Committed, Sessions

(* What is left of the types and the journal while files are written.      *)
LEMMA FilesWritten ==
  ASSUME FilesInv, journal \in Journal, UNCHANGED journal, disk' \in Disk,
         disk'.state \in {disk.state, Before.state, AfterState},
         disk'.state = AfterState =>
           \/ disk.state = AfterState
           \/ /\ journal.key \notin Before.state.done
              /\ journal.op = "preview" <=> Before.state.session = 0,
         {disk'.runtime, disk'.plan} \subseteq 0..disk'.state.next
  PROVE  FilesInv' /\ disk'.state.fence = disk.state.fence
PROOF
  <1>1. JournalInv /\ StateInv /\ FenceInv /\ journal # None /\ Before.state \in State
        /\ disk.state.gen \in 1..MaxGeneration /\ disk.state.session \in 0..disk.state.next
    BY ConstantsAssumption DEF FilesInv, DiskInv, Journal, Before, Disk
  <1>2. /\ Before.state.gen \in 1..(MaxGeneration - 1)
        /\ Before.state.session \in 0..Before.state.next
        /\ Before.state.fence = journal.key /\ disk.state.fence = journal.key
        /\ ~Before.state.lease
    BY <1>1 DEF JournalInv
  <1>3. /\ AfterState.gen \in 1..MaxGeneration /\ AfterState.session \in 0..AfterState.next
        /\ AfterState.fence = journal.key /\ ~AfterState.lease /\ AfterState \in State
    BY <1>1, <1>2, AfterFacts, ConstantsAssumption DEF Journal, State, Ops
  <1>4. /\ disk'.state.gen \in 1..MaxGeneration /\ disk'.state.session \in 0..disk'.state.next
        /\ disk'.state.fence = journal.key /\ (~disk.state.lease => ~disk'.state.lease)
    <2>1. CASE disk'.state = disk.state
      BY <1>1, <1>2, <2>1
    <2>2. CASE disk'.state = Before.state
      <3>1. Before.state.gen \in 1..MaxGeneration
        BY <1>2, ConstantsAssumption
      <3> QED BY <1>2, <2>2, <3>1
    <2>3. CASE disk'.state = AfterState
      BY <1>3, <2>3
    <2> QED BY <2>1, <2>2, <2>3
  <1>5. DiskInv'
    BY <1>4 DEF DiskInv
  <1>6. JournalInv'
    BY <1>1, <1>4, AfterStay DEF JournalInv
  <1>7. StateInv'
    BY <1>1, AfterStay DEF StateInv
  <1>8. FenceInv'
    BY <1>1, <1>2, <1>4, ConstantsAssumption DEF FenceInv, Journal
  <1> QED BY <1>2, <1>4, <1>5, <1>6, <1>7, <1>8 DEF FilesInv

LEMMA RestoredFacts ==
  ASSUME disk \in Disk, journal \in Journal, disk.state.fence = Before.state.fence,
         NEW file \in DoFiles
  PROVE  /\ Restored(file) \in Disk
         /\ Restored(file).state = IF file = "state" THEN Before.state ELSE disk.state
         /\ Restored(file).runtime = IF file = "runtime" THEN Before.runtime ELSE disk.runtime
         /\ Restored(file).plan = IF file = "plan" THEN Before.plan ELSE disk.plan
         /\ Restored(file).service = IF file = "service" THEN Before.service ELSE disk.service
PROOF
  <1>1. Before \in Disk /\ Before.state \in State
    BY DEF Journal, Before, Disk
  <1>2. RestoredState = Before.state
    BY <1>1 DEF RestoredState, Before, State
  <1> QED BY <1>1, <1>2 DEF Restored, Before, Disk, DoFiles

(* What a process that writes finds: a list of its command, of its undoing *)
(* or of a recovery.                                                       *)
LEMMA WriterFacts ==
  ASSUME CommandInv, NEW p \in Procs, Doing(p)
  PROVE  LET t == job[p].todo IN
         /\ lock = p /\ job[p] \in Jobs /\ Mode(p) \in {"do", "undo", "finish"}
         /\ Head(t) \in Files(t)
         /\ Head(t) \in DoFiles \union {"journal", "fence"}
         /\ Head(t) = "fence" <=> journal = None
         /\ Head(t) = "fence" => Tail(t) = << >>
         /\ Head(t) # "fence" => /\ Tail(t) # << >> /\ Tail(t) \in Todo
                                 /\ Files(Tail(t)) = Files(t) \ {Head(t)}
PROOF
  <1>1. lock = p /\ job[p] \in Jobs /\ Mode(p) \in {"do", "undo", "finish"} /\ JobInv(p)
    BY DEF CommandInv, OneAtATime, JobInv, Doing, Mode, Jobs, Modes
  <1>2. job[p].op \in Ops
    BY <1>1 DEF Jobs
  <1>3. CASE Mode(p) = "do"
    BY <1>1, <1>2, <1>3, DoFacts, TodoType DEF JobInv, Left
  <1>4. CASE Mode(p) = "undo"
    BY <1>1, <1>4, UndoFacts, TodoType DEF JobInv, Left
  <1>5. CASE Mode(p) = "finish"
    BY <1>1, <1>5, FinishFacts, TodoType DEF JobInv, Left, DoFiles
  <1> QED BY <1>1, <1>3, <1>4, <1>5

(* The last write gives the fence back.                                    *)
LEMMA CommandFenceWrite ==
  ASSUME CommandInv, UNCHANGED late, NEW p \in Procs, Write(p), Head(job[p].todo) = "fence"
  PROVE  CommandInv'
PROOF
  <1>1. lock = p /\ Mode(p) \in {"do", "undo", "finish"} /\ journal = None
        /\ Tail(job[p].todo) = << >>
    BY WriterFacts DEF Write
  <1>2. disk' = [disk EXCEPT !.state.fence = None] /\ journal' = None
    BY <1>1 DEF Write, Written, Restored
  <1>3. FilesInv' /\ disk'.state.fence = None
    BY <1>1, <1>2
       DEF CommandInv, TypeOK, FilesInv, DiskInv, JournalInv, StateInv, FenceInv, Disk, State
  <1>4. Return(p) \/ Recovered(p)
    BY <1>1 DEF Write
  <1> QED BY <1>1, <1>2, <1>3, <1>4, ReturnStep, RecoveredStep, StepOfOne

(* Any other leaves the rest of the list.                                  *)
LEMMA WriteGoesOn ==
  ASSUME CommandInv, NEW p \in Procs, Write(p), Head(job[p].todo) # "fence"
  PROVE  \E t \in Todo :
           /\ Files(t) = Files(job[p].todo) \ {Head(job[p].todo)}
           /\ Mode(p) = "do" => t \in DoTodo(job[p].op)
           /\ Mode(p) = "undo" => t \in UndoTodo
           /\ Mode(p) = "finish" => t \in FinishTodo
           /\ job' \in [Procs -> Jobs] /\ \A q \in Procs \ {p} : job'[q] = job[q]
           /\ job'[p].mode = Mode(p) /\ job'[p].todo = t
           /\ job'[p].key = job[p].key /\ job'[p].op = job[p].op
           /\ lock' = p
PROOF
  <1>1. lock = p /\ Mode(p) \in {"do", "undo", "finish"} /\ OneAtATime
    BY WriterFacts DEF Write, CommandInv
  <1>2. PICK t \in Todo : /\ t = Tail(job[p].todo) /\ t # << >>
                          /\ Files(t) = Files(job[p].todo) \ {Head(job[p].todo)}
    BY WriterFacts DEF Write
  <1>3. job' = [job EXCEPT ![p].todo = t] /\ UNCHANGED lock
    BY <1>2 DEF Write
  <1>4. /\ job' \in [Procs -> Jobs] /\ \A q \in Procs \ {p} : job'[q] = job[q]
        /\ job'[p].mode = Mode(p) /\ job'[p].todo = t
        /\ job'[p].key = job[p].key /\ job'[p].op = job[p].op
    BY <1>1, <1>2, <1>3, JobAdvances DEF Modes
  <1>5. job[p] \in Jobs /\ JobInv(p)
    BY <1>1 DEF OneAtATime, CommandInv
  <1>6. /\ Mode(p) = "do" => t \in DoTodo(job[p].op)
        /\ Mode(p) = "undo" => t \in UndoTodo
        /\ Mode(p) = "finish" => t \in FinishTodo
    BY <1>2, <1>5, DoFacts, UndoFacts, FinishFacts DEF JobInv, Jobs
  <1> QED BY <1>1, <1>2, <1>3, <1>4, <1>6

LEMMA CommandJournalWrite ==
  ASSUME CommandInv, UNCHANGED late, NEW p \in Procs, Write(p), Head(job[p].todo) = "journal"
  PROVE  CommandInv'
PROOF
  <1>1. lock = p /\ Mode(p) \in {"do", "undo", "finish"} /\ JobInv(p)
    BY WriterFacts DEF Write, CommandInv
  <1>2. PICK t \in Todo :
           /\ Files(t) = Files(job[p].todo) \ {"journal"}
           /\ Mode(p) = "do" => t \in DoTodo(job[p].op)
           /\ Mode(p) = "undo" => t \in UndoTodo
           /\ Mode(p) = "finish" => t \in FinishTodo
           /\ job' \in [Procs -> Jobs] /\ \A q \in Procs \ {p} : job'[q] = job[q]
           /\ job'[p].mode = Mode(p) /\ job'[p].todo = t
           /\ job'[p].key = job[p].key /\ job'[p].op = job[p].op
           /\ lock' = p
    BY WriteGoesOn
  <1>3. UNCHANGED disk /\ journal' = None
    BY <1>1 DEF Write, Written, Restored
  <1>4. FilesInv'
    BY <1>3 DEF CommandInv, TypeOK, FilesInv, DiskInv, JournalInv, StateInv, FenceInv
  <1>5. WorkInv(p)'
    BY <1>1, <1>2, <1>3 DEF WorkInv, JobInv, DoInv, UndoInv, Left, Mode
  <1> QED BY <1>1, <1>2, <1>4, <1>5, StepOfOne

(* A file of a command is written from what is there.                      *)
LEMMA DoFilesInv ==
  ASSUME CommandInv, NEW p \in Procs, Mode(p) = "do", journal # None, UNCHANGED journal,
         NEW file \in DoFiles, file = Head(job[p].todo), Allowed(p, file),
         disk' = Written(job[p], file)
  PROVE  /\ FilesInv' /\ disk'.state.fence = disk.state.fence
         /\ disk'.state = IF file = "state" THEN AfterState ELSE disk.state
         /\ disk'.runtime = IF file = "runtime" THEN AfterRuntime ELSE disk.runtime
         /\ disk'.plan = IF file = "plan" THEN AfterPlan ELSE disk.plan
         /\ disk'.service = IF file = "service" THEN AfterService ELSE disk.service
PROOF
  <1>1. /\ job[p].key = journal.key /\ job[p].op = journal.op /\ journal \in Journal
        /\ journal.key \in Keys /\ journal.op \in Ops /\ disk \in Disk /\ disk.state \in State
        /\ Before \in Disk /\ Before.state \in State /\ job[p].todo \in DoTodo(journal.op)
        /\ DoInv(p) /\ JournalInv /\ FenceInv /\ FilesInv
        /\ {disk.state.session, disk.runtime, disk.plan} \subseteq 0..disk.state.next
        /\ disk.state.gen \in 1..MaxGeneration
    BY DEF CommandInv, JobInv, TypeOK, Journal, Before, Disk, FilesInv, DiskInv
  <1>2. Left(p, file)
    BY <1>1, DoFacts DEF Left
  <1>3. /\ disk' \in Disk
        /\ disk'.state = IF file = "state" THEN Committed(job[p], disk.state) ELSE disk.state
        /\ disk'.runtime = IF file # "runtime" THEN disk.runtime
                           ELSE IF journal.op = "preview" THEN disk.state.session ELSE 0
        /\ disk'.plan = IF file = "plan" THEN disk.state.session ELSE disk.plan
        /\ disk'.service = IF file = "service" THEN disk.service \union {journal.key}
                           ELSE disk.service
    <2>1. PICK c : c = job[p]
      OBVIOUS
    <2>2. c.key = journal.key /\ c.op = journal.op
      BY <1>1, <2>1
    <2>3. c.key \in Keys /\ c.op \in Ops /\ disk \in Disk
      BY <1>1, <2>2
    <2>4. /\ Written(c, file) \in Disk
          /\ Written(c, file).state = IF file = "state" THEN Committed(c, disk.state)
                                      ELSE disk.state
          /\ Written(c, file).runtime =
               IF file # "runtime" THEN disk.runtime
               ELSE IF c.op = "preview" THEN disk.state.session ELSE 0
          /\ Written(c, file).plan = IF file = "plan" THEN disk.state.session ELSE disk.plan
          /\ Written(c, file).service = IF file = "service" THEN disk.service \union {c.key}
                                        ELSE disk.service
      BY <2>3, WrittenFacts
    <2>5. disk' = Written(c, file)
      BY <2>1
    <2> QED BY <2>1, <2>2, <2>4, <2>5
  <1>4. /\ Left(p, "state") => disk.state = Before.state
        /\ ~Left(p, "state") => disk.state = AfterState
    BY <1>1 DEF DoInv
  <1>5. CASE file = "state"
    <2>1. disk.state = Before.state
      BY <1>2, <1>4, <1>5
    <2>2. disk'.state = AfterState
      BY <1>1, <1>3, <1>5, <2>1 DEF AfterState, Committed, Sessions
    <2>3. /\ journal.key \notin Before.state.done
          /\ journal.op = "preview" <=> Before.state.session = 0
      BY <1>1, <1>5, <2>1 DEF Allowed, Admitted, Ending
    <2>4. {disk'.runtime, disk'.plan} \subseteq 0..disk'.state.next
      BY <1>1, <1>3, <1>5, <2>1, <2>2, AfterFacts DEF Disk, State
    <2>5. FilesInv' /\ disk'.state.fence = disk.state.fence
      BY <1>1, <1>3, <2>2, <2>3, <2>4, FilesWritten
    <2> QED BY <1>3, <1>5, <2>2, <2>5
  <1>6. CASE file \in {"runtime", "plan", "service"}
    <2>1. disk'.state = disk.state
      BY <1>3, <1>6
    <2>2. FilesInv' /\ disk'.state.fence = disk.state.fence
      <3>1. {disk'.runtime, disk'.plan} \subseteq 0..disk'.state.next
        BY <1>1, <1>3, <2>1 DEF State
      <3>2. /\ disk'.state \in {disk.state, Before.state, AfterState}
            /\ disk'.state = AfterState =>
                 \/ disk.state = AfterState
                 \/ /\ journal.key \notin Before.state.done
                    /\ journal.op = "preview" <=> Before.state.session = 0
        BY <2>1
      <3>3. disk' \in Disk /\ FilesInv /\ journal \in Journal /\ UNCHANGED journal
        BY <1>1, <1>3
      <3> QED BY <3>1, <3>2, <3>3, FilesWritten
    <2>3. file = "runtime" => disk'.runtime = AfterRuntime
      <3>1. journal.op \in {"preview", "cancel", "publish"} \/ file # "runtime"
        BY <1>1, DoFacts DEF Ops
      <3>2. CASE journal.op = "preview" /\ file = "runtime"
        <4>1. ~Left(p, "state")
          BY <1>1, <3>2, DoFacts DEF Left
        <4> QED BY <1>1, <1>3, <1>4, <3>2, <4>1, AfterFacts DEF AfterRuntime
      <3> QED BY <1>3, <3>1, <3>2 DEF AfterRuntime
    <2>4. file = "plan" => disk'.plan = AfterPlan
      <3>1. file = "plan" => journal.op = "publish" /\ Left(p, "state")
        BY <1>1, DoFacts DEF Left
      <3> QED BY <1>3, <1>4, <3>1 DEF AfterPlan
    <2>5. file = "service" => disk'.service = AfterService
      BY <1>1, <1>2, <1>3 DEF AfterService, DoInv
    <2> QED BY <1>3, <1>6, <2>1, <2>2, <2>3, <2>4, <2>5
  <1> QED BY <1>5, <1>6 DEF DoFiles

(* A file that is put back is as it was.                                   *)
LEMMA UndoFilesInv ==
  ASSUME CommandInv, NEW p \in Procs, Mode(p) = "undo", journal # None, UNCHANGED journal,
         NEW file \in DoFiles, file = Head(job[p].todo), disk' = Restored(file)
  PROVE  /\ FilesInv' /\ disk'.state.fence = disk.state.fence
         /\ disk'.state = IF file = "state" THEN Before.state ELSE disk.state
         /\ disk'.runtime = IF file = "runtime" THEN Before.runtime ELSE disk.runtime
         /\ disk'.plan = IF file = "plan" THEN Before.plan ELSE disk.plan
         /\ disk'.service = IF file = "service" THEN Before.service ELSE disk.service
PROOF
  <1>1. /\ journal \in Journal /\ disk \in Disk /\ disk.state \in State /\ FilesInv
        /\ Before.state \in State /\ job[p].todo \in UndoTodo
        /\ UndoInv(p) /\ JournalInv /\ StateInv
        /\ {disk.state.session, disk.runtime, disk.plan} \subseteq 0..disk.state.next
    BY DEF CommandInv, JobInv, TypeOK, Journal, Before, Disk, FilesInv, DiskInv
  <1>2. /\ disk.state.fence = journal.key /\ Before.state.fence = journal.key
        /\ {Before.state.session, Before.runtime, Before.plan} \subseteq 0..Before.state.next
    BY <1>1 DEF JournalInv
  <1>3. /\ disk' \in Disk
        /\ disk'.state = IF file = "state" THEN Before.state ELSE disk.state
        /\ disk'.runtime = IF file = "runtime" THEN Before.runtime ELSE disk.runtime
        /\ disk'.plan = IF file = "plan" THEN Before.plan ELSE disk.plan
        /\ disk'.service = IF file = "service" THEN Before.service ELSE disk.service
    BY <1>1, <1>2, RestoredFacts
  <1>4. Before.state.next <= disk.state.next
    <2>1. AfterState.next \in {Before.state.next, Before.state.next + 1}
      BY <1>1, AfterFacts
    <2> QED BY <1>1, <2>1 DEF StateInv, State
  <1>5. Before.state # AfterState
    BY <1>1, AfterFacts DEF State
  <1>6. {disk'.runtime, disk'.plan} \subseteq 0..disk'.state.next
    <2>1. CASE file = "state"
      <3>1. ~Left(p, "runtime") /\ ~Left(p, "plan")
        BY <1>1, <2>1, UndoFacts DEF Left
      <3>2. disk.runtime = Before.runtime /\ disk.plan = Before.plan
        BY <1>1, <3>1 DEF UndoInv
      <3> QED BY <1>2, <1>3, <2>1, <3>2
    <2>2. CASE file # "state"
      BY <1>1, <1>2, <1>3, <1>4, <2>2 DEF Disk, State
    <2> QED BY <2>1, <2>2
  <1>7. /\ disk'.state \in {disk.state, Before.state, AfterState}
        /\ disk'.state = AfterState =>
             \/ disk.state = AfterState
             \/ /\ journal.key \notin Before.state.done
                /\ journal.op = "preview" <=> Before.state.session = 0
    BY <1>3, <1>5
  <1>8. FilesInv' /\ disk'.state.fence = disk.state.fence
    BY <1>1, <1>3, <1>6, <1>7, FilesWritten
  <1> QED BY <1>3, <1>8

(* What a recovery completes is the receipt and the runtime of a           *)
(* publication.                                                            *)
LEMMA FinishFilesInv ==
  ASSUME CommandInv, NEW p \in Procs, Mode(p) = "finish", journal # None, UNCHANGED journal,
         NEW file \in DoFiles, file = Head(job[p].todo), disk' = Written(journal, file)
  PROVE  /\ FilesInv' /\ disk'.state.fence = disk.state.fence
         /\ journal.op = "publish" /\ file \in {"service", "runtime"}
         /\ disk'.state = disk.state /\ disk'.plan = disk.plan
         /\ disk'.runtime = IF file = "runtime" THEN 0 ELSE disk.runtime
         /\ disk'.service = IF file = "service" THEN disk.service \union {journal.key}
                            ELSE disk.service
PROOF
  <1>1. /\ journal \in Journal /\ disk \in Disk /\ disk.state \in State /\ FilesInv
        /\ journal.key \in Keys /\ journal.op \in Ops
        /\ job[p].todo \in FinishTodo
        /\ journal.op # "publish" => job[p].todo = <<"journal", "fence">>
        /\ {disk.state.session, disk.runtime, disk.plan} \subseteq 0..disk.state.next
    BY DEF CommandInv, JobInv, TypeOK, Journal, Before, Disk, FilesInv, DiskInv
  <1>2. journal.op = "publish" /\ file \in {"service", "runtime"}
    BY <1>1, FinishFacts DEF DoFiles
  <1>3. /\ disk' \in Disk
        /\ disk'.state = disk.state /\ disk'.plan = disk.plan
        /\ disk'.runtime = IF file = "runtime" THEN 0 ELSE disk.runtime
        /\ disk'.service = IF file = "service" THEN disk.service \union {journal.key}
                           ELSE disk.service
    BY <1>1, <1>2 DEF Written, Disk
  <1>4. {disk'.runtime, disk'.plan} \subseteq 0..disk'.state.next
    BY <1>1, <1>3 DEF Disk, State
  <1>5. /\ disk'.state \in {disk.state, Before.state, AfterState}
        /\ disk'.state = AfterState =>
             \/ disk.state = AfterState
             \/ /\ journal.key \notin Before.state.done
                /\ journal.op = "preview" <=> Before.state.session = 0
    BY <1>3
  <1>6. FilesInv' /\ disk'.state.fence = disk.state.fence
    BY <1>1, <1>3, <1>4, <1>5, FilesWritten
  <1> QED BY <1>2, <1>3, <1>6

LEMMA CommandFileWrite ==
  ASSUME CommandInv, UNCHANGED late, NEW p \in Procs, Write(p), Head(job[p].todo) \in DoFiles
  PROVE  CommandInv'
PROOF
  <1>1. /\ lock = p /\ Mode(p) \in {"do", "undo", "finish"} /\ JobInv(p) /\ DoInv(p) /\ UndoInv(p)
        /\ journal # None
    BY WriterFacts DEF Write, CommandInv, DoFiles
  <1>2. PICK file \in DoFiles : file = Head(job[p].todo)
    OBVIOUS
  <1>3. file # "fence" /\ file # "journal"
    BY DEF DoFiles
  <1>4. PICK t \in Todo :
           /\ Files(t) = Files(job[p].todo) \ {file}
           /\ Mode(p) = "do" => t \in DoTodo(job[p].op)
           /\ Mode(p) = "undo" => t \in UndoTodo
           /\ Mode(p) = "finish" => t \in FinishTodo
           /\ job' \in [Procs -> Jobs] /\ \A q \in Procs \ {p} : job'[q] = job[q]
           /\ job'[p].mode = Mode(p) /\ job'[p].todo = t
           /\ job'[p].key = job[p].key /\ job'[p].op = job[p].op
           /\ lock' = p
    BY <1>2, <1>3, WriteGoesOn
  <1>5. UNCHANGED journal /\ Allowed(p, file)
    BY <1>2, <1>3 DEF Write
  <1>6. CASE Mode(p) = "do"
    <2>1. disk' = Written(job[p], file)
      BY <1>2, <1>6 DEF Write, Doer
    <2>2. /\ FilesInv' /\ disk'.state.fence = disk.state.fence
          /\ disk'.state = IF file = "state" THEN AfterState ELSE disk.state
          /\ disk'.runtime = IF file = "runtime" THEN AfterRuntime ELSE disk.runtime
          /\ disk'.plan = IF file = "plan" THEN AfterPlan ELSE disk.plan
          /\ disk'.service = IF file = "service" THEN AfterService ELSE disk.service
      BY <1>1, <1>2, <1>5, <1>6, <2>1, DoFilesInv
    <2>3. JobInv(p)'
      BY <1>1, <1>3, <1>4, <1>5, <1>6, <2>2 DEF JobInv, Mode, Left
    <2>4. DoInv(p)' /\ UndoInv(p)'
      BY <1>1, <1>4, <1>5, <1>6, <2>2, AfterStay DEF DoInv, UndoInv, Mode, Left
    <2> QED BY <1>1, <1>4, <2>2, <2>3, <2>4, StepOfOne DEF WorkInv
  <1>7. CASE Mode(p) = "undo"
    <2>1. disk' = Restored(file)
      BY <1>2, <1>7 DEF Write
    <2>2. /\ FilesInv' /\ disk'.state.fence = disk.state.fence
          /\ disk'.state = IF file = "state" THEN Before.state ELSE disk.state
          /\ disk'.runtime = IF file = "runtime" THEN Before.runtime ELSE disk.runtime
          /\ disk'.plan = IF file = "plan" THEN Before.plan ELSE disk.plan
          /\ disk'.service = IF file = "service" THEN Before.service ELSE disk.service
      BY <1>1, <1>2, <1>5, <1>7, <2>1, UndoFilesInv
    <2>3. JobInv(p)'
      BY <1>1, <1>3, <1>4, <1>5, <1>7, <2>2 DEF JobInv, Mode, Left
    <2>4. DoInv(p)' /\ UndoInv(p)'
      BY <1>1, <1>4, <1>5, <1>7, <2>2, AfterStay DEF DoInv, UndoInv, Mode, Left
    <2> QED BY <1>1, <1>4, <2>2, <2>3, <2>4, StepOfOne DEF WorkInv
  <1>8. CASE Mode(p) = "finish"
    <2>1. disk' = Written(journal, file)
      BY <1>2, <1>8 DEF Write, Doer
    <2>2. FilesInv' /\ disk'.state.fence = disk.state.fence /\ journal.op = "publish"
      BY <1>1, <1>2, <1>5, <1>8, <2>1, FinishFilesInv
    <2>3. JobInv(p)'
      BY <1>1, <1>3, <1>4, <1>5, <1>8, <2>2 DEF JobInv, Mode, Left
    <2>4. DoInv(p)' /\ UndoInv(p)'
      BY <1>4, <1>8 DEF DoInv, UndoInv, Mode
    <2> QED BY <1>1, <1>4, <2>2, <2>3, <2>4, StepOfOne DEF WorkInv
  <1> QED BY <1>1, <1>6, <1>7, <1>8

(* A write that fails, or is done and reported as failed.                  *)
LEMMA CommandWriteFails ==
  ASSUME CommandInv, UNCHANGED late, NEW p \in Procs, WriteFails(p)
  PROVE  CommandInv'
PROOF
  <1>1. /\ lock = p /\ Mode(p) \in {"do", "undo", "finish"} /\ JobInv(p) /\ OneAtATime
        /\ UNCHANGED journal /\ Allowed(p, Head(job[p].todo))
        /\ Head(job[p].todo) # "fence" => journal # None
    BY WriterFacts DEF WriteFails, CommandInv
  <1>2. FilesInv' /\ disk'.state.fence = disk.state.fence
    <2>1. CASE UNCHANGED disk
      BY <1>1, <2>1, FilesStay
    <2>2. CASE Mode(p) = "do" /\ IsReplaced(Head(job[p].todo))
               /\ disk' = Written(job[p], Head(job[p].todo))
      <3>1. PICK file \in DoFiles : file = Head(job[p].todo)
        BY <2>2 DEF IsReplaced, DoFiles
      <3>2. journal # None
        BY <1>1, <3>1 DEF DoFiles
      <3> QED BY <1>1, <2>2, <3>1, <3>2, DoFilesInv
    <2> QED BY <2>1, <2>2 DEF WriteFails
  <1>3. CASE Return(p)
    BY <1>1, <1>2, <1>3, ReturnStep, StepOfOne
  <1>4. CASE Undoes(p, Head(job[p].todo)) /\ ToUndo(p) /\ UNCHANGED lock
    <2>1. journal # None
      BY <1>1, <1>4 DEF Undoes
    <2>2. /\ job' \in [Procs -> Jobs] /\ \A q \in Procs \ {p} : job'[q] = job[q]
          /\ job'[p].mode = "undo" /\ job'[p].todo = Undo
      BY <1>1, <1>4, JobUndone
    <2>3. WorkInv(p)'
      BY <1>1, <2>1, <2>2, UndoStarts DEF WorkInv, JobInv, DoInv, UndoInv, Left, Mode, DoFiles
    <2> QED BY <1>1, <1>2, <1>4, <2>2, <2>3, StepOfOne
  <1> QED BY <1>3, <1>4 DEF WriteFails

LEMMA CommandInit == Init => CommandInv
PROOF
  <1> SUFFICES ASSUME Init PROVE CommandInv
    OBVIOUS
  <1>1. disk \in Disk /\ journal = None
    BY DEF Init, Disk, State
  <1>2. TypeOK
    BY <1>1, ConstantsAssumption DEF Init, TypeOK, Mode, Idle
  <1>3. OneAtATime
    BY IdleJob, ConstantsAssumption DEF Init, OneAtATime, Mode, Idle
  <1>4. \A p \in Procs : JobInv(p) /\ DoInv(p) /\ UndoInv(p)
    BY DEF Init, JobInv, DoInv, UndoInv, Mode, Idle
  <1>5. JournalInv /\ StateInv /\ FenceInv /\ late \in BOOLEAN
    BY ConstantsAssumption DEF Init, JournalInv, StateInv, FenceInv
  <1> QED BY <1>2, <1>3, <1>4, <1>5 DEF CommandInv

LEMMA CommandNext == CommandInv /\ [Next]_vars => CommandInv'
PROOF
  <1> SUFFICES ASSUME CommandInv, [Next]_vars PROVE CommandInv'
    OBVIOUS
  <1>1. CASE UNCHANGED vars
    BY <1>1, CommandStutter DEF vars
  <1>2. CASE (FlowAcquire \/ FlowRelease \/ FoundationPreview) /\ UNCHANGED late
    BY <1>2, CommandFlow
  <1>3. ASSUME NEW p \in Procs, UNCHANGED late,
               \/ \E key \in Keys, op \in Ops : Request(p, key, op)
               \/ Open(p) \/ Step(p) \/ WriteFails(p) \/ Crash(p)
        PROVE  CommandInv'
    <2>1. CASE Write(p)
      <3>1. Head(job[p].todo) \in DoFiles \union {"journal", "fence"}
        BY <2>1, WriterFacts DEF Write
      <3> QED BY <1>3, <2>1, <3>1, CommandFileWrite, CommandJournalWrite, CommandFenceWrite
    <2>2. CASE RecoverNothing(p) \/ Claim(p) \/ Replay(p) \/ Prepare(p)
      BY <1>3, <2>2, CommandFence
    <2>3. CASE \/ \E key \in Keys, op \in Ops : Request(p, key, op)
               \/ Open(p) \/ ClaimRefused(p) \/ RecoverFails(p) \/ Crash(p)
               \/ Refuse(p) \/ RecoverUndo(p) \/ RecoverCommitted(p)
      BY <1>3, <2>3, CommandCalls
    <2>4. CASE WriteFails(p)
      BY <1>3, <2>4, CommandWriteFails
    <2> QED BY <1>3, <2>1, <2>2, <2>3, <2>4 DEF Step
  <1> QED BY <1>1, <1>2, <1>3 DEF Next

(* The files, the journal and the lock stay what they can be, whatever     *)
(* process dies where and whatever write fails.                            *)
THEOREM TypeCorrect == Spec => []TypeOK
PROOF
  <1>1. CommandInv => TypeOK
    BY DEF CommandInv
  <1> QED BY <1>1, CommandInit, CommandNext, PTL DEF Spec
-----------------------------------------------------------------------------
(* AgreeInv.                                                               *)

(* A command that is being carried out is decided by its last writes.      *)
LEMMA DoAgrees ==
  CommandInv /\ ~late /\ journal # None
    /\ Before.runtime = Before.state.session /\ Before.service = Before.state.done
    /\ (\E p \in Procs : Mode(p) = "do")
  => AgreeFiles
PROOF
  <1> SUFFICES ASSUME CommandInv, ~late, journal # None,
                      Before.runtime = Before.state.session, Before.service = Before.state.done,
                      NEW p \in Procs, Mode(p) = "do"
               PROVE  AgreeFiles
    OBVIOUS
  <1>1. /\ job[p].op = journal.op /\ journal.op \in Ops /\ job[p].todo \in DoTodo(journal.op)
        /\ DoInv(p) /\ journal.key \notin Before.service
    BY DEF CommandInv, JobInv, TypeOK, Journal, JournalInv
  <1>2. /\ ~Left(p, "service") => ~Left(p, "state") /\ ~Left(p, "runtime") /\ ~Left(p, "plan")
        /\ journal.op = "publish" /\ ~Left(p, "state") => ~Left(p, "runtime") /\ ~Left(p, "plan")
    BY <1>1, DoFacts DEF Left
  <1>3. Receipted <=> ~Left(p, "service")
    BY <1>1 DEF Receipted, DoInv, AfterService
  <1>4. Published <=> journal.op = "publish" /\ ~Left(p, "state")
    <2>1. journal \in Journal
      BY DEF CommandInv, TypeOK
    <2>2. journal.key \in AfterState.done
      BY <2>1, AfterFacts
    <2> QED BY <1>1, <2>2 DEF Published, DoInv
  <1> QED BY <1>1, <1>2, <1>3, <1>4 DEF AgreeFiles, Decided, DoInv

(* What a command undoes has not happened.                                 *)
LEMMA UndoesUndecided ==
  ASSUME CommandInv, AgreeInv, ~late, NEW p \in Procs, Mode(p) = "do", journal # None,
         \/ Head(job[p].todo) \in {"state", "runtime", "plan"}
         \/ Head(job[p].todo) = "service" /\ job[p].op # "publish"
  PROVE  ~Decided
PROOF
  <1>1. /\ job[p].op = journal.op /\ journal.op \in Ops /\ job[p].todo \in DoTodo(journal.op)
        /\ DoInv(p) /\ journal.key \notin Before.service
        /\ Before.service = Before.state.done
    BY DEF CommandInv, JobInv, TypeOK, Journal, JournalInv, AgreeInv, AgreeFiles
  <1>2. Left(p, "service") /\ (journal.op = "publish" => Left(p, "state"))
    BY <1>1, DoFacts DEF Left
  <1> QED BY <1>1, <1>2 DEF DoInv, Decided, Receipted, Published

LEMMA Others ==
  ASSUME CommandInv, NEW p \in Procs,
         \/ \E key \in Keys, op \in Ops : Request(p, key, op)
         \/ Open(p) \/ Step(p) \/ WriteFails(p) \/ Crash(p)
  PROVE  \A q \in Procs \ {p} : job'[q] = job[q] /\ Mode(q) = "idle"
PROOF
  <1>1. lock \in {None, p}
    BY WriterFacts, ConstantsAssumption
       DEF CommandInv, OneAtATime, Request, Open, Step, WriteFails, Crash, RecoverNothing,
           RecoverCommitted, RecoverUndo, RecoverFails, Claim, ClaimRefused, Replay, Prepare,
           Write, Refuse, Mode
  <1>2. \A q \in Procs \ {p} : Mode(q) = "idle"
    BY <1>1, ConstantsAssumption DEF CommandInv, OneAtATime
  <1>3. job \in [Procs -> Jobs]
    BY DEF CommandInv, OneAtATime
  <1>4. \A q \in Procs \ {p} : job'[q] = job[q]
    BY <1>3
       DEF Request, Open, Step, WriteFails, Crash, RecoverNothing,
           RecoverCommitted, RecoverUndo, RecoverFails, Claim, ClaimRefused, Replay, Prepare,
           Write, Refuse, Recovered, Return, ToUndo
  <1> QED BY <1>2, <1>4

LEMMA AgreeStep ==
  ASSUME CommandInv, ~late, NEW p \in Procs,
         \/ \E key \in Keys, op \in Ops : Request(p, key, op)
         \/ Open(p) \/ Step(p) \/ WriteFails(p) \/ Crash(p),
         AgreeFiles', AgreeWork(p)'
  PROVE  AgreeInv'
  BY Others DEF AgreeInv, AgreeWork, Mode

(* Where the files stay, what was decided stays.                           *)
LEMMA AgreeStay ==
  ASSUME AgreeFiles, UNCHANGED <<disk, journal>>
  PROVE  AgreeFiles' /\ (Decided <=> Decided') /\ (Receipted <=> Receipted')
  BY AfterStay DEF AgreeFiles, Decided, Receipted, Published

(* What a step of a process leaves it doing.                               *)
LEMMA AgreeCalls ==
  ASSUME CommandInv, AgreeInv, ~late, NEW p \in Procs,
         \/ \E key \in Keys, op \in Ops : Request(p, key, op)
         \/ Open(p) \/ ClaimRefused(p) \/ RecoverFails(p) \/ Crash(p)
         \/ Refuse(p) \/ RecoverUndo(p) \/ RecoverCommitted(p) \/ WriteFails(p)
  PROVE  AgreeFiles' /\ AgreeWork(p)'
PROOF
  <1>0. job \in [Procs -> Jobs] /\ job[p] \in Jobs
    BY DEF CommandInv, OneAtATime
  <1>1. UNCHANGED <<disk, journal>>
    BY DEF Request, Open, ClaimRefused, RecoverFails, Crash, Refuse, RecoverUndo,
           RecoverCommitted, WriteFails, IsReplaced
  <1>2. AgreeFiles' /\ (Decided <=> Decided') /\ (Receipted <=> Receipted')
    BY <1>1, AgreeStay DEF AgreeInv
  <1>3. CASE \/ \E key \in Keys, op \in Ops : Request(p, key, op)
             \/ Open(p) \/ Return(p)
    <2>1. Mode(p)' \in {"recover", "idle"}
      BY <1>0, <1>3 DEF Request, Open, Return, Mode, Idle
    <2> QED BY <1>2, <2>1 DEF AgreeWork
  <1>4. CASE (Refuse(p) \/ WriteFails(p)) /\ ToUndo(p)
    <2>1. Mode(p)' = "undo"
      BY <1>4, JobUndone DEF CommandInv, Mode
    <2>2. journal # None => ~Decided
      <3>1. /\ Mode(p) = "do"
            /\ \/ Head(job[p].todo) \in {"state", "runtime", "plan"}
               \/ Head(job[p].todo) = "service" /\ job[p].op # "publish"
        <4>1. CASE Undoes(p, Head(job[p].todo))
          BY <4>1 DEF Undoes
        <4>2. CASE Refuse(p)
          <5>1. Mode(p) = "do" /\ Head(job[p].todo) \notin Ending
            BY <4>2 DEF Refuse, Allowed
          <5> QED BY <4>2, <5>1, WriterFacts DEF Refuse, Ending, DoFiles
        <4>3. CASE WriteFails(p) /\ Return(p)
          <5>1. Mode(p)' = "idle"
            BY <1>0, <4>3 DEF Return, Mode, Idle
          <5> QED BY <2>1, <5>1
        <4> QED BY <1>4, <4>1, <4>2, <4>3 DEF WriteFails
      <3> QED BY <3>1, UndoesUndecided
    <2> QED BY <1>2, <2>1, <2>2, <1>1 DEF AgreeWork
  <1>5. CASE RecoverUndo(p)
    <2>1. Mode(p)' = "undo"
      BY <1>0, <1>5 DEF RecoverUndo, Mode, Jobs
    <2> QED BY <1>2, <1>5, <2>1 DEF AgreeWork, RecoverUndo, Decided
  <1>6. CASE RecoverCommitted(p)
    <2>1. Mode(p)' = "finish" /\ job'[p].todo = ToFinish
      BY <1>0, <1>6 DEF RecoverCommitted, Mode, Jobs
    <2>2. "service" \in Files(ToFinish) \/ Receipted
      BY <1>6, FilesFacts DEF RecoverCommitted, ToFinish, Published
    <2> QED BY <1>2, <1>6, <2>1, <2>2 DEF AgreeWork, RecoverCommitted, Decided, Left
  <1> QED BY <1>3, <1>4, <1>5, <1>6
          DEF ClaimRefused, RecoverFails, Crash, Refuse, WriteFails

LEMMA AgreeFence ==
  ASSUME CommandInv, AgreeInv, ~late, NEW p \in Procs,
         RecoverNothing(p) \/ Claim(p) \/ Replay(p) \/ Prepare(p)
  PROVE  AgreeFiles' /\ AgreeWork(p)'
PROOF
  <1>1. /\ journal = None /\ job \in [Procs -> Jobs] /\ job[p] \in Jobs /\ disk \in Disk
        /\ disk.runtime = disk.state.session /\ disk.service = disk.state.done
    BY DEF CommandInv, JobInv, OneAtATime, TypeOK, AgreeInv, AgreeFiles, RecoverNothing, Claim,
           Replay, Prepare
  <1>2. CASE RecoverNothing(p) \/ Claim(p) \/ Replay(p)
    <2>1. journal' = None
      BY <1>1, <1>2 DEF RecoverNothing, Claim, Replay
    <2>2. PICK f : disk' = [disk EXCEPT !.state.fence = f]
      BY <1>2 DEF RecoverNothing, Claim, Replay, Release
    <2>3. disk'.runtime = disk'.state.session /\ disk'.service = disk'.state.done
      BY <1>1, <2>2 DEF Disk, State
    <2> QED BY <2>1, <2>3 DEF AgreeFiles, AgreeWork
  <1>3. CASE Prepare(p)
    <2>1. /\ journal' = [key |-> job[p].key, op |-> job[p].op, before |-> disk]
          /\ UNCHANGED disk /\ job[p].key \notin disk.service
          /\ Mode(p)' = "do"
      BY <1>1, <1>3 DEF Prepare, Saved, Mode, Jobs
    <2> QED BY <1>1, <2>1 DEF AgreeFiles, AgreeWork, Decided, Receipted, Published, Before
  <1> QED BY <1>2, <1>3

LEMMA AgreeFlow ==
  ASSUME CommandInv, AgreeInv, ~late, FlowAcquire \/ FlowRelease \/ FoundationPreview
  PROVE  AgreeInv'
PROOF
  <1>1. CASE FoundationPreview
    BY <1>1, AgreeStay DEF FoundationPreview, AgreeInv, AgreeWork, Mode, Left
  <1>2. CASE FlowAcquire \/ FlowRelease
    <2>1. journal = None /\ journal' = None /\ disk \in Disk
      BY <1>2, ConstantsAssumption
         DEF CommandInv, FlowAcquire, FlowRelease, FenceInv, JournalInv, TypeOK, Journal
    <2>2. PICK l, g : disk' = [disk EXCEPT !.state.lease = l, !.state.gen = g]
      BY <1>2 DEF FlowAcquire, FlowRelease
    <2>3. disk' = [disk EXCEPT !.state = [disk.state EXCEPT !.lease = l, !.gen = g]]
      BY <2>1, <2>2 DEF Disk, State
    <2>4. disk'.runtime = disk.runtime /\ disk'.service = disk.service
          /\ disk'.state.session = disk.state.session /\ disk'.state.done = disk.state.done
      BY <2>1, <2>3 DEF Disk, State
    <2> QED BY <2>1, <2>4 DEF AgreeInv, AgreeFiles, AgreeWork
  <1> QED BY <1>1, <1>2

LEMMA AgreeFenceWrite ==
  ASSUME CommandInv, AgreeInv, ~late, NEW p \in Procs, Write(p), Head(job[p].todo) = "fence"
  PROVE  AgreeFiles' /\ AgreeWork(p)'
PROOF
  <1>1. /\ Mode(p) \in {"do", "undo", "finish"} /\ journal = None /\ disk \in Disk
        /\ disk.runtime = disk.state.session /\ disk.service = disk.state.done
    BY WriterFacts DEF Write, CommandInv, TypeOK, AgreeInv, AgreeFiles
  <1>2. disk' = [disk EXCEPT !.state.fence = None] /\ journal' = None
    BY <1>1 DEF Write, Written, Restored
  <1>3. disk'.runtime = disk'.state.session /\ disk'.service = disk'.state.done
    BY <1>1, <1>2 DEF Disk, State
  <1> QED BY <1>2, <1>3 DEF AgreeFiles, AgreeWork

(* The journal ends when the files are all one or all the other.           *)
LEMMA AgreeJournalWrite ==
  ASSUME CommandInv, AgreeInv, ~late, NEW p \in Procs, Write(p), Head(job[p].todo) = "journal"
  PROVE  AgreeFiles' /\ AgreeWork(p)'
PROOF
  <1>1. /\ Mode(p) \in {"do", "undo", "finish"} /\ JobInv(p) /\ DoInv(p) /\ UndoInv(p)
        /\ journal # None /\ AgreeFiles /\ AgreeWork(p) /\ journal \in Journal
        /\ journal.key \notin Before.service /\ job[p] \in Jobs
    BY WriterFacts, ConstantsAssumption
       DEF Write, CommandInv, OneAtATime, TypeOK, JournalInv, AgreeInv
  <1>2. UNCHANGED disk /\ journal' = None
    BY <1>1 DEF Write, Written, Restored
  <1>3. /\ Before.runtime = Before.state.session /\ Before.service = Before.state.done
        /\ AfterRuntime = AfterState.session /\ AfterService = AfterState.done
    BY <1>1, AfterFacts DEF AgreeFiles, AfterRuntime, AfterService
  <1>4. \/ /\ disk.state = AfterState /\ disk.runtime = AfterRuntime
           /\ disk.service = AfterService
        \/ /\ disk.state = Before.state /\ disk.runtime = Before.runtime
           /\ disk.service = Before.service
    <2>1. CASE Mode(p) = "do"
      <3>1. job[p].todo \in DoTodo(job[p].op) /\ job[p].op \in Ops
        BY <1>1, <2>1 DEF JobInv, Jobs
      <3>2. ~Left(p, "state") /\ ~Left(p, "runtime") /\ ~Left(p, "service")
        BY <3>1, DoFacts DEF Left, Ending
      <3> QED BY <1>1, <2>1, <3>2 DEF DoInv
    <2>2. CASE Mode(p) = "undo"
      <3>1. ~Left(p, "state") /\ ~Left(p, "runtime") /\ ~Left(p, "service")
        BY <1>1, <2>2, UndoFacts DEF JobInv, Left, DoFiles
      <3> QED BY <1>1, <2>2, <3>1 DEF UndoInv
    <2>3. CASE Mode(p) = "finish"
      <3>1. Decided /\ Receipted
        BY <1>1, <2>3, FinishFacts DEF JobInv, Left, AgreeWork
      <3> QED BY <1>1, <3>1 DEF AgreeFiles, Receipted
    <2> QED BY <1>1, <2>1, <2>2, <2>3
  <1> QED BY <1>2, <1>3, <1>4 DEF AgreeFiles, AgreeWork

LEMMA AgreeFileWrite ==
  ASSUME CommandInv, AgreeInv, ~late, UNCHANGED late, NEW p \in Procs, Write(p),
         Head(job[p].todo) \in DoFiles
  PROVE  AgreeFiles' /\ AgreeWork(p)'
PROOF
  <1>1. /\ Mode(p) \in {"do", "undo", "finish"} /\ JobInv(p) /\ DoInv(p) /\ UndoInv(p)
        /\ journal # None /\ AgreeFiles /\ AgreeWork(p) /\ journal \in Journal
        /\ journal.key \notin Before.service
    BY WriterFacts, ConstantsAssumption
       DEF Write, CommandInv, TypeOK, JournalInv, AgreeInv, DoFiles
  <1>2. PICK file \in DoFiles : file = Head(job[p].todo)
    OBVIOUS
  <1>3. file # "fence" /\ file # "journal"
    BY DEF DoFiles
  <1>4. /\ Files(job'[p].todo) = Files(job[p].todo) \ {file}
        /\ Mode(p)' = Mode(p)
    BY <1>2, <1>3, WriteGoesOn DEF Mode
  <1>5. UNCHANGED journal /\ Allowed(p, file)
    BY <1>2, <1>3 DEF Write
  <1>6. /\ UNCHANGED <<Before, AfterState, AfterRuntime, AfterPlan, AfterService>>
        /\ Before.runtime = Before.state.session /\ Before.service = Before.state.done
    BY <1>1, <1>5, AfterStay DEF AgreeFiles
  <1>7. CASE Mode(p) = "do"
    <2>1. CommandInv'
      BY CommandFileWrite
    <2>2. DoAgrees'
      BY DoAgrees, PTL
    <2>3. AgreeFiles'
      BY <1>1, <1>4, <1>5, <1>6, <1>7, <2>1, <2>2
    <2> QED BY <1>4, <1>7, <2>3 DEF AgreeWork
  <1>8. CASE Mode(p) = "undo"
    <2>1. disk' = Restored(file)
      BY <1>2, <1>8 DEF Write
    <2>2. /\ disk'.state = IF file = "state" THEN Before.state ELSE disk.state
          /\ disk'.service = IF file = "service" THEN Before.service ELSE disk.service
      BY <1>1, <1>2, <1>5, <1>8, <2>1, UndoFilesInv
    <2>3. ~Decided /\ disk.service = Before.service
      BY <1>1, <1>8 DEF AgreeWork, AgreeFiles
    <2>4. ~Decided'
      BY <1>1, <1>5, <1>6, <2>2, <2>3 DEF Decided, Receipted, Published
    <2> QED BY <1>1, <1>4, <1>5, <1>6, <1>8, <2>2, <2>3, <2>4 DEF AgreeFiles, AgreeWork
  <1>9. CASE Mode(p) = "finish"
    <2>1. disk' = Written(journal, file)
      BY <1>2, <1>9 DEF Write, Doer
    <2>2. /\ journal.op = "publish" /\ file \in {"service", "runtime"}
          /\ disk'.state = disk.state /\ disk'.plan = disk.plan
          /\ disk'.runtime = IF file = "runtime" THEN 0 ELSE disk.runtime
          /\ disk'.service = IF file = "service" THEN disk.service \union {journal.key}
                             ELSE disk.service
      BY <1>1, <1>2, <1>5, <1>9, <2>1, FinishFilesInv
    <2>3. Decided
      BY <1>1, <1>9 DEF AgreeWork
    <2>4. /\ Decided' /\ (Receipted => Receipted') /\ (file = "service" => Receipted')
      BY <1>5, <2>2, <2>3 DEF Decided, Receipted, Published
    <2>5. AfterRuntime = 0 /\ disk'.service \in {Before.service, AfterService}
      BY <1>1, <2>2, <2>3 DEF AfterRuntime, AfterService, AgreeFiles
    <2> QED BY <1>1, <1>4, <1>5, <1>6, <1>9, <2>2, <2>3, <2>4, <2>5
            DEF AgreeFiles, AgreeWork, Left
  <1> QED BY <1>1, <1>7, <1>8, <1>9

LEMMA AgreeNext == CommandInv /\ AgreeInv /\ [Next]_vars => AgreeInv'
PROOF
  <1> SUFFICES ASSUME CommandInv, AgreeInv, [Next]_vars, ~late' PROVE AgreeInv'
    BY DEF AgreeInv
  <1>0. UNCHANGED late /\ ~late
    BY DEF Next, vars
  <1>1. CASE UNCHANGED vars
    BY <1>0, <1>1, AgreeStay DEF vars, AgreeInv, AgreeWork, Mode, Left
  <1>2. CASE FlowAcquire \/ FlowRelease \/ FoundationPreview
    BY <1>0, <1>2, AgreeFlow
  <1>3. ASSUME NEW p \in Procs,
               \/ \E key \in Keys, op \in Ops : Request(p, key, op)
               \/ Open(p) \/ Step(p) \/ WriteFails(p) \/ Crash(p)
        PROVE  AgreeInv'
    <2>1. AgreeFiles' /\ AgreeWork(p)'
      <3>1. CASE Write(p)
        <4>1. Head(job[p].todo) \in DoFiles \union {"journal", "fence"}
          BY <3>1, WriterFacts DEF Write
        <4> QED BY <1>0, <3>1, <4>1, AgreeFileWrite, AgreeJournalWrite, AgreeFenceWrite
      <3>2. CASE RecoverNothing(p) \/ Claim(p) \/ Replay(p) \/ Prepare(p)
        BY <1>0, <3>2, AgreeFence
      <3>3. CASE \/ \E key \in Keys, op \in Ops : Request(p, key, op)
                 \/ Open(p) \/ ClaimRefused(p) \/ RecoverFails(p) \/ Crash(p)
                 \/ Refuse(p) \/ RecoverUndo(p) \/ RecoverCommitted(p) \/ WriteFails(p)
        BY <1>0, <3>3, AgreeCalls
      <3> QED BY <1>3, <3>1, <3>2, <3>3 DEF Step
    <2> QED BY <1>0, <1>3, <2>1, AgreeStep
  <1> QED BY <1>1, <1>2, <1>3 DEF Next

LEMMA AgreeInit == Init => AgreeInv
  BY DEF Init, AgreeInv, AgreeFiles, AgreeWork

(* While no command is under way the runtime belongs to the active session *)
(* and every commit has its service receipt, whatever died or failed       *)
(* before.                                                                 *)
THEOREM AgreeCorrect == Spec => []FilesAgree
PROOF
  <1>1. AgreeInv => FilesAgree
    BY DEF AgreeInv, AgreeFiles, FilesAgree, Quiet
  <1> QED BY <1>1, CommandInit, CommandNext, AgreeInit, AgreeNext, PTL DEF Spec
-----------------------------------------------------------------------------
(* HeldInv.                                                                *)

(* A write of the state goes to one of the two states of the command, or   *)
(* one generation up where no command is under way.                        *)
StateGoesOn ==
  \/ disk'.state.gen = disk.state.gen /\ disk'.state.done = disk.state.done
  \/ disk'.state.gen = disk.state.gen + 1
  \/ journal # None /\ disk'.state \in {Before.state, AfterState}

LEMMA StateMoves ==
  ASSUME CommandInv, NEW p \in Procs,
         \/ \E key \in Keys, op \in Ops : Request(p, key, op)
         \/ Open(p) \/ Step(p) \/ WriteFails(p) \/ Crash(p)
  PROVE  /\ StateGoesOn
         /\ journal' = None \/ journal' = journal \/ (journal'.before = disk /\ UNCHANGED disk)
PROOF
  <1>1. CASE UNCHANGED <<disk, journal>>
    BY <1>1 DEF StateGoesOn
  <1>2. CASE RecoverNothing(p) \/ Claim(p) \/ Replay(p)
    <2>1. PICK f : disk' = [disk EXCEPT !.state.fence = f]
      BY <1>2 DEF RecoverNothing, Claim, Replay, Release
    <2>2. disk \in Disk /\ UNCHANGED journal
      BY <1>2 DEF CommandInv, TypeOK, RecoverNothing, Claim, Replay
    <2> QED BY <2>1, <2>2 DEF StateGoesOn, Disk, State
  <1>3. CASE Prepare(p)
    BY <1>3 DEF Prepare, Saved, StateGoesOn
  <1>4. CASE Write(p) /\ Head(job[p].todo) = "fence"
    <2>1. disk' = [disk EXCEPT !.state.fence = None] /\ disk \in Disk /\ UNCHANGED journal
      BY <1>4 DEF Write, Written, Restored, CommandInv, TypeOK
    <2> QED BY <2>1 DEF StateGoesOn, Disk, State
  <1>5. CASE Write(p) /\ Head(job[p].todo) = "journal"
    BY <1>5 DEF Write, Written, Restored, StateGoesOn
  <1>6. CASE (Write(p) \/ WriteFails(p)) /\ Head(job[p].todo) \in DoFiles /\ ~UNCHANGED disk
    <2>1. PICK file \in DoFiles : file = Head(job[p].todo)
      BY <1>6
    <2>2. file # "fence" /\ file # "journal"
      BY DEF DoFiles
    <2>3. journal # None /\ UNCHANGED journal /\ Mode(p) \in {"do", "undo", "finish"}
          /\ Allowed(p, file)
      BY <1>6, <2>1, <2>2, WriterFacts DEF Write, WriteFails
    <2>4. CASE Mode(p) = "do"
      <3>1. disk' = Written(job[p], file)
        BY <1>6, <2>1, <2>4 DEF Write, WriteFails, Doer
      <3> QED BY <2>1, <2>3, <2>4, <3>1, DoFilesInv DEF StateGoesOn
    <2>5. CASE Mode(p) = "undo"
      <3>1. disk' = Restored(file)
        BY <1>6, <2>1, <2>5 DEF Write, WriteFails
      <3> QED BY <2>1, <2>3, <2>5, <3>1, UndoFilesInv DEF StateGoesOn
    <2>6. CASE Mode(p) = "finish"
      <3>1. disk' = Written(journal, file)
        BY <1>6, <2>1, <2>6 DEF Write, WriteFails, Doer
      <3> QED BY <2>1, <2>3, <2>6, <3>1, FinishFilesInv DEF StateGoesOn
    <2> QED BY <2>3, <2>4, <2>5, <2>6
  <1>7. (Write(p) \/ WriteFails(p)) => Head(job[p].todo) \in DoFiles \union {"journal", "fence"}
    BY WriterFacts DEF Write, WriteFails
  <1>8. CASE Write(p) /\ Head(job[p].todo) \in DoFiles /\ UNCHANGED disk
    <2>1. UNCHANGED journal
      BY <1>8 DEF Write, DoFiles
    <2> QED BY <1>1, <1>8, <2>1
  <1>9. CASE WriteFails(p) /\ Head(job[p].todo) \notin DoFiles
    BY <1>1, <1>9 DEF WriteFails, IsReplaced, DoFiles
  <1>10. CASE \/ \E key \in Keys, op \in Ops : Request(p, key, op)
              \/ Open(p) \/ ClaimRefused(p) \/ RecoverFails(p) \/ Crash(p)
              \/ Refuse(p) \/ RecoverUndo(p) \/ RecoverCommitted(p)
    BY <1>1, <1>10 DEF Request, Open, ClaimRefused, RecoverFails, Crash, Refuse, RecoverUndo,
           RecoverCommitted
  <1>11. CASE WriteFails(p) /\ UNCHANGED disk
    BY <1>1, <1>11 DEF WriteFails
  <1> QED BY <1>2, <1>3, <1>4, <1>5, <1>6, <1>7, <1>8, <1>9, <1>10, <1>11 DEF Step

LEMMA HeldNext == CommandInv /\ HeldInv /\ [Next]_vars => HeldInv'
PROOF
  <1> SUFFICES ASSUME CommandInv, HeldInv, [Next]_vars PROVE HeldInv'
    OBVIOUS
  <1>0. /\ disk \in Disk /\ disk.state \in State /\ disk.state.gen \in Nat
        /\ journal # None => journal \in Journal /\ disk.state.fence = journal.key
                             /\ Before.state.gen \in Nat
    BY DEF CommandInv, TypeOK, JournalInv, Journal, Before, Disk, State
  <1>1. CASE UNCHANGED vars
    BY <1>1 DEF vars, HeldInv, Since, Before
  <1>2. CASE FoundationPreview
    <2>1. /\ held' = [gen |-> disk.state.gen, done |-> disk.state.done,
                      free |-> disk.state.fence = None]
          /\ UNCHANGED <<disk, journal>>
      BY <1>2 DEF FoundationPreview
    <2>2. disk.state.fence = None => journal = None
      BY <1>0, ConstantsAssumption DEF Journal
    <2>3. held'.gen = disk.state.gen /\ held'.done = disk.state.done
      BY <2>1
    <2>4. held'.free => disk.state.fence = None
      <3>1. PICK f : f = (disk.state.fence = None)
        OBVIOUS
      <3>2. held'.free = f
        BY <2>1, <3>1
      <3> QED BY <3>1, <3>2
    <2> QED BY <1>0, <2>1, <2>2, <2>3, <2>4 DEF HeldInv, Since
  <1>3. CASE FlowAcquire \/ FlowRelease
    <2>1. journal = None /\ journal' = None /\ held' = held
      BY <1>0, <1>3, ConstantsAssumption
         DEF CommandInv, FlowAcquire, FlowRelease, FenceInv, Journal
    <2>2. PICK l \in BOOLEAN : disk' = [disk EXCEPT !.state.lease = l, !.state.gen = @ + 1]
      BY <1>3 DEF FlowAcquire, FlowRelease
    <2>3. disk' = [disk EXCEPT !.state = [disk.state EXCEPT !.lease = l, !.gen = @ + 1]]
      BY <1>0, <2>2 DEF Disk, State
    <2>4. disk'.state.gen = disk.state.gen + 1
      BY <1>0, <2>3 DEF Disk, State
    <2> QED BY <1>0, <2>1, <2>4 DEF HeldInv, Since
  <1>4. ASSUME NEW p \in Procs,
               \/ \E key \in Keys, op \in Ops : Request(p, key, op)
               \/ Open(p) \/ Step(p) \/ WriteFails(p) \/ Crash(p)
        PROVE  HeldInv'
    <2>1. held' = held
      BY <1>4 DEF Request, Open, Step, WriteFails, Crash, RecoverNothing, RecoverCommitted,
             RecoverUndo, RecoverFails, Claim, ClaimRefused, Replay, Prepare, Write, Refuse
    <2>2. /\ StateGoesOn
          /\ journal' = None \/ journal' = journal \/ (journal'.before = disk /\ UNCHANGED disk)
      BY <1>4, StateMoves
    <2>3. SUFFICES ASSUME held # None, held.free
                   PROVE  Since(disk.state)' /\ (journal # None => Since(Before.state))'
      BY <2>1 DEF HeldInv
    <2>4. held.gen \in Nat /\ Since(disk.state) /\ (journal # None => Since(Before.state))
      BY <2>3 DEF HeldInv
    <2>5. Since(disk.state)'
      <3>1. CASE disk'.state.gen = disk.state.gen /\ disk'.state.done = disk.state.done
        BY <2>1, <2>4, <3>1 DEF Since
      <3>2. CASE disk'.state.gen = disk.state.gen + 1
        BY <1>0, <2>1, <2>4, <3>2 DEF Since
      <3>3. CASE journal # None /\ disk'.state = Before.state
        BY <2>1, <2>4, <3>3 DEF Since
      <3>4. CASE journal # None /\ disk'.state = AfterState
        <4>1. AfterState.gen = Before.state.gen + 1 /\ Before.state.gen \in Nat
          BY <1>0, <3>4, AfterFacts
        <4> QED BY <2>1, <2>4, <3>4, <4>1 DEF Since
      <3> QED BY <2>2, <3>1, <3>2, <3>3, <3>4 DEF StateGoesOn
    <2>6. (journal # None => Since(Before.state))'
      BY <2>1, <2>2, <2>4 DEF Since, Before
    <2> QED BY <2>5, <2>6
  <1> QED BY <1>1, <1>2, <1>3, <1>4 DEF Next

(* A generation that was bound while no command was under way never comes  *)
(* back with other commands done, whatever was rolled back to it since.    *)
THEOREM GenerationsCorrect == Spec => []GenerationNamesOneState
PROOF
  <1>1. Init => HeldInv
    BY DEF Init, HeldInv
  <1>2. HeldInv => GenerationNamesOneState
    BY DEF HeldInv, Since, GenerationNamesOneState, StillCurrent
  <1> QED BY <1>1, <1>2, CommandInit, CommandNext, HeldNext, PTL DEF Spec
-----------------------------------------------------------------------------
(* The commands are those of CommandedBook.                                *)

Seen(state, plan) ==
  [session |-> state.session, plan |-> plan, next |-> state.next, done |-> state.done]

(* The book is that of the files where no command is under way, and of the *)
(* state before or after the command of the journal otherwise.             *)
LEMMA ViewIs ==
  AgreeInv /\ ~late =>
    /\ journal = None => View = Seen(disk.state, disk.plan)
    /\ journal # None /\ Decided => View = Seen(AfterState, AfterPlan)
    /\ journal # None /\ ~Decided => View = Seen(Before.state, Before.plan)
  BY DEF View, Happened, Decided, AgreeInv, AgreeFiles, Seen, Before

(* The command of the journal is one of the book's.                        *)
LEMMA CommandHappens ==
  ASSUME journal \in Journal, journal.key \notin Before.state.done,
         journal.op = "preview" <=> Before.state.session = 0,
         View = Seen(Before.state, Before.plan), View' = Seen(AfterState, AfterPlan)
  PROVE  Book!Next
PROOF
  <1>1. PICK b, a : b = Seen(Before.state, Before.plan) /\ a = Seen(AfterState, AfterPlan)
    OBVIOUS
  <1>2. /\ b = [session |-> Before.state.session, plan |-> Before.plan,
                next |-> Before.state.next, done |-> Before.state.done]
        /\ journal.key \in Keys /\ journal.op \in Ops
    BY <1>1 DEF Seen, Journal
  <1>3. a = [session |-> AfterState.session, plan |-> AfterPlan,
             next |-> AfterState.next, done |-> Before.state.done \union {journal.key}]
    BY <1>1, AfterFacts DEF Seen
  <1>4. CASE journal.op = "preview"
    <2>1. a = [session |-> b.next + 1, plan |-> b.plan, next |-> b.next + 1,
               done |-> b.done \union {journal.key}]
      BY <1>2, <1>3, <1>4, AfterFacts DEF AfterPlan
    <2>2. Book!Preview(journal.key)
      <3>1. PICK c : c = [b EXCEPT !.session = b.next + 1, !.next = b.next + 1]
        OBVIOUS
      <3>2. a = [c EXCEPT !.done = @ \union {journal.key}]
        <4>1. c = [session |-> b.next + 1, plan |-> b.plan, next |-> b.next + 1, done |-> b.done]
          BY <1>2, <3>1
        <4> QED BY <2>1, <4>1
      <3>3. Book!Do(journal.key, [View EXCEPT !.session = View.next + 1, !.next = View.next + 1])
        BY <1>1, <1>2, <3>1, <3>2 DEF Book!Do
      <3> QED BY <1>1, <1>2, <1>4, <3>3 DEF Book!Preview
    <2> QED BY <1>2, <2>2 DEF Book!Next
  <1>5. CASE journal.op = "advance"
    <2>1. a = [session |-> b.session, plan |-> b.plan, next |-> b.next,
               done |-> b.done \union {journal.key}]
      BY <1>2, <1>3, <1>5, AfterFacts DEF AfterPlan
    <2>2. Book!Advance(journal.key)
      BY <1>1, <1>2, <1>5, <2>1 DEF Book!Advance, Book!Do
    <2> QED BY <1>2, <2>2 DEF Book!Next
  <1>6. CASE journal.op = "cancel"
    <2>1. a = [session |-> 0, plan |-> b.plan, next |-> b.next,
               done |-> b.done \union {journal.key}]
      BY <1>2, <1>3, <1>6, AfterFacts DEF AfterPlan
    <2>2. Book!Cancel(journal.key)
      <3>1. PICK c : c = [b EXCEPT !.session = 0]
        OBVIOUS
      <3>2. a = [c EXCEPT !.done = @ \union {journal.key}]
        <4>1. c = [session |-> 0, plan |-> b.plan, next |-> b.next, done |-> b.done]
          BY <1>2, <3>1
        <4> QED BY <2>1, <4>1
      <3>3. Book!Do(journal.key, [View EXCEPT !.session = 0])
        BY <1>1, <1>2, <3>1, <3>2 DEF Book!Do
      <3> QED BY <1>1, <1>2, <1>6, <3>3 DEF Book!Cancel
    <2> QED BY <1>2, <2>2 DEF Book!Next
  <1>7. CASE journal.op = "publish"
    <2>1. a = [session |-> 0, plan |-> b.session, next |-> b.next,
               done |-> b.done \union {journal.key}]
      BY <1>2, <1>3, <1>7, AfterFacts DEF AfterPlan
    <2>2. Book!Publish(journal.key)
      <3>1. PICK c : c = [b EXCEPT !.session = 0, !.plan = b.session]
        OBVIOUS
      <3>2. a = [c EXCEPT !.done = @ \union {journal.key}]
        <4>1. c = [session |-> 0, plan |-> b.session, next |-> b.next, done |-> b.done]
          BY <1>2, <3>1
        <4> QED BY <2>1, <4>1
      <3>3. Book!Do(journal.key, [View EXCEPT !.session = 0, !.plan = View.session])
        BY <1>1, <1>2, <3>1, <3>2 DEF Book!Do
      <3> QED BY <1>1, <1>2, <1>7, <3>3 DEF Book!Publish
    <2> QED BY <1>2, <2>2 DEF Book!Next
  <1> QED BY <1>2, <1>4, <1>5, <1>6, <1>7 DEF Ops

(* Where the journal stays, the book changes only by what decides its      *)
(* command, and what was decided stays so.                                 *)
LEMMA DecidesOnce ==
  ASSUME CommandInv, CommandInv', AgreeInv, AgreeInv', ~late, UNCHANGED late,
         journal # None, UNCHANGED journal, Decided => Decided'
  PROVE  Book!Next \/ UNCHANGED View
PROOF
  <1>1. ViewIs'
    BY ViewIs, PTL
  <1>2. /\ UNCHANGED <<Before, AfterState, AfterPlan>> /\ journal' # None /\ journal \in Journal
    BY AfterStay DEF CommandInv, TypeOK
  <1>3. CASE Decided <=> Decided'
    BY <1>1, <1>2, <1>3, ViewIs DEF Seen
  <1>4. CASE ~Decided /\ Decided'
    <2>1. View = Seen(Before.state, Before.plan)
      BY <1>4, ViewIs
    <2>2. View' = Seen(AfterState, AfterPlan)
      BY <1>1, <1>2, <1>4 DEF Seen
    <2>3. disk'.state = AfterState /\ AfterState # Before.state
      BY <1>2, <1>4, AfterFacts DEF AgreeInv, AgreeFiles, Journal, Before, Disk, State
    <2>4. /\ journal.key \notin Before.state.done
          /\ journal.op = "preview" <=> Before.state.session = 0
      BY <1>2, <2>3 DEF CommandInv, StateInv
    <2> QED BY <1>2, <2>1, <2>2, <2>4, CommandHappens
  <1> QED BY <1>3, <1>4

LEMMA ViewStays ==
  ASSUME UNCHANGED <<disk, journal, late>>
  PROVE  UNCHANGED View
  BY DEF View, Happened, Receipted, Published

(* Neither the fence nor the lease is in the book.                         *)
LEMMA ViewWithout ==
  ASSUME AgreeInv, AgreeInv', ~late, UNCHANGED late, journal = None, journal' = None,
         UNCHANGED <<disk.plan>>, UNCHANGED <<disk.state.session>>,
         UNCHANGED <<disk.state.next>>, UNCHANGED <<disk.state.done>>
  PROVE  UNCHANGED View
PROOF
  <1>1. ViewIs'
    BY ViewIs, PTL
  <1> QED BY <1>1, ViewIs DEF Seen

(* No command happens by a write of the journal.                           *)
LEMMA JournalKeepsView ==
  ASSUME CommandInv, AgreeInv, AgreeInv', ~late, UNCHANGED late, NEW p \in Procs,
         Prepare(p) \/ (Write(p) /\ Head(job[p].todo) = "journal")
  PROVE  UNCHANGED View
PROOF
  <1>1. ViewIs'
    BY ViewIs, PTL
  <1>2. CASE Prepare(p)
    <2>1. /\ journal' = [key |-> job[p].key, op |-> job[p].op, before |-> disk]
          /\ UNCHANGED disk /\ job[p].key \notin disk.service
      BY <1>2 DEF Prepare, Saved
    <2>2. /\ journal = None /\ disk.service = disk.state.done
          /\ job[p].key \in Keys /\ job[p].op \in Ops /\ disk \in Disk
      BY <1>2 DEF CommandInv, JobInv, OneAtATime, Jobs, Prepare, AgreeInv, AgreeFiles, TypeOK
    <2>3. journal' # None /\ Before' = disk /\ ~Decided'
      BY <2>1, <2>2, ConstantsAssumption DEF Journal, Before, Decided, Receipted, Published
    <2> QED BY <1>1, <2>2, <2>3, ViewIs DEF Seen
  <1>3. CASE Write(p) /\ Head(job[p].todo) = "journal"
    <2>1. /\ Mode(p) \in {"do", "undo", "finish"} /\ JobInv(p) /\ DoInv(p) /\ UndoInv(p)
          /\ journal # None /\ AgreeFiles /\ AgreeWork(p) /\ job[p] \in Jobs
      BY <1>3, WriterFacts DEF Write, CommandInv, OneAtATime, AgreeInv
    <2>2. UNCHANGED disk /\ journal' = None
      BY <1>3, <2>1 DEF Write, Written, Restored
    <2>3. CASE Decided
      BY <1>1, <2>1, <2>2, <2>3, ViewIs DEF AgreeFiles, Seen
    <2>4. CASE ~Decided
      <3>1. Mode(p) # "do"
        <4>1. SUFFICES ASSUME Mode(p) = "do" PROVE Receipted
          BY <2>4 DEF Decided
        <4>2. ~Left(p, "service")
          BY <1>3, <2>1, <4>1, DoFacts DEF JobInv, Left, Jobs
        <4> QED BY <2>1, <4>1, <4>2 DEF DoInv, Receipted, AfterService
      <3>2. Mode(p) = "undo"
        BY <2>1, <2>4, <3>1 DEF AgreeWork
      <3>3. ~Left(p, "state") /\ ~Left(p, "plan")
        BY <1>3, <2>1, <3>2, UndoFacts DEF JobInv, Left, DoFiles
      <3>4. disk.state = Before.state /\ disk.plan = Before.plan
        BY <2>1, <3>2, <3>3 DEF UndoInv
      <3> QED BY <1>1, <2>1, <2>2, <2>4, <3>4, ViewIs DEF Seen
    <2> QED BY <2>3, <2>4
  <1> QED BY <1>2, <1>3

(* What was decided is not taken back by a write.                          *)
LEMMA DecidedStays ==
  ASSUME CommandInv, AgreeInv, ~late, NEW p \in Procs, Write(p),
         Head(job[p].todo) \in DoFiles, Decided
  PROVE  Decided'
PROOF
  <1>1. PICK file \in DoFiles : file = Head(job[p].todo)
    OBVIOUS
  <1>2. file # "fence" /\ file # "journal"
    BY DEF DoFiles
  <1>3. /\ journal # None /\ journal \in Journal /\ UNCHANGED journal
        /\ Mode(p) \in {"do", "undo", "finish"} /\ Allowed(p, file) /\ AgreeWork(p)
    BY <1>1, <1>2, WriterFacts, ConstantsAssumption DEF Write, AgreeInv, CommandInv, TypeOK
  <1>4. Mode(p) # "undo"
    BY <1>3 DEF AgreeWork
  <1>5. journal.key \in AfterService /\ journal.key \in AfterState.done
    BY <1>3, AfterFacts DEF AfterService
  <1>6. CASE Mode(p) = "do"
    <2>1. disk' = Written(job[p], file)
      BY <1>1, <1>6 DEF Write, Doer
    <2>2. /\ disk'.state = IF file = "state" THEN AfterState ELSE disk.state
          /\ disk'.service = IF file = "service" THEN AfterService ELSE disk.service
      BY <1>1, <1>3, <1>6, <2>1, DoFilesInv
    <2> QED BY <1>3, <1>5, <2>2 DEF Decided, Receipted, Published
  <1>7. CASE Mode(p) = "finish"
    <2>1. disk' = Written(journal, file)
      BY <1>1, <1>7 DEF Write, Doer
    <2>2. /\ disk'.state = disk.state
          /\ disk'.service = IF file = "service" THEN disk.service \union {journal.key}
                             ELSE disk.service
      BY <1>1, <1>3, <1>7, <2>1, FinishFilesInv
    <2> QED BY <1>3, <2>2 DEF Decided, Receipted, Published
  <1> QED BY <1>3, <1>4, <1>6, <1>7

LEMMA BookInit == Init => Book!Init
  BY DEF Init, Book!Init, View, Happened

LEMMA BookStep ==
  CommandInv /\ CommandInv' /\ AgreeInv /\ AgreeInv' /\ [Next]_vars => [Book!Next]_View
PROOF
  <1> SUFFICES ASSUME CommandInv, CommandInv', AgreeInv, AgreeInv', [Next]_vars
               PROVE  Book!Next \/ UNCHANGED View
    OBVIOUS
  <1>0. UNCHANGED late
    BY DEF Next, vars
  <1>1. CASE late
    BY <1>0, <1>1 DEF View
  <1>2. CASE UNCHANGED <<disk, journal>>
    BY <1>0, <1>2, ViewStays
  <1>3. CASE ~late /\ (FlowAcquire \/ FlowRelease)
    <2>1. /\ disk \in Disk /\ disk.state \in State
          /\ disk.state.fence = None /\ journal = None /\ UNCHANGED journal
      BY <1>3, ConstantsAssumption
         DEF CommandInv, FlowAcquire, FlowRelease, FenceInv, JournalInv, TypeOK, Journal, Disk
    <2>2. PICK l, g : disk' = [disk EXCEPT !.state.lease = l, !.state.gen = g]
      BY <1>3 DEF FlowAcquire, FlowRelease
    <2>3. disk' = [disk EXCEPT !.state = [disk.state EXCEPT !.lease = l, !.gen = g]]
      BY <2>1, <2>2 DEF Disk, State
    <2>4. /\ UNCHANGED <<disk.plan>> /\ UNCHANGED <<disk.state.session>>
          /\ UNCHANGED <<disk.state.next>> /\ UNCHANGED <<disk.state.done>>
      BY <2>1, <2>3 DEF Disk, State
    <2> QED BY <1>0, <1>3, <2>1, <2>4, ViewWithout
  <1>4. ASSUME ~late, NEW p \in Procs,
               \/ \E key \in Keys, op \in Ops : Request(p, key, op)
               \/ Open(p) \/ Step(p) \/ WriteFails(p) \/ Crash(p)
        PROVE  Book!Next \/ UNCHANGED View
    <2>1. CASE \/ RecoverNothing(p) \/ Claim(p) \/ Replay(p)
               \/ (Write(p) /\ Head(job[p].todo) = "fence")
      <3>1. PICK f : disk' = [disk EXCEPT !.state.fence = f]
        BY <2>1 DEF RecoverNothing, Claim, Replay, Release, Write, Written, Restored
      <3>2. disk \in Disk /\ journal = None /\ journal' = None
        BY <2>1, WriterFacts
           DEF CommandInv, TypeOK, JobInv, RecoverNothing, Claim, Replay, Write
      <3>3. /\ UNCHANGED <<disk.plan>> /\ UNCHANGED <<disk.state.session>>
            /\ UNCHANGED <<disk.state.next>> /\ UNCHANGED <<disk.state.done>>
        BY <3>1, <3>2 DEF Disk, State
      <3> QED BY <1>0, <1>4, <3>2, <3>3, ViewWithout
    <2>2. CASE Prepare(p) \/ (Write(p) /\ Head(job[p].todo) = "journal")
      BY <1>0, <1>4, <2>2, JournalKeepsView
    <2>3. CASE Write(p) /\ Head(job[p].todo) \in DoFiles
      <3>1. journal # None /\ UNCHANGED journal
        BY <2>3, WriterFacts DEF Write, DoFiles
      <3>2. Decided => Decided'
        BY <1>4, <2>3, DecidedStays
      <3> QED BY <1>0, <1>4, <3>1, <3>2, DecidesOnce
    <2>4. CASE \/ \E key \in Keys, op \in Ops : Request(p, key, op)
               \/ Open(p) \/ ClaimRefused(p) \/ RecoverFails(p) \/ Crash(p)
               \/ Refuse(p) \/ RecoverUndo(p) \/ RecoverCommitted(p) \/ WriteFails(p)
      <3>1. UNCHANGED <<disk, journal>>
        BY <1>4, <2>4
           DEF Request, Open, ClaimRefused, RecoverFails, Crash, Refuse, RecoverUndo,
               RecoverCommitted, WriteFails, IsReplaced
      <3> QED BY <1>0, <3>1, ViewStays
    <2>5. Write(p) => Head(job[p].todo) \in DoFiles \union {"journal", "fence"}
      BY WriterFacts DEF Write
    <2> QED BY <1>4, <2>1, <2>2, <2>3, <2>4, <2>5 DEF Step
  <1>5. FoundationPreview \/ UNCHANGED vars => UNCHANGED <<disk, journal>>
    BY DEF FoundationPreview, vars
  <1> QED BY <1>1, <1>2, <1>3, <1>4, <1>5 DEF Next

(* Every command happens at once or not at all, and only once for its key: *)
(* whatever is written one after the other, undone or carried out after a  *)
(* crash, the project is one whose commands are those of CommandedBook.    *)
THEOREM CommandsImplementBook == Spec => CommandsAreAtomic
  BY CommandInit, CommandNext, AgreeInit, AgreeNext, BookInit, BookStep, PTL
     DEF Spec, CommandsAreAtomic, Book!Spec
=============================================================================

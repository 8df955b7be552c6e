# Formal verification of opennovel

TLA+ modules, TLC configurations and TLAPS proofs about the parts of opennovel
that decide who may change a book, and what survives when a process dies while
changing it. Paths below are relative to the repository; `store/x.go` is short
for `internal/store/x.go`, and so on.

Contents: [1 inventory](#1-inventory), [2 the model](#2-the-model),
[3 runs](#3-what-the-runs-check), [4 proofs](#4-proofs),
[5 divergences](#5-divergences), [6 limits](#6-what-is-not-modelled),
[7 plan](#7-plan), [8 running it](#8-running-it).

## 1. Inventory

opennovel drives language-model agents that plan, write, review and revise a
novel. All state lives in a project directory of JSON, Markdown and JSONL files;
every entry point (terminal, headless, web) opens that directory through one
`store.Store`, and several processes may open the same project.

| component | state it keeps | operations | hard behaviour | what makes it correct |
|---|---|---|---|---|
| **Revision ownership store** `store/revision.go`, `domain/revision.go`, `store/revision_lock.go` | `meta/revisions/state.json`: generation, lease of the writing flow, fence of an adaptation command, publication attempt, sessions, receipts, current artifacts | acquire/release normal flow, claim/release fence, `Start`, ten session commands through `mutate`, validate / begin / complete / roll back / recover a publication | several processes; policy code between a reading and a writing transaction; repeated commands; a dead lease holder; a second ownership file (manuscript index) | one owner; no command lost or applied twice; ended sessions stay ended; approvals match the versions they froze; the file always loads again |
| **Formal publication** `store/store.go`, `store/structure_migration.go` | outline, progress, revalidation flag; snapshot stored with the attempt | `PublishLayeredStructureForRevision`, rollback, recovery when a store is opened | files written inside a transaction; crash or write error between any two writes; recovery of an attempt whose publisher is alive | a publication happens completely or not at all, and does not stay open |
| **Adaptation revision commands** `store/adaptation_revision.go`, `host/adaptation_revision_service.go` | command lock, journal, snapshot of `state.json` and of the adaptation files | `BeginRevisionCommand`, prepare, complete, roll back, recover | snapshot restore moves the generation back; crash between journal, files and fence | after recovery both files are before or both after the command |
| **Manuscript revisions** `store/manuscript_*.go`, `host/manuscript_revision_service.go` | index, queue, staging, journal | start, stage chapter, publish, recover | publication of many chapters; handoff of a restarted process | all chapters or none; staging never visible |
| **Foundation revisions** `store/foundation*.go`, `host/foundation_revision_service.go` | foundation files, journal | stage, publish, recover | several files as one change | as above |
| **Chapter commit** `tools/commit_chapter.go`, `store/signals.go`, `store/rewrite_progress.go` | pending commit, final chapter, summaries, facts, progress, checkpoint | `Execute`, skip path, rewrite path | ten writes in order, a crash between any two, the retry takes another path | a chapter is committed once; the retry reaches the state an undisturbed call reaches |
| **Progress, phases, flow** `store/progress.go`, `domain/transitions.go` | `progress.json` | start / complete / reopen / queue rewrites / set flow | operations of different agents in any order | phase only moves along the table; pending rewrites and flow agree |
| **Checkpoint log** `store/checkpoints.go` | `checkpoints.jsonl` | append, latest by step | idempotence by digest; torn last line | the latest checkpoint is that of the content on disk |
| **File replacement** `store/io.go` | files, temporary and backup names | write, replace, remove, recover | crash between backup, removal and rename | one whole version is readable |
| **Structure migration** `store/structure_migration.go` | journal, outline, progress, chapters | migrate, recover | as publication | outline and progress agree |
| **Expansion authority** `store/expansion_*.go` | installation journal, keys, receipts | install, maintain, sign | two writes | one valid authority |
| **Host** `host/host.go`, `host/resume.go` | run state, lease reference count, subscribers | start, steer, abort, resume, close | goroutines, abort racing completion, lease shared by counted users | the lease is held while anybody writes and released after |
| **Flow router, reminders** `host/flow`, `host/reminder` | directive, generation it was derived from | derive, dispatch | stale directives | a directive is followed only while its premises hold |
| **Agents, tools** `internal/agents`, `internal/tools` | sub-agent run state | tool calls | model output | outside a model checker, except the tools that write |
| **Adaptation pipeline** `host/adapt`, `internal/adaptaudit` | job files | ingest, plan, audit | long jobs | resumable |
| **Import, simulation, export, continuation** `host/imp`, `host/sim`, `host/exp`, `host/continuation` | artifacts | transformations; continuation commit | - | - |
| **Web** `entry/web` | sessions, jobs, resume schedule, UI | start job, cancel, schedule resume | timers racing user actions | one job per project; a scheduled resume happens once |
| **Command line, headless** `entry/headless`, `entry/startup`, `cmd` | - | wiring | - | - |
| **Providers** `internal/bootstrap`, `internal/retrypolicy`, `internal/codexauth`, `internal/grokauth` | configuration, tokens, failover cursor | call, fail over, retry | timeouts | every provider tried at most as often as configured |
| **Text analysis, rules** `internal/deai`, `stylestat`, `rules`, `simulationcheck`, `simeval` | none | pure functions | - | - |
| **Diagnostics, usage, notifications** `internal/diag`, `modeldiag`, `notify`, `logger` | logs | observe | - | - |

### How they interact

- Everything that changes formal content enters `withLegacyMigrationMutation`
  (or a lease/fence/attempt-owning variant), which opens a *revision
  transaction*: process mutex, then the file lock `meta/revisions/.lock`, then
  the load of `state.json` with its validation. The lock is what serializes
  processes; `state.json` is what tells them who owns the book between
  transactions.
- The host holds a lease while the writing flow runs; the router stamps its
  directives with the generation of the lease.
- The three revision services (normal, adaptation, foundation) supply a policy to
  the same `RevisionStore`. An adaptation service command owns a fence around
  all store calls it makes, and a command lock (a file lock) that dies with it.
- A manuscript revision owns the book through its own index file, which the
  ownership store reads inside its transactions.
- Opening a store recovers: a dead lease is dropped by the first load, an open
  publication attempt is rolled back, journals are replayed or undone.

`PROJECT.json` lists the same components with their status, and under `hazards`
what in this code is hard to test, at its line.

## 2. The model

| module | models |
|---|---|
| `RevisionSession` | one session as a value: guards `CanX` and effects `AfterX` of every command, and `ValidSession` (`RevisionSession.Validate`) |
| `RevisionStore` | the protocol around `state.json`: processes, transactions, lease, adaptation commands with fence, journal and rollback, `Start`, `mutate`, normal publication, recovery, crashes; its properties |
| `BookOwnership` | the abstract promise: one owner, content that changes by an edit or by one atomic publication, which completes the revision with the very version the book then holds |
| `MCRevisionStore` | symmetry for TLC |
| `RevisionStore_proofs` and the other `..._proofs` | theorems about the module they are named for (section 4); `StoreAndGates_proofs` about `CheckpointLog`, `FileReplace` and `DraftGates`, whose operator names are distinct so that one module can extend all three |
| `ChapterCommit`, `ManuscriptBook` | how a chapter gets from a draft into a flat book: the writer's and the editor's tools, reopening, the host that stops and resumes; and the abstract promise: chapters enter in order and in one step, change only while open for rework, and a complete book is whole |
| `DraftGates` | the checks a draft passes before `commit_chapter` takes it, bound to the draft by digests and the checkpoint log |
| `CheckpointLog`, `CheckpointBook` | the log as a file and its mirror in memory; and what its users ask of it. `DraftGates` uses the second as its log, `CheckpointLog` implements it |
| `FileReplace`, `AtomicFile` | `store.IO` on one file, one system call per step; and a register |
| `HostLifecycle` | the run of a book in one process: lifecycle, goroutines, automatic resumes, and the reference-counted lease |
| `ManuscriptRevision` | the stages of manuscript revisions and every command on them, by several clients |
| `ManuscriptPublication`, `PublishedBook` | the last of these stages in detail: journal, formal files, index, recovery; and publication in one step |
| `AdaptationCommand`, `CommandedBook` | an adaptation command: lock, fence, snapshot, journal, writes, receipt, rollback and recovery; and a command in one step |
| `ResumeScheduler` | the web server's scheduled resume: occurrences, the durable batch, its workers, restarts |
| `MC...` | the instances for TLC: sets of settings, symmetry |

How they fit together: `RevisionStore` is what decides who owns the book; the files an adaptation command
writes besides `state.json` (`AdaptationCommand`), the active manuscript revision of `ManuscriptRevision` and the lease
`HostLifecycle` counts references to are single values there, and have a module of their own
for what happens inside. `ManuscriptRevision` publishes in one step, which is what
`PublishedBook`, implemented by `ManuscriptPublication`, allows it to do. `ChapterCommit` takes a draft as given; `DraftGates` says which
drafts it may take, and reads the log `CheckpointLog` implements. Every file write of all of them is one
step because of `FileReplace`.

The next three sections are about `RevisionStore`, the others follow.

### Variables

| variable | in the code |
|---|---|
| `st` | the decoded `state.json`. `gen` Generation, `lease` NormalFlow, `fence` AdaptationCommand, `pub` Publication, `active` ActiveSessionID, `sess` Sessions, `startKey` and `receipts` the command receipts (of `Start`, of `mutate`), `mode` Policy, `current` CurrentArtifacts; `nextSession` / `nextVersion` stand for the freshness of generated identifiers |
| `formal` | the formal files a publication replaces, as one value, with the flag that asks for completion revalidation |
| `manuscript` | the manuscript index has an active revision |
| `lock` | holder of the revision transaction, only while it spans several steps |
| `pc`, `job`, `own`, `cmd` | per process: where it is in a two-transaction command, a publication or the end of an adaptation command, the working copy it cloned, the publication owner token with the snapshot it captured, the fence of the adaptation command it is in (and with it the command lock) |
| `journal` | the prepared journal of an adaptation command: the snapshot of `state.json` and of the formal files, and whether the service receipt of the command is there |

### What is one step

A transaction that only reads and writes `state.json` is one step: it runs under
the mutex and the file lock, and the write is an atomic replacement
(`WriteFileUnlocked`). Four things are not one step, because in the code they
are not:

- `Start` and `mutate` read in one transaction, run policy code outside it, and
  write in a second one (`commitOptimistic`): `BeginStart`/`BeginMutate`, then
  `CommitOptimistic` or `RejectCommand`. The working copy replaces the *whole*
  file, so a lost update would be silent; the generation check is what prevents
  it.
- The publication mints its token, captures a snapshot of the formal files
  before its transaction, writes the attempt, the formal files and the attempt
  again inside one transaction, and completes in another. Each write is a step;
  each can fail (`WriteFormalFails`, `BeginPublicationFails`,
  `CompletePublicationFails`) and then the rollback runs, which can fail as well
  (`AbandonPublication`).
- An adaptation command (`WithPreparedAdaptationRevisionCommand`) claims the fence, writes
  the journal with its snapshot (`PrepareCommand`), starts and moves its session with the very
  `Start` and `mutate` above, writes the service receipt (`AnswerCommand`), removes the journal
  and releases the fence. A command that fails before its receipt puts `state.json` back to the
  snapshot, all but the fence: generation, sessions and receipts go back with it
  (`UndoCommand`). A failing rollback, clean-up or release leaves what is there
  (`LeaveCommand`). Whoever takes the command lock next releases a fence without a journal
  (`RecoverCommandFence`); with one it claims the fence again, finishes the command if it
  has its receipt, and undoes it if not (`RecoverCommand`).
- `RecoverPublication` is the recovery in `NewStore`: any process, at any time,
  also while the publisher lives; it too takes two writes.

`Crash(p)` may happen between any two steps: locks are freed by the operating
system, everything in memory is lost, everything on disk stays. A process does
not come back; a restart is another member of `Procs` that becomes active.

`Transaction(p)` carries the load: it is possible only if nobody holds the lock
and `LoadableState(st)`, the translation of `validateRevisionState`. A state file
that fails it refuses everything, as in the code. `RecoverStaleLease` is the part
of `loadUnlocked` that drops the lease of a dead process and writes that back
before anything else is decided.

### Abstractions

Payloads, digests, intents, impacts, prompts and audit reports are not there:
a candidate is the identifier of its stored version, an audit entry is its round,
its candidate and its verdict, and of the audit trail only the last entry is kept
(`LatestAuditPassed` reads no other). A session under an adaptation command is
the session whose `mode` is `"adaptation"`. The receipt of a session command is the
pair of the session and the revision it moved from, because the code refuses a
command whose expected revision is not the session's; a rival that was overtaken is
answered from that receipt when it has the same idempotency key and refused by
the generation when it has another, and writes nothing in either case, so both are
`RejectCommand`. The time-out of a file lock (15 s) is a
command that did not happen. The structure migration is one atomic formal write
inside the publication; its own journal is planned.

### ChapterCommit

| variable | in the code |
|---|---|
| `phase`, `flow`, `completed`, `queue`, `counted` | `meta/progress.json`: Phase, Flow, CompletedChapters, PendingRewrites (as a set), and the text the word count of a chapter was taken from |
| `draft`, `final` | `drafts/NN.draft.md`, `chapters/NN.md` |
| `provenance`, `summary` | the text the provenance and the summary of a chapter were written for |
| `timeline`, `stateChanges`, `upserted` | how often the timeline events and state changes of a chapter were appended; whether its keyed facts (foreshadowing, relationships) are there |
| `pending` | `meta/pending_commit.json`: chapter and stage |
| `running`, `agent` | the host runs; the subagent that works, with the chapter it was sent to |
| `call` | the tool call in progress: the write it has reached, its chapter, its text and whether it is a rework |

`commit_chapter` is one step per file it writes (`CommitStep`), in the order of the
code: `BeginCommit` makes all checks and writes the pending record, then come final
text, provenance, summary, facts, pending stage, progress, completion of the book,
pending stage, removal of the pending record and checkpoint (whose content is `DraftGates`'s business). The rewrite path shares
the first three and the progress, then drains the queue, appends the checkpoint and
may complete the book again. `SkipCommit` is the answer for a completed chapter.
Between any two steps the write may fail (`ToolFails`: the model sees an error and is
free to do anything next) or the process may die (`Stop`). Nothing is undone, as in
the code; what is in memory (`call`, `agent`) is lost. `save_review` is two steps
because it writes the queue and the flow separately. The other tools and host
commands write one file that matters and are one step; where a second write may be
missed the step has that outcome as well (`DraftChapter`, `ForgetResidue`,
`ReviseChapter`). Calls do not overlap: all these tools say `ConcurrencySafe = false`,
and the writing flow is held by one process (that it is, is what `RevisionStore` shows).

`routed`, fixed at the start of a behaviour, is what is assumed of the models. `FALSE`: a subagent calls any of its
tools for any chapter, the coordinator sends anybody anywhere. `TRUE`: the coordinator
sends the writer where `flow.Route` says, an editor only when no rework is queued, and a writer
names the chapter it was sent to. Nothing in the code enforces the second, prompts ask
for it; so what holds without it is the stronger statement. `Settled` and `ImplementsBook` need it.

A text is a value; a summary, a provenance record and a word count are the text they
were made from, which is what `Settled` compares. The quality gates only refuse, and a
refusal that changes nothing is not a step. The facts of a chapter are taken to be
non-empty. Not there: layered and adaptation books, planning, the flows reviewing and
steering, histories and the cast ledger of a chapter, and the branch that recreates
facts after an outline revision deleted a chapter.

### DraftGates

One chapter. `draft` and `final` are its two files, `status` whether it is open, done or queued for rework;
`known`, `latestBy`, `latest` are its checkpoints (a `CheckpointBook`), `deAI` and `adaptation` the
text-bound results of those two checks, `enabled` the de-AI policy file. The tools that change the
draft (`draft_chapter`, `edit_chapter` with and without a segment of an over-long text, `repair_de_ai_batch`),
those that judge it (`check_consistency`, `check_de_ai`, `check_adaptation`) and the three gates of
`commit_chapter` are one action each, with every outcome a model may give them. A tool saves the draft and
then appends its checkpoint; the second may fail and leave the first. `project` is what kind of project
it is: an adaptation with the de-AI stage on, a book whose manuscript revisions are published between
commit and rework, or one with two texts outside the word budget. `everPassed` and `revised` are
history variables.

### CheckpointLog

`lines` and `ended` are `meta/checkpoints.jsonl`, `cache` and `seqGen` the `CheckpointStore`. An append writes a
line and then updates the mirror; the process may end in between (`AppendAndReopen`), the sync may fail after
the line was written (`AppendUnsynced`), the write may stop inside the line (`AppendTorn`: the next record is
glued to it). `Reopen` is `loadFromDisk`. `disk` says which of these may happen in this behaviour.
The refinement of `CheckpointBook` is asked only of a disk that does not fail; on the others its mapping is constant.

### FileReplace

Every write (`replaceFile`) is: temporary file, old file to backup, new file into place,
backup away; a read or a write first repairs what it finds. Each `os` call is an action, each can fail, and the
process can end between any two (`Die`; temporary files that stay are never looked at). `Contents` is the file, or its backup
while there is none, which is what the register of `AtomicFile` holds. `SharedIO` is whether the threads use one `IO`, and so
one mutex.

### HostLifecycle

| variable | in the code |
|---|---|
| `held`, `revision` | the store: its lease of the writing flow; an active revision session |
| `lease`, `routed`, `runOwned`, `coOwned`, `actionRefs`, `scopedRefs` | `Host.normalFlowLease`, the router's copy, and the four counts of who uses it |
| `lifecycle`, `cocreating`, `starting`, `aborted` | `Host.lifecycle`, the co-create flag, `Host.startingRun` |
| `autoInFlight`, `attempts`, `autoCompleted` | the automatic resume and the progress it was counted for |
| `coord`, `run`, `progress` | the coordinator (a library), the lease it writes under; of `progress.json` the completed chapters, whether a chapter is in progress and whether the phase is complete, which is written apart from the chapters |
| `my` | per thread where it is in its call, and its local variables |

A step is a section under `h.mu`, or a call of the store, the router or the coordinator between two of them: this is where the
code lets another thread in. Users call `StartPrepared`, `ConfirmAdaptationProposal`, `Continue`,
`Resume`, `Abort`, `StopForPlanningReview`, the co-create calls, `BeginNormalFlowAction` and mutations; watchers
are the goroutines of `waitDone`, one per run, which outlive it. Releasing the lease is three steps (detach
under the mutex, clear the router, release the store's), as in the code. Leaving a co-create is three steps as well: `WaitForIdle` waits for
the coordinator, and whether a revision is active and who has the lease is asked after that, when another run may already have begun. So is a resume: admission, the wait for the coordinator of
an earlier run, the gates. The gates may also find nothing to do, or complete a book whose chapters are all there (`ResumeNothing`,
`ResumeFinishes`), and then the resume succeeds without a run. A resume whose last write fails after its prompt
(`SteerUncleared`: the steer that was handed to the coordinator cannot be cleared) returns an error and its deferred release drops the lease,
while the coordinator it prompted goes on: that one is `"stray"`. A release that fails in the store is warned about and the
store keeps its lease (`DropStore`). A confirmation whose own transaction cannot be completed stops the coordinator it prompted and takes its start
back (`ConfirmPublish`, `RollBack`). `use` says
which calls a behaviour makes and how often.

### ManuscriptRevision and ManuscriptPublication

`index` is the index file's revisions (stage, number, queue, candidates, what passed, whether a person confirmed the other
chapters), `active` its active revision, `client` what a client's call loaded and how far it is. A command that calls a
model loads, works without any lock, and writes under a comparison of the revision's number:
`GenerateBegin` / `GenerateSegment` / `GenerateDone` / `GenerateRecord`, `AuditBegin` / `AuditBind` / `AuditPasses` and so on;
when the number moved, `Conflict`. The author's exact save is a request of its own: it starts the revision (`SaveBegin`, or `SaveAgain`
when the request is repeated with its key), loads it (`SaveLoad`), submits the text (`SaveSubmit`), certifies (`SaveApprove`) and
publishes (`SavePublish`), or ends at the stage it finds (`SaveEnds`); `Interrupt` ends a request between any two. `Mutate` answers a
key that has its receipt before it compares the number, with the revision as it is by now: a repeated submission goes on
from whatever candidate is there then (`SaveReplay`). A text is a stamp; an audit, an approval and a baseline name
the stamp they are for. `audited`, `approved` and `mistaken` are history: what an author answers for is his own text, and a candidate that
a repeated save certified without being that text is `mistaken`. `book` says which book it is: one with two chapters
and two clients; one with two revisions after each other and two clients, where every command is made in time; or a complete one (revalidated
after the publication) with two revisions one of which is addressed after it was cancelled.

`ManuscriptPublication` is the publication alone: `journal` with status, revision and saved contents, the formal files, the
index, the file lock, and per open `Store` where it is. `Recover` reads the journal, `RecoverEnter` gets the
transaction later and acts on what was read, as the code does. Every write may fail or be the last one before the process
ends; the write that marks the journal completed may also be done and be reported as failed (`"marked"`). `setting` says which of these happen. Stamps order what was started or written.

### AdaptationCommand

`disk` holds `state.json` (generation, fence, session, receipts of commits, lease), the runtime file, the plan (all
formal files, as one) and the service receipts; `journal` the command journal with the files saved beside it;
`job` the command of each process with the writes it still has to do, in the order of the code. `Write` does the next one,
`WriteFails` fails it and, with `late`, may have done it all the same (`replaceFile` reports an
error when the backup of the old file cannot be removed, though the new one is in place). `Refuse` and the failures of `Undoes`
start the rollback; everything else is left to the recovery of whoever takes the lock next, which believes a
receipt, a committed publication, or the snapshot. `held` is a foundation change that was planned for a generation.

### ResumeScheduler

`mem` is the state `Run` works on and `disk` the file, an atomic write behind (`Save`; the temporary file is synced and renamed); they differ
after a write that failed. `at` is where `Run` is, `left` and `busy` are the jobs channel and the workers of one pass over the batch; one is
handed out, evaluated and recorded in two steps (`Dispatch`, `FinishProject`), so that results arrive in any order. Occurrences are days and times of
the configured wall clock, `now` is the clock of the westmost zone, the others are up to `ZoneSpread` ahead of it (26 hours in the code, UTC-12
to UTC+14), and it moves between any two steps. `setting` says which schedules there are and which of them the user may turn into which; the settings page
saves a schedule, which `Run` may read at once, and calls `Wake` afterwards (`saving`). `asked`, `settled` and `forgotten` are history: what this
process evaluated, what was ever saved, and which occurrences `Prune` forgot.

## 3. What the runs check

A run may look at several settings at once: a variable that is chosen in `Init` and never changes (`routed`, `disk`,
`project`, `use`, `setting`, `book`, `late`) says what this behaviour is about, so that one state graph has all of them. A property that
is a promise of the code only in some of them says so in its first conjunct (`Undisturbed`, `UntilCommit`,
`NothingLate`, `~late`, `routed`, `"confirm" \notin use.calls`, ...), and section 5 says what happens in the others. A guard of that kind
never mentions anything a step changes.

Five properties except something else, because the code breaks the promise in the middle of a behaviour in which everything
around it should still hold: a run whose resume failed after the prompt (`coord = "stray"` in `RunKeepsLease`), the
lease an empty resume leaves (`LeftByResume` in `ComesToRest`), texts a repeated save certified for somebody else (`mistaken` in
`PublishedWasApproved`), and occurrences that were forgotten while zones are more than a day apart (`Lost` in `OncePerLife` and `ResultsSurvive`).
Each is named for exactly that case, and section 5 has it. `Settled` in the properties of `RevisionStore` is of another kind: a command
that has no receipt may be taken back as a whole, so what is final is the state of the book without it; that nothing else goes back is what these
properties say.

| run | question | bounds |
|---|---|---|
| `publication` | does the many-step publication, with crashes, write errors, rollbacks and rival recoveries, implement the atomic one (`ImplementsBookOwnership`), keep `state.json` loadable (`StateLoads`) and move the generation whenever something a token was derived from changes (`GenerationAdvances`)? Is every open attempt closed (`PublicationSettles`) and every dead lease dropped (`StaleLeaseIsDropped`)? | 2 processes, 1 session, 1 candidate, 1 edit text, revision < 6, generation < 7; no adaptation commands |
| `commands` | two processes racing commands, some of them adaptation commands that fail, die and are undone or finished by a recovery: no lost or doubled command, and nothing taken back but the command that has no receipt (`CommandsSerialized`), no revived session (`TerminalSessionsAreFinal`), approvals in step with frozen versions (`AcceptedMatchesApprovals`)? Do lease, fence, manuscript revision and repeated `Start` commands ever give the book two owners (`ExclusiveOwnership`) or one key two sessions (`StartOnce`)? | 2 processes, 2 approval stages, and either 1 session with 2 candidates and revision < 8 without other owners, or 2 sessions, 2 start keys, 1 command key, revision <= 3, generation < 4 (`LongOrMany`) |
| `chapter_commit` | whatever the models call: is a completed chapter recorded everywhere (`CompletedIsRecorded`), is at most one commit half done and remembered (`InterruptedIsRemembered`), can a flow lock everybody out (`NeverLockedOut`)? With models that follow the router: are text, provenance, summary and word count of one version (`Settled`), and do the tools implement `ManuscriptBook`? | 2 chapters, 2 texts, failures and crashes everywhere, both routings |
| `draft_gates` | is what becomes a final text exactly what passed its consistency check (`CommittedTextPassed`), and is a rework that was not worked on refused (`UnrevisedReworkIsRefused`)? | 2 texts, 2 segments, 3 kinds of project |
| `checkpoint_log` | does a store that was closed at any moment answer what was recorded, in its order (`ImplementsCheckpointBook`)? What does a failing disk cost (`LossIsBounded`)? | 2 steps, 2 digests and none, 4 lines, 2 faults |
| `file_one_io` | is a file an atomic register (`ImplementsAtomicFile`) for the threads of one `IO`? | 3 threads, 2 texts, any number of errors and ends |
| `host_calls` | has a lease always an owner (`LeaseHasOwner`), is the lease the store's (`LeaseIsCurrent`) as long as a run lives (`RunKeepsLease`), also when releases and confirmations fail and resumes find nothing to do, and does a pause outlast a resume in flight (`PauseIsKept`)? | 2 users, 2 watchers, 4 uses with 1 or 2 started runs, 1 automatic resume, 1 repair |
| `host_rest` | does the book come to rest and leave no lease but that of an empty resume (`ComesToRest`)? | 1 user, 3 watchers, 2 started runs; fairness |
| `manuscript_revision` | is what was published what was audited and approved (`PublishedWasApproved`)? Does an open revision own the book (`OpenIsActive`), and is newer prose kept (`NewerProseStands`)? | 2 clients and 2 chapters; 2 clients and 2 revisions of a chapter; or 1 client and 2 revisions of a complete book; 2 texts; 9, 5 and 7 commands on a revision |
| `manuscript_publication` | does publishing implement `PublishedBook` (`PublishesAtomically`), is a published revision in every file (`PublishedStands`), is an interrupted one finished or undone (`Settles`)? | 2 files, 4 stamps; 1 Store with 3 crashes, with and without failing writes; 1 whose mark fails after it was done; 2 Stores, racing, failing, opened late |
| `adaptation_commands` | does a command happen at once or not at all (`CommandsAreAtomic`), do state, runtime and receipts agree afterwards (`FilesAgree`), does a generation name one state (`GenerationNamesOneState`), is the fence given back (`Settles`)? | 2 processes, 3 keys, 2 sessions, generation <= 4, 2 crashes or failed writes, with and without late errors |
| `resume_scheduler` | is a project evaluated once for an occurrence by one process (`OncePerLife`), and never again by a later one that finds its result (`ResultsSurvive`)? Does a saved batch end (`BatchesEnd`), and does the timer wait past no occurrence to come (`NothingSleptThrough`)? | 2 projects, 2 workers, days of 3 ticks; 2 troubles (a failed save or listing, a close, a crash) in a day and the next midnight; 1 project and changing settings for 7 ticks; 1 project and zones 5 ticks apart for 8 ticks |

All of them hold. Sizes are between 315 states (`file_one_io`, one symmetric file) and 1.7 million
(`manuscript_revision`), at most two and a half minutes (`host_calls`) on two cores. Each property has a mutant in `PROJECT.json`: a
definition changed the way a bug would change it, for which the same run fails.

`chapter_commit` has a review interval longer than the book, so that
its last chapter completes it. Two chapters are the one a call is about and the other one it might
disturb (the pending record, the queue and the flow are shared by all chapters); two
texts are an old and a new version, and a third would be another new one. Appended facts are
counted up to `Many` = 1, as only their presence matters here. Texts are permuted. There is no deadlock with
either routing, so it is checked.

The constraint of `commands` is a union: one session and no other owner, however long, or any owners with few commands. Each part
is explored from the initial state; a long session that begins after another owner has gone is in neither, and differs from the first part in its generation
only.

Two projects are one whose result was saved and one that is left when a server dies. A batch of one occurrence, one of two that were missed, a
time still to come and the first of tomorrow all fit into days of three ticks with two times; seven ticks are two days and one, after which `Prune`
forgets. Zones five ticks apart are more than a day and less than two, as UTC-12 and UTC+14 are: eight ticks are enough for an occurrence to be done in the
east, be forgotten, and be due again in the west.

Why the bounds of the `RevisionStore` runs are enough for what they show. Two processes suffice for every
race in the code: each check compares a process's working copy or token with
*the* state, so a third process only offers one more way to change that state
between two steps, and the second one already takes every such way. The
generation and revision limits are guards on where a lease, a publication or a
command may *begin*, never on what a begun one may do, so no half-finished
operation is cut off; six revisions are one more than a one-stage session needs
to be published, eight those of two stages with one detour (feedback, a failed
audit, a pause). Two approval stages distinguish the last approval from the
others. One edit text is enough with one session: formal content is not edited between
the capture of a snapshot and the end of its session, so that a rollback can resurrect nothing older than
the text it was captured with. `CHECK_DEADLOCK
FALSE`: all processes may have died and bounds may be reached.

Of the others: two files are one that was written and one that was not yet; three threads are a writer, one that waits and a reader,
and further ones wait too; three watchers in `host_rest` are the goroutines of two started runs and of an automatic resume, two in `host_calls` are the run that winds up and the one that was started meanwhile; four lines hold an answered
checkpoint, two faults and the one glued to the second; three keys are a command, its rival and one more that
would be given a reused generation; two faults are a failed write whose rollback crashes.
Bounds are in guards of actions that begin something. `CHECK_DEADLOCK FALSE` where a bound can be reached with
nothing left to do (or a book is committed and nobody asks for anything).

Symmetry permutes processes, threads or texts in safety runs whose properties name none. Runs with
liveness have none.

### Fairness

`Fairness` grants what the code and its operation provide and no more:

- weak fairness of `Proceed(p)`, the next step of a command or a publication the
  process is in: straight-line code that is not waiting for anything. Each step is a
  disjunction of success and failure, so nothing is assumed about the disk. No
  fairness for starting a command or a publication or taking a lease: nobody has to
  want anything.
- weak fairness of `RecoverStaleLease`: every transaction of whoever is alive runs
  it first.
- strong fairness of `RecoverPublication` and `ClearAttempt`: a project with an
  open attempt is opened again and again while anybody is alive, and clearing the
  attempt does not fail every time. Without it an attempt could be rolled back
  for ever on a disk that never accepts the last write; the code has no answer to
  that either.
- `HostLifecycle`: weak fairness of `Stop` (a run of the coordinator ends; every model call has a time-out) and of every
  thread's next step inside a call: goroutines are scheduled. None for calls: `ComesToRest` is about a book nobody starts any more, which it can
  be because started runs are bounded.
- `ManuscriptPublication`: weak fairness of the next step of a call that holds the transaction, and of opening a Store that
  is closed or owes a recovery: the web server opens one per request. Nothing about writes: they may fail as often as `faults` allows; `Settles`
  excludes the faults after the commit intent, for which the code has no retry in a running Store.
- `AdaptationCommand`: weak fairness of every process's next step inside a command and of opening a Store while a journal or a fence is
  left. Crashes and failed writes are bounded, so that in the end one recovery runs through.
- `ResumeScheduler`: weak fairness of `Run`'s next step, its timer and its start included (a server that died is started again), and of every worker coming back from a
  project. None for the user or the clock. Troubles are bounded.
- `Crash` is free, and the properties allow for the case that nobody is left.

## 4. Proofs

Each `X_proofs.tla` extends `X`; `StoreAndGates_proofs` extends three modules that share no variable (`Spec`, `FileSpec` and `GatesSpec` are their specifications). The theorems hold for every number of processes, keys, sessions, chapters, files, texts, callers and
goroutines, and for every bound: what TLC is given small sets for is arbitrary here. Assumptions are the `ASSUME`s of the modules, which TLC
evaluates in every run: sets of settings and modes are what their records say, bounds are naturals, a value that means "none" is none of the
values it stands beside, at least one approval stage, users and goroutines are different threads and finitely many.

| module | theorem | says |
|---|---|---|
| `RevisionStore_proofs` | `TypeCorrect` | `Spec => []TypeOK` |
| | `ExclusiveCorrect`, `StartOnceCorrect`, `AcceptedCorrect` | `Spec => []ExclusiveOwnership`, `[]StartOnce`, `[]AcceptedMatchesApprovals` |
| | `SerializedCorrect`, `TerminalCorrect`, `GenerationCorrect` | `Spec => CommandsSerialized`, `TerminalSessionsAreFinal`, `GenerationAdvances` |
| | `LoadsCorrect` | `Spec /\ FenceWaitsForAttempt => []StateLoads` |
| | `BookImplemented` | `Spec => ImplementsBookOwnership` |
| `ChapterCommit_proofs` | `TypeCorrect`, `RecordedCorrect`, `RememberedCorrect`, `NotLockedOutCorrect`, `SettledCorrect` | `Spec => []TypeOK`, `[]CompletedIsRecorded`, `[]InterruptedIsRemembered`, `[]NeverLockedOut`, `[]Settled` |
| | `BookImplemented` | `Spec => ImplementsBook` |
| `StoreAndGates_proofs` | `GatesTypeCorrect` | `GatesSpec => []GatesTypeOK` |
| | `PassedCorrect`, `RevisedCorrect` | `GatesSpec => CommittedTextPassed`, `UnrevisedReworkIsRefused` |
| | `LogTypeCorrect`, `LossCorrect` | `Spec => []TypeOK`, `[]LossIsBounded` |
| | `BookImplemented` | `Spec => ImplementsCheckpointBook` |
| | `FileTypeCorrect`, `RegisterImplemented` | `SharedIO` implies `FileSpec => []FileTypeOK`, `ImplementsAtomicFile` |
| `HostLifecycle_proofs` | `TypeCorrect`, `LeaseOwned`, `LeaseKnown`, `RunLeased` | `Spec => []TypeOK`, `[]LeaseHasOwner`, `[]LeaseIsCurrent`, `[]RunKeepsLease` |
| | `PauseKept` | `Spec => PauseIsKept` |
| `ManuscriptRevision_proofs` | `TypeCorrect`, `OpenCorrect`, `PublishedCorrect`, `NewerCorrect` | `Spec => []TypeOK`, `[]OpenIsActive`, `[]PublishedWasApproved`, `NewerProseStands` |
| `ManuscriptPublication_proofs` | `TypeCorrect`, `PublishedCorrect` | `Spec => []TypeOK`, `[]PublishedStands` |
| | `BookImplemented` | `Spec => PublishesAtomically` |
| `AdaptationCommand_proofs` | `TypeCorrect`, `AgreeCorrect`, `GenerationsCorrect` | `Spec => []TypeOK`, `[]FilesAgree`, `[]GenerationNamesOneState` |
| | `CommandsImplementBook` | `Spec => CommandsAreAtomic` |
| `ResumeScheduler_proofs` | `TypeCorrect`, `WaitCorrect` | `Spec => []TypeOK`, `[]NothingSleptThrough` |
| | `OnceCorrect`, `SurviveCorrect` | `Spec => OncePerLife`, `ResultsSurvive` |
| | `OnceForGood` | in a setting whose zones are at most `KeepDays - 1` days apart, no evaluation is ever repeated, without exception |

### RevisionStore

`TypeOK` is not inductive: the types of what is written depend on
what a process carries between two steps. `TypeInv` adds `JobInv` (a process in
`"policy"` carries a loadable working copy on which its command applied), `OwnInv`
(a publisher has its token, and its snapshot once captured) and `HoldInv` (whoever
writes formal files inside its transaction holds the lock, the attempt is on
record and the state it loaded is still there).

`ExclusiveOwnership` needs the reason optimistic commits are safe:
`SameGenerationSameState`. If the working copy of a process has the generation of
the file, then the file *is* that copy, up to the fence, which claims and releases
change without moving the generation. It would be inductive if the generation never went
back, but undoing a command takes it back. What saves it is whose copies there are by then.
`Floor` is the state the book cannot go behind any more: the journal's, or else the
current one. `CopiesInv` says that the copy of a process outside the command is not newer than
`Floor` (its commit is refused while the fence is there, and what it read before is
what the command was prepared on), and the copy of the process in the command not newer than the file;
that process has no copy left when it undoes. `CommandInv` says that one process is in a command and
what there is of a journal at each place of it, `SavedInv` that the journal's state loads, has the fence, is followed by the current
one and agrees with it on everything a command does not change. That a fence
can come and go under a working copy is also why `ExclusiveOwnership` compares a
fence with the lease and the manuscript revision, which `Start` looks at again
when it commits. `GenerationAdvances` is read off the same cases: what is settled never loses generations, and
the only step that takes any from the file is `TakesBack`.

The ledger. `SessionSteps` says that every step that undoes nothing refreshes the generation of an
active session, moves the active session by one revision with its receipt, or
opens the next session. `LedgerInv` (identifiers are handed out in order, a receipt
names a revision its session has left, start keys are distinct) is inductive over
those three and the undo, because the journal has a ledger of its own that the book's goes on from
(`SavedLedger`). `SettledKinds`: a step leaves what is settled alone, or makes it the next state of the file, or answers a command,
and then adds all it did at once. With these the three ledger theorems follow without looking at the
actions again.

Versions. `Versioned` says of a session that its accepted versions are as many as its approvals (one less once
the last stage is approved), that they were handed out before and that the candidate is none of them; `VersionInv` adds that the candidate of
the active session is newer than the version the book holds, in the file and in the journal (`SavedVersions`). The freshness is needed for the cardinality: an approval
adds its candidate to the set, and a candidate that was accepted before would not make it larger.

`StateLoads` is false of the code as it stands (section 5, `store/revision.go:559`), and the theorem says that one step is the only
cause: under `FenceWaitsForAttempt`, the action property that no adaptation command takes its fence while an attempt is open, every
state that is written loads again. Behaviours of that kind are those without adaptation commands, which the run checks, and many with them.

The refinement. `RestoredInv` and `CapturedInv` say what a publisher's snapshot is worth: as long as the attempt it
would open is possible, it is what the book holds, because formal files change only while nobody revises or under an attempt (`FormalKinds`), and either
moves the generation first. A rollback then is a stutter of `BookOwnership`, the completion is its one publication step,
and its version is newer than the book's by `VersionInv`.

### ChapterCommit and DraftGates

`CallWrote` lists, for the write a call has reached, what the writes before it left in the files; `CallKind` says who may be at
it, for which chapter and under which pending record. With the three invariants of free models they are `CommitInv`: a call that stops anywhere leaves the
invariants because they held in the middle of it. `Settled` and the refinement of `ManuscriptBook` need models that follow the router, and
with them `RoutedInv`: the writer's chapter stays in the queue until its rework is drained, a new chapter is only
written while nothing is queued, an editor finds no chapter half reworked, a complete book has no queue, and chapters were completed in order.

In `DraftGates` the gate reads one field of the log, and what that field says of the text depends on every write that ever changed it
(`PassedInv`); that a rework without an edit is refused rests on draft and final text being equal since they were last committed (`DraftInv`),
which publishing a manuscript revision breaks (section 5). `GatesTypeOK` needs to know that a segment checkpoint names a
segment (`SegmentInv`): the number of the next one is computed from it.

### CheckpointLog

`LossIsBounded` is not inductive: a line without an end costs nothing yet, and two checkpoints when the next append is glued to it.
`LossInv` counts those two in advance (`Unended`). That they are never three is `OnceInv`: when the line without an end is
lost, only one checkpoint of the mirror goes with it, or its line is there another time. `LinesInv` bounds the
sequence numbers by the lines and the failures, which is what keeps `seqGen` in its type although failed appends reuse numbers.

What `readCheckpointsFile` returns is a recursive function of the lines (`Parsed`), and no induction rule can be used here
(it takes an operator as a parameter). `ParsedKeeps` - the mirror is read from different lines, and is all of them when
none is torn - is proved by the least prefix for which it fails: `LeastNatural` from the well-foundedness of `<` on the naturals, and
`LoopExists`, that there is a function with the equations of the loop at all, in the same way.

The refinement is about disks that do not fail (`disk = {}`), where `SoundInv` says that mirror and file are equal. `RecordMaps`
shows that one more checkpoint changes the answers as `Record` does: for its own step only, and not at all when the step was recorded for
that digest before.

### FileReplace

`FileInv` says why one mutex is enough. `Alone`: a write or a removal is the only call there is, and several readers repair together.
`NamesInv` says what each thread counts on before its next system call: who is about to restore the backup finds at
most one of the two names taken (another reader may have restored it already), who is about to drop it or has installed a text has a file
under the name, who installs knows whether the backup is the old file. Hence no repair changes `Contents`, and the register
changes in one step of each call: a write's rename of its text into place (`Install`), a removal's of the last name that holds
a text (`DropState` or `RemoveTarget`); `TookEffect` says of a call in progress that this step is behind it. `RegisterImplemented`
maps every step to a step of `AtomicFile` or to none, for any number of threads and texts. It has one hypothesis, `SharedIO`: all threads use one `IO`. With two it
is false (section 5, `store/io.go:195`).

### HostLifecycle

The lease is reference counted, and none of the properties is inductive without saying what is counted. `PlaceInv` says which
thread can be where with which call (a goroutine never confirms, a thread that drops a lease has one to drop). `RefsInv`: `scopedRefs` and `actionRefs`
are the numbers of threads at places that hold a reference, `Holders` and `Actors`. `OwnedInv`: there is a lease exactly when
one of the counts and owners is there. `CurrentInv`: the host's lease is the store's, nobody drops the lease that is in
use, and the router has forgotten a lease by the time it is released. The lease a call takes differs from every one somebody still drops,
because there are more lease identifiers than threads (by cardinality). Together they are `LeaseInv`.

`PauseIsKept` and `RunKeepsLease` add what a goroutine of an earlier run knows. `PauseInv`: while a book is paused, a goroutine that is anywhere
in a resume has seen that it was overtaken (`missed`). `ChainInv`, for one started run: at most one thread carries the run,
from the call that starts it through its goroutine to the next automatic resume; the run owns the lease at the places where its owner
has let go of his reference, and the coordinator writes under the host's lease. The coordinator of a resume that failed after its prompt is not carried by anybody, which is why
it is told apart (`"stray"`). The restrictions (`"confirm"`, one start, no stray) are the divergences of section 5.

### ManuscriptRevision and ManuscriptPublication

A call works for minutes without a lock and then writes if the number of the revision is the one it loaded. `CallInv` says why that is
enough: at that number the revision still has the stage the call loaded it in. `Sound` is what a single revision must satisfy at each stage: judged
means nothing waits to be written, ready means that every text of it is approved, published means audited and approved. Audits and
approvals are for texts, and no text is given out twice, so a later candidate takes nothing from an earlier judgement. A save that submits
its text itself knows that its candidate is that text (`Answers`); one that was answered from its receipt does not, so that what it certifies is its
author's text or is `mistaken`, and the theorem says that there is no third way.

`PublicationInv` of the publication: `StoreInv` says what a Store in the middle of a publication or a recovery has read, `Quiet` that it is
about the journal that is there, with the formal files done and not done yet being exactly what the journal saved and what it is to write;
`PublishedHeld` that the files a reader may rely on (`Text`: what the journal saved while it is not completed) hold every published revision;
`PromisedInv` that an interrupted publication is not gone past. Nothing of this is promised where the mark may fail after it was done. The refinement maps the book to `Text`, so that marking the journal
completed is the one step of `PublishedBook`.

### AdaptationCommand

The same idea, with a rollback that may itself be interrupted. `JobInv` says what can be left to write in each mode; `DoInv` and `UndoInv` that every
file is as it was saved beside the journal or as the command leaves it, by whether its write is left. `AgreeInv` adds that who undoes
found nothing that had happened (`~Decided`), who finishes found that it had. `HeldInv` is about a foundation change that was planned for a generation: neither the
state nor the snapshot beside the journal is older than it, nor another one with the same number. The refinement maps the book to the saved files while the command is
not decided and to what it is to leave when it is.

### ResumeScheduler

`Known` says what a state remembers of a project that was evaluated for an occurrence: while the occurrence is in the batch, that
the project is done; afterwards, that the occurrence is completed, or that its day is over in every zone of the setting (`Over`), so that it can never
be due again, or that it is `Lost`. That one of the last two holds whenever `Prune` forgets an occurrence needs `Begun` (it was taken up when its day had begun somewhere)
and arithmetic: it was completed `KeepDays` ago, so its day began at least that long ago in the eastmost zone, and
is over in the westmost one unless the two are more than `KeepDays - 1` days apart (`Wide`). The code keeps two days (`entry/web/resume_scheduler.go:273`)
and zones are up to 26 hours apart, so `OncePerLife` and `ResultsSurvive` have that exception and `OnceForGood` says when it
is empty. `OnceInv` says that memory knows of everything this process evaluated, up to what its workers have in hand, and memory and file of
everything whose result was saved. `NothingSleptThrough` is inductive; it rests on `TriggerInTime`, that the next trigger is not after any
occurrence to come, which is arithmetic of days and zones and the existence of a least time.

### Only model-checked

Liveness (`PublicationSettles`, `StaleLeaseIsDropped`, `Settles` of two modules, `BatchesEnd`, `ComesToRest`): fairness and ENABLED
are out of the prover's reach. Every other property of a run is stated by a theorem.

## 5. Divergences

Where the code does something else than one of its documents, comments, assertions or tests says. Each was
met while modelling and shown by TLC as a counterexample to the property that states the promise; each is in the model as the
code has it. The runs check such a promise only where it is kept, and the
last column says how they leave the rest out; taking that guard away brings the counterexample back.

### Ownership and commands

| code | promise | what happens | left out by |
|---|---|---|---|
| `store/revision.go:559` | "normal publication attempt has conflicting ownership" is asserted of every load (`store/revision.go:2154`) | `claimCommandFence` looks for another fence, a lease and a manuscript revision, not for an open publication attempt, and writes without validating. An adaptation command issued between the begin and the completion of a normal publication makes `state.json` unloadable for everybody, the recovery included | no commands in `publication` |
| `store/adaptation_revision.go:1517` | "The durable fence remains until rollback or receipt-backed cleanup has removed every recovery artifact" (`store/adaptation_revision.go:876`) | The receipt of a cancel is in place but its write is reported as failed (`store/io.go:219`); the rollback crashes after the runtime and before the receipts; recovery believes the receipt and drops the fence over a restored runtime of a cancelled session | `~late` in `FilesAgree`, `CommandsAreAtomic` |
| `store/adaptation_revision.go:1051`, `:1517` | a fence "binds asynchronous work to the ownership epoch that dispatched it" (`store/revision.go:294`) | Undoing a command restores the old generation with the rest of `state.json`. What was derived from a generation the command had reached is then stamped with one that will be given out again | `Settled` and `TakesBack` in `GenerationAdvances`; working copies are safe from it (section 4) |
| `host/adaptation_revision_service.go:989` | a restart does not roll back a committed publication (`host/adaptation_revision_service_test.go:748`) | The same for the `state.json` of a publication: rolled back, crashed between plan and state, after which every recovery answers "verify interrupted adaptation revision publication" and the fence stays | `~late` in `Settles` |
| `store/adaptation_revision.go:1517` | a fence "binds asynchronous work to the ownership epoch that dispatched it" (`store/revision.go:294`) | A rolled back command restores the old generation, and the next command gets the same number again: a foundation preview made between commit and rollback (`host/foundation_revision_service.go:266`) is taken for current after another command | `held.free` in `GenerationNamesOneState` |

### Chapters, drafts and checkpoints

| code | promise | what happens | left out by |
|---|---|---|---|
| `tools/commit_chapter.go:169` | artifact, progress and checkpoint go together (`docs/architecture.md:31`); a commit without checkpoint is a sign of trouble (`docs/observability.md:163`) | A commit that failed after it marked the chapter complete is answered by the skip path, which removes the pending record; the checkpoint is never appended | not stated |
| `store/world.go:123` | a tool run again gives the same result or skips (`docs/architecture.md:31`) | Timeline events and state changes are appended before the progress knows of the chapter; the retry appends them again | not stated |
| `tools/commit_chapter.go:674` | the same | The rewrite path overwrites the final text first; interrupted after that, its retry finds draft and final text identical, takes the rework for not done and refuses, with the old summary and word count | not stated |
| `tools/commit_chapter.go:881` | "非分层：写完约定总章数即完结" (`tools/commit_chapter.go:872`) | The function returns before it looks at the number when the commit asks for a review, and every fifth does: a flat book of 5 or 10 chapters is not completed and the router asks for the next one (`host/flow/router.go:293`) | `ReviewInterval` longer than the book |
| `host/host.go:1212` | closes "the narrow restart gap where every formal chapter is already committed" (`host/host.go:1197`) | The audit it asks for needs `layered_outline.json` (`store/completion_revalidation.go:85`), which a flat book does not have (`tools/save_foundation.go:666`): every resume of such a book fails | not stated |
| `store/manuscript_publication.go:262` | an unrevised rework is refused (`tools/commit_chapter.go:687`); a differing draft holds the writer's changes (`host/flow/router.go:206`) | A published revision writes the final text and leaves the draft. When the chapter is sent back, `ensureDraft` (`tools/edit_chapter.go:502`) starts from the old draft, and a commit without an edit puts the text before the author's revision back | `~project.publishing` in `UnrevisedReworkIsRefused` |
| `store/checkpoints.go:70` | call `check_consistency` again; when it passes, go on (`tools/commit_chapter.go:507`) | A draft that returned to an earlier text passes its check and `Append` finds the old checkpoint: `LatestByStep` still names the text in between, and the gate stays closed | not stated |
| `tools/commit_chapter.go:501` | "Do not commit." (`tools/check_consistency.go:182`) | The gate reads the checkpoint of a passing check only; a later blocking check of the same text leaves it | not stated |
| `tools/writer_budget_recovery.go:50` | "their own durable cursor" (`store/checkpoints.go:144`) | A segment that was recorded for the same draft before is not appended again and the cursor stays: the host asks for it again and again while the draft does not change (`tools/edit_chapter.go:302`) | not stated |
| `store/checkpoints.go:92` | the cache is a mirror of the file (`store/checkpoints.go:21`) | A line whose sync failed is in the file and not in the cache; its sequence number is given out again | `LossIsBounded` instead |
| `store/io.go:150` | a truncated tail is tolerated (`store/checkpoints.go:194`) | The next record is appended to the torn line; it was answered, and every later process skips it | `LossIsBounded` instead |
| `store/io.go:195`, `:236` | locking and atomic writes (`store/io.go:13`) | The mutex belongs to an `IO`, and the web handlers open a `Store` per request (`entry/web/session.go:3436`). A reader with another `IO` sees no file between the two renames, or takes the replacement for an interrupted one and renames the backup over the text just written. | `SharedIO = TRUE` |

### The host

| code | promise | what happens | left out by |
|---|---|---|---|
| `host/host.go:1789`, `:1811` | "the resumed run cannot inherit a lease that waitDone is about to clear" (`host/host.go:1085`) | The goroutine of a finished run releases the run's ownership and sets the lifecycle to idle by what it finds when it gets there, which may be the next run's: that one loses its lease while it runs | `use.starts = 1` in `RunKeepsLease` |
| `host/host.go:4939` | the flag keeps start, resume and continue out of a co-create (`host/host.go:4931`) | While an automatic resume is in flight the lifecycle is idle; the co-create stops nothing, and the resume, which looked at the flag before, publishes its run | not stated; co-create and automatic resume are in separate uses |
| `host/host.go:876` | a manual pause is not resumed automatically (`host/host.go:1778`) | A confirmation sets the lifecycle to running before it prompts; the goroutine of the paused run takes the stop for an unexpected one and begins an automatic resume; the confirmation fails and restores paused, and the resume runs the book | no `"confirm"` in `PauseIsKept` |
| `host/host.go:1161` | "A normal-flow lease is itself the durable exclusion boundary" (`store/revision.go:461`) | When the handled steer cannot be cleared after the prompt, the resume returns an error and its deferred release drops the lease; nobody aborts the coordinator it prompted, or waits for it | `coord = "stray"` |
| `host/host.go:1787` | "Successful repair/auto-resume paths return above after handing ownership to the replacement run" (`host/host.go:1790`) | An automatic resume that completes the book in its gates (`:1076`) or finds nothing to resume (`:1126`) returns without an error and without a run. `waitDone` returns as well, the lifecycle stays idle, and the lease is kept by nobody until the next start | `LeftByResume` in `ComesToRest` |

### Scheduled resume

| code | promise | what happens | left out by |
|---|---|---|---|
| `entry/web/resume_scheduler.go:273`, `:407` | at each configured time of the configured wall clock a project is resumed once (`README.md:402`) | A completion is kept for 48 hours, and a day lasts from UTC+14 to UTC-12 for 50. The daily time 00:00 in Kiritimati: Sunday's is done on Saturday at 10:00 UTC; a batch that ends 48 hours after that, say Monday's, forgets it; when the zone is changed to UTC-12 before Monday 12:00 UTC, where it is Sunday still, the same occurrence is due and is run again | `Lost` in `OncePerLife` and `ResultsSurvive` |
| `entry/web/resume_scheduler.go:357` | several times a day; missed times are made up once when the program starts late or the machine wakes up (`README.md:402`) | `evaluate` reads the clock before a batch, `nextTrigger` after it, and `nextOccurrence` returns only times not before that. A time that passes while a batch runs (or the machine sleeps during one) is not due then and not next: it is made up at the next configured time of the same day, and lost if that is tomorrow's | `TimeOf(o, schedule) >= setAt` in `NothingSleptThrough` |
| `entry/web/resume_scheduler.go:157` | the same | When the projects cannot be listed once, or the settings read, `evaluate` fails, is logged, and the next trigger is the next configured time: `RetryDelay` is for a failing `nextTrigger` only | the same |
| `entry/web/resume_scheduler.go:314` | a retry delay of a minute (`:20`) | With a batch left the next trigger is now: while the projects cannot be listed `Run` spins | not stated |
| `entry/web/server.go:280` | "started" is the outcome of a project that was resumed | `ExecuteAutoResume` decides again and returns without an error when the project is no longer to be resumed (`entry/web/resume_decision.go:258`); the batch counts it as started | not modelled |

### Manuscript revisions

| code | promise | what happens | left out by |
|---|---|---|---|
| `host/manuscript_revision_service.go:576`, `:589`; `store/manuscript_revision_runtime.go:330` | a candidate is published only after an independent audit and a final approval by a person (`docs/manuscript-revision-architecture.md:31`); the save's certificate says that no AI decides (`host/manuscript_revision_service.go:607`) | A save is interrupted after its submission; another client has the chapter generated anew; the save is repeated. `Mutate` answers the submission from its receipt before it compares the revision's number, with the revision as it is now, and `publishExactAuthorSave` certifies as the author's own, and publishes, the generated text | `mistaken` in `PublishedWasApproved` |
| `store/manuscript_publication.go:135`, `:530` | "This journal is durable commit intent" (`:132`) | The write that marks the journal completed is done and reported as failed (`store/io.go:219`), so the files are rolled back; when the process ends before the journal is removed, the recovery finds it completed and finishes the index over the restored files | `"marked"` in `Undisturbed` |
| `store/manuscript_publication.go:580` | a prepared journal is rolled back, a completed one carried out (`docs/manuscript-revision-architecture.md:27`) | Recovery reads the journal before it asks for the transaction. A `Store` opened while another one publishes (`entry/web/manuscript_revision.go:30`) waits, and then rolls the finished publication back: the index says completed, the book has the old text | `Undisturbed` |
| `store/manuscript_publication.go:145` | "This journal is durable commit intent" (`:132`); no cancel once publication began (`host/manuscript_revision_service.go:2288`) | When the index write fails nothing is rolled back and no recovery error recorded; `Cancel` passes, and the next `Store` takes the number it counted for its own completion (`:212`): a cancelled revision whose text is in the book, with a receipt | `UntilCommit` |
| `store/manuscript_recovery.go:57` | `RequireManuscriptWriteReady` blocks every formal write until recovery is done (`docs/manuscript-revision-architecture.md:27`) | It looks for a recovery that failed in this `Store`, never for a journal. A `Store` open while a publisher died cancels the revision, the flow writes, and the next `Store` rolls the old publication back over it | `Undisturbed` |
| `store/manuscript_revision_runtime.go:310` | the flow is kept off while a revision is open (`store/manuscript_publication_test.go:82`) | Cancelling a cancelled revision again clears the active revision, whichever it is | `NothingLate` |
| `host/manuscript_revision_service.go:1230`, `:1406` | the same | Generating for a cancelled revision opens it again without making it the active one | `NothingLate` |
| `host/manuscript_revision_service.go:1243`, `:882` | the error asks for a confirmation | which is refused once the target was generated; the revision can only be cancelled | not stated |
| `host/manuscript_revision_service.go:559` | the same key with the same payload replays the same result (`docs/manuscript-revision-architecture.md:31`) | A save that was published answers its repetition with a drifted signature; one that was interrupted after its submission is never continued | not stated |

## 6. What is not modelled

- Of the ownership store: the two ways in for a foundation revision that generates its candidate
  (`foundationAdaptationCommandAllows`, `withFoundationPlanningMutation`), since no foundation session or command is modelled;
  the publication command of an adaptation, which is in `AdaptationCommand` only; an adaptation command whose key has
  its receipt is a claim and a release. `RestoreVersion` and `RebindPreviewAfterFeedback`, which no
  service calls by themselves, `DetachClonedNormalFlowLease` (for copies of a
  project), payloads and digests, receipts of expansion publications, and the
  execution of tool calls under a lease (`WithFence` validates and then runs outside
  the transaction).
- Of chapters: layered and adaptation books with their own completion, planning, the flows reviewing and steering, histories, the
  cast ledger, the facts a rework recreates after an outline revision deleted a chapter. Of the gates: `check_simulation`, which is bound
  to the draft the way `check_adaptation` is.
- Of files: `RemoveAllRel` and path checks; several stores on one checkpoint log (each has its own mirror).
- Of the host: `Close`, `ResumeFoundationRevision`, budget stops, observers and events; the router's planning routes.
- Of the scheduled resume: what is decided about a project (`resume_decision.go`), outcomes and summaries, the status page, daylight saving; one settings request at a time.
- Of manuscript revisions: the review tasks of the flow, the signing of evidence, the diff; the structure-migration publication of
  expansion plans; two requests of the server for one save at the same time. Keys of generating and auditing are fresh for each request, so that only
  a save meets its own receipt. Of adaptation commands: the batch plan, the second approval stage and journals of older versions. `"advance"` stands for
  the commands that write the runtime before the state: approving a stage, submitting a detailed outline, pausing, resuming, failing.
  A publication that is committed and returns an error all the same (`host/adaptation_revision_service.go:157`) is one of the journal of the
  expansion authority, which is not modelled; with it go `FinalizeCommittedPublication` in the recovery and the cancel inside a
  failing preview, which the rollback of the same command covers.
- Components with the status `not_modelled` in `PROJECT.json` are either planned (section 7) or out of reach: model
  calls, network clients, pure text functions and presentation have no state a model
  checker could say anything about. They are most of the repository's lines, which is why the
  models stand for a small part of them.

## 7. Plan

Done: `RevisionSession`, `RevisionStore`, `BookOwnership` with their proofs; `ChapterCommit`, `ManuscriptBook`; `FileReplace`; `CheckpointLog`;
`DraftGates`; `HostLifecycle`; `ManuscriptRevision`, `ManuscriptPublication`; `AdaptationCommand`; `ResumeScheduler`.

Proved: every safety invariant, action property and refinement the runs check (`StateLoads` under the hypothesis of section 4,
`ImplementsAtomicFile` under `SharedIO`). What is left to TLC is liveness.

To model: the structure migration and foundation journals, planning phases and the remaining routes of the router, web jobs,
provider failover, the continuation commit.

## 8. Running it

In this directory, for a run of `PROJECT.json` with module `M` and configuration
`C.cfg`: `tlc -workers 2 -config C.cfg M`. The proofs: `tlapm X_proofs.tla`. From nothing, `HostLifecycle_proofs`
takes eight and a half minutes, `RevisionStore_proofs` five, `ManuscriptRevision_proofs` four, `ManuscriptPublication_proofs` three and a half,
`AdaptationCommand_proofs` two and a half, `ChapterCommit_proofs` two, `ResumeScheduler_proofs` and `StoreAndGates_proofs` about half a minute. The longest run (`host_calls`) takes about
two and a half minutes on two cores.

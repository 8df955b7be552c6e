----------------------------- MODULE CheckpointLog -----------------------------
(* The checkpoint log of a project (store/checkpoints.go): lines appended to   *)
(* meta/checkpoints.jsonl (IO.AppendLineUnlocked) and their mirror in memory,  *)
(* which answers all queries and is read from the file when a store is opened. *)
(* The lines of one scope are modelled.                                        *)
EXTENDS Naturals, Sequences, FiniteSets, FiniteSetsExt, SequencesExt

CONSTANTS
  Steps, Digests, NoDigest,
  MaxLines,   \* bound: appends stop when the file has that many lines
  Disks,      \* the disks to look at: for each, what may go wrong on it
  MaxFaults   \* bound: so often

ASSUME LogAssumption ==
  /\ NoDigest \notin Digests /\ MaxLines \in Nat /\ MaxFaults \in Nat
  /\ Disks \subseteq SUBSET {"sync", "torn"}

VARIABLES
  disk,    \* one of Disks; it does not change
  lines,   \* of the file: checkpoints, or Torn for a line that does not parse
  ended,   \* the last line is terminated
  cache,   \* CheckpointStore.cache
  seqGen,  \* CheckpointStore.seqGen
  faults   \* history: how many appends failed

vars == <<disk, lines, ended, cache, seqGen, faults>>

Checkpoint == [seq : 1..(MaxLines + MaxFaults), step : Steps, digest : Digests \cup {NoDigest}]
Torn == [seq |-> 0, step |-> "none", digest |-> NoDigest]

TypeOK ==
  /\ disk \in Disks
  /\ lines \in Seq(Checkpoint \cup {Torn}) /\ ended \in BOOLEAN
  /\ cache \in Seq(Checkpoint)
  /\ seqGen \in 0..(MaxLines + MaxFaults) /\ faults \in 0..MaxFaults
  /\ \A i \in DOMAIN cache : cache[i].seq <= seqGen

Init ==
  /\ disk \in Disks
  /\ lines = <<>> /\ ended = TRUE /\ cache = <<>> /\ seqGen = 0 /\ faults = 0
--------------------------------------------------------------------------------
\* readCheckpointsFile reads line after line and skips those that do not parse.
Parsed(ls) ==
  LET kept[n \in 0..Len(ls)] ==
        IF n = 0 THEN <<>>
        ELSE IF ls[n] = Torn THEN kept[n - 1] ELSE Append(kept[n - 1], ls[n])
  IN  kept[Len(ls)]

\* f.Write appends to the last line when that has no end: two records on one
\* line do not parse, and neither does one with the rest of another before it.
Appended(l) == IF ended THEN Append(lines, l) ELSE [lines EXCEPT ![Len(lines)] = Torn]

Mut_Written(l) == lines' = Appended(l) /\ ended' = ended   \* the line does not end
Written(l) == lines' = Appended(l) /\ ended' = TRUE

Known(s, d) == d # NoDigest /\ \E i \in DOMAIN cache : cache[i].step = s /\ cache[i].digest = d

NewCheckpoint(s, d) == [seq |-> seqGen + 1, step |-> s, digest |-> d]

MayAppend(s, d) == ~Known(s, d) /\ Len(lines) < MaxLines

\* Append, answered with a checkpoint.
AppendCheckpoint(s, d) ==
  /\ MayAppend(s, d)
  /\ Written(NewCheckpoint(s, d))
  /\ cache' = Append(cache, NewCheckpoint(s, d))
  /\ seqGen' = seqGen + 1
  /\ UNCHANGED faults

\* The line is in the file, but the sync fails and the store does not know.
AppendUnsynced(s, d) ==
  /\ "sync" \in disk /\ faults < MaxFaults
  /\ MayAppend(s, d)
  /\ Written(NewCheckpoint(s, d))
  /\ faults' = faults + 1
  /\ UNCHANGED <<cache, seqGen>>

\* Only a part of the line is written: it may lack nothing but its end, and
\* then parses.
AppendTorn(s, d) ==
  /\ "torn" \in disk /\ faults < MaxFaults
  /\ MayAppend(s, d)
  /\ \E l \in {Torn, NewCheckpoint(s, d)} : lines' = Appended(l)
  /\ ended' = FALSE
  /\ faults' = faults + 1
  /\ UNCHANGED <<cache, seqGen>>

MaxSeqOf(ls) == IF ls = <<>> THEN 0 ELSE Max({ls[i].seq : i \in DOMAIN ls})

\* loadFromDisk, when a store is opened after its process ended.
Mut_Reopen ==   \* without the order of the file
  /\ cache' = Reverse(Parsed(lines))
  /\ seqGen' = MaxSeqOf(Parsed(lines))
  /\ UNCHANGED <<lines, ended, faults>>

Reopen ==
  /\ cache' = Parsed(lines)
  /\ seqGen' = MaxSeqOf(Parsed(lines))
  /\ UNCHANGED <<lines, ended, faults>>

\* The process ends between the write and the update of the mirror.
AppendAndReopen(s, d) ==
  /\ MayAppend(s, d)
  /\ Written(NewCheckpoint(s, d))
  /\ cache' = Parsed(lines')
  /\ seqGen' = MaxSeqOf(Parsed(lines'))
  /\ UNCHANGED faults

Reset ==
  /\ lines' = <<>> /\ ended' = TRUE
  /\ cache' = <<>> /\ seqGen' = 0
  /\ UNCHANGED faults

Next ==
  /\ UNCHANGED disk
  /\ \/ \E s \in Steps, d \in Digests \cup {NoDigest} :
          \/ AppendCheckpoint(s, d) \/ AppendUnsynced(s, d)
          \/ AppendTorn(s, d) \/ AppendAndReopen(s, d)
     \/ Reopen
     \/ Reset

Spec == Init /\ [][Next]_vars
--------------------------------------------------------------------------------
NoAnswer == [step |-> "none", digest |-> NoDigest]
LastIndex(s) == SelectLastInSeq(cache, LAMBDA c : c.step = s)

\* What the log answers on a disk that does not fail; on another one, nothing is
\* said of it here.
Answers ==
  IF disk # {}
  THEN [known |-> {}, latestBy |-> [s \in Steps |-> NoDigest], latest |-> NoAnswer]
  ELSE [known |-> {<<cache[i].step, cache[i].digest>> : i \in DOMAIN cache},
        latestBy |-> [s \in Steps |->
          IF LastIndex(s) = 0 THEN NoDigest ELSE cache[LastIndex(s)].digest],
        latest |-> IF cache = <<>> THEN NoAnswer
                   ELSE [step |-> Last(cache).step, digest |-> Last(cache).digest]]

Book == INSTANCE CheckpointBook WITH
  known <- Answers.known, latestBy <- Answers.latestBy, latest <- Answers.latest

\* Where appends do not fail, what the mirror answers is what was recorded, in its
\* order, and stays so when the process ends and a new one reads the file
\* (loadFromDisk, checkpoints.go:43).
ImplementsCheckpointBook == Book!BookSpec

\* However appends fail, each failure costs a later reader at most two of the
\* checkpoints that were answered: the one glued to its line and, when that line
\* lacked only its end and was read by a reopened store, its own (io.go:141).
Lost == {i \in DOMAIN cache : cache[i] \notin {lines[j] : j \in DOMAIN lines}}
LossIsBounded == Cardinality(Lost) <= 2 * faults

===============================================================================

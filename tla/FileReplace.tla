------------------------------ MODULE FileReplace ------------------------------
(* One file of a project and the threads that read, replace and remove it      *)
(* through store.IO (store/io.go), one system call per step. A replacement     *)
(* renames the old file to a backup, the new one into place, and removes the   *)
(* backup; whoever opens the file next repairs what an interrupted replacement *)
(* left. The lock that orders them belongs to an IO, and every Store has its   *)
(* own: SharedIO says whether all threads use one.                             *)
CONSTANTS
  Threads,   \* goroutines that use the file
  Values,     \* versions of its content
  Absent,    \* no such file
  SharedIO   \* one IO for all threads, or one for each

ASSUME FileAssumption == Absent \notin Values /\ SharedIO \in BOOLEAN

VARIABLES
  target,    \* content under the file's name
  backup,    \* content under the name with .replace-backup
  temp,      \* threads whose temporary file is on disk
  op,        \* per thread: the call it is in
  pc,        \* per thread: the next system call of that call
  backedUp,  \* per thread: replaceFile renamed the old file
  res        \* per thread: the answer of its call once it is known

filevars == <<target, backup, temp, op, pc, backedUp, res>>
names == <<target, backup, temp>>

Versions == Values \cup {Absent}
ReadCall     == [kind |-> "read", text |-> Absent]
RemoveCall   == [kind |-> "remove", text |-> Absent]
WriteCall(v) == [kind |-> "write", text |-> v]
NoCall       == [kind |-> "none", text |-> Absent]
Calls        == {ReadCall, RemoveCall} \cup {WriteCall(v) : v \in Values}

Pending == [known |-> FALSE, ok |-> FALSE, saw |-> Absent]
Ok(v)   == [known |-> TRUE, ok |-> TRUE, saw |-> v]
Failed  == [known |-> TRUE, ok |-> FALSE, saw |-> Absent]

\* The content of the file: between the two renames it is the backup.
Contents == IF target # Absent THEN target ELSE backup

FileTypeOK ==
  /\ target \in Versions /\ backup \in Versions
  /\ temp \subseteq {t \in Threads : op[t].kind = "write"}
  /\ op \in [Threads -> Calls \cup {NoCall}]
  /\ pc \in [Threads -> {"idle", "statBackup", "statTarget", "restore", "dropBackup",
       "read", "statOld", "backUp", "install", "undo", "cleanUp",
       "dropState", "removeTarget", "return"}]
  /\ \A t \in Threads : pc[t] = "idle" <=> op[t] = NoCall
  /\ backedUp \in [Threads -> BOOLEAN]
  /\ res \in [Threads -> {Pending, Failed} \cup {Ok(v) : v \in Versions}]
  /\ \A t \in Threads : res[t] # Pending <=> pc[t] \in {"undo", "return"}

FileInit ==
  /\ target \in Versions /\ backup = Absent /\ temp = {}
  /\ op = [t \in Threads |-> NoCall]
  /\ pc = [t \in Threads |-> "idle"]
  /\ backedUp = [t \in Threads |-> FALSE]
  /\ res = [t \in Threads |-> Pending]
--------------------------------------------------------------------------------
SameIO(t, u) == SharedIO \/ t = u

\* io.mu: a writer is alone, readers share.
Admitted(t, c) ==
  \A u \in Threads : SameIO(t, u) /\ op[u] # NoCall => c = ReadCall /\ op[u] = ReadCall

Goto(t, l) == pc' = [pc EXCEPT ![t] = l]
Finish(t, r) == Goto(t, "return") /\ res' = [res EXCEPT ![t] = r]

\* A system call that fails before it changed anything ends the call with an error.
Fails(t) == Finish(t, Failed) /\ UNCHANGED <<names, op, backedUp>>

\* ReadFile, WriteFile, RemoveFile: take the lock; a write first puts its text
\* into a temporary file, whose failure leaves nothing behind.
Begin(t) ==
  /\ pc[t] = "idle"
  /\ \E c \in Calls :
       /\ Admitted(t, c)
       /\ op' = [op EXCEPT ![t] = c]
       /\ temp' = IF c.kind = "write" THEN temp \cup {t} ELSE temp
       /\ Goto(t, IF c = RemoveCall THEN "dropState" ELSE "statBackup")
  /\ UNCHANGED <<target, backup, backedUp, res>>

\* The part a read and a write have in common: recoverInterruptedReplacement.
AfterRecovery(t) == IF op[t] = ReadCall THEN "read" ELSE "statOld"

StatBackup(t) ==
  /\ pc[t] = "statBackup"
  /\ Goto(t, IF backup = Absent THEN AfterRecovery(t) ELSE "statTarget")
  /\ UNCHANGED <<names, op, backedUp, res>>

Mut_StatTarget(t) ==   \* takes a finished replacement for an interrupted one
  /\ pc[t] = "statTarget"
  /\ Goto(t, "restore")
  /\ UNCHANGED <<names, op, backedUp, res>>

StatTarget(t) ==
  /\ pc[t] = "statTarget"
  /\ Goto(t, IF target = Absent THEN "restore" ELSE "dropBackup")
  /\ UNCHANGED <<names, op, backedUp, res>>

\* A rename replaces what has the new name; without a source it fails.
Restore(t) ==
  /\ pc[t] = "restore"
  /\ \/ /\ backup # Absent
        /\ target' = backup /\ backup' = Absent
        /\ Goto(t, AfterRecovery(t))
        /\ UNCHANGED <<temp, op, backedUp, res>>
     \/ Fails(t)

DropBackup(t) ==
  /\ pc[t] = "dropBackup"
  /\ \/ /\ backup' = Absent
        /\ Goto(t, AfterRecovery(t))
        /\ UNCHANGED <<target, temp, op, backedUp, res>>
     \/ Fails(t)

ReadTarget(t) ==
  /\ pc[t] = "read"
  /\ \/ Finish(t, Ok(target)) /\ UNCHANGED <<names, op, backedUp>>
     \/ Fails(t)
--------------------------------------------------------------------------------
(* replaceFile                                                                 *)

StatOld(t) ==
  /\ pc[t] = "statOld"
  /\ Goto(t, IF target = Absent THEN "install" ELSE "backUp")
  /\ UNCHANGED <<names, op, backedUp, res>>

BackUp(t) ==
  /\ pc[t] = "backUp"
  /\ \/ /\ target # Absent
        /\ backup' = target /\ target' = Absent
        /\ backedUp' = [backedUp EXCEPT ![t] = TRUE]
        /\ Goto(t, "install")
        /\ UNCHANGED <<temp, op, res>>
     \/ Fails(t)

Install(t) ==
  /\ pc[t] = "install"
  /\ \/ /\ t \in temp
        /\ target' = op[t].text /\ temp' = temp \ {t}
        /\ Goto(t, "cleanUp")
        /\ UNCHANGED <<backup, op, backedUp, res>>
     \/ /\ Goto(t, IF backedUp[t] THEN "undo" ELSE "return")
        /\ res' = [res EXCEPT ![t] = Failed]
        /\ UNCHANGED <<names, op, backedUp>>

\* The rename back may fail too; nobody hears of that.
Undo(t) ==
  /\ pc[t] = "undo"
  /\ \/ backup # Absent /\ target' = backup /\ backup' = Absent
     \/ UNCHANGED <<target, backup>>
  /\ Goto(t, "return")
  /\ UNCHANGED <<temp, op, backedUp, res>>

\* That the backup cannot be removed is an error, although the text is in place.
CleanUp(t) ==
  /\ pc[t] = "cleanUp"
  /\ \/ /\ backup' = Absent
        /\ Finish(t, Ok(op[t].text))
        /\ UNCHANGED <<target, temp, op, backedUp>>
     \/ Fails(t)
--------------------------------------------------------------------------------
(* RemoveFile                                                                  *)

\* removeInterruptedReplacementState: the backup, and every temporary file of
\* the name, whoever is writing it.
DropState(t) ==
  /\ pc[t] = "dropState"
  /\ \/ /\ backup' = Absent
        /\ \/ temp' = {} /\ Goto(t, "removeTarget") /\ UNCHANGED res
           \/ UNCHANGED temp /\ Finish(t, Failed)
        /\ UNCHANGED <<target, op, backedUp>>
     \/ Fails(t)

RemoveTarget(t) ==
  /\ pc[t] = "removeTarget"
  /\ \/ /\ target' = Absent
        /\ Finish(t, Ok(Absent))
        /\ UNCHANGED <<backup, temp, op, backedUp>>
     \/ Fails(t)
--------------------------------------------------------------------------------
\* The deferred removal of the temporary file, and the lock.
Return(t) ==
  /\ pc[t] = "return"
  /\ temp' = temp \ {t}
  /\ op' = [op EXCEPT ![t] = NoCall]
  /\ Goto(t, "idle")
  /\ backedUp' = [backedUp EXCEPT ![t] = FALSE]
  /\ res' = [res EXCEPT ![t] = Pending]
  /\ UNCHANGED <<target, backup>>

\* The process ends. Its temporary files stay, and nobody ever looks at them.
Die ==
  /\ temp' = {}
  /\ op' = [t \in Threads |-> NoCall]
  /\ pc' = [t \in Threads |-> "idle"]
  /\ backedUp' = [t \in Threads |-> FALSE]
  /\ res' = [t \in Threads |-> Pending]
  /\ UNCHANGED <<target, backup>>

Step(t) ==
  \/ Begin(t) \/ StatBackup(t) \/ StatTarget(t) \/ Restore(t) \/ DropBackup(t) \/ ReadTarget(t)
  \/ StatOld(t) \/ BackUp(t) \/ Install(t) \/ Undo(t) \/ CleanUp(t)
  \/ DropState(t) \/ RemoveTarget(t) \/ Return(t)

FileNext == (\E t \in Threads : Step(t)) \/ Die

FileSpec == FileInit /\ [][FileNext]_filevars
--------------------------------------------------------------------------------
(* Properties                                                                  *)

\* A call has taken effect and is not yet answered: a write when its text is in
\* place, a removal when nothing is left under either name.
TookEffect(t) ==
  \/ op[t].kind = "write" /\ pc[t] = "cleanUp"
  \/ op[t].kind = "remove" /\ pc[t] = "removeTarget" /\ target = Absent

File == INSTANCE AtomicFile WITH
  value <- Contents,
  done  <- [t \in Threads |-> [happened |-> TookEffect(t),
              saw |-> IF TookEffect(t) THEN op[t].text ELSE Absent]]

\* For the threads of one IO the file is a register: through every error and every
\* end of the process between two renames, a reader sees a whole version, and a
\* text whose write was answered stays until the next one.
ImplementsAtomicFile == File!Spec
===============================================================================

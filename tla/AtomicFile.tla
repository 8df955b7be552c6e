------------------------------ MODULE AtomicFile ------------------------------
(* What a caller of store.IO is promised about one file: the file is a         *)
(* register. A write or a removal answered without an error happened once,     *)
(* between its call and its answer; one answered with an error, or cut off by  *)
(* the end of the process, happened once or not at all; a read answers with    *)
(* the value of one moment between its call and its answer, or with an error.  *)
CONSTANTS Threads, Values, Absent

VARIABLES
  value,   \* what the file holds, Absent if it does not exist
  op,      \* per thread: the call in progress
  done,    \* per thread: that call took effect, and what it saw or left
  res      \* per thread: what it is answered

avars == <<value, op, done, res>>

ReadCall     == [kind |-> "read", text |-> Absent]
RemoveCall   == [kind |-> "remove", text |-> Absent]
WriteCall(v) == [kind |-> "write", text |-> v]
NoCall       == [kind |-> "none", text |-> Absent]
Calls        == {ReadCall, RemoveCall} \cup {WriteCall(v) : v \in Values}

NotYet  == [happened |-> FALSE, saw |-> Absent]
Done(v) == [happened |-> TRUE, saw |-> v]

Pending == [known |-> FALSE, ok |-> FALSE, saw |-> Absent]
Ok(v)   == [known |-> TRUE, ok |-> TRUE, saw |-> v]
Failed  == [known |-> TRUE, ok |-> FALSE, saw |-> Absent]

Init ==
  /\ value \in Values \cup {Absent}
  /\ op = [t \in Threads |-> NoCall]
  /\ done = [t \in Threads |-> NotYet]
  /\ res = [t \in Threads |-> Pending]

Call(t) ==
  /\ op[t] = NoCall
  /\ \E c \in Calls : op' = [op EXCEPT ![t] = c]
  /\ UNCHANGED <<value, done, res>>

\* The call takes effect, and may be answered at once.
Happen(t) ==
  /\ op[t] # NoCall /\ res[t] = Pending /\ ~done[t].happened
  /\ value' = IF op[t] = ReadCall THEN value ELSE op[t].text
  /\ \/ done' = [done EXCEPT ![t] = Done(value')] /\ UNCHANGED res
     \/ \E r \in {Ok(value'), Failed} : res' = [res EXCEPT ![t] = r] /\ UNCHANGED done
  /\ UNCHANGED op

\* An error may be answered at any time, success only for what happened.
Answer(t) ==
  /\ op[t] # NoCall /\ res[t] = Pending
  /\ \/ res' = [res EXCEPT ![t] = Failed]
     \/ done[t].happened /\ res' = [res EXCEPT ![t] = Ok(done[t].saw)]
  /\ done' = [done EXCEPT ![t] = NotYet]
  /\ UNCHANGED <<value, op>>

Return(t) ==
  /\ res[t] # Pending
  /\ op' = [op EXCEPT ![t] = NoCall]
  /\ res' = [res EXCEPT ![t] = Pending]
  /\ UNCHANGED <<value, done>>

Die ==
  /\ op' = [t \in Threads |-> NoCall]
  /\ done' = [t \in Threads |-> NotYet]
  /\ res' = [t \in Threads |-> Pending]
  /\ UNCHANGED value

Next ==
  \/ \E t \in Threads : Call(t) \/ Happen(t) \/ Answer(t) \/ Return(t)
  \/ Die

Spec == Init /\ [][Next]_avars
===============================================================================

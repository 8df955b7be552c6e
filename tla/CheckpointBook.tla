----------------------------- MODULE CheckpointBook -----------------------------
(* What users of the checkpoint log ask of it: whether a step was recorded for *)
(* a digest, the digest a step was last recorded for, and the last record.     *)
(* Recording the same step for the same digest again changes nothing, even     *)
(* when the step was recorded for another digest in between                    *)
(* (store/checkpoints.go, CheckpointStore.Append).                             *)
CONSTANTS
  Steps,     \* steps of one scope: "draft", "consistency_check", "commit", ...
  Digests,   \* digests of artifacts
  NoDigest   \* a step without an artifact, and a step that was never recorded

VARIABLES
  known,     \* pairs of step and digest that were recorded
  latestBy,  \* per step: the digest it was last recorded for
  latest     \* the last record: its step and its digest

bookvars == <<known, latestBy, latest>>

NoRecord == [step |-> "none", digest |-> NoDigest]

BookInit ==
  /\ known = {}
  /\ latestBy = [s \in Steps |-> NoDigest]
  /\ latest = NoRecord

Record(s, d) ==
  IF d # NoDigest /\ <<s, d>> \in known
  THEN UNCHANGED <<known, latestBy, latest>>
  ELSE /\ known' = known \cup {<<s, d>>}
       /\ latestBy' = [latestBy EXCEPT ![s] = d]
       /\ latest' = [step |-> s, digest |-> d]

Wipe ==
  /\ known' = {}
  /\ latestBy' = [s \in Steps |-> NoDigest]
  /\ latest' = NoRecord

BookNext == (\E s \in Steps, d \in Digests \cup {NoDigest} : Record(s, d)) \/ Wipe

BookSpec == BookInit /\ [][BookNext]_bookvars
===============================================================================

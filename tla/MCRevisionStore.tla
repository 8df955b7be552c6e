--------------------------- MODULE MCRevisionStore ---------------------------
EXTENDS RevisionStore, TLC
CONSTANTS k2
Symmetry == Permutations(Procs)

\* Two parts of the state space: one session with many commands, and many
\* owners with few commands. The counters they bound never go down.
OneLongSession ==
  /\ st.nextSession <= 1 /\ st.startKey[1] # k2
  /\ st.lease = None /\ st.pub = None /\ st.fence = None /\ ~manuscript
  /\ own = [p \in Procs |-> None]
ManyOwners ==
  st.nextVersion <= 1 /\ \A i \in Sessions : st.sess[i] # None => st.sess[i].revision <= 3
LongOrMany == OneLongSession \/ ManyOwners
=============================================================================

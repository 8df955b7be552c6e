-------------------------- MODULE StoreAndGates_proofs --------------------------
(* Proofs about what the tools of a project rest on: the checkpoint log         *)
(* (CheckpointLog), one of its files (FileReplace), and the gates of            *)
(* commit_chapter, which believe the log (DraftGates). The three do not share   *)
(* a step: each has its own variables, its own Spec and its own theorems.       *)
EXTENDS CheckpointLog, FileReplace, DraftGates, FiniteSetTheorems, WellFoundedInduction, TLAPS
--------------------------------------------------------------------------------
(* CheckpointLog: what readCheckpointsFile returns. The provers here can use no *)
(* induction rule, so what holds of every prefix is proved of the least one for *)
(* which it does not.                                                           *)

\* A set of natural numbers that is not empty has a least element.
LEMMA LeastNatural ==
  ASSUME NEW S \in SUBSET Nat, S # {}
  PROVE  \E x \in S : \A y \in S : x <= y
<1> DEFINE R == {ss \in Nat \X Nat : ss[1] < ss[2]}
<1>1. IsWellFoundedOn(R, Nat)
  BY NatLessThanWellFounded DEF OpToRel
<1> HIDE DEF R
<1>2. PICK x \in S : \A y \in S : ~(<<y, x>> \in R)
  BY <1>1, WFMin
<1>3. ASSUME NEW y \in S PROVE x <= y
  <2>1. ~(<<y, x>> \in R)
    BY <1>2
  <2>2. x \in Nat /\ y \in Nat
    OBVIOUS
  <2>3. ~(y < x)
    BY <2>1, <2>2 DEF R
  <2> QED
    BY <2>2, <2>3
<1> QED
  BY <1>3

Lines == Checkpoint \cup {Torn}

\* The lines kept of the first n, for every n up to m, as a function of what was
\* kept before.
Loop(ls, m, k) ==
  [n \in 0..m |-> IF n = 0 THEN <<>> ELSE IF ls[n] = Torn THEN k[n - 1] ELSE Append(k[n - 1], ls[n])]

LEMMA LoopExists ==
  ASSUME NEW ls, NEW m \in Nat
  PROVE  \E k : k = Loop(ls, m, k)
<1> DEFINE Bad == {n \in Nat : ~ \E k : k = Loop(ls, n, k)}
<1> SUFFICES ASSUME Bad # {} PROVE FALSE
  OBVIOUS
<1>1. PICK n \in Bad : \A y \in Bad : n <= y
  BY LeastNatural
<1>2. n \in Nat /\ ~ \E k : k = Loop(ls, n, k)
  BY DEF Bad
<1>3. CASE n = 0
  <2> DEFINE k == [i \in 0..0 |-> <<>>]
  <2>1. k = Loop(ls, 0, k)
    BY DEF Loop
  <2> QED
    BY <1>2, <1>3, <2>1
<1>4. CASE n # 0
  <2>1. n - 1 \in Nat /\ n - 1 \notin Bad
    BY <1>1, <1>2, <1>4
  <2>2. PICK h : h = Loop(ls, n - 1, h)
    BY <2>1
  <2> DEFINE v == IF ls[n] = Torn THEN h[n - 1] ELSE Append(h[n - 1], ls[n])
             k == [i \in 0..n |-> IF i = n THEN v ELSE h[i]]
  <2>3. ASSUME NEW i \in 0..n
        PROVE  k[i] = IF i = 0 THEN <<>> ELSE IF ls[i] = Torn THEN k[i - 1] ELSE Append(k[i - 1], ls[i])
    <3>1. CASE i = n
      BY <1>2, <1>4, <3>1
    <3>2. CASE i # n
      <4>1. i \in 0..(n - 1)
        BY <1>2, <3>2
      <4>2. h[i] = IF i = 0 THEN <<>> ELSE IF ls[i] = Torn THEN h[i - 1] ELSE Append(h[i - 1], ls[i])
        BY <2>2, <4>1 DEF Loop
      <4>3. k[i] = h[i] /\ (i # 0 => k[i - 1] = h[i - 1])
        BY <1>2, <3>2, <4>1
      <4> QED
        BY <4>2, <4>3
    <3> QED
      BY <3>1, <3>2
  <2>4. k = [i \in 0..n |-> k[i]]
    OBVIOUS
  <2> HIDE DEF k
  <2>5. k = Loop(ls, n, k)
    BY <2>3, <2>4 DEF Loop
  <2> QED
    BY <1>2, <2>5
<1> QED
  BY <1>3, <1>4

\* What is known of the lines kept of the first n of them.
KeptOf(ls, s, n) ==
  /\ s \in Seq(Checkpoint)
  /\ \E p \in [1..Len(s) -> 1..n] :
       /\ \A i \in 1..Len(s) : s[i] = ls[p[i]]
       /\ \A i, j \in 1..Len(s) : i # j => p[i] # p[j]
  /\ (\A i \in 1..n : ls[i] # Torn) => Len(s) = n /\ \A i \in 1..n : s[i] = ls[i]

LEMMA ParsedKeeps ==
  ASSUME NEW ls \in Seq(Lines)
  PROVE  KeptOf(ls, Parsed(ls), Len(ls))
<1> DEFINE m == Len(ls)
<1>1. m \in Nat /\ ls \in [1..m -> Lines]
  OBVIOUS
<1>2. PICK k : k = Loop(ls, m, k) /\ Parsed(ls) = k[m]
  <2>1. Parsed(ls) = (CHOOSE k : k = Loop(ls, m, k))[m]
    BY DEF Parsed, Loop
  <2> QED
    BY <1>1, <2>1, LoopExists
<1> HIDE DEF m
<1> DEFINE line(n) == IF ls[n] = Torn THEN k[n - 1] ELSE Append(k[n - 1], ls[n])
<1>3. \A n \in 0..m : k[n] = IF n = 0 THEN <<>> ELSE line(n)
  <2>1. k = [n \in 0..m |-> IF n = 0 THEN <<>> ELSE line(n)]
    BY <1>2 DEF Loop
  <2> HIDE DEF line
  <2> QED
    BY <2>1
<1>4. k[0] = <<>> /\ \A n \in 1..m : k[n] = line(n)
  <2> HIDE DEF line
  <2> QED
    BY <1>1, <1>3
<1> DEFINE Bad == {n \in 0..m : ~KeptOf(ls, k[n], n)}
<1>5. CASE Bad = {}
  BY <1>1, <1>2, <1>5 DEF m
<1>6. CASE Bad # {}
  <2>1. PICK n \in Bad : \A y \in Bad : n <= y
    <3>1. Bad \in SUBSET Nat
      BY <1>1
    <3> HIDE DEF Bad
    <3> QED
      BY <1>6, <3>1, LeastNatural
  <2>2. n \in 0..m /\ ~KeptOf(ls, k[n], n)
    BY DEF Bad
  <2>3. CASE n = 0
    <3>1. k[n] \in Seq(Checkpoint) /\ Len(k[n]) = 0
      <4>1. k[n] = <<>>
        BY <1>4, <2>3
      <4> QED
        BY <4>1
    <3>2. <<>> \in [1..0 -> 1..0]
      OBVIOUS
    <3> QED
      BY <2>2, <2>3, <3>1, <3>2 DEF KeptOf
  <2>4. CASE n # 0
    <3> DEFINE s == k[n - 1]
    <3>1. n - 1 \in 0..m /\ n \in 1..m /\ KeptOf(ls, s, n - 1)
      BY <1>1, <2>1, <2>2, <2>4
    <3> HIDE DEF s
    <3>2. PICK p \in [1..Len(s) -> 1..(n - 1)] :
             /\ \A i \in 1..Len(s) : s[i] = ls[p[i]]
             /\ \A i, j \in 1..Len(s) : i # j => p[i] # p[j]
      BY <3>1 DEF KeptOf
    <3>3. s \in Seq(Checkpoint) /\ Len(s) \in Nat
      BY <3>1 DEF KeptOf
    <3>4. (\A i \in 1..(n - 1) : ls[i] # Torn) => Len(s) = n - 1 /\ \A i \in 1..(n - 1) : s[i] = ls[i]
      BY <3>1 DEF KeptOf
    <3>5. CASE ls[n] = Torn
      <4>1. k[n] = s
        BY <1>4, <3>1, <3>5 DEF s
      <4>2. p \in [1..Len(s) -> 1..n]
        BY <1>1, <3>1
      <4>3. \E r \in [1..Len(s) -> 1..n] :
              /\ \A i \in 1..Len(s) : s[i] = ls[r[i]]
              /\ \A i, j \in 1..Len(s) : i # j => r[i] # r[j]
        BY <3>2, <4>2
      <4>4. ~ \A i \in 1..n : ls[i] # Torn
        BY <1>1, <3>1, <3>5
      <4>5. KeptOf(ls, s, n)
        BY <3>3, <4>3, <4>4 DEF KeptOf
      <4> QED
        BY <2>2, <4>1, <4>5
    <3>6. CASE ls[n] # Torn
      <4> DEFINE t == Append(s, ls[n])
                 q == [i \in 1..(Len(s) + 1) |-> IF i = Len(s) + 1 THEN n ELSE p[i]]
      <4>1. k[n] = t
        BY <1>4, <3>1, <3>6 DEF s
      <4>2. ls[n] \in Checkpoint
        BY <1>1, <3>1, <3>6 DEF Lines
      <4>3. /\ t \in Seq(Checkpoint) /\ Len(t) = Len(s) + 1
            /\ \A i \in 1..Len(s) : t[i] = s[i]
            /\ t[Len(s) + 1] = ls[n]
        BY <3>3, <4>2
      <4>4. q \in [1..Len(t) -> 1..n]
        BY <1>1, <3>1, <3>3, <4>3
      <4> HIDE DEF t
      <4>5. \A i \in 1..Len(t) : t[i] = ls[q[i]]
        BY <3>2, <3>3, <4>3
      <4>6. \A i, j \in 1..Len(t) : i # j => q[i] # q[j]
        <5>1. ASSUME NEW i \in 1..Len(t), NEW j \in 1..Len(t), i # j PROVE q[i] # q[j]
          <6>1. \A l \in 1..Len(s) : q[l] = p[l] /\ p[l] \in 1..(n - 1)
            <7>1. ASSUME NEW l \in 1..Len(s) PROVE l \in 1..(Len(s) + 1) /\ l # Len(s) + 1
              BY <3>3, <7>1
            <7>2. ASSUME NEW l \in 1..Len(s) PROVE q[l] = p[l]
              BY <7>1
            <7> QED
              BY <7>2
          <6>2. q[Len(s) + 1] = n /\ n \notin 1..(n - 1)
            BY <1>1, <3>1, <3>3
          <6> HIDE DEF q
          <6>3. i \in 1..Len(s) \/ i = Len(s) + 1
            BY <3>3, <4>3
          <6>4. j \in 1..Len(s) \/ j = Len(s) + 1
            BY <3>3, <4>3
          <6> QED
            BY <3>2, <5>1, <6>1, <6>2, <6>3, <6>4
        <5> QED
          BY <5>1
      <4> HIDE DEF q
      <4>7. (\A i \in 1..n : ls[i] # Torn) => Len(t) = n /\ \A i \in 1..n : t[i] = ls[i]
        BY <1>1, <3>1, <3>3, <3>4, <4>3
      <4>8. KeptOf(ls, t, n)
        BY <4>3, <4>4, <4>5, <4>6, <4>7 DEF KeptOf
      <4> QED
        BY <2>2, <4>1, <4>8
    <3> QED
      BY <3>5, <3>6
  <2> QED
    BY <2>3, <2>4
<1> QED
  BY <1>5, <1>6

LEMMA MaxOfBounded ==
  ASSUME NEW S \in SUBSET Nat, S # {}, NEW b \in Nat, \A y \in S : y <= b
  PROVE  Max(S) \in S /\ \A y \in S : Max(S) >= y
<1> DEFINE U == {u \in Nat : \A y \in S : y <= u}
<1>1. PICK u \in U : \A w \in U : u <= w
  <2>1. U \in SUBSET Nat /\ b \in U
    OBVIOUS
  <2> HIDE DEF U
  <2> QED
    BY <2>1, LeastNatural
<1>2. u \in Nat /\ \A y \in S : y <= u
  BY DEF U
<1>3. u \in S
  <2> SUFFICES ASSUME u \notin S PROVE FALSE
    OBVIOUS
  <2>1. \A y \in S : y < u
    BY <1>2
  <2>2. u - 1 \in Nat /\ \A y \in S : y <= u - 1
    <3>1. PICK z \in S : TRUE
      OBVIOUS
    <3>2. z \in Nat /\ z < u
      BY <2>1
    <3> QED
      BY <1>2, <2>1, <3>2
  <2>3. u - 1 \in U
    BY <2>2
  <2> HIDE DEF U
  <2> QED
    BY <1>1, <1>2, <2>3
<1>4. \E x \in S : \A y \in S : x >= y
  BY <1>2, <1>3
<1> QED
  BY <1>4 DEF Max

LEMMA CheckpointSeq == \A c \in Checkpoint : c.seq \in Nat
<1>1. ASSUME NEW c \in Checkpoint PROVE c.seq \in Nat
  <2>1. c.seq \in 1..(MaxLines + MaxFaults)
    BY DEF Checkpoint
  <2> QED
    BY <2>1
<1> QED
  BY <1>1

LEMMA LineSeq == \A c \in Lines : c.seq \in Nat
BY CheckpointSeq DEF Lines, Torn

LEMMA MaxSeqOfParsed ==
  ASSUME NEW ls \in Seq(Lines), NEW b \in Nat, \A j \in DOMAIN ls : ls[j].seq <= b
  PROVE  /\ MaxSeqOf(Parsed(ls)) \in 0..b
         /\ \A i \in DOMAIN Parsed(ls) : Parsed(ls)[i].seq <= MaxSeqOf(Parsed(ls))
<1> PICK s : s = Parsed(ls)
  OBVIOUS
<1>1. s \in Seq(Checkpoint)
  BY ParsedKeeps DEF KeptOf
<1>2. \A i \in 1..Len(s) : s[i].seq \in Nat /\ s[i].seq <= b
  <2>1. PICK p \in [1..Len(s) -> 1..Len(ls)] : \A i \in 1..Len(s) : s[i] = ls[p[i]]
    BY ParsedKeeps DEF KeptOf
  <2>2. ASSUME NEW i \in 1..Len(s) PROVE s[i].seq \in Nat /\ s[i].seq <= b
    <3>1. s[i] \in Checkpoint /\ p[i] \in DOMAIN ls /\ s[i] = ls[p[i]]
      BY <1>1, <2>1
    <3>2. s[i].seq \in 1..(MaxLines + MaxFaults)
      BY <3>1 DEF Checkpoint
    <3>3. s[i].seq <= b
      BY <3>1
    <3> QED
      BY <3>2, <3>3, LogAssumption
  <2> QED
    BY <2>2
<1>3. CASE s = <<>>
  BY <1>3 DEF MaxSeqOf
<1>4. CASE s # <<>>
  <2> DEFINE S == {s[i].seq : i \in DOMAIN s}
  <2>1. DOMAIN s = 1..Len(s) /\ 1 \in DOMAIN s
    BY <1>1, <1>4
  <2>2. S \in SUBSET Nat /\ S # {} /\ \A y \in S : y <= b
    BY <1>2, <2>1
  <2>3. MaxSeqOf(s) = Max(S)
    BY <1>4 DEF MaxSeqOf
  <2>4. \A i \in DOMAIN s : s[i].seq \in S
    OBVIOUS
  <2> HIDE DEF S
  <2>5. Max(S) \in S /\ \A y \in S : Max(S) >= y
    BY <2>2, MaxOfBounded
  <2> PICK x : x = Max(S)
    OBVIOUS
  <2>6. x \in Nat /\ x <= b
    BY <2>2, <2>5
  <2>7. \A i \in DOMAIN s : s[i].seq \in Nat /\ x >= s[i].seq
    BY <2>2, <2>4, <2>5
  <2> QED
    BY <2>3, <2>6, <2>7
<1> QED
  BY <1>3, <1>4

--------------------------------------------------------------------------------
(* What a failed append may still cost is counted before it is lost: the line   *)
(* without an end stands for two.                                               *)

Unended == IF ended THEN 0 ELSE 1

\* The sequence numbers are those of appends that left a line, and of failed ones.
SeqBound == Len(lines) + faults - Unended

LinesInv ==
  /\ Len(lines) <= MaxLines
  /\ ~ended => lines # <<>> /\ faults > 0
  /\ seqGen <= SeqBound
  /\ \A j \in DOMAIN lines : lines[j].seq <= SeqBound

\* Only one checkpoint of the mirror is lost when the last line is glued to another.
OnceInv ==
  ~ended => \A i, j \in DOMAIN cache :
    i # j /\ cache[i] = lines[Len(lines)] /\ cache[j] = lines[Len(lines)]
    => \E l \in 1..(Len(lines) - 1) : lines[l] = lines[Len(lines)]

LostIn(c, ls) == {i \in DOMAIN c : c[i] \notin {ls[j] : j \in DOMAIN ls}}

LossInv == Cardinality(LostIn(cache, lines)) + 2 * Unended <= 2 * faults

SoundInv == disk = {} => faults = 0 /\ cache = lines

LogInv == TypeOK /\ LinesInv /\ OnceInv /\ LossInv /\ SoundInv

LEMMA LogInit == Init => LogInv
<1> SUFFICES ASSUME Init PROVE LogInv
  OBVIOUS
<1>1. lines = <<>> /\ cache = <<>> /\ ended = TRUE /\ seqGen = 0 /\ faults = 0 /\ disk \in Disks
  BY DEF Init
<1>2. TypeOK /\ LinesInv /\ OnceInv /\ SoundInv
  BY <1>1, LogAssumption DEF TypeOK, LinesInv, OnceInv, SoundInv, SeqBound, Unended
<1>3. LostIn(cache, lines) = {}
  BY <1>1 DEF LostIn
<1> QED
  BY <1>1, <1>2, <1>3, FS_EmptySet DEF LogInv, LossInv, Unended

LEMMA LostFinite ==
  ASSUME NEW c \in Seq(Checkpoint), NEW ls
  PROVE  IsFiniteSet(LostIn(c, ls)) /\ Cardinality(LostIn(c, ls)) \in Nat
<1>1. DOMAIN c = 1..Len(c) /\ Len(c) \in Nat
  OBVIOUS
<1>2. IsFiniteSet(DOMAIN c)
  BY <1>1, FS_Interval
<1>3. LostIn(c, ls) \in SUBSET DOMAIN c
  BY DEF LostIn
<1> QED
  BY <1>2, <1>3, FS_Subset, FS_CardinalityType

LEMMA LostMore ==
  ASSUME NEW c \in Seq(Checkpoint), NEW ls, NEW d \in Seq(Checkpoint), NEW ms, NEW x,
         LostIn(d, ms) \subseteq LostIn(c, ls) \cup {x}
  PROVE  Cardinality(LostIn(d, ms)) <= Cardinality(LostIn(c, ls)) + 1
<1> PICK A : A = LostIn(c, ls)
  OBVIOUS
<1> PICK B : B = LostIn(d, ms)
  OBVIOUS
<1>1. IsFiniteSet(A) /\ Cardinality(A) \in Nat /\ IsFiniteSet(B) /\ Cardinality(B) \in Nat /\ B \subseteq A \cup {x}
  BY LostFinite
<1>2. IsFiniteSet(A \cup {x}) /\ Cardinality(A \cup {x}) \in Nat /\ Cardinality(A \cup {x}) <= Cardinality(A) + 1
  <2>1. IsFiniteSet(A \cup {x}) /\ Cardinality(A \cup {x}) = IF x \in A THEN Cardinality(A) ELSE Cardinality(A) + 1
    BY <1>1, FS_AddElement
  <2>2. Cardinality(A \cup {x}) \in Nat
    BY <2>1, FS_CardinalityType
  <2> QED
    BY <1>1, <2>1, <2>2
<1>3. Cardinality(B) <= Cardinality(A \cup {x})
  BY <1>1, <1>2, FS_Subset
<1> QED
  BY <1>1, <1>2, <1>3

LEMMA LostNoMore ==
  ASSUME NEW c \in Seq(Checkpoint), NEW ls, NEW d \in Seq(Checkpoint), NEW ms,
         LostIn(d, ms) \subseteq LostIn(c, ls)
  PROVE  Cardinality(LostIn(d, ms)) <= Cardinality(LostIn(c, ls))
BY LostFinite, FS_Subset

LEMMA NothingLostOnReopen ==
  ASSUME NEW ls \in Seq(Lines)
  PROVE  LostIn(Parsed(ls), ls) = {} /\ Cardinality(LostIn(Parsed(ls), ls)) = 0
<1> PICK s : s = Parsed(ls)
  OBVIOUS
<1>1. s \in Seq(Checkpoint)
  BY ParsedKeeps DEF KeptOf
<1>2. PICK p \in [1..Len(s) -> 1..Len(ls)] : \A i \in 1..Len(s) : s[i] = ls[p[i]]
  BY ParsedKeeps DEF KeptOf
<1>3. \A i \in DOMAIN s : p[i] \in DOMAIN ls /\ s[i] = ls[p[i]]
  BY <1>1, <1>2
<1>4. LostIn(s, ls) = {}
  BY <1>3 DEF LostIn
<1> QED
  BY <1>4, FS_EmptySet

--------------------------------------------------------------------------------
(* What a write does to the lines.                                             *)

LEMMA AppendedLines ==
  ASSUME LogInv, NEW l \in Lines, Len(lines) < MaxLines
  PROVE  /\ Appended(l) \in Seq(Lines) /\ Len(Appended(l)) \in 1..MaxLines
         /\ ended => /\ Appended(l) = Append(lines, l) /\ Len(Appended(l)) = Len(lines) + 1
                     /\ DOMAIN Appended(l) = 1..(Len(lines) + 1)
                     /\ \A j \in 1..Len(lines) : Appended(l)[j] = lines[j]
                     /\ Appended(l)[Len(lines) + 1] = l
         /\ ~ended => /\ Len(Appended(l)) = Len(lines) /\ Len(lines) \in Nat \ {0}
                      /\ DOMAIN Appended(l) = 1..Len(lines)
                      /\ \A j \in 1..(Len(lines) - 1) : Appended(l)[j] = lines[j]
                      /\ Appended(l)[Len(lines)] = Torn
<1>1. lines \in Seq(Lines) /\ Len(lines) <= MaxLines /\ MaxLines \in Nat /\ (~ended => lines # <<>>)
  BY LogAssumption DEF LogInv, TypeOK, LinesInv, Lines
<1>2. Torn \in Lines
  BY DEF Lines
<1>3. CASE ended
  <2>1. Appended(l) = Append(lines, l)
    BY <1>3 DEF Appended
  <2>2. Append(lines, l) \in Seq(Lines) /\ Len(Append(lines, l)) = Len(lines) + 1
    BY <1>1
  <2>3. \A j \in 1..Len(lines) : Append(lines, l)[j] = lines[j]
    BY <1>1
  <2>4. Append(lines, l)[Len(lines) + 1] = l
    BY <1>1
  <2>5. Len(lines) + 1 \in 1..MaxLines
    BY <1>1
  <2>6. DOMAIN Append(lines, l) = 1..(Len(lines) + 1)
    BY <2>2
  <2> QED
    BY <1>3, <2>1, <2>2, <2>3, <2>4, <2>5, <2>6
<1>4. CASE ~ended
  <2>1. Len(lines) \in Nat \ {0} /\ DOMAIN lines = 1..Len(lines)
    BY <1>1, <1>4
  <2>2. Appended(l) = [lines EXCEPT ![Len(lines)] = Torn]
    BY <1>4 DEF Appended
  <2>3. Appended(l) \in Seq(Lines) /\ Len(Appended(l)) = Len(lines)
    BY <1>1, <1>2, <2>1, <2>2
  <2>4. Len(Appended(l)) \in 1..MaxLines /\ DOMAIN Appended(l) = 1..Len(lines)
    BY <1>1, <2>1, <2>2, <2>3
  <2>5. ASSUME NEW j \in 1..(Len(lines) - 1) PROVE Appended(l)[j] = lines[j]
    <3> PICK m \in Nat \ {0} : m = Len(lines)
      BY <2>1
    <3>1. j \in 1..m /\ j # m
      OBVIOUS
    <3>2. j \in DOMAIN lines /\ j # Len(lines)
      BY <2>1, <3>1
    <3> QED
      BY <2>2, <3>2
  <2>6. Appended(l)[Len(lines)] = Torn
    BY <2>1, <2>2
  <2> QED
    BY <1>4, <2>1, <2>3, <2>4, <2>5, <2>6
<1> QED
  BY <1>3, <1>4

\* A whole line on a new one: nothing of what was there is lost.
LEMMA LostOnNewLine ==
  ASSUME LogInv, NEW l \in Lines, Len(lines) < MaxLines, ended
  PROVE  /\ LostIn(cache, Appended(l)) \subseteq LostIn(cache, lines)
         /\ LostIn(Append(cache, l), Appended(l)) \subseteq LostIn(cache, lines)
<1>1. /\ DOMAIN Appended(l) = 1..(Len(lines) + 1) /\ DOMAIN lines = 1..Len(lines) /\ Len(lines) \in Nat
      /\ \A j \in 1..Len(lines) : Appended(l)[j] = lines[j]
      /\ Appended(l)[Len(lines) + 1] = l
      /\ cache \in Seq(Checkpoint)
  BY AppendedLines DEF LogInv, TypeOK
<1>2. {lines[j] : j \in DOMAIN lines} \subseteq {Appended(l)[j] : j \in DOMAIN Appended(l)}
      /\ l \in {Appended(l)[j] : j \in DOMAIN Appended(l)}
  BY <1>1
<1>3. LostIn(cache, Appended(l)) \subseteq LostIn(cache, lines)
  BY <1>2 DEF LostIn
<1>4. DOMAIN Append(cache, l) = DOMAIN cache \cup {Len(cache) + 1}
      /\ (\A i \in DOMAIN cache : Append(cache, l)[i] = cache[i]) /\ Append(cache, l)[Len(cache) + 1] = l
  BY <1>1
<1>5. LostIn(Append(cache, l), Appended(l)) \subseteq LostIn(cache, lines)
  BY <1>2, <1>4 DEF LostIn
<1> QED
  BY <1>3, <1>5

\* On a line without an end: that line is lost, and the new one.
LEMMA LostOnGluedLine ==
  ASSUME LogInv, NEW l \in Lines, Len(lines) < MaxLines, ~ended
  PROVE  \E x : /\ LostIn(cache, Appended(l)) \subseteq LostIn(cache, lines) \cup {x}
                /\ LostIn(Append(cache, l), Appended(l)) \subseteq LostIn(cache, Appended(l)) \cup {Len(cache) + 1}
<1> DEFINE a == Appended(l)
           v == lines[Len(lines)]
<1>1. /\ DOMAIN a = 1..Len(lines) /\ DOMAIN lines = 1..Len(lines) /\ Len(lines) \in Nat \ {0}
      /\ \A j \in 1..(Len(lines) - 1) : a[j] = lines[j]
      /\ cache \in Seq(Checkpoint)
  BY AppendedLines DEF LogInv, TypeOK
<1> HIDE DEF a
<1>2. \A i, j \in DOMAIN cache :
        i # j /\ cache[i] = v /\ cache[j] = v
        => \E k \in 1..(Len(lines) - 1) : lines[k] = v
  BY DEF LogInv, OnceInv
<1>3. ASSUME NEW i \in LostIn(cache, a), i \notin LostIn(cache, lines)
      PROVE  cache[i] = v /\ \A k \in 1..(Len(lines) - 1) : lines[k] # v
  <2>1. i \in DOMAIN cache /\ cache[i] \notin {a[j] : j \in DOMAIN a}
        /\ cache[i] \in {lines[j] : j \in DOMAIN lines}
    BY <1>3 DEF LostIn
  <2>2. PICK j \in 1..Len(lines) : cache[i] = lines[j]
    BY <1>1, <2>1
  <2>3. \A k \in 1..(Len(lines) - 1) : cache[i] # lines[k]
    BY <1>1, <2>1
  <2>4. j = Len(lines)
    <3>1. j \notin 1..(Len(lines) - 1)
      BY <2>2, <2>3
    <3>2. Len(lines) \in Nat \ {0}
      BY <1>1
    <3> QED
      BY <3>1, <3>2
  <2> QED
    BY <2>2, <2>3, <2>4
<1>4. \E x : LostIn(cache, a) \subseteq LostIn(cache, lines) \cup {x}
  <2>1. CASE LostIn(cache, a) \subseteq LostIn(cache, lines)
    BY <2>1
  <2>2. CASE ~ (LostIn(cache, a) \subseteq LostIn(cache, lines))
    <3>1. PICK x \in LostIn(cache, a) : x \notin LostIn(cache, lines)
      BY <2>2
    <3>2. ASSUME NEW i \in LostIn(cache, a), i \notin LostIn(cache, lines) PROVE i = x
      <4>1. i \in DOMAIN cache /\ x \in DOMAIN cache
        BY <3>1 DEF LostIn
      <4>2. cache[i] = v /\ cache[x] = v /\ \A k \in 1..(Len(lines) - 1) : lines[k] # v
        BY <1>3, <3>1, <3>2
      <4> QED
        BY <1>2, <4>1, <4>2
    <3> QED
      BY <3>2
  <2> QED
    BY <2>1, <2>2
<1>5. LostIn(Append(cache, l), a) \subseteq LostIn(cache, a) \cup {Len(cache) + 1}
  <2>1. DOMAIN Append(cache, l) = DOMAIN cache \cup {Len(cache) + 1}
        /\ \A i \in DOMAIN cache : Append(cache, l)[i] = cache[i]
    BY <1>1
  <2> QED
    BY <2>1 DEF LostIn
<1> QED
  BY <1>4, <1>5 DEF a

--------------------------------------------------------------------------------
(* The steps.                                                                  *)

LEMMA NewLine ==
  ASSUME LogInv, NEW s \in Steps, NEW d \in Digests \cup {NoDigest}, MayAppend(s, d)
  PROVE  /\ NewCheckpoint(s, d) \in Checkpoint /\ NewCheckpoint(s, d) \in Lines /\ Torn \in Lines
         /\ NewCheckpoint(s, d).seq = seqGen + 1 /\ Torn.seq = 0
         /\ \A i \in DOMAIN cache : cache[i] # NewCheckpoint(s, d) /\ cache[i] # Torn
<1>1. /\ seqGen \in Nat /\ faults \in Nat /\ faults <= MaxFaults /\ MaxLines \in Nat /\ MaxFaults \in Nat
      /\ Len(lines) \in Nat /\ Len(lines) < MaxLines /\ seqGen <= SeqBound
      /\ (~ended => faults > 0)
  BY LogAssumption DEF LogInv, TypeOK, LinesInv, MayAppend
<1>2. seqGen + 1 \in 1..(MaxLines + MaxFaults)
  BY <1>1 DEF SeqBound, Unended
<1>3. NewCheckpoint(s, d) \in Checkpoint
  BY <1>2 DEF NewCheckpoint, Checkpoint
<1>4. ASSUME NEW i \in DOMAIN cache PROVE cache[i] # NewCheckpoint(s, d) /\ cache[i] # Torn
  <2>1. cache[i] \in Checkpoint /\ cache[i].seq <= seqGen
    BY DEF LogInv, TypeOK
  <2>2. cache[i].seq \in 1..(MaxLines + MaxFaults)
    BY <2>1 DEF Checkpoint
  <2>3. cache[i].seq # seqGen + 1 /\ cache[i].seq # 0
    BY <1>1, <2>1, <2>2
  <2> QED
    BY <2>3 DEF NewCheckpoint, Torn
<1> QED
  BY <1>3, <1>4 DEF Lines, NewCheckpoint, Torn

LEMMA AppendedBound ==
  ASSUME LogInv, NEW l \in Lines, Len(lines) < MaxLines, l.seq \in 0..(seqGen + 1)
  PROVE  /\ SeqBound \in Nat /\ seqGen \in Nat /\ seqGen + 1 <= SeqBound + 1
         /\ \A j \in DOMAIN Appended(l) : Appended(l)[j].seq <= SeqBound + 1
         /\ Len(Appended(l)) \in Nat /\ faults \in Nat
         /\ Len(Appended(l)) + faults >= SeqBound + 1
<1>1. /\ seqGen \in Nat /\ faults \in Nat /\ Len(lines) \in Nat /\ seqGen <= SeqBound
      /\ (~ended => faults > 0) /\ DOMAIN lines = 1..Len(lines)
      /\ \A j \in DOMAIN lines : lines[j].seq <= SeqBound
      /\ lines \in Seq(Lines)
  BY LogAssumption DEF LogInv, TypeOK, LinesInv, Lines
<1>2. SeqBound \in Nat
  BY <1>1 DEF SeqBound, Unended
<1>3. \A j \in DOMAIN lines : lines[j].seq \in Nat
  BY <1>1, LineSeq
<1> PICK a : a = Appended(l)
  OBVIOUS
<1>4. Torn.seq \in Int /\ Torn.seq <= SeqBound + 1
  BY <1>2 DEF Torn
<1>5. l.seq \in Int /\ l.seq <= SeqBound + 1
  BY <1>1, <1>2
<1>6. ASSUME NEW j \in DOMAIN lines PROVE lines[j].seq <= SeqBound + 1
  BY <1>1, <1>2, <1>3, <1>6
<1>7. CASE ended
  <2>1. /\ Len(a) = Len(lines) + 1 /\ DOMAIN a = 1..(Len(lines) + 1)
        /\ \A j \in 1..Len(lines) : a[j] = lines[j]
        /\ a[Len(lines) + 1] = l
    BY <1>7, AppendedLines
  <2>2. ASSUME NEW j \in DOMAIN a PROVE a[j].seq <= SeqBound + 1
    <3>1. CASE j = Len(lines) + 1
      BY <1>5, <2>1, <3>1
    <3>2. CASE j # Len(lines) + 1
      <4>1. j \in 1..Len(lines) /\ j \in DOMAIN lines
        BY <1>1, <2>1, <3>2
      <4> QED
        BY <1>6, <2>1, <4>1
    <3> QED
      BY <3>1, <3>2
  <2>3. SeqBound = Len(lines) + faults
    BY <1>1, <1>7 DEF SeqBound, Unended
  <2> QED
    BY <1>1, <1>2, <2>1, <2>2, <2>3
<1>8. CASE ~ended
  <2>1. /\ Len(a) = Len(lines) /\ DOMAIN a = 1..Len(lines)
        /\ \A j \in 1..(Len(lines) - 1) : a[j] = lines[j]
        /\ a[Len(lines)] = Torn
    BY <1>8, AppendedLines
  <2>2. ASSUME NEW j \in DOMAIN a PROVE a[j].seq <= SeqBound + 1
    <3>1. CASE j = Len(lines)
      BY <1>4, <2>1, <3>1
    <3>2. CASE j # Len(lines)
      <4>1. j \in 1..(Len(lines) - 1) /\ j \in DOMAIN lines
        BY <1>1, <2>1, <3>2
      <4> QED
        BY <1>6, <2>1, <4>1
    <3> QED
      BY <3>1, <3>2
  <2>3. SeqBound = Len(lines) + faults - 1
    BY <1>1, <1>8 DEF SeqBound, Unended
  <2> QED
    BY <1>1, <1>2, <2>1, <2>2, <2>3
<1> QED
  BY <1>7, <1>8

\* What a step loses is paid for by the failures it adds or by a line that gets its end.
LEMMA LossCarried ==
  ASSUME LogInv, cache' \in Seq(Checkpoint), faults' \in Nat, NEW k \in Nat,
         Cardinality(LostIn(cache', lines')) <= Cardinality(LostIn(cache, lines)) + k,
         k + 2 * Unended' + 2 * faults <= 2 * Unended + 2 * faults'
  PROVE  LossInv'
<1> PICK A : A = Cardinality(LostIn(cache, lines))
  OBVIOUS
<1> PICK B : B = Cardinality(LostIn(cache', lines'))
  OBVIOUS
<1>1. A \in Nat /\ B \in Nat /\ faults \in Nat
  BY LostFinite DEF LogInv, TypeOK
<1>2. A + 2 * Unended <= 2 * faults
  BY DEF LogInv, LossInv
<1>3. Unended \in 0..1 /\ Unended' \in 0..1
  BY DEF Unended
<1>4. B <= A + k
  OBVIOUS
<1>5. B + 2 * Unended' <= 2 * faults'
  <2>1. ASSUME NEW u \in Int, NEW w \in Int, NEW f \in Int, NEW g \in Int,
               k + 2 * w + 2 * f <= 2 * u + 2 * g, A + 2 * u <= 2 * f
        PROVE  B + 2 * w <= 2 * g
    BY <1>1, <1>4, <2>1, SMTT(30)
  <2>2. Unended \in Int /\ Unended' \in Int /\ faults \in Int /\ faults' \in Int
    BY <1>1, <1>3
  <2> QED
    BY <1>2, <2>1, <2>2
<1> QED
  BY <1>5 DEF LossInv

LEMMA AppendCheckpointKeeps ==
  ASSUME LogInv, NEW s \in Steps, NEW d \in Digests \cup {NoDigest}, AppendCheckpoint(s, d), disk' = disk
  PROVE  LogInv'
<1> PICK n : n = NewCheckpoint(s, d)
  OBVIOUS
<1> PICK a : a = Appended(n)
  OBVIOUS
<1>1. /\ MayAppend(s, d) /\ Len(lines) < MaxLines /\ lines' = a /\ ended' = TRUE
      /\ cache' = Append(cache, n) /\ seqGen' = seqGen + 1 /\ faults' = faults
  BY DEF AppendCheckpoint, MayAppend, Written
<1>2. /\ n \in Checkpoint /\ n \in Lines /\ n.seq = seqGen + 1
  BY <1>1, NewLine
<1>3. /\ cache \in Seq(Checkpoint) /\ seqGen \in Nat /\ faults \in Nat /\ faults <= MaxFaults
      /\ MaxLines \in Nat /\ MaxFaults \in Nat
      /\ \A i \in DOMAIN cache : cache[i].seq <= seqGen
  BY LogAssumption DEF LogInv, TypeOK
<1>4. a \in Seq(Lines) /\ Len(a) \in 1..MaxLines
  BY <1>1, <1>2, AppendedLines
<1>5. /\ seqGen' <= Len(a) + faults
      /\ \A j \in DOMAIN a : a[j].seq <= Len(a) + faults
  <2>1. n.seq \in 0..(seqGen + 1)
    BY <1>2, <1>3
  <2>2. /\ SeqBound \in Nat /\ seqGen + 1 <= SeqBound + 1
        /\ \A j \in DOMAIN a : a[j].seq <= SeqBound + 1
        /\ Len(a) + faults >= SeqBound + 1
    BY <1>1, <1>2, <2>1, AppendedBound
  <2>3. \A j \in DOMAIN a : a[j].seq \in Int
    BY <1>4, LineSeq
  <2> QED
    BY <1>1, <1>3, <1>4, <2>2, <2>3
<1>6. TypeOK'
  <2>1. seqGen' \in 0..(MaxLines + MaxFaults)
    BY <1>1, <1>3, <1>4, <1>5
  <2>2. cache' \in Seq(Checkpoint) /\ \A i \in DOMAIN cache' : cache'[i].seq <= seqGen'
    <3>1. DOMAIN cache' = 1..(Len(cache) + 1) /\ Len(cache) \in Nat /\ DOMAIN cache = 1..Len(cache)
          /\ (\A i \in 1..Len(cache) : cache'[i] = cache[i]) /\ cache'[Len(cache) + 1] = n
          /\ cache' \in Seq(Checkpoint)
      BY <1>1, <1>2, <1>3
    <3>2. \A i \in DOMAIN cache : cache[i].seq \in Int
      BY <1>3, CheckpointSeq
    <3> QED
      BY <1>1, <1>2, <1>3, <3>1, <3>2
  <2> QED
    BY <1>1, <1>4, <2>1, <2>2 DEF LogInv, TypeOK, Lines
<1>7. LinesInv' /\ OnceInv'
  BY <1>1, <1>3, <1>4, <1>5 DEF LinesInv, OnceInv, SeqBound, Unended
<1>8. LossInv'
  <2>1. cache' \in Seq(Checkpoint)
    BY <1>6 DEF TypeOK
  <2>2. CASE ended
    <3>1. Cardinality(LostIn(cache', a)) <= Cardinality(LostIn(cache, lines))
      BY <1>1, <1>2, <1>3, <2>1, <2>2, LostOnNewLine, LostNoMore
    <3> QED
      BY <1>1, <1>3, <2>1, <2>2, <3>1, LossCarried, LostFinite DEF Unended
  <2>3. CASE ~ended
    <3>1. PICK x : LostIn(cache, a) \subseteq LostIn(cache, lines) \cup {x}
               /\ LostIn(cache', a) \subseteq LostIn(cache, a) \cup {Len(cache) + 1}
      BY <1>1, <1>2, <2>3, LostOnGluedLine
    <3>2. Cardinality(LostIn(cache, a)) <= Cardinality(LostIn(cache, lines)) + 1
      BY <1>3, <3>1, LostMore
    <3>3. Cardinality(LostIn(cache', a)) <= Cardinality(LostIn(cache, a)) + 1
      BY <1>3, <2>1, <3>1, LostMore
    <3>4. Cardinality(LostIn(cache', a)) <= Cardinality(LostIn(cache, lines)) + 2
      BY <1>3, <2>1, <3>2, <3>3, LostFinite
    <3> QED
      BY <1>1, <1>3, <2>1, <2>3, <3>4, LossCarried DEF Unended
  <2> QED
    BY <2>2, <2>3
<1>9. SoundInv'
  <2>1. ASSUME disk = {} PROVE ended /\ cache = lines /\ faults = 0
    BY <2>1 DEF LogInv, SoundInv, LinesInv
  <2> QED
    BY <1>1, <2>1 DEF SoundInv, Appended
<1> QED
  BY <1>6, <1>7, <1>8, <1>9 DEF LogInv

\* A failed append, whatever part of its line is in the file.
LEMMA FailedAppendKeeps ==
  ASSUME LogInv, disk # {}, disk' = disk, faults < MaxFaults, Len(lines) < MaxLines,
         NEW l \in Lines, l.seq \in 0..(seqGen + 1), \A i \in DOMAIN cache : cache[i] # l /\ cache[i] # Torn,
         lines' = Appended(l), ended' \in BOOLEAN, faults' = faults + 1,
         cache' = cache, seqGen' = seqGen
  PROVE  LogInv'
<1> PICK a : a = Appended(l)
  OBVIOUS
<1>1. /\ cache \in Seq(Checkpoint) /\ seqGen \in Nat /\ faults \in Nat /\ ended \in BOOLEAN
      /\ MaxLines \in Nat /\ MaxFaults \in Nat /\ disk \in Disks
      /\ \A i \in DOMAIN cache : cache[i].seq <= seqGen
      /\ seqGen \in 0..(MaxLines + MaxFaults)
  BY LogAssumption DEF LogInv, TypeOK
<1>2. a \in Seq(Lines) /\ Len(a) \in 1..MaxLines
  BY AppendedLines
<1>3. /\ SeqBound \in Nat /\ seqGen + 1 <= SeqBound + 1
      /\ \A j \in DOMAIN a : a[j].seq <= SeqBound + 1
      /\ Len(a) + faults >= SeqBound + 1
  BY AppendedBound
<1>4. seqGen <= Len(a) + faults /\ \A j \in DOMAIN a : a[j].seq <= Len(a) + faults
  <2>1. \A j \in DOMAIN a : a[j].seq \in Int
    BY <1>2, LineSeq
  <2> QED
    BY <1>1, <1>2, <1>3, <2>1
<1>5. TypeOK'
  BY <1>1, <1>2 DEF TypeOK, Lines
<1>6. LinesInv'
  <2>1. Len(a) + faults <= Len(a) + (faults + 1) - (IF ended' THEN 0 ELSE 1)
    BY <1>1, <1>2
  <2>2. \A j \in DOMAIN a : a[j].seq \in Int
    BY <1>2, LineSeq
  <2>3. Len(a) + (faults + 1) - (IF ended' THEN 0 ELSE 1) \in Int /\ Len(a) + faults \in Int
    BY <1>1, <1>2
  <2> PICK b \in Int : b = Len(a) + (faults + 1) - (IF ended' THEN 0 ELSE 1)
    BY <2>3
  <2>4. seqGen <= b /\ \A j \in DOMAIN a : a[j].seq <= b
    BY <1>1, <1>4, <2>1, <2>2, <2>3
  <2>5. b = SeqBound'
    BY DEF SeqBound, Unended
  <2>6. a # <<>>
    BY <1>2
  <2> QED
    BY <1>1, <1>2, <2>4, <2>5, <2>6 DEF LinesInv
<1>7. OnceInv'
  <2>1. a[Len(a)] \in {l, Torn}
    BY AppendedLines
  <2> QED
    BY <2>1 DEF OnceInv
<1>8. LossInv'
  <2>1. CASE ended
    <3>1. Cardinality(LostIn(cache', lines')) <= Cardinality(LostIn(cache, lines)) + 0
      BY <1>1, <2>1, LostOnNewLine, LostNoMore, LostFinite
    <3>2. 0 + 2 * Unended' + 2 * faults <= 2 * Unended + 2 * faults'
      BY <1>1, <2>1 DEF Unended
    <3> QED
      BY <1>1, <3>1, <3>2, LossCarried
  <2>2. CASE ~ended
    <3>1. Cardinality(LostIn(cache', lines')) <= Cardinality(LostIn(cache, lines)) + 1
      <4>1. PICK x : LostIn(cache, a) \subseteq LostIn(cache, lines) \cup {x}
        BY <2>2, LostOnGluedLine
      <4> QED
        BY <1>1, <4>1, LostMore
    <3>2. 1 + 2 * Unended' + 2 * faults <= 2 * Unended + 2 * faults'
      BY <1>1, <2>2 DEF Unended
    <3> QED
      BY <1>1, <3>1, <3>2, LossCarried
  <2> QED
    BY <2>1, <2>2
<1>9. SoundInv'
  BY DEF SoundInv
<1> QED
  BY <1>5, <1>6, <1>7, <1>8, <1>9 DEF LogInv

\* The mirror is read from the file again.
LEMMA ReadBackKeeps ==
  ASSUME LogInv, disk' = disk, faults' = faults,
         lines' \in Seq(Lines), Len(lines') <= MaxLines, \A j \in DOMAIN lines' : lines'[j].seq <= SeqBound',
         ended' \in BOOLEAN, ~ended' => ended' = ended /\ lines' = lines,
         disk = {} => \A j \in DOMAIN lines' : lines'[j] # Torn,
         cache' = Parsed(lines'), seqGen' = MaxSeqOf(Parsed(lines'))
  PROVE  LogInv'
<1> PICK ls, s : ls = lines' /\ s = Parsed(ls)
  OBVIOUS
<1>1. KeptOf(ls, s, Len(ls)) /\ ls \in Seq(Lines)
  BY ParsedKeeps
<1>2. s \in Seq(Checkpoint)
  BY <1>1 DEF KeptOf
<1>3. /\ faults \in Nat /\ ended \in BOOLEAN /\ MaxLines \in Nat /\ MaxFaults \in Nat
      /\ disk \in Disks /\ faults <= MaxFaults /\ Len(ls) \in Nat /\ faults \in 0..MaxFaults
      /\ (~ended => faults > 0 /\ lines # <<>>)
  BY <1>1, LogAssumption DEF LogInv, TypeOK, LinesInv
<1>4. SeqBound' \in Nat /\ SeqBound' <= MaxLines + MaxFaults
  BY <1>3 DEF SeqBound, Unended
<1>5. seqGen' \in 0..SeqBound' /\ \A i \in DOMAIN s : s[i].seq <= seqGen'
  BY <1>1, <1>4, MaxSeqOfParsed
<1>6. TypeOK'
  BY <1>1, <1>2, <1>3, <1>4, <1>5 DEF TypeOK, Lines
<1>7. LinesInv'
  BY <1>3, <1>5 DEF LinesInv
<1>8. OnceInv'
  <2>1. PICK p \in [1..Len(s) -> 1..Len(ls)] :
          /\ \A i \in 1..Len(s) : s[i] = ls[p[i]]
          /\ \A i, j \in 1..Len(s) : i # j => p[i] # p[j]
    BY <1>1 DEF KeptOf
  <2>2. ASSUME NEW i \in 1..Len(s), NEW j \in 1..Len(s), i # j, s[i] = ls[Len(ls)], s[j] = ls[Len(ls)]
        PROVE  \E k \in 1..(Len(ls) - 1) : ls[k] = ls[Len(ls)]
    <3>1. p[i] \in 1..Len(ls) /\ p[j] \in 1..Len(ls) /\ p[i] # p[j]
          /\ ls[p[i]] = ls[Len(ls)] /\ ls[p[j]] = ls[Len(ls)]
      BY <2>1, <2>2
    <3> QED
      BY <1>3, <3>1
  <2>3. DOMAIN s = 1..Len(s)
    BY <1>2
  <2> QED
    BY <2>2, <2>3 DEF OnceInv
<1>9. LossInv'
  <2>1. Cardinality(LostIn(s, ls)) = 0
    BY <1>1, NothingLostOnReopen
  <2>2. 0 + 2 * Unended' <= 2 * faults'
    BY <1>3 DEF Unended
  <2> QED
    BY <2>1, <2>2 DEF LossInv
<1>10. SoundInv'
  <2>1. ASSUME disk = {} PROVE s = ls /\ faults = 0
    <3>1. faults = 0
      BY <2>1 DEF LogInv, SoundInv
    <3>2. Len(s) = Len(ls) /\ \A i \in 1..Len(ls) : s[i] = ls[i]
      BY <1>1, <2>1 DEF KeptOf
    <3> QED
      BY <1>1, <1>2, <3>1, <3>2
  <2> QED
    BY <2>1 DEF SoundInv
<1> QED
  BY <1>6, <1>7, <1>8, <1>9, <1>10 DEF LogInv

LEMMA AppendAndReopenKeeps ==
  ASSUME LogInv, NEW s \in Steps, NEW d \in Digests \cup {NoDigest}, AppendAndReopen(s, d), disk' = disk
  PROVE  LogInv'
<1> PICK n : n = NewCheckpoint(s, d)
  OBVIOUS
<1>1. /\ MayAppend(s, d) /\ Len(lines) < MaxLines /\ lines' = Appended(n) /\ ended' = TRUE
      /\ cache' = Parsed(lines') /\ seqGen' = MaxSeqOf(Parsed(lines')) /\ faults' = faults
  BY DEF AppendAndReopen, MayAppend, Written
<1>2. n \in Checkpoint /\ n \in Lines /\ n.seq = seqGen + 1 /\ seqGen \in Nat
  BY <1>1, NewLine DEF LogInv, TypeOK
<1>3. lines' \in Seq(Lines) /\ Len(lines') \in 1..MaxLines
  BY <1>1, <1>2, AppendedLines
<1>4. \A j \in DOMAIN lines' : lines'[j].seq <= SeqBound'
  <2>1. /\ SeqBound \in Nat /\ faults \in Nat
        /\ \A j \in DOMAIN lines' : lines'[j].seq <= SeqBound + 1
        /\ Len(lines') + faults >= SeqBound + 1
    BY <1>1, <1>2, AppendedBound
  <2>2. SeqBound' = Len(lines') + faults
    BY <1>1, <1>3, <2>1 DEF SeqBound, Unended
  <2>3. \A j \in DOMAIN lines' : lines'[j].seq \in Int
    BY <1>3, LineSeq
  <2> QED
    BY <1>3, <2>1, <2>2, <2>3
<1>5. ASSUME disk = {} PROVE \A j \in DOMAIN lines' : lines'[j] # Torn
  <2>1. ended /\ cache = lines
    BY <1>5 DEF LogInv, SoundInv, LinesInv
  <2>2. /\ DOMAIN lines' = 1..(Len(lines) + 1) /\ DOMAIN lines = 1..Len(lines) /\ Len(lines) \in Nat
        /\ \A j \in 1..Len(lines) : lines'[j] = lines[j]
        /\ lines'[Len(lines) + 1] = n
    BY <1>1, <1>2, <2>1, AppendedLines DEF LogInv, TypeOK
  <2>3. \A j \in DOMAIN lines : lines[j] # Torn
    BY <1>1, <2>1, NewLine
  <2>4. n # Torn
    <3>1. n.seq # 0
      BY <1>2
    <3> QED
      BY <3>1 DEF Torn
  <2> QED
    BY <2>2, <2>3, <2>4
<1> QED
  BY <1>1, <1>3, <1>4, <1>5, ReadBackKeeps

LEMMA LogNext ==
  ASSUME LogInv, [Next]_vars
  PROVE  LogInv'
<1>1. CASE UNCHANGED vars
  BY <1>1 DEF vars, LogInv, TypeOK, LinesInv, SeqBound, Unended, OnceInv, LossInv, LostIn, SoundInv
<1>2. CASE Next
  <2>1. disk' = disk
    BY <1>2 DEF Next
  <2>2. ASSUME NEW s \in Steps, NEW d \in Digests \cup {NoDigest},
               AppendUnsynced(s, d) \/ AppendTorn(s, d)
        PROVE  LogInv'
    <3>1. /\ MayAppend(s, d) /\ Len(lines) < MaxLines /\ faults < MaxFaults /\ disk # {}
          /\ faults' = faults + 1 /\ cache' = cache /\ seqGen' = seqGen /\ ended' \in BOOLEAN
      BY <2>2 DEF AppendUnsynced, AppendTorn, MayAppend, Written
    <3>2. PICK l \in {Torn, NewCheckpoint(s, d)} : lines' = Appended(l)
      BY <2>2 DEF AppendUnsynced, AppendTorn, Written
    <3>3. l \in Lines /\ l.seq \in 0..(seqGen + 1) /\ \A i \in DOMAIN cache : cache[i] # l /\ cache[i] # Torn
      <4>1. seqGen \in Nat
        BY DEF LogInv, TypeOK
      <4> QED
        BY <3>1, <3>2, <4>1, NewLine
    <3> QED
      BY <2>1, <3>1, <3>2, <3>3, FailedAppendKeeps
  <2>3. CASE Reopen
    <3>1. lines' = lines /\ ended' = ended /\ faults' = faults
          /\ cache' = Parsed(lines') /\ seqGen' = MaxSeqOf(Parsed(lines'))
      BY <2>3 DEF Reopen
    <3>2. /\ lines' \in Seq(Lines) /\ Len(lines') <= MaxLines /\ ended' \in BOOLEAN
          /\ \A j \in DOMAIN lines' : lines'[j].seq <= SeqBound'
      BY <3>1 DEF LogInv, TypeOK, LinesInv, SeqBound, Unended, Lines
    <3>3. ASSUME disk = {} PROVE \A j \in DOMAIN lines' : lines'[j] # Torn
      <4>1. ASSUME NEW c \in Checkpoint PROVE c # Torn
        <5>1. c.seq \in 1..(MaxLines + MaxFaults)
          BY DEF Checkpoint
        <5>2. Torn.seq = 0
          BY DEF Torn
        <5> QED
          BY <5>1, <5>2
      <4>2. lines \in Seq(Checkpoint)
        BY <3>3 DEF LogInv, SoundInv, TypeOK
      <4> QED
        BY <3>1, <4>1, <4>2
    <3> QED
      BY <2>1, <3>1, <3>2, <3>3, ReadBackKeeps
  <2>4. CASE Reset
    <3>1. lines' = <<>> /\ ended' = TRUE /\ cache' = <<>> /\ seqGen' = 0 /\ faults' = faults
      BY <2>4 DEF Reset
    <3>2. faults \in 0..MaxFaults /\ disk \in Disks /\ MaxLines \in Nat /\ MaxFaults \in Nat
          /\ (disk = {} => faults = 0)
      BY LogAssumption DEF LogInv, TypeOK, SoundInv
    <3>3. TypeOK' /\ LinesInv' /\ OnceInv' /\ SoundInv'
      BY <2>1, <3>1, <3>2 DEF TypeOK, LinesInv, OnceInv, SoundInv, SeqBound, Unended
    <3>4. LostIn(cache', lines') = {}
      BY <3>1 DEF LostIn
    <3>5. 0 + 2 * Unended' <= 2 * faults'
      BY <3>1, <3>2 DEF Unended
    <3> QED
      BY <3>3, <3>4, <3>5, FS_EmptySet DEF LogInv, LossInv
  <2> QED
    BY <1>2, <2>1, <2>2, <2>3, <2>4, AppendCheckpointKeeps, AppendAndReopenKeeps DEF Next
<1> QED
  BY <1>1, <1>2

LEMMA LogInvariant == Spec => []LogInv
<1>1. LogInv /\ [Next]_vars => LogInv'
  BY LogNext
<1> QED
  BY <1>1, LogInit, PTL DEF Spec

\* Every line, every entry of the mirror and every sequence number has its type.
THEOREM LogTypeCorrect == Spec => []TypeOK
<1>1. LogInv => TypeOK
  BY DEF LogInv
<1> QED
  BY <1>1, LogInvariant, PTL

\* However appends fail and whenever stores are opened, a failed append costs a
\* later reader at most two of the checkpoints that were answered.
THEOREM LossCorrect == Spec => []LossIsBounded
<1>1. LogInv => LossIsBounded
  <2> SUFFICES ASSUME LogInv PROVE LossIsBounded
    OBVIOUS
  <2>1. Lost = LostIn(cache, lines)
    BY DEF Lost, LostIn
  <2>2. Cardinality(Lost) \in Nat /\ faults \in Nat
    BY <2>1, LostFinite DEF LogInv, TypeOK
  <2> QED
    BY <2>1, <2>2 DEF LogInv, LossInv, Unended, LossIsBounded
<1> QED
  BY <1>1, LogInvariant, PTL

--------------------------------------------------------------------------------
(* The refinement, on disks that do not fail: there the mirror is the file.    *)

LastOf(c, s) == SelectLastInSeq(c, LAMBDA e : e.step = s)
IndicesOf(c, s) == {i \in 1..Len(c) : c[i].step = s}

LEMMA LastOfFacts ==
  ASSUME NEW c \in Seq(Checkpoint), NEW s
  PROVE  /\ IndicesOf(c, s) \in SUBSET (1..Len(c))
         /\ IndicesOf(c, s) = {} => LastOf(c, s) = 0
         /\ IndicesOf(c, s) # {} => /\ LastOf(c, s) \in IndicesOf(c, s)
                                   /\ \A i \in IndicesOf(c, s) : LastOf(c, s) >= i
<1> DEFINE I == IndicesOf(c, s)
<1>1. LastOf(c, s) = IF I # {} THEN Max(I) ELSE 0
  BY DEF LastOf, SelectLastInSeq, IndicesOf
<1>2. I \in SUBSET (1..Len(c)) /\ I \in SUBSET Nat /\ Len(c) \in Nat /\ \A i \in I : i <= Len(c)
  BY DEF IndicesOf
<1>3. I # {} => Max(I) \in I /\ \A i \in I : Max(I) >= i
  <2> HIDE DEF I
  <2> QED
    BY <1>2, MaxOfBounded
<1> QED
  BY <1>1, <1>2, <1>3

LEMMA LastOfAppend ==
  ASSUME NEW c \in Seq(Checkpoint), NEW e \in Checkpoint, NEW s
  PROVE  LastOf(Append(c, e), s) = IF e.step = s THEN Len(c) + 1 ELSE LastOf(c, s)
<1> PICK a : a = Append(c, e)
  OBVIOUS
<1>1. /\ a \in Seq(Checkpoint) /\ Len(a) = Len(c) + 1 /\ Len(c) \in Nat
      /\ a[Len(c) + 1] = e /\ \A i \in 1..Len(c) : a[i] = c[i]
  OBVIOUS
<1>2. CASE e.step = s
  <2>1. Len(c) + 1 \in IndicesOf(a, s)
    BY <1>1, <1>2 DEF IndicesOf
  <2>2. LastOf(a, s) \in 1..(Len(c) + 1) /\ LastOf(a, s) >= Len(c) + 1
    BY <1>1, <2>1, LastOfFacts
  <2> QED
    BY <1>1, <1>2, <2>2
<1>3. CASE e.step # s
  <2>1. IndicesOf(a, s) = IndicesOf(c, s)
    BY <1>1, <1>3 DEF IndicesOf
  <2>2. LastOf(a, s) = LastOf(c, s)
    <3> PICK I, x, y : I = IndicesOf(c, s) /\ x = LastOf(a, s) /\ y = LastOf(c, s)
      OBVIOUS
    <3>1. /\ I \in SUBSET (1..Len(c)) /\ (I = {} => x = 0 /\ y = 0)
          /\ I # {} => x \in I /\ y \in I /\ \A i \in I : x >= i /\ y >= i
      BY <1>1, <2>1, LastOfFacts
    <3>2. x = y
      BY <3>1
    <3> QED
      BY <3>2
  <2> QED
    BY <1>3, <2>2
<1> QED
  BY <1>2, <1>3

LEMMA AnswersOfSound ==
  ASSUME disk = {}
  PROVE  /\ Answers.known = {<<cache[i].step, cache[i].digest>> : i \in DOMAIN cache}
         /\ Answers.latestBy = [s \in Steps |-> IF LastIndex(s) = 0 THEN NoDigest ELSE cache[LastIndex(s)].digest]
         /\ Answers.latest = IF cache = <<>> THEN NoAnswer
                             ELSE [step |-> Last(cache).step, digest |-> Last(cache).digest]
BY DEF Answers

NothingAnswered ==
  Answers.known = {} /\ Answers.latestBy = [s \in Steps |-> NoDigest] /\ Answers.latest = NoAnswer

LEMMA AnswersOfReset == disk = {} /\ cache = <<>> => NothingAnswered
<1> SUFFICES ASSUME disk = {}, cache = <<>> PROVE NothingAnswered
  OBVIOUS
<1>1. cache \in Seq(Checkpoint) /\ DOMAIN cache = {} /\ Len(cache) = 0
  OBVIOUS
<1>2. ASSUME NEW s \in Steps PROVE LastIndex(s) = 0
  <2>1. IndicesOf(cache, s) = {}
    BY <1>1 DEF IndicesOf
  <2> QED
    BY <1>1, <2>1, LastOfFacts DEF LastIndex, LastOf
<1> QED
  BY <1>1, <1>2, AnswersOfSound DEF NothingAnswered

LEMMA RecordMaps ==
  ASSUME LogInv, disk = {}, disk' = disk, NEW s \in Steps, NEW d \in Digests \cup {NoDigest}, ~Known(s, d),
         NEW e \in Checkpoint, e.step = s, e.digest = d, cache' = Append(cache, e)
  PROVE  Book!Record(s, d)
<1>1. cache \in Seq(Checkpoint) /\ Len(cache) \in Nat /\ DOMAIN cache = 1..Len(cache)
  BY DEF LogInv, TypeOK
<1>2. /\ DOMAIN cache' = 1..(Len(cache) + 1) /\ Len(cache') = Len(cache) + 1 /\ cache' # <<>>
      /\ cache'[Len(cache) + 1] = e /\ \A i \in 1..Len(cache) : cache'[i] = cache[i]
  BY <1>1
<1>3. /\ Answers'.known = {<<cache'[i].step, cache'[i].digest>> : i \in DOMAIN cache'}
      /\ Answers'.latestBy = [w \in Steps |-> IF LastIndex(w)' = 0 THEN NoDigest ELSE cache'[LastIndex(w)'].digest]
      /\ Answers'.latest = [step |-> Last(cache').step, digest |-> Last(cache').digest]
  BY <1>2 DEF Answers
<1>4. ~(d # NoDigest /\ <<s, d>> \in Answers.known)
  BY AnswersOfSound DEF Known
<1>5. Answers'.known = Answers.known \cup {<<s, d>>}
  BY <1>1, <1>2, <1>3, AnswersOfSound
<1>6. Answers'.latest = [step |-> s, digest |-> d]
  BY <1>2, <1>3 DEF Last
<1>7. Answers'.latestBy = [Answers.latestBy EXCEPT ![s] = d]
  <2>1. ASSUME NEW w \in Steps
        PROVE  LastIndex(w)' = IF s = w THEN Len(cache) + 1 ELSE LastIndex(w)
    <3>1. LastIndex(w)' = LastOf(cache', w) /\ LastIndex(w) = LastOf(cache, w)
      BY DEF LastIndex, LastOf, SelectLastInSeq, Max
    <3> QED
      BY <1>1, <3>1, LastOfAppend
  <2>2. ASSUME NEW w \in Steps PROVE LastIndex(w) \in 0..Len(cache)
    <3>1. LastIndex(w) = LastOf(cache, w)
      BY DEF LastIndex, LastOf
    <3> QED
      BY <1>1, <3>1, LastOfFacts
  <2>3. ASSUME NEW w \in Steps
        PROVE  Answers'.latestBy[w] = IF w = s THEN d ELSE Answers.latestBy[w]
    BY <1>1, <1>2, <1>3, <2>1, <2>2, AnswersOfSound
  <2> QED
    BY <1>3, <2>3, AnswersOfSound
<1> QED
  BY <1>4, <1>5, <1>6, <1>7 DEF Book!Record

\* Where appends do not fail, the log answers what was recorded, in its order, and a
\* process that ends and another that reads the file change nothing of it.
THEOREM BookImplemented == Spec => ImplementsCheckpointBook
<1>1. Init => Book!BookInit
  <2> SUFFICES ASSUME Init PROVE Book!BookInit
    OBVIOUS
  <2>1. CASE disk = {}
    BY <2>1, AnswersOfReset DEF NothingAnswered, Init, Book!BookInit, Book!NoRecord, NoAnswer
  <2>2. CASE disk # {}
    BY <2>2 DEF Answers, Book!BookInit, Book!NoRecord, NoAnswer
  <2> QED
    BY <2>1, <2>2
<1>2. LogInv /\ LogInv' /\ [Next]_vars => [Book!BookNext]_Book!bookvars
  <2> SUFFICES ASSUME LogInv, LogInv', [Next]_vars
               PROVE  [Book!BookNext]_Book!bookvars
    OBVIOUS
  <2>1. ASSUME cache' = cache, disk' = disk PROVE UNCHANGED Book!bookvars
    <3>1. \A w : LastIndex(w)' = LastIndex(w)
      <4>1. \A w : LastIndex(w)' = LastOf(cache', w) /\ LastIndex(w) = LastOf(cache, w)
        BY DEF LastIndex, LastOf, SelectLastInSeq, Max
      <4> QED
        BY <2>1, <4>1
    <3> QED
      BY <2>1, <3>1 DEF Book!bookvars, Answers
  <2>2. CASE UNCHANGED vars
    BY <2>1, <2>2 DEF vars
  <2>3. CASE Next
    <3>1. disk' = disk
      BY <2>3 DEF Next
    <3>2. CASE disk # {}
      <4>1. Answers' = Answers
        BY <3>1, <3>2 DEF Answers
      <4> QED
        BY <4>1 DEF Book!bookvars
    <3>3. CASE disk = {}
      <4>1. /\ ended /\ cache = lines /\ cache' = lines'
        BY <3>1, <3>3 DEF LogInv, SoundInv, LinesInv
      <4>2. ASSUME NEW s \in Steps, NEW d \in Digests \cup {NoDigest},
                   AppendCheckpoint(s, d) \/ AppendAndReopen(s, d)
            PROVE  Book!Record(s, d)
        <5>1. MayAppend(s, d) /\ lines' = Append(lines, NewCheckpoint(s, d))
          BY <4>1, <4>2 DEF AppendCheckpoint, AppendAndReopen, Written, Appended
        <5>2. /\ NewCheckpoint(s, d) \in Checkpoint
              /\ NewCheckpoint(s, d).step = s /\ NewCheckpoint(s, d).digest = d
          BY <5>1, NewLine DEF NewCheckpoint
        <5> QED
          BY <3>1, <3>3, <4>1, <5>1, <5>2, RecordMaps DEF MayAppend
      <4>3. CASE Reopen
        BY <2>1, <3>1, <4>1, <4>3 DEF Reopen
      <4>4. CASE Reset
        <5>1. (disk = {} /\ cache = <<>>)'
          BY <3>1, <3>3, <4>4 DEF Reset
        <5>2. NothingAnswered'
          BY <5>1, AnswersOfReset, PTL
        <5> QED
          BY <5>2 DEF NothingAnswered, Book!BookNext, Book!Wipe, Book!NoRecord, NoAnswer
      <4> QED
        BY <2>3, <3>3, <4>2, <4>3, <4>4 DEF Next, AppendUnsynced, AppendTorn, Book!BookNext
    <3> QED
      BY <3>2, <3>3
  <2> QED
    BY <2>2, <2>3
<1> QED
  BY <1>1, <1>2, LogInvariant, PTL DEF Spec, ImplementsCheckpointBook, Book!BookSpec
--------------------------------------------------------------------------------
(* FileReplace: the invariant that makes one file a register.                  *)

\* A write or a removal is the only call there is.
Alone == \A t, u \in Threads :
  t # u /\ op[t] # NoCall /\ op[u] # NoCall
  => op[t] = ReadCall /\ op[u] = ReadCall

\* Which call a thread is in where.
CallInv == \A t \in Threads :
  /\ pc[t] = "read" => op[t] = ReadCall
  /\ pc[t] \in {"statOld", "backUp", "install", "undo", "cleanUp"} => op[t].kind = "write"
  /\ pc[t] \in {"dropState", "removeTarget"} => op[t] = RemoveCall
  /\ pc[t] \in {"statBackup", "statTarget", "restore", "dropBackup"} => op[t] # RemoveCall
  /\ backedUp[t] => pc[t] \in {"install", "undo", "cleanUp", "return"}

\* Which of the two names a thread that is about to do something counts on.
Counts(t) ==
  /\ pc[t] = "restore" => backup = Absent \/ target = Absent
  /\ pc[t] \in {"read", "statOld"} => backup = Absent \/ target # Absent
  /\ pc[t] = "install" => target = Absent /\ (backedUp[t] <=> backup # Absent)
  /\ pc[t] = "undo" => target = Absent
  /\ pc[t] \in {"dropBackup", "cleanUp"} => target # Absent
  /\ pc[t] = "removeTarget" => backup = Absent

NamesInv == \A t \in Threads : Counts(t)

FileInv == FileTypeOK /\ Alone /\ CallInv /\ NamesInv

--------------------------------------------------------------------------------
LEMMA CallKinds ==
  ASSUME NEW c \in Calls \cup {NoCall}
  PROVE  /\ c = ReadCall <=> c.kind = "read"
         /\ c = RemoveCall <=> c.kind = "remove"
         /\ c = NoCall <=> c.kind = "none"
         /\ c.kind \in {"read", "remove", "write", "none"}
         /\ c.kind = "write" => c.text \in Values
         /\ c.kind # "write" => c.text = Absent
BY DEF Calls, NoCall, ReadCall, RemoveCall, WriteCall

LEMMA AnswersDiffer ==
  /\ Failed # Pending
  /\ \A v : Ok(v) # Pending /\ Ok(v) # Failed
BY DEF Failed, Pending, Ok

LEMMA FileInvInit == FileInit => FileInv
<1> SUFFICES ASSUME FileInit PROVE FileInv
  OBVIOUS
<1>1. \A t \in Threads : op[t] = NoCall /\ pc[t] = "idle" /\ ~backedUp[t] /\ res[t] = Pending
  BY DEF FileInit
<1>2. FileTypeOK
  <2>1. Pending \in {Pending, Failed} \cup {Ok(v) : v \in Versions}
    OBVIOUS
  <2>2. /\ op = [t \in Threads |-> NoCall] /\ op \in [Threads -> Calls \cup {NoCall}]
        /\ pc = [t \in Threads |-> "idle"]
        /\ backedUp \in [Threads -> BOOLEAN] /\ temp = {}
        /\ target \in Versions /\ backup \in Versions
    BY DEF FileInit, Versions
  <2>3. res \in [Threads -> {Pending, Failed} \cup {Ok(v) : v \in Versions}]
    BY <2>1 DEF FileInit
  <2> QED
    BY <1>1, <2>2, <2>3 DEF FileTypeOK
<1>3. Alone /\ CallInv /\ NamesInv
  BY <1>1 DEF Alone, CallInv, NamesInv, Counts
<1> QED
  BY <1>2, <1>3 DEF FileInv

\* What every step of a call but its first keeps: the calls themselves.
LEMMA AloneKept ==
  ASSUME Alone, op' = op
  PROVE  Alone'
BY DEF Alone, NoCall, ReadCall

LEMMA FileTypeNext ==
  ASSUME FileInv, NEW t \in Threads, Step(t)
  PROVE  FileTypeOK'
<1> USE DEF Goto, Finish, Fails, names
<1>1. FileTypeOK /\ CallInv
  BY DEF FileInv
<1>2. CASE Begin(t)
  <2>1. PICK c \in Calls : op' = [op EXCEPT ![t] = c]
           /\ temp' = (IF c.kind = "write" THEN temp \cup {t} ELSE temp)
           /\ pc' = [pc EXCEPT ![t] = IF c = RemoveCall THEN "dropState" ELSE "statBackup"]
    BY <1>2 DEF Begin
  <2>2. c # NoCall
    BY CallKinds DEF Calls, NoCall, ReadCall, RemoveCall, WriteCall
  <2>3. op[t] = NoCall /\ res[t] = Pending
    BY <1>1, <1>2 DEF FileTypeOK, Begin
  <2>4. op' \in [Threads -> Calls \cup {NoCall}]
    BY <1>1, <2>1 DEF FileTypeOK
  <2>5. temp' \subseteq {u \in Threads : op'[u].kind = "write"}
    <3>1. op'[t] = c /\ \A u \in Threads \ {t} : op'[u] = op[u]
      BY <1>1, <2>1 DEF FileTypeOK
    <3>2. t \notin temp
      BY <1>1, <2>3, CallKinds DEF FileTypeOK
    <3> QED
      BY <1>1, <2>1, <3>1, <3>2 DEF FileTypeOK
  <2>6. /\ target' = target /\ backup' = backup /\ backedUp' = backedUp /\ res' = res
        /\ pc[t] = "idle"
    BY <1>2 DEF Begin
  <2>7. \A u \in Threads : pc'[u] = "idle" <=> op'[u] = NoCall
    BY <1>1, <2>1, <2>2, <2>6 DEF FileTypeOK
  <2>8. \A u \in Threads : res'[u] # Pending <=> pc'[u] \in {"undo", "return"}
    BY <1>1, <2>1, <2>3, <2>6 DEF FileTypeOK
  <2>9. pc' \in [Threads -> {"idle", "statBackup", "statTarget", "restore", "dropBackup",
       "read", "statOld", "backUp", "install", "undo", "cleanUp",
       "dropState", "removeTarget", "return"}]
    BY <1>1, <2>1 DEF FileTypeOK
  <2> QED
    BY <1>1, <2>4, <2>5, <2>6, <2>7, <2>8, <2>9 DEF FileTypeOK
<1>3. CASE Return(t)
  BY <1>1, <1>3 DEF FileTypeOK, Return
<1>4. ASSUME op' = op, temp' \subseteq temp, target' \in Versions, backup' \in Versions,
             backedUp' \in [Threads -> BOOLEAN],
             NEW l, pc' = [pc EXCEPT ![t] = l], pc[t] # "idle",
             l \in {"statBackup", "statTarget", "restore", "dropBackup", "read", "statOld", "backUp",
                    "install", "undo", "cleanUp", "dropState", "removeTarget", "return"},
             NEW r, res' = [res EXCEPT ![t] = r],
             r \in {Pending, Failed} \cup {Ok(v) : v \in Versions},
             r # Pending <=> l \in {"undo", "return"}
      PROVE  FileTypeOK'
  BY <1>1, <1>4 DEF FileTypeOK
<1>5. target \in Versions /\ backup \in Versions /\ backedUp \in [Threads -> BOOLEAN]
      /\ res = [res EXCEPT ![t] = res[t]] /\ Absent \in Versions
      /\ (pc[t] \in {"undo", "return"} <=> res[t] # Pending)
  BY <1>1 DEF FileTypeOK, Versions
<1>6. ASSUME Fails(t), pc[t] # "idle"
      PROVE  FileTypeOK'
  BY <1>4, <1>5, <1>6, AnswersDiffer
<1>7. CASE StatBackup(t) \/ StatTarget(t) \/ StatOld(t)
  BY <1>4, <1>5, <1>7 DEF StatBackup, StatTarget, StatOld, AfterRecovery
<1>8. CASE Restore(t) \/ DropBackup(t)
  BY <1>4, <1>5, <1>6, <1>8 DEF Restore, DropBackup, AfterRecovery
<1>9. CASE ReadTarget(t)
  BY <1>4, <1>5, <1>6, <1>9, AnswersDiffer DEF ReadTarget
<1>10. CASE BackUp(t)
  <2>1. [backedUp EXCEPT ![t] = TRUE] \in [Threads -> BOOLEAN]
    BY <1>5
  <2>2. CASE /\ backup' = target /\ target' = Absent
             /\ backedUp' = [backedUp EXCEPT ![t] = TRUE]
             /\ pc' = [pc EXCEPT ![t] = "install"]
             /\ temp' = temp /\ op' = op /\ res' = res
    <3>1. backedUp' \in [Threads -> BOOLEAN]
      BY <2>1, <2>2
    <3>2. pc[t] = "backUp" /\ res[t] = Pending
      BY <1>5, <1>10 DEF BackUp
    <3>3. res' = [res EXCEPT ![t] = Pending]
      BY <1>5, <2>2, <3>2
    <3>4. target' \in Versions /\ backup' \in Versions /\ temp' \subseteq temp /\ op' = op
          /\ pc' = [pc EXCEPT ![t] = "install"] /\ pc[t] # "idle"
      BY <1>5, <2>2, <3>2
    <3> QED
      BY <1>1, <2>2, <3>1, <3>2, <3>4 DEF FileTypeOK
  <2> QED
    BY <1>6, <1>10, <2>2 DEF BackUp
<1>11. CASE Install(t)
  <2>1. op[t].text \in Values
    BY <1>1, <1>11, CallKinds DEF Install, CallInv, FileTypeOK
  <2> QED
    BY <1>4, <1>5, <1>11, <2>1, AnswersDiffer DEF Install, Versions
<1>12. CASE Undo(t)
  BY <1>4, <1>5, <1>12, <1>1 DEF Undo, FileTypeOK
<1>13. CASE CleanUp(t)
  <2>1. op[t].text \in Values
    BY <1>1, <1>13, CallKinds DEF CleanUp, CallInv, FileTypeOK
  <2> QED
    BY <1>4, <1>5, <1>6, <1>13, <2>1, AnswersDiffer DEF CleanUp, Versions
<1>14. CASE DropState(t) \/ RemoveTarget(t)
  BY <1>4, <1>5, <1>6, <1>14, AnswersDiffer DEF DropState, RemoveTarget
<1> QED
  BY <1>2, <1>3, <1>7, <1>8, <1>9, <1>10, <1>11, <1>12, <1>13, <1>14 DEF Step

\* A step changes nothing of the other threads' calls.
LEMMA StepFrame ==
  ASSUME FileInv, NEW t \in Threads, Step(t), NEW u \in Threads \ {t}
  PROVE  pc'[u] = pc[u] /\ op'[u] = op[u] /\ backedUp'[u] = backedUp[u] /\ res'[u] = res[u]
<1>1. /\ pc \in [Threads -> {"idle", "statBackup", "statTarget", "restore", "dropBackup",
           "read", "statOld", "backUp", "install", "undo", "cleanUp",
           "dropState", "removeTarget", "return"}]
      /\ op \in [Threads -> Calls \cup {NoCall}]
      /\ backedUp \in [Threads -> BOOLEAN]
      /\ res \in [Threads -> {Pending, Failed} \cup {Ok(v) : v \in Versions}]
  BY DEF FileInv, FileTypeOK
<1>2. (\E l : pc' = [pc EXCEPT ![t] = l]) /\ (op' = op \/ \E c : op' = [op EXCEPT ![t] = c])
  BY DEF Step, Begin, StatBackup, StatTarget, Restore, DropBackup, ReadTarget, StatOld, BackUp,
     Install, Undo, CleanUp, DropState, RemoveTarget, Return, Goto, Finish, Fails
<1>3. /\ backedUp' = backedUp \/ \E b : backedUp' = [backedUp EXCEPT ![t] = b]
      /\ res' = res \/ \E r : res' = [res EXCEPT ![t] = r]
  BY DEF Step, Begin, StatBackup, StatTarget, Restore, DropBackup, ReadTarget, StatOld, BackUp,
     Install, Undo, CleanUp, DropState, RemoveTarget, Return, Goto, Finish, Fails
<1> QED
  BY <1>1, <1>2, <1>3

LEMMA FileAloneNext ==
  ASSUME SharedIO, FileInv, NEW t \in Threads, Step(t)
  PROVE  Alone'
<1>1. FileTypeOK /\ Alone
  BY DEF FileInv
<1>2. CASE op' = op
  BY <1>1, <1>2, AloneKept
<1>3. CASE Begin(t)
  <2>1. PICK c \in Calls : Admitted(t, c) /\ op' = [op EXCEPT ![t] = c]
    BY <1>3 DEF Begin
  <2>2. op'[t] = c /\ \A u \in Threads \ {t} : op'[u] = op[u]
    BY <1>1, <2>1 DEF FileTypeOK
  <2>3. \A u \in Threads : op[u] # NoCall => c = ReadCall /\ op[u] = ReadCall
    BY <2>1 DEF Admitted, SameIO
  <2>4. ASSUME NEW u \in Threads, NEW w \in Threads, u # w,
               op'[u] # NoCall, op'[w] # NoCall
        PROVE  op'[u] = ReadCall /\ op'[w] = ReadCall
    <3>1. CASE u = t
      BY <3>1, <2>2, <2>3, <2>4
    <3>2. CASE w = t
      BY <3>2, <2>2, <2>3, <2>4
    <3>3. CASE u # t /\ w # t
      BY <3>3, <2>2, <2>4, <1>1 DEF Alone
    <3> QED
      BY <3>1, <3>2, <3>3
  <2> QED
    BY <2>4 DEF Alone, NoCall, ReadCall
<1>4. CASE Return(t)
  <2>1. op'[t] = NoCall /\ \A u \in Threads \ {t} : op'[u] = op[u]
    BY <1>1, <1>4 DEF FileTypeOK, Return
  <2> QED
    BY <1>1, <2>1 DEF Alone, NoCall, ReadCall
<1> QED
  BY <1>2, <1>3, <1>4 DEF Step, StatBackup, StatTarget, Restore, DropBackup, ReadTarget, StatOld,
     BackUp, Install, Undo, CleanUp, DropState, RemoveTarget, Fails

LEMMA FileCallNext ==
  ASSUME FileInv, NEW t \in Threads, Step(t)
  PROVE  CallInv'
<1>1. FileTypeOK /\ CallInv
  BY DEF FileInv
<1> DEFINE C(u) ==
      /\ pc[u] = "read" => op[u] = ReadCall
      /\ pc[u] \in {"statOld", "backUp", "install", "undo", "cleanUp"} => op[u].kind = "write"
      /\ pc[u] \in {"dropState", "removeTarget"} => op[u] = RemoveCall
      /\ pc[u] \in {"statBackup", "statTarget", "restore", "dropBackup"} => op[u] # RemoveCall
      /\ backedUp[u] => pc[u] \in {"install", "undo", "cleanUp", "return"}
<1>2. ASSUME NEW u \in Threads \ {t} PROVE C(u)'
  BY <1>1, StepFrame DEF CallInv, ReadCall, RemoveCall
<1>3. C(t)'
  <2> USE DEF Goto, Finish, Fails, names
  <2>1. /\ pc \in [Threads -> {"idle", "statBackup", "statTarget", "restore", "dropBackup",
             "read", "statOld", "backUp", "install", "undo", "cleanUp",
             "dropState", "removeTarget", "return"}]
        /\ op \in [Threads -> Calls \cup {NoCall}]
        /\ backedUp \in [Threads -> BOOLEAN] /\ (pc[t] = "idle" <=> op[t] = NoCall)
        /\ C(t)
    BY <1>1 DEF FileTypeOK, CallInv
  <2>2. op[t] # NoCall /\ op[t] # ReadCall /\ op[t] # RemoveCall => op[t].kind = "write"
    BY <2>1, CallKinds
  <2>3. CASE Begin(t)
    <3>1. PICK c \in Calls : op' = [op EXCEPT ![t] = c] /\ backedUp' = backedUp
             /\ pc' = [pc EXCEPT ![t] = IF c = RemoveCall THEN "dropState" ELSE "statBackup"]
      BY <2>3 DEF Begin
    <3>2. pc[t] = "idle"
      BY <2>3 DEF Begin
    <3> QED
      BY <2>1, <3>1, <3>2
  <2>4. CASE StatBackup(t) \/ StatTarget(t) \/ StatOld(t)
    BY <2>1, <2>2, <2>4 DEF StatBackup, StatTarget, StatOld, AfterRecovery
  <2>5. CASE Restore(t) \/ DropBackup(t) \/ ReadTarget(t)
    BY <2>1, <2>2, <2>5 DEF Restore, DropBackup, ReadTarget, AfterRecovery
  <2>6. CASE BackUp(t) \/ Install(t) \/ Undo(t) \/ CleanUp(t)
    BY <2>1, <2>6 DEF BackUp, Install, Undo, CleanUp
  <2>7. CASE DropState(t) \/ RemoveTarget(t)
    BY <2>1, <2>7 DEF DropState, RemoveTarget
  <2>8. CASE Return(t)
    <3>1. pc'[t] = "idle" /\ backedUp'[t] = FALSE
      BY <2>1, <2>8 DEF Return
    <3> QED
      BY <3>1
  <2> QED
    BY <2>3, <2>4, <2>5, <2>6, <2>7, <2>8 DEF Step
<1> HIDE DEF C
<1>4. \A u \in Threads : C(u)'
  BY <1>2, <1>3
<1> QED
  BY <1>4 DEF C, CallInv

\* What a thread counts on is not disturbed by the others: of a write or a removal
\* there are none, and readers only ever repair.
LEMMA OthersCount ==
  ASSUME FileInv, NEW t \in Threads, Step(t), NEW u \in Threads \ {t}
  PROVE  Counts(u)'
<1>1. FileTypeOK /\ Alone /\ CallInv /\ Counts(u) /\ Counts(t)
  BY DEF FileInv, NamesInv
<1>2. pc'[u] = pc[u] /\ backedUp'[u] = backedUp[u]
  BY StepFrame
<1>3. (pc[u] = "idle" <=> op[u] = NoCall) /\ (pc[t] = "idle" <=> op[t] = NoCall)
  BY <1>1 DEF FileTypeOK
<1>4. CASE op[u] = NoCall
  BY <1>2, <1>3, <1>4 DEF Counts
<1>5. CASE target' = target /\ backup' = backup
  BY <1>1, <1>2, <1>5 DEF Counts
<1>6. CASE op[u] # NoCall /\ ~(target' = target /\ backup' = backup)
  <2>1. pc[t] # "idle"
    BY <1>6 DEF Step, Begin, StatBackup, StatTarget, Restore, DropBackup, ReadTarget, StatOld,
       BackUp, Install, Undo, CleanUp, DropState, RemoveTarget, Return
  <2>2. op[t] = ReadCall /\ op[u] = ReadCall
    BY <1>1, <1>3, <1>6, <2>1 DEF Alone
  <2>3. /\ pc[u] \notin {"statOld", "backUp", "install", "undo", "cleanUp", "dropState", "removeTarget"}
        /\ pc[t] \notin {"statOld", "backUp", "install", "undo", "cleanUp", "dropState", "removeTarget"}
    BY <1>1, <2>2 DEF CallInv, ReadCall, RemoveCall
  <2>4. Restore(t) \/ DropBackup(t)
    BY <1>6, <2>3 DEF Step, Begin, StatBackup, StatTarget, Restore, DropBackup, ReadTarget, StatOld,
       BackUp, Install, Undo, CleanUp, DropState, RemoveTarget, Return, Fails, names
  <2>5. backup' = Absent /\ (target # Absent => target' # Absent)
    BY <1>1, <1>6, <2>4 DEF Restore, DropBackup, Fails, names, Counts
  <2> QED
    BY <1>1, <1>2, <2>3, <2>5 DEF Counts
<1> QED
  BY <1>4, <1>5, <1>6

LEMMA FileNamesNext ==
  ASSUME FileInv, NEW t \in Threads, Step(t)
  PROVE  NamesInv'
<1>1. ASSUME NEW u \in Threads \ {t} PROVE Counts(u)'
  BY OthersCount
<1>2. Counts(t)'
  <2> USE DEF Goto, Finish, Fails, names
  <2>1. /\ pc \in [Threads -> {"idle", "statBackup", "statTarget", "restore", "dropBackup",
             "read", "statOld", "backUp", "install", "undo", "cleanUp",
             "dropState", "removeTarget", "return"}]
        /\ backedUp \in [Threads -> BOOLEAN]
        /\ op \in [Threads -> Calls \cup {NoCall}]
        /\ Counts(t) /\ CallInv
    BY DEF FileInv, FileTypeOK, NamesInv
  <2>2. backedUp[t] => pc[t] \in {"install", "undo", "cleanUp", "return"}
    BY <2>1 DEF CallInv
  <2>3. CASE Begin(t)
    BY <2>1, <2>3 DEF Begin, Counts
  <2>4. CASE StatBackup(t) \/ StatTarget(t)
    BY <2>1, <2>4 DEF StatBackup, StatTarget, AfterRecovery, Counts
  <2>5. CASE StatOld(t)
    <3>1. ~backedUp[t] /\ backedUp' = backedUp
      BY <2>2, <2>5 DEF StatOld
    <3> QED
      BY <2>1, <2>5, <3>1 DEF StatOld, Counts
  <2>6. CASE Restore(t) \/ DropBackup(t) \/ ReadTarget(t)
    BY <2>1, <2>6 DEF Restore, DropBackup, ReadTarget, AfterRecovery, Counts
  <2>7. CASE BackUp(t)
    <3>1. CASE backedUp' = [backedUp EXCEPT ![t] = TRUE]
      <4>1. backedUp'[t] = TRUE
        BY <2>1, <3>1
      <4> QED
        BY <2>1, <2>2, <2>7, <4>1 DEF BackUp, Counts
    <3> QED
      BY <2>1, <2>7, <3>1 DEF BackUp, Counts
  <2>8. CASE Install(t)
    <3>1. op[t].text # Absent
      BY <2>1, <2>8, CallKinds, FileAssumption DEF CallInv, Install
    <3> QED
      BY <2>1, <2>8, <3>1 DEF Install, Counts
  <2>9. CASE Undo(t) \/ CleanUp(t) \/ DropState(t) \/ RemoveTarget(t) \/ Return(t)
    BY <2>1, <2>9 DEF Undo, CleanUp, DropState, RemoveTarget, Return, Counts
  <2> QED
    BY <2>3, <2>4, <2>5, <2>6, <2>7, <2>8, <2>9 DEF Step
<1>3. \A u \in Threads : Counts(u)'
  BY <1>1, <1>2
<1> QED
  BY <1>3 DEF NamesInv

LEMMA FileDieNext ==
  ASSUME FileInv, Die
  PROVE  FileInv'
<1>1. \A t \in Threads : op'[t] = NoCall /\ pc'[t] = "idle" /\ ~backedUp'[t] /\ res'[t] = Pending
  BY DEF Die
<1>2. FileTypeOK'
  <2>1. Pending \in {Pending, Failed} \cup {Ok(v) : v \in Versions}
    OBVIOUS
  <2>2. /\ op' \in [Threads -> Calls \cup {NoCall}]
        /\ pc' = [t \in Threads |-> "idle"]
        /\ backedUp' \in [Threads -> BOOLEAN] /\ temp' = {}
        /\ target' \in Versions /\ backup' \in Versions
    BY DEF Die, FileInv, FileTypeOK
  <2>3. res' \in [Threads -> {Pending, Failed} \cup {Ok(v) : v \in Versions}]
    BY <2>1 DEF Die
  <2> QED
    BY <1>1, <2>2, <2>3 DEF FileTypeOK
<1>3. Alone' /\ CallInv' /\ NamesInv'
  BY <1>1 DEF Alone, CallInv, NamesInv, Counts
<1> QED
  BY <1>2, <1>3 DEF FileInv

LEMMA FileInvNext ==
  ASSUME SharedIO, FileInv, [FileNext]_filevars
  PROVE  FileInv'
<1>1. CASE UNCHANGED filevars
  BY <1>1 DEF filevars, FileInv, FileTypeOK, Alone, CallInv, NamesInv, Counts
<1>2. ASSUME NEW t \in Threads, Step(t) PROVE FileInv'
  BY <1>2, FileTypeNext, FileAloneNext, FileCallNext, FileNamesNext DEF FileInv
<1> QED
  BY <1>1, <1>2, FileDieNext DEF FileNext

LEMMA FileInvariant == ASSUME SharedIO PROVE FileSpec => []FileInv
<1>1. FileInv /\ [FileNext]_filevars => FileInv'
  BY FileInvNext
<1> QED
  BY <1>1, FileInvInit, PTL DEF FileSpec

\* The files and the calls have their types, for any threads and any texts, when
\* every thread goes through one IO.
THEOREM FileTypeCorrect == ASSUME SharedIO PROVE FileSpec => []FileTypeOK
<1>1. FileInv => FileTypeOK
  BY DEF FileInv
<1> QED
  BY <1>1, FileInvariant, PTL

--------------------------------------------------------------------------------
(* The refinement: Contents is the value of the register, and a call has       *)
(* happened while TookEffect holds of it.                                      *)

CallsAgree ==
  /\ File!ReadCall = ReadCall /\ File!RemoveCall = RemoveCall
  /\ File!NoCall = NoCall /\ File!Calls = Calls
  /\ File!Pending = Pending /\ File!Failed = Failed
  /\ \A v : File!Ok(v) = Ok(v)

LEMMA SameCalls == CallsAgree
BY DEF CallsAgree, File!ReadCall, ReadCall, File!RemoveCall, RemoveCall, File!NoCall, NoCall,
   File!Calls, Calls, File!WriteCall, WriteCall, File!Pending, Pending, File!Failed, Failed,
   File!Ok, Ok

\* done, and what of it a step changes.
DoneOf(t) == [happened |-> TookEffect(t), saw |-> IF TookEffect(t) THEN op[t].text ELSE Absent]
DoneOfAll == [t \in Threads |-> DoneOf(t)]

LEMMA OthersEffect ==
  ASSUME FileInv, NEW t \in Threads, Step(t), NEW u \in Threads \ {t}
  PROVE  DoneOf(u)' = DoneOf(u)
<1>1. FileTypeOK /\ Alone /\ CallInv
  BY DEF FileInv
<1>2. pc'[u] = pc[u] /\ op'[u] = op[u]
  BY StepFrame
<1>3. (pc[u] = "idle" <=> op[u] = NoCall) /\ (pc[t] = "idle" <=> op[t] = NoCall)
  BY <1>1 DEF FileTypeOK
<1>4. CASE op[u].kind # "remove"
  BY <1>2, <1>4 DEF DoneOf, TookEffect
<1>5. CASE op[u].kind = "remove"
  <2>1. op[t] = NoCall
    BY <1>1, <1>5 DEF Alone, ReadCall, NoCall
  <2>2. target' = target
    BY <1>3, <2>1 DEF Step, Begin, StatBackup, StatTarget, Restore, DropBackup, ReadTarget, StatOld,
       BackUp, Install, Undo, CleanUp, DropState, RemoveTarget, Return
  <2> QED
    BY <1>2, <2>2 DEF DoneOf, TookEffect
<1> QED
  BY <1>4, <1>5

LEMMA DoneStep ==
  ASSUME FileInv, NEW t \in Threads, Step(t)
  PROVE  DoneOfAll' = [DoneOfAll EXCEPT ![t] = DoneOf(t)']
<1>1. \A u \in Threads \ {t} : DoneOf(u)' = DoneOf(u)
  BY OthersEffect
<1> DEFINE D == DoneOfAll  d == DoneOf(t)'
<1>2. D = [u \in Threads |-> DoneOf(u)] /\ D' = [u \in Threads |-> DoneOf(u)']
  BY DEF DoneOfAll
<1> HIDE DEF D, d
<1>3. [D EXCEPT ![t] = d] = [u \in Threads |-> IF u = t THEN d ELSE DoneOf(u)]
  BY <1>2
<1> QED
  BY <1>1, <1>2, <1>3 DEF D, d

LEMMA InitMaps == FileInit => File!Init
BY DEF FileInit, File!Init, Contents, TookEffect, Versions, NoCall, File!NoCall, Pending,
   File!Pending, File!NotYet

LEMMA NoEffect ==
  ASSUME NEW t \in Threads
  PROVE  /\ ~TookEffect(t) => DoneOf(t) = [happened |-> FALSE, saw |-> Absent]
         /\ ~TookEffect(t)' => DoneOf(t)' = [happened |-> FALSE, saw |-> Absent]
<1>1. ASSUME ~TookEffect(t) PROVE DoneOf(t) = [happened |-> FALSE, saw |-> Absent]
  <2>1. TookEffect(t) = FALSE
    BY <1>1 DEF TookEffect
  <2> QED
    BY <2>1 DEF DoneOf
<1>2. ASSUME ~TookEffect(t)' PROVE DoneOf(t)' = [happened |-> FALSE, saw |-> Absent]
  <2>1. TookEffect(t)' = FALSE
    BY <1>2 DEF TookEffect
  <2> QED
    BY <2>1 DEF DoneOf
<1> QED
  BY <1>1, <1>2

LEMMA HappenMaps ==
  ASSUME NEW t \in Threads, DoneOfAll' = [DoneOfAll EXCEPT ![t] = DoneOf(t)'],
         op[t] # NoCall, res[t] = Pending, ~TookEffect(t), op' = op,
         Contents' = (IF op[t] = ReadCall THEN Contents ELSE op[t].text),
         \/ TookEffect(t)' /\ res' = res /\ op[t] # ReadCall
         \/ /\ ~TookEffect(t)'
            /\ \E r \in {Ok(Contents'), Failed} : res' = [res EXCEPT ![t] = r]
  PROVE  File!Happen(t)
<1>1. DoneOfAll[t] = DoneOf(t)
  BY DEF DoneOfAll
<1>2. CASE TookEffect(t)'
  <2>1. DoneOf(t)' = [happened |-> TRUE, saw |-> Contents']
    BY <1>2 DEF DoneOf
  <2> QED
    BY <1>1, <1>2, <2>1, SameCalls DEF CallsAgree, File!Happen, File!Done, DoneOfAll, DoneOf
<1>3. CASE ~TookEffect(t)'
  <2>1. DoneOf(t)' = DoneOf(t)
    BY <1>3, NoEffect
  <2>2. DoneOfAll' = DoneOfAll
    BY <1>1, <2>1 DEF DoneOfAll
  <2> QED
    BY <1>1, <1>3, <2>2, SameCalls DEF CallsAgree, File!Happen, DoneOfAll, DoneOf
<1> QED
  BY <1>2, <1>3

LEMMA AnswerMaps ==
  ASSUME NEW t \in Threads, DoneOfAll' = [DoneOfAll EXCEPT ![t] = DoneOf(t)'],
         op[t] # NoCall, res[t] = Pending, op' = op, Contents' = Contents,
         ~TookEffect(t)',
         \/ res' = [res EXCEPT ![t] = Failed]
         \/ TookEffect(t) /\ res' = [res EXCEPT ![t] = Ok(op[t].text)]
  PROVE  File!Answer(t)
<1>1. DoneOfAll[t] = DoneOf(t)
  BY DEF DoneOfAll
<1>2. DoneOf(t)' = [happened |-> FALSE, saw |-> Absent]
  BY NoEffect
<1> QED
  BY <1>1, <1>2, SameCalls DEF CallsAgree, File!Answer, File!NotYet, DoneOfAll, DoneOf

LEMMA NothingMaps ==
  ASSUME NEW t \in Threads, DoneOfAll' = [DoneOfAll EXCEPT ![t] = DoneOf(t)'],
         op' = op, res' = res, Contents' = Contents,
         TookEffect(t)' <=> TookEffect(t)
  PROVE  UNCHANGED File!avars
<1>1. DoneOfAll[t] = DoneOf(t)
  BY DEF DoneOfAll
<1>2. DoneOf(t)' = DoneOf(t)
  <2>1. CASE TookEffect(t)
    <3>1. DoneOf(t) = [happened |-> TRUE, saw |-> op[t].text]
      BY <2>1 DEF DoneOf, TookEffect
    <3>2. DoneOf(t)' = [happened |-> TRUE, saw |-> op[t].text]
      BY <2>1 DEF DoneOf, TookEffect
    <3> QED
      BY <3>1, <3>2
  <2> QED
    BY <2>1, NoEffect
<1>3. DoneOfAll' = DoneOfAll
  BY <1>1, <1>2 DEF DoneOfAll
<1> QED
  BY <1>3 DEF File!avars, DoneOfAll, DoneOf

LEMMA ReadStepMaps ==
  ASSUME FileInv, NEW t \in Threads,
         \/ StatBackup(t) \/ StatTarget(t) \/ Restore(t) \/ DropBackup(t)
         \/ ReadTarget(t)
  PROVE  [File!Next]_File!avars
<1> USE DEF Goto, Finish, Fails, names
<1>1. Step(t) /\ DoneOfAll' = [DoneOfAll EXCEPT ![t] = DoneOf(t)']
  BY DoneStep DEF Step
<1>2. /\ pc \in [Threads -> {"idle", "statBackup", "statTarget", "restore", "dropBackup",
           "read", "statOld", "backUp", "install", "undo", "cleanUp",
           "dropState", "removeTarget", "return"}]
      /\ pc[t] \in {"statBackup", "statTarget", "restore", "dropBackup", "read"}
      /\ op[t] # NoCall /\ res[t] = Pending
      /\ Counts(t) /\ (pc[t] = "read" => op[t] = ReadCall)
  BY DEF FileInv, FileTypeOK, NamesInv, CallInv, StatBackup, StatTarget, Restore, DropBackup,
     ReadTarget
<1>3. op' = op /\ ~TookEffect(t) /\ ~TookEffect(t)'
  BY <1>2 DEF TookEffect, StatBackup, StatTarget, Restore, DropBackup, ReadTarget, AfterRecovery
<1>4. CASE Fails(t)
  BY <1>1, <1>2, <1>3, <1>4, AnswerMaps DEF Contents, File!Next
<1>5. CASE ReadTarget(t) /\ ~Fails(t)
  <2>1. Contents' = Contents /\ res' = [res EXCEPT ![t] = Ok(target)]
    BY <1>5 DEF ReadTarget, Contents
  <2>2. Contents = target
    BY <1>2, <1>5 DEF Counts, Contents, ReadTarget
  <2>3. res' = [res EXCEPT ![t] = Ok(Contents')]
    BY <2>1, <2>2
  <2> QED
    BY <1>1, <1>2, <1>3, <1>5, <2>1, <2>3, HappenMaps DEF File!Next, ReadTarget
<1>6. CASE ~ReadTarget(t) /\ ~Fails(t)
  <2>1. res' = res
    BY <1>6 DEF StatBackup, StatTarget, Restore, DropBackup
  <2>2. Contents' = Contents
    BY <1>2, <1>6 DEF StatBackup, StatTarget, Restore, DropBackup, Counts, Contents
  <2> QED
    BY <1>1, <1>3, <2>1, <2>2, NothingMaps
<1> QED
  BY <1>4, <1>5, <1>6

LEMMA WriteStepMaps ==
  ASSUME FileInv, NEW t \in Threads,
         StatOld(t) \/ BackUp(t) \/ Install(t) \/ Undo(t) \/ CleanUp(t)
  PROVE  [File!Next]_File!avars
<1> USE DEF Goto, Finish, Fails, names
<1>1. Step(t) /\ DoneOfAll' = [DoneOfAll EXCEPT ![t] = DoneOf(t)']
  BY DoneStep DEF Step
<1>2. /\ pc \in [Threads -> {"idle", "statBackup", "statTarget", "restore", "dropBackup",
           "read", "statOld", "backUp", "install", "undo", "cleanUp",
           "dropState", "removeTarget", "return"}]
      /\ pc[t] \in {"statOld", "backUp", "install", "undo", "cleanUp"}
      /\ op[t] \in Calls \cup {NoCall} /\ op[t].kind = "write"
      /\ (res[t] # Pending <=> pc[t] = "undo")
      /\ Counts(t)
  BY DEF FileInv, FileTypeOK, NamesInv, CallInv, StatOld, BackUp, Install, Undo, CleanUp
<1>3. op' = op /\ op[t] # NoCall /\ op[t] # ReadCall /\ op[t].text \in Values
      /\ op[t].text # Absent
  BY <1>2, CallKinds, FileAssumption DEF StatOld, BackUp, Install, Undo, CleanUp
<1>4. (TookEffect(t) <=> pc[t] = "cleanUp") /\ (TookEffect(t)' <=> pc'[t] = "cleanUp")
  BY <1>2, <1>3 DEF TookEffect
<1>5. CASE Fails(t) /\ pc[t] # "undo"
  BY <1>1, <1>2, <1>3, <1>4, <1>5, AnswerMaps DEF Contents, File!Next
<1>6. CASE StatOld(t)
  BY <1>1, <1>2, <1>3, <1>4, <1>6, NothingMaps DEF StatOld, Contents
<1>7. CASE BackUp(t) /\ ~Fails(t)
  BY <1>1, <1>2, <1>3, <1>4, <1>7, NothingMaps DEF BackUp, Contents
<1>8. CASE Install(t)
  <2>1. CASE target' = op[t].text /\ pc' = [pc EXCEPT ![t] = "cleanUp"] /\ res' = res
    <3>1. Contents' = op[t].text
      BY <1>3, <2>1 DEF Contents
    <3> QED
      BY <1>1, <1>2, <1>3, <1>4, <1>8, <2>1, <3>1, HappenMaps DEF Install, File!Next
  <2>2. CASE res' = [res EXCEPT ![t] = Failed] /\ target' = target /\ backup' = backup
             /\ pc' = [pc EXCEPT ![t] = IF backedUp[t] THEN "undo" ELSE "return"]
    BY <1>1, <1>2, <1>3, <1>4, <1>8, <2>2, AnswerMaps DEF Install, Contents, File!Next
  <2> QED
    BY <1>8, <2>1, <2>2 DEF Install
<1>9. CASE Undo(t)
  <2>1. Contents' = Contents
    BY <1>2, <1>9 DEF Undo, Contents, Counts
  <2> QED
    BY <1>1, <1>2, <1>3, <1>4, <1>9, <2>1, NothingMaps DEF Undo
<1>10. CASE CleanUp(t) /\ ~Fails(t)
  <2>1. Contents' = Contents
    BY <1>2, <1>10 DEF CleanUp, Contents, Counts
  <2> QED
    BY <1>1, <1>2, <1>3, <1>4, <1>10, <2>1, AnswerMaps DEF CleanUp, File!Next
<1> QED
  BY <1>5, <1>6, <1>7, <1>8, <1>9, <1>10 DEF BackUp, CleanUp

LEMMA RemoveStepMaps ==
  ASSUME FileInv, NEW t \in Threads, DropState(t) \/ RemoveTarget(t)
  PROVE  [File!Next]_File!avars
<1> USE DEF Goto, Finish, Fails, names
<1>1. Step(t) /\ DoneOfAll' = [DoneOfAll EXCEPT ![t] = DoneOf(t)']
  BY DoneStep DEF Step
<1>2. /\ pc \in [Threads -> {"idle", "statBackup", "statTarget", "restore", "dropBackup",
           "read", "statOld", "backUp", "install", "undo", "cleanUp",
           "dropState", "removeTarget", "return"}]
      /\ pc[t] \in {"dropState", "removeTarget"}
      /\ op[t] = RemoveCall /\ res[t] = Pending
      /\ Counts(t)
  BY DEF FileInv, FileTypeOK, NamesInv, CallInv, DropState, RemoveTarget
<1>3. op' = op /\ op[t] # NoCall /\ op[t] # ReadCall /\ op[t].text = Absent
      /\ op[t].kind = "remove"
  BY <1>2 DEF DropState, RemoveTarget, NoCall, ReadCall, RemoveCall
<1>4. /\ TookEffect(t) <=> pc[t] = "removeTarget" /\ target = Absent
      /\ TookEffect(t)' <=> pc'[t] = "removeTarget" /\ target' = Absent
  BY <1>2, <1>3 DEF TookEffect
<1>5. CASE Fails(t)
  BY <1>1, <1>2, <1>3, <1>4, <1>5, AnswerMaps DEF Contents, File!Next
<1>6. CASE DropState(t) /\ ~Fails(t)
  <2>1. backup' = Absent /\ target' = target /\ pc[t] = "dropState"
    BY <1>6 DEF DropState
  <2>2. \/ pc'[t] = "removeTarget" /\ res' = res
        \/ pc'[t] = "return" /\ res' = [res EXCEPT ![t] = Failed]
    BY <1>2, <1>6 DEF DropState
  <2>3. CASE target = Absent
    <3>1. Contents' = op[t].text
      BY <1>3, <2>1, <2>3 DEF Contents
    <3> QED
      BY <1>1, <1>2, <1>3, <1>4, <2>1, <2>2, <2>3, <3>1, HappenMaps DEF File!Next
  <2>4. CASE target # Absent
    <3>1. Contents' = Contents
      BY <2>1, <2>4 DEF Contents
    <3> QED
      BY <1>1, <1>2, <1>3, <1>4, <2>1, <2>2, <2>4, <3>1, NothingMaps, AnswerMaps DEF File!Next
  <2> QED
    BY <2>3, <2>4
<1>7. CASE RemoveTarget(t) /\ ~Fails(t)
  <2>1. /\ target' = Absent /\ backup' = backup /\ pc[t] = "removeTarget" /\ pc'[t] = "return"
        /\ res' = [res EXCEPT ![t] = Ok(Absent)]
    BY <1>2, <1>7 DEF RemoveTarget
  <2>2. backup = Absent
    BY <1>2, <2>1 DEF Counts
  <2>3. Contents' = Absent /\ Contents = target
    BY <2>1, <2>2 DEF Contents
  <2>4. CASE target = Absent
    BY <1>1, <1>2, <1>3, <1>4, <2>1, <2>3, <2>4, AnswerMaps DEF File!Next
  <2>5. CASE target # Absent
    <3>1. res' = [res EXCEPT ![t] = Ok(Contents')]
      BY <2>1, <2>3
    <3> QED
      BY <1>1, <1>2, <1>3, <1>4, <2>1, <2>3, <2>5, <3>1, HappenMaps DEF File!Next
  <2> QED
    BY <2>4, <2>5
<1> QED
  BY <1>5, <1>6, <1>7

LEMMA CallStepMaps ==
  ASSUME FileInv, NEW t \in Threads, Begin(t) \/ Return(t)
  PROVE  [File!Next]_File!avars
<1> USE DEF Goto
<1>1. DoneOfAll' = [DoneOfAll EXCEPT ![t] = DoneOf(t)']
  BY DoneStep DEF Step
<1>2. /\ pc \in [Threads -> {"idle", "statBackup", "statTarget", "restore", "dropBackup",
           "read", "statOld", "backUp", "install", "undo", "cleanUp",
           "dropState", "removeTarget", "return"}]
      /\ op \in [Threads -> Calls \cup {NoCall}]
      /\ pc[t] \in {"idle", "return"} /\ pc'[t] \in {"idle", "dropState", "statBackup"}
      /\ pc[t] = "idle" <=> op[t] = NoCall
      /\ res[t] # Pending <=> pc[t] \in {"undo", "return"}
      /\ target' = target /\ backup' = backup
  BY DEF FileInv, FileTypeOK, Begin, Return
<1>3. ~TookEffect(t) /\ ~TookEffect(t)'
  BY <1>2 DEF TookEffect
<1>4. DoneOfAll' = DoneOfAll
  <2>1. DoneOf(t)' = DoneOfAll[t]
    BY <1>3, NoEffect DEF DoneOfAll
  <2> QED
    BY <1>1, <2>1 DEF DoneOfAll
<1>5. Contents' = Contents
  BY <1>2 DEF Contents
<1>6. CASE Begin(t)
  <2>1. File!Call(t)
    BY <1>2, <1>4, <1>5, <1>6, SameCalls DEF CallsAgree, File!Call, Begin, DoneOfAll, DoneOf
  <2> QED
    BY <2>1 DEF File!Next
<1>7. CASE Return(t)
  <2>1. pc[t] = "return"
    BY <1>7 DEF Return
  <2>2. File!Return(t)
    BY <1>2, <1>4, <1>5, <1>7, <2>1, SameCalls DEF CallsAgree, File!Return, Return, DoneOfAll,
       DoneOf
  <2> QED
    BY <2>2 DEF File!Next
<1> QED
  BY <1>6, <1>7

LEMMA DieMaps ==
  ASSUME Die
  PROVE  [File!Next]_File!avars
<1>1. \A t \in Threads : ~TookEffect(t)'
  BY DEF Die, TookEffect
<1>2. DoneOfAll' = [t \in Threads |-> [happened |-> FALSE, saw |-> Absent]]
  BY <1>1, NoEffect DEF DoneOfAll
<1>3. File!Die
  BY <1>2, SameCalls DEF CallsAgree, File!Die, File!NotYet, Die, Contents, DoneOfAll, DoneOf
<1> QED
  BY <1>3 DEF File!Next

\* Where all threads use one IO, a file is a register: a replacement or a removal,
\* its errors, its end half way and the repair of what it left included, has one
\* moment at which it happens, or none (store/io.go).
THEOREM RegisterImplemented ==
  ASSUME SharedIO
  PROVE  FileSpec => ImplementsAtomicFile
<1>1. FileInv /\ [FileNext]_filevars => [File!Next]_File!avars
  <2> SUFFICES ASSUME FileInv, [FileNext]_filevars
               PROVE  [File!Next]_File!avars
    OBVIOUS
  <2>1. CASE UNCHANGED filevars
    <3>1. ASSUME NEW t \in Threads PROVE DoneOf(t)' = DoneOf(t)
      BY <2>1 DEF filevars, DoneOf, TookEffect
    <3>2. DoneOfAll' = DoneOfAll
      BY <3>1 DEF DoneOfAll
    <3> QED
      BY <2>1, <3>2 DEF filevars, File!avars, Contents, DoneOfAll, DoneOf
  <2>2. ASSUME NEW t \in Threads, Step(t)
        PROVE  [File!Next]_File!avars
    BY <2>2, CallStepMaps, ReadStepMaps, WriteStepMaps, RemoveStepMaps DEF Step
  <2> QED
    BY <2>1, <2>2, DieMaps DEF FileNext
<1> QED
  BY <1>1, InitMaps, FileInvariant, PTL DEF FileSpec, File!Spec, ImplementsAtomicFile
--------------------------------------------------------------------------------
(* DraftGates, for any texts, segments and projects. The gate of the            *)
(* consistency check looks at one field of the log, and what it says of the     *)
(* text rests on everything that ever wrote that field (PassedInv).             *)

PassedInv ==
  /\ DOMAIN latestBy = ToolSteps
  /\ latestBy["consistency_check"] \in everPassed \cup {None}

\* What a chapter that is not open holds: a draft, and the same text as the final
\* one until somebody works on either.
DraftInv ==
  /\ project \in Projects
  /\ draft \in Texts \cup {None} /\ final \in Texts \cup {None}
  /\ status \in {"open", "done", "queued"}
  /\ status # "open" => draft # None
  /\ status # "open" /\ ~revised /\ ~project.publishing => draft = final

GatesInv == PassedInv /\ DraftInv

--------------------------------------------------------------------------------
LEMMA RecordPasses ==
  ASSUME NEW s \in ToolSteps \ {"consistency_check"}, NEW d,
         PassedInv, Log!Record(s, d) \/ UNCHANGED bookvars, everPassed' = everPassed
  PROVE  PassedInv'
<1>1. CASE latestBy' = latestBy
  BY <1>1 DEF PassedInv
<1>2. CASE latestBy' = [latestBy EXCEPT ![s] = d]
  BY <1>2 DEF PassedInv, ToolSteps
<1> QED
  BY <1>1, <1>2 DEF Log!Record, bookvars

LEMMA InitGates == GatesInit => GatesInv
BY DEF GatesInit, GatesInv, PassedInv, DraftInv, Log!BookInit, ToolSteps

LEMMA PassedNext ==
  ASSUME GatesInv, [GatesNext]_gatesvars
  PROVE  PassedInv'
<1> USE DEF ToolSteps
<1>1. PassedInv /\ draft \in Texts \cup {None}
  BY DEF GatesInv, DraftInv
<1>2. CASE UNCHANGED gatesvars
  BY <1>1, <1>2 DEF gatesvars, PassedInv
<1>3. ASSUME NEW t \in Texts, DraftChapter(t) \/ EditChapter(t) \/ RepairBatch(t)
      PROVE  PassedInv'
  <2>1. PICK s \in {"draft", "edit", "de_ai_batch_repair"} : Saved(t, s)
    BY <1>3 DEF DraftChapter, EditChapter, RepairBatch
  <2> QED
    BY <1>1, <2>1, RecordPasses DEF Saved, auditvars
<1>4. ASSUME NEW t \in Texts, SegmentAnswered(t) \/ SegmentFails(t) \/ Publish(t)
      PROVE  PassedInv'
  <2>1. CASE SegmentAnswered(t)
    <3> PICK d : d = <<t, Segment>>
      OBVIOUS
    <3>1. /\ Log!Record("segment", d)
          /\ everPassed' = everPassed
      BY <2>1 DEF SegmentAnswered, auditvars
    <3> QED
      BY <1>1, <3>1, RecordPasses
  <2>2. CASE SegmentFails(t) \/ Publish(t)
    BY <1>1, <2>2 DEF SegmentFails, Publish, auditvars, bookvars, PassedInv
  <2> QED
    BY <1>4, <2>1, <2>2
<1>5. CASE ConsistencyPassed
  <2>1. /\ Log!Record("consistency_check", draft) /\ draft \in Texts
        /\ everPassed' = everPassed \cup {draft}
    BY <1>1, <1>5 DEF ConsistencyPassed, Judged
  <2> QED
    BY <1>1, <2>1 DEF Log!Record, PassedInv
<1>6. CASE EditRefused \/ DeAIRefused \/ CheckAdaptation \/ CommitInterrupted \/ Queue
  BY <1>1, <1>6 DEF EditRefused, ConsistencyBlocked, Judged, DeAIRefused, CheckAdaptation,
     CommitInterrupted, Queue, auditvars, bookvars, PassedInv
<1>7. CASE ConsistencyBlocked
  BY <1>1, <1>7 DEF ConsistencyBlocked, Judged, bookvars, PassedInv
<1>8. CASE CheckDeAI
  <2>1. /\ Log!Record("de_ai_check", None) \/ UNCHANGED bookvars
        /\ everPassed' = everPassed
    BY <1>8 DEF CheckDeAI
  <2> QED
    BY <1>1, <2>1, RecordPasses
<1>9. CASE Commit
  <2>1. /\ Log!Record("commit", draft) \/ UNCHANGED bookvars
        /\ everPassed' = everPassed
    BY <1>9 DEF Commit, auditvars
  <2> QED
    BY <1>1, <2>1, RecordPasses
<1> QED
  BY <1>2, <1>3, <1>4, <1>5, <1>6, <1>7, <1>8, <1>9 DEF GatesNext

LEMMA DraftNext ==
  ASSUME GatesInv, [GatesNext]_gatesvars
  PROVE  DraftInv'
<1>1. DraftInv
  BY DEF GatesInv
<1>2. CASE UNCHANGED gatesvars
  BY <1>1, <1>2 DEF gatesvars, DraftInv
<1>3. CASE GatesNext
  <2>1. project' = project
    BY <1>3 DEF GatesNext
  <2>2. ASSUME NEW t \in Texts,
               \/ DraftChapter(t) \/ EditChapter(t) \/ RepairBatch(t)
               \/ SegmentAnswered(t) \/ SegmentFails(t)
        PROVE  DraftInv'
    BY <1>1, <2>1, <2>2, GatesAssumption DEF DraftChapter, EditChapter, RepairBatch,
       SegmentAnswered, SegmentFails, Saved, DraftInv
  <2>3. ASSUME NEW t \in Texts, Publish(t)
        PROVE  DraftInv'
    BY <1>1, <2>1, <2>3 DEF Publish, draftvars, DraftInv
  <2>4. CASE EditRefused
    BY <1>1, <2>1, <2>4 DEF EditRefused, Base, DraftInv
  <2>5. CASE \/ ConsistencyPassed \/ ConsistencyBlocked \/ DeAIRefused
             \/ CheckDeAI \/ CheckAdaptation
    BY <1>1, <2>1, <2>5 DEF ConsistencyPassed, ConsistencyBlocked, Judged, DeAIRefused, CheckDeAI,
       CheckAdaptation, draftvars, DraftInv
  <2>6. CASE Commit \/ CommitInterrupted
    BY <1>1, <2>1, <2>6 DEF Commit, CommitInterrupted, MayCommit, draftvars, DraftInv
  <2>7. CASE Queue
    BY <1>1, <2>1, <2>7 DEF Queue, draftvars, DraftInv
  <2> QED
    BY <1>3, <2>2, <2>3, <2>4, <2>5, <2>6, <2>7 DEF GatesNext
<1> QED
  BY <1>2, <1>3

LEMMA GatesInvariant == GatesSpec => []GatesInv
<1>1. GatesInv /\ [GatesNext]_gatesvars => GatesInv'
  BY PassedNext, DraftNext DEF GatesInv
<1> QED
  BY <1>1, InitGates, PTL DEF GatesSpec

\* A segment checkpoint names one of the segments of the text.
SegmentInv == latestBy["segment"] \in (Texts \X (0..(Segments - 1))) \cup {None}

GatesTyped == GatesTypeOK /\ SegmentInv

BookTyped ==
  /\ known \subseteq ToolSteps \X (TextDigests \cup {None})
  /\ latestBy \in [ToolSteps -> TextDigests \cup {None}]
  /\ SegmentInv

TextsTyped ==
  /\ draft \in Texts \cup {None} /\ final \in Texts \cup {None}
  /\ status \in {"open", "done", "queued"} /\ (status # "open" => final # None)
  /\ deAI \in Texts \cup {None} /\ everPassed \subseteq Texts

LEMMA RecordTyped ==
  ASSUME BookTyped, NEW s \in ToolSteps, NEW d \in TextDigests \cup {None},
         s = "segment" => d \in Texts \X (0..(Segments - 1)),
         Log!Record(s, d) \/ UNCHANGED bookvars
  PROVE  BookTyped'
<1>1. CASE UNCHANGED <<known, latestBy>>
  BY <1>1 DEF BookTyped, SegmentInv
<1>2. CASE known' = known \cup {<<s, d>>} /\ latestBy' = [latestBy EXCEPT ![s] = d]
  <2>1. known' \subseteq ToolSteps \X (TextDigests \cup {None})
    BY <1>2 DEF BookTyped
  <2>2. latestBy' \in [ToolSteps -> TextDigests \cup {None}]
    BY <1>2 DEF BookTyped
  <2>3. SegmentInv'
    <3>1. "segment" \in ToolSteps
      BY DEF ToolSteps
    <3>2. CASE s = "segment"
      BY <1>2, <3>1, <3>2 DEF BookTyped, SegmentInv
    <3>3. CASE s # "segment"
      BY <1>2, <3>1, <3>3 DEF BookTyped, SegmentInv
    <3> QED
      BY <3>2, <3>3
  <2> QED
    BY <2>1, <2>2, <2>3 DEF BookTyped
<1> QED
  BY <1>1, <1>2 DEF Log!Record, bookvars

LEMMA GatesTypedInit ==
  ASSUME GatesInit
  PROVE  GatesTyped
<1>1. /\ project \in Projects /\ draft = None /\ final = None /\ status = "open"
      /\ known = {} /\ latestBy = [s \in ToolSteps |-> None] /\ deAI = None /\ everPassed = {}
  BY DEF GatesInit, Log!BookInit
<1>2. project.deAI \in BOOLEAN
  BY <1>1, GatesAssumption DEF Project
<1>3. enabled \in BOOLEAN
  BY <1>2 DEF GatesInit
<1>4. revised \in BOOLEAN
  BY DEF GatesInit
<1>5. adaptation \in [text : Texts \cup {None}, passed : BOOLEAN]
  BY DEF GatesInit
<1>6. SegmentInv
  BY <1>1 DEF SegmentInv, ToolSteps
<1> QED
  BY <1>1, <1>3, <1>4, <1>5, <1>6 DEF GatesTyped, GatesTypeOK

LEMMA GatesTypedNext ==
  ASSUME GatesTyped, [GatesNext]_gatesvars
  PROVE  GatesTyped'
<1>1. project \in Projects /\ TextsTyped /\ BookTyped /\ None \notin Texts
  <2>1. TextsTyped
    BY DEF GatesTyped, GatesTypeOK, TextsTyped
  <2>2. BookTyped
    BY DEF GatesTyped, GatesTypeOK, BookTyped
  <2> QED
    BY <2>1, <2>2, GatesAssumption DEF GatesTyped, GatesTypeOK
<1>2. adaptation \in [text : Texts \cup {None}, passed : BOOLEAN]
  BY DEF GatesTyped, GatesTypeOK
<1>3. CASE UNCHANGED gatesvars
  BY <1>3 DEF gatesvars, GatesTyped, GatesTypeOK, SegmentInv
<1>4. CASE GatesNext
  <2>1. project' \in Projects
    BY <1>1, <1>4 DEF GatesNext
  <2>2. BookTyped'
    <3> USE DEF TextDigests
    <3>1. ASSUME NEW t \in Texts, DraftChapter(t) \/ EditChapter(t) \/ RepairBatch(t)
          PROVE  BookTyped'
      <4>1. PICK s \in {"draft", "edit", "de_ai_batch_repair"} : Saved(t, s)
        BY <3>1 DEF DraftChapter, EditChapter, RepairBatch
      <4> QED
        BY <1>1, <4>1, RecordTyped DEF Saved, ToolSteps
    <3>2. ASSUME NEW t \in Texts, SegmentAnswered(t) PROVE BookTyped'
      <4>1. Segment \in 0..(Segments - 1)
        <5>1. CASE latestBy["segment"] = None
          BY <5>1, GatesAssumption DEF Segment
        <5>2. CASE latestBy["segment"] \in Texts \X (0..(Segments - 1))
          <6>1. latestBy["segment"][2] \in 0..(Segments - 1)
            BY <5>2
          <6> QED
            BY <6>1, GatesAssumption DEF Segment
        <5> QED
          BY <1>1, <5>1, <5>2 DEF BookTyped, SegmentInv
      <4> PICK d : d = <<t, Segment>>
        OBVIOUS
      <4>2. d \in Texts \X (0..(Segments - 1)) /\ Log!Record("segment", d)
        BY <3>2, <4>1 DEF SegmentAnswered
      <4> QED
        BY <1>1, <4>2, RecordTyped DEF ToolSteps
    <3>3. CASE ConsistencyPassed
      BY <1>1, <3>3, RecordTyped DEF ConsistencyPassed, ToolSteps, TextsTyped
    <3>4. CASE CheckDeAI
      BY <1>1, <3>4, RecordTyped DEF CheckDeAI, ToolSteps, TextsTyped
    <3>5. CASE Commit
      BY <1>1, <3>5, RecordTyped DEF Commit, ToolSteps, TextsTyped, MayCommit
    <3>6. CASE \/ \E t \in Texts : SegmentFails(t) \/ Publish(t)
               \/ EditRefused \/ ConsistencyBlocked \/ DeAIRefused
               \/ CheckAdaptation \/ CommitInterrupted \/ Queue
      <4>1. UNCHANGED bookvars
        BY <3>6 DEF SegmentFails, Publish, EditRefused, ConsistencyBlocked, DeAIRefused,
           CheckAdaptation, CommitInterrupted, Queue
      <4> QED
        BY <1>1, <4>1 DEF bookvars, BookTyped, SegmentInv
    <3> QED
      BY <1>4, <3>1, <3>2, <3>3, <3>4, <3>5, <3>6 DEF GatesNext
  <2>3. TextsTyped'
    <3>1. ASSUME NEW t \in Texts, DraftChapter(t) \/ EditChapter(t) \/ RepairBatch(t)
          PROVE  TextsTyped'
      <4>1. PICK s \in {"draft", "edit", "de_ai_batch_repair"} : Saved(t, s)
        BY <3>1 DEF DraftChapter, EditChapter, RepairBatch
      <4> QED
        BY <1>1, <4>1 DEF Saved, auditvars, TextsTyped
    <3>2. ASSUME NEW t \in Texts,
                 SegmentAnswered(t) \/ SegmentFails(t) \/ Publish(t)
          PROVE  TextsTyped'
      BY <1>1, <3>2 DEF SegmentAnswered, SegmentFails, Publish, draftvars, auditvars, TextsTyped
    <3>3. CASE EditRefused \/ Queue
      BY <1>1, <3>3 DEF EditRefused, Queue, Base, draftvars, auditvars, TextsTyped
    <3>4. CASE ConsistencyPassed \/ ConsistencyBlocked
      BY <1>1, <3>4 DEF ConsistencyPassed, ConsistencyBlocked, Judged, draftvars, TextsTyped
    <3>5. CASE DeAIRefused \/ CheckDeAI \/ CheckAdaptation
      BY <1>1, <3>5 DEF DeAIRefused, CheckDeAI, CheckAdaptation, draftvars, TextsTyped
    <3>6. CASE Commit \/ CommitInterrupted
      BY <1>1, <3>6 DEF Commit, CommitInterrupted, MayCommit, draftvars, auditvars, TextsTyped
    <3> QED
      BY <1>4, <3>1, <3>2, <3>3, <3>4, <3>5, <3>6 DEF GatesNext
  <2>4. adaptation' \in [text : Texts \cup {None}, passed : BOOLEAN]
    <3>1. CASE CheckAdaptation
      BY <1>1, <3>1 DEF CheckAdaptation, TextsTyped
    <3>2. CASE adaptation' = adaptation
      BY <1>2, <3>2
    <3> QED
      BY <1>4, <3>1, <3>2 DEF GatesNext, DraftChapter, EditChapter, RepairBatch, Saved,
         SegmentAnswered, SegmentFails, Publish, EditRefused, Queue, ConsistencyPassed,
         ConsistencyBlocked, Judged, DeAIRefused, CheckDeAI, Commit, CommitInterrupted, auditvars
  <2>5. enabled' = enabled \/ enabled' = TRUE
    BY <1>4 DEF GatesNext, DraftChapter, EditChapter, RepairBatch, Saved, SegmentAnswered,
       SegmentFails, Publish, EditRefused, Queue, ConsistencyPassed, ConsistencyBlocked, Judged,
       DeAIRefused, CheckDeAI, CheckAdaptation, Commit, CommitInterrupted, auditvars
  <2>6. revised' = revised \/ revised' = TRUE \/ revised' = FALSE
    BY <1>4 DEF GatesNext, DraftChapter, EditChapter, RepairBatch, Saved, SegmentAnswered,
       SegmentFails, Publish, EditRefused, Queue, ConsistencyPassed, ConsistencyBlocked, Judged,
       DeAIRefused, CheckDeAI, CheckAdaptation, Commit, CommitInterrupted, draftvars
  <2>7. enabled' \in BOOLEAN
    BY <2>5 DEF GatesTyped, GatesTypeOK
  <2>8. revised' \in BOOLEAN
    BY <2>6 DEF GatesTyped, GatesTypeOK
  <2> QED
    BY <2>1, <2>2, <2>3, <2>4, <2>7, <2>8 DEF GatesTyped, GatesTypeOK, BookTyped, TextsTyped
<1> QED
  BY <1>3, <1>4 DEF gatesvars

\* The draft, the final text, the checkpoints and the audits are what the tools take
\* them for; a segment checkpoint names a segment the text has.
THEOREM GatesTypeCorrect == GatesSpec => []GatesTypeOK
<1>1. GatesInit => GatesTyped
  BY GatesTypedInit
<1>2. GatesTyped /\ [GatesNext]_gatesvars => GatesTyped'
  BY GatesTypedNext
<1>3. GatesTyped => GatesTypeOK
  BY DEF GatesTyped
<1> QED
  BY <1>1, <1>2, <1>3, PTL DEF GatesSpec

\* Every text that commit_chapter made final behind the gates had passed a
\* consistency check itself, for any texts and any order of tools.
THEOREM PassedCorrect == GatesSpec => CommittedTextPassed
<1>1. GatesInv => [(Commit \/ CommitInterrupted) /\ enabled => draft \in everPassed]_gatesvars
  BY DEF GatesInv, PassedInv, Commit, CommitInterrupted, MayCommit, DeAIGate
<1> QED
  BY <1>1, GatesInvariant, PTL DEF CommittedTextPassed

\* A chapter that was sent back is committed again only when somebody worked on
\* its draft, as long as nothing else writes final texts.
THEOREM RevisedCorrect == GatesSpec => UnrevisedReworkIsRefused
<1>1. GatesInv => [Commit /\ status = "queued" /\ ~project.publishing => revised]_gatesvars
  BY DEF GatesInv, DraftInv, Commit, MayCommit, Unrevised
<1> QED
  BY <1>1, GatesInvariant, PTL DEF UnrevisedReworkIsRefused
====================================================================================

-------------------------- MODULE PorcelainProofs --------------------------
(***************************************************************************)
(* Proofs about the porcelain commands, for every set of branches, paths   *)
(* and contents, every history to start from and any number of commands,   *)
(* edits and interruptions: what holds between any two writes, and how a   *)
(* merge, a cherry-pick, a rebase and a bisection end.                     *)
(***************************************************************************)
EXTENDS PorcelainInvariants, WellFoundedInduction, SequenceTheorems, FiniteSetTheorems, TLAPS

-----------------------------------------------------------------------------
(***************************************************************************)
(* Induction over the numbers below a bound: what is defined by recursion  *)
(* over the positions of a sequence is reasoned about through its least    *)
(* counterexample.                                                         *)
(***************************************************************************)
\* The least number of a set of naturals.
LEMMA LeastOf == ASSUME NEW T \in SUBSET Nat, T # {} PROVE \E n \in T : \A m \in T : n <= m
<1> DEFINE R == OpToRel(<, Nat)
<1>1. IsWellFoundedOn(R, Nat)
  BY NatLessThanWellFounded
<1> HIDE DEF R
<1>2. \E x \in T : \A y \in T : ~(<<y, x>> \in R)
  BY <1>1, WFMin
<1>3. \A x, y \in Nat : <<y, x>> \in R <=> y < x
  BY DEF R, OpToRel
<1>4. PICK x \in T : \A y \in T : ~(<<y, x>> \in R)
  BY <1>2
<1>5. ASSUME NEW y \in T PROVE x <= y
  <2>1. x \in Nat /\ y \in Nat
    OBVIOUS
  <2>2. ~(y < x)
    BY <1>3, <1>4, <2>1
  <2> QED BY <2>1, <2>2
<1> QED BY <1>5

\* Induction over the numbers up to n: what holds of 0 and, with a number, of the next.
LEMMA UpTo ==
    ASSUME NEW n \in Nat, NEW T, 0 \in T, \A i \in 0..(n - 1) : i \in T => i + 1 \in T
    PROVE  \A i \in 0..n : i \in T
<1> DEFINE W == {i \in 0..n : i \notin T}
<1>1. SUFFICES ASSUME W # {} PROVE FALSE
  OBVIOUS
<1>0. W \in SUBSET Nat
  OBVIOUS
<1>2. PICK i \in W : \A j \in W : i <= j
  <2> HIDE DEF W
  <2> QED BY <1>0, <1>1, LeastOf
<1>3. i # 0 /\ i - 1 \in 0..(n-1) /\ i - 1 \notin W
  BY <1>2
<1> QED BY <1>3

-----------------------------------------------------------------------------
(***************************************************************************)
(* The walks of History.                                                   *)
(***************************************************************************)
\* Such a walk exists, whatever its length.
LEMMA WalkExists ==
    ASSUME NEW h, Dated(h), NEW S \in SUBSET (1..Len(h))
    PROVE  \E w : Walks(h, S, w, Len(h))
<1> DEFINE N == Len(h)
           T == {m \in 0..N : \E w : Walks(h, S, w, m)}
<1>1. N \in Nat
  BY DEF Dated
<1>2. 0 \in T
  <2> DEFINE g == [d \in {0} |-> S]
  <2>1. Walks(h, S, g, 0)
    <3>1. g \in [{0} -> SUBSET (1..N)] /\ g[0] = S
      OBVIOUS
    <3>2. 0..0 = {0} /\ 1..0 = {}
      OBVIOUS
    <3> HIDE DEF g
    <3> QED BY <3>1, <3>2 DEF Walks
  <2> QED BY <1>1, <2>1
<1>3. ASSUME NEW m \in 0..(N - 1), m \in T PROVE m + 1 \in T
  <2>1. PICK w : Walks(h, S, w, m)
    BY <1>3
  <2> DEFINE Up == w[m] \cup UNION {Parents(h, x) : x \in w[m]}
             g == [d \in 0..(m + 1) |-> IF d = m + 1 THEN Up ELSE w[d]]
  <2>2. w \in [0..m -> SUBSET (1..N)]
    BY <2>1 DEF Walks
  <2>3. Up \subseteq 1..N
    BY <2>2, <1>1 DEF Dated
  <2>4. g \in [0..(m + 1) -> SUBSET (1..N)]
    <3> HIDE DEF Up
    <3> QED BY <2>2, <2>3, <1>1
  <2>5. g[0] = S
    BY <2>1 DEF Walks
  <2>6. ASSUME NEW d \in 1..(m + 1) PROVE g[d] = g[d - 1] \cup UNION {Parents(h, x) : x \in g[d - 1]}
    <3>1. CASE d = m + 1
      <4>1. g[d] = Up /\ g[d - 1] = w[m]
        BY <3>1, <1>1
      <4> QED BY <4>1, Zenon
    <3>2. CASE d # m + 1
      <4>1. d \in 1..m
        BY <3>2
      <4>2. g[d] = w[d] /\ g[d - 1] = w[d - 1]
        BY <4>1
      <4>3. w[d] = w[d - 1] \cup UNION {Parents(h, x) : x \in w[d - 1]}
        BY <4>1, <2>1 DEF Walks
      <4> HIDE DEF g
      <4> QED BY <4>2, <4>3, Zenon
    <3> QED BY <3>1, <3>2
  <2>7. Walks(h, S, g, m + 1)
    <3> HIDE DEF g
    <3> QED BY <2>4, <2>5, <2>6 DEF Walks
  <2> QED BY <2>7, <1>1
<1>4. \A m \in 0..N : m \in T
  <2> HIDE DEF T, N
  <2> QED BY <1>1, <1>2, <1>3, UpTo
<1> QED BY <1>1, <1>4

\* History is the last set of such a walk.
LEMMA HistoryWalks ==
    ASSUME NEW h, Dated(h), NEW S \in SUBSET (1..Len(h))
    PROVE  \E w : Walks(h, S, w, Len(h)) /\ History(h, S) = w[Len(h)]
<1> DEFINE N == Len(h)
           Def(w) == w = [d \in 0..N |->
                             IF d = 0 THEN S ELSE LET below == w[d - 1]
                                                  IN  below \cup UNION {Parents(h, x) : x \in below}]
           w == CHOOSE g : Def(g)
<1>1. N \in Nat
  BY DEF Dated
<1>2. PICK f : Walks(h, S, f, N)
  BY WalkExists
<1>3. Def(f)
  BY <1>1, <1>2 DEF Walks
<1>4. Def(w)
  <2> HIDE DEF Def
  <2> QED BY <1>3
<1>5. History(h, S) = w[N]
  BY DEF History
<1> HIDE DEF w
<1>6. w[0] = S
  BY <1>1, <1>4
<1>7. ASSUME NEW d \in 1..N PROVE w[d] = w[d - 1] \cup UNION {Parents(h, x) : x \in w[d - 1]}
  BY <1>1, <1>4
<1>8. w \in [0..N -> SUBSET (1..N)]
  <2> DEFINE T == {d \in 0..N : w[d] = f[d]}
  <2>1. 0 \in T
    BY <1>1, <1>2, <1>6 DEF Walks
  <2>2. ASSUME NEW i \in 0..(N - 1), i \in T PROVE i + 1 \in T
    <3>1. i + 1 \in 1..N /\ (i + 1) - 1 = i
      BY <1>1
    <3>2. w[i + 1] = w[i] \cup UNION {Parents(h, x) : x \in w[i]}
      BY <1>7, <3>1
    <3>3. w[i] = f[i]
      BY <2>2
    <3>4. w[i + 1] = f[i] \cup UNION {Parents(h, x) : x \in f[i]}
      BY <3>2, <3>3, Zenon
    <3>5. f[i + 1] = f[i] \cup UNION {Parents(h, x) : x \in f[i]}
      BY <1>2, <3>1 DEF Walks
    <3>6. w[i + 1] = f[i + 1] /\ i + 1 \in 0..N
      BY <3>1, <3>4, <3>5
    <3> QED BY <3>6
  <2>3. \A i \in 0..N : i \in T
    <3> HIDE DEF T, N
    <3> QED BY <1>1, <2>1, <2>2, UpTo
  <2>4. w = [d \in 0..N |-> w[d]]
    BY <1>4
  <2> QED BY <1>2, <2>3, <2>4 DEF Walks
<1>9. Walks(h, S, w, N)
  BY <1>6, <1>7, <1>8 DEF Walks
<1> QED BY <1>5, <1>9

\* It has the commits it starts from, and the parents of all it has.
LEMMA HistoryCloses ==
    ASSUME NEW h, Dated(h), NEW S \in SUBSET (1..Len(h))
    PROVE  /\ S \subseteq History(h, S)
           /\ History(h, S) \subseteq 1..Len(h)
           /\ Closed(h, History(h, S))
<1> DEFINE N == Len(h)
<1>1. N \in Nat
  BY DEF Dated
<1>2. PICK w : Walks(h, S, w, N) /\ History(h, S) = w[N]
  BY HistoryWalks
<1>3. \A d \in 1..N : w[d] = w[d - 1] \cup UNION {Parents(h, x) : x \in w[d - 1]}
  BY <1>2 DEF Walks
<1>4. \A d \in 0..N : w[d] \subseteq 1..N
  BY <1>2 DEF Walks
<1> DEFINE T == {d \in 0..N : /\ S \subseteq w[d]
                              /\ \A x \in w[d] : Parents(h, x) \subseteq w[d] \/ x <= N - d}
<1>5. 0 \in T
  BY <1>1, <1>2, <1>4 DEF Walks
<1>6. ASSUME NEW d \in 0..(N - 1), d \in T PROVE d + 1 \in T
  <2>1. d \in 0..N /\ d + 1 \in 1..N /\ (d + 1) - 1 = d
    BY <1>1
  <2>2. w[d + 1] = w[d] \cup UNION {Parents(h, x) : x \in w[d]}
    BY <1>3, <2>1
  <2>3. ASSUME NEW x \in w[d + 1], x > N - (d + 1) PROVE Parents(h, x) \subseteq w[d + 1]
    <3>1. CASE x \in w[d]
      BY <3>1, <2>2
    <3>2. CASE x \notin w[d]
      <4>1. PICK y \in w[d] : x \in Parents(h, y)
        BY <2>2, <3>2
      <4>2. y \in 1..N /\ y <= N - d
        BY <4>1, <3>2, <1>6, <1>4, <2>1
      <4>3. x \in 1..(y - 1)
        BY <4>1, <4>2 DEF Dated
      <4> QED BY <4>2, <4>3, <2>3, <1>1, <2>1
    <3> QED BY <3>1, <3>2
  <2>4. \A x \in w[d + 1] : x \in 1..N
    BY <1>4, <2>1
  <2>5. \A x \in w[d + 1] : Parents(h, x) \subseteq w[d + 1] \/ x <= N - (d + 1)
    BY <2>3, <2>4, <1>1, <2>1
  <2>6. S \subseteq w[d + 1]
    BY <1>6, <2>2
  <2> QED BY <2>1, <2>5, <2>6, <1>1
<1>7. \A d \in 0..N : d \in T
  <2> HIDE DEF T, N
  <2> QED BY <1>1, <1>5, <1>6, UpTo
<1>8. N \in T /\ w[N] \subseteq 1..N
  BY <1>1, <1>4, <1>7
<1> QED BY <1>1, <1>2, <1>8 DEF Closed

\* Whatever has those commits and is closed has their history.
LEMMA HistoryIsLeast ==
    ASSUME NEW h, Dated(h), NEW S \in SUBSET (1..Len(h)), NEW C, S \subseteq C, Closed(h, C)
    PROVE  History(h, S) \subseteq C
<1> DEFINE N == Len(h)
<1>1. N \in Nat
  BY DEF Dated
<1>2. PICK w : Walks(h, S, w, N) /\ History(h, S) = w[N]
  BY HistoryWalks
<1> DEFINE T == {d \in 0..N : w[d] \subseteq C}
<1>3. 0 \in T
  BY <1>1, <1>2 DEF Walks
<1>4. ASSUME NEW d \in 0..(N - 1), d \in T PROVE d + 1 \in T
  BY <1>1, <1>2, <1>4 DEF Walks, Closed
<1>5. \A d \in 0..N : d \in T
  <2> HIDE DEF T, N
  <2> QED BY <1>1, <1>3, <1>4, UpTo
<1> QED BY <1>1, <1>2, <1>5

-----------------------------------------------------------------------------
(***************************************************************************)
(* First parents.                                                          *)
(***************************************************************************)
\* A set of numbers that goes without gaps from 1 is the interval of its size.
LEMMA PrefixIsInterval ==
    ASSUME NEW N \in Nat, NEW I \in SUBSET (1..N), \A i \in I : i # 1 => i - 1 \in I
    PROVE  Cardinality(I) \in 0..N /\ I = 1..Cardinality(I)
<1> DEFINE B == {k \in Nat : \A i \in I : i <= k}
<1>1. B \in SUBSET Nat /\ N \in B
  OBVIOUS
<1>2. PICK m \in B : \A k \in B : m <= k
  <2> HIDE DEF B
  <2> QED BY <1>1, LeastOf
<1>3. m \in Nat /\ m <= N /\ I \subseteq 1..m
  BY <1>1, <1>2
<1>4. ASSUME m # 0 PROVE m \in I
  BY <1>3, <1>4, <1>2
<1>5. 1..m \subseteq I
  <2> DEFINE T == {d \in 0..m : m - d \in I \cup {0}}
  <2>1. 0 \in T
    BY <1>3, <1>4
  <2>2. ASSUME NEW d \in 0..(m - 1), d \in T PROVE d + 1 \in T
    BY <1>3, <2>2
  <2>3. \A d \in 0..m : d \in T
    <3> HIDE DEF T
    <3> QED BY <1>3, <2>1, <2>2, UpTo
  <2>4. ASSUME NEW i \in 1..m PROVE i \in I
    BY <1>3, <2>3
  <2> QED BY <2>4
<1>6. I = 1..m
  BY <1>3, <1>5
<1>7. Cardinality(1..m) = m
  BY <1>3, FS_Interval
<1> QED BY <1>3, <1>6, <1>7

\* What a history records.
LEMMA RecordedFacts ==
    ASSUME NEW h, Recorded(h)
    PROVE  /\ Len(h) \in Nat /\ DOMAIN h = 1..Len(h)
           /\ \A c \in 1..Len(h) :
                 /\ h[c] \in [tree : Tree, parents : Seq(Nat), msg : Nat \cup {None}]
                 /\ h[c].tree \in Tree /\ h[c].parents \in Seq(1..Len(h))
                 /\ h[c].parents # <<>> => h[c].parents[1] \in 1..(c - 1)
<1> DEFINE R == [tree : Tree, parents : Seq(Nat), msg : Nat \cup {None}]
<1>1. h \in Seq(R)
  BY DEF Recorded
<1>2. Len(h) \in Nat /\ DOMAIN h = 1..Len(h)
  <2> HIDE DEF R
  <2> QED BY <1>1, LenProperties
<1>3. ASSUME NEW c \in 1..Len(h)
      PROVE  /\ h[c] \in R
             /\ h[c].tree \in Tree /\ h[c].parents \in Seq(1..Len(h))
             /\ h[c].parents # <<>> => h[c].parents[1] \in 1..(c - 1)
  <2>1. h[c] \in R
    <3> HIDE DEF R
    <3> QED BY <1>1, ElementOfSeq
  <2>2. h[c].tree \in Tree /\ h[c].parents \in Seq(Nat)
    BY <2>1
  <2>3. Parents(h, c) \subseteq 1..(c - 1)
    BY DEF Recorded
  <2>4. Len(h[c].parents) \in Nat /\ DOMAIN h[c].parents = 1..Len(h[c].parents)
    BY <2>2, LenProperties
  <2>5. \A i \in 1..Len(h[c].parents) : h[c].parents[i] \in 1..(c - 1)
    BY <2>3, <2>4 DEF Parents
  <2>6. h[c].parents \in [1..Len(h[c].parents) -> 1..Len(h)]
    BY <1>2, <2>2, LenProperties, <2>5
  <2>7. h[c].parents \in Seq(1..Len(h))
    BY <2>4, <2>6, SeqDef
  <2>8. h[c].parents # <<>> => h[c].parents[1] \in 1..(c - 1)
    BY <2>2, <2>5, EmptySeq
  <2> QED BY <2>1, <2>2, <2>7, <2>8
<1> QED BY <1>2, <1>3

LEMMA ClimbExists ==
    ASSUME NEW h, Recorded(h), NEW c \in 1..Len(h) \cup {None}, NEW stop
    PROVE  \E w : Climbs(h, c, stop, w, Len(h))
<1> DEFINE N == Len(h)
           T == {m \in 0..N : \E w : Climbs(h, c, stop, w, m)}
<1>1. N \in Nat
  BY RecordedFacts
<1>2. 0 \in T
  <2> DEFINE w == [i \in {} |-> c]
  <2>1. Climbs(h, c, stop, w, 0)
    BY DEF Climbs
  <2> QED BY <1>1, <2>1
<1>3. ASSUME NEW m \in 0..(N - 1), m \in T PROVE m + 1 \in T
  <2>1. PICK w : Climbs(h, c, stop, w, m)
    BY <1>3
  <2> DEFINE up == IF m = 0 THEN c ELSE NextUp(h, stop, w[m])
             g == [i \in 1..(m + 1) |-> IF i = m + 1 THEN up ELSE w[i]]
  <2>2. w \in [1..m -> 1..N \cup {None}]
    BY <2>1 DEF Climbs
  <2>3. up \in 1..N \cup {None}
    <3>1. CASE m = 0
      BY <3>1
    <3>2. CASE m # 0
      <4>1. w[m] \in 1..N \cup {None}
        BY <2>2, <3>2
      <4>2. NextUp(h, stop, w[m]) \in 1..N \cup {None}
        <5>1. CASE w[m] \in {None, stop} \/ h[w[m]].parents = <<>>
          BY <5>1 DEF NextUp
        <5>2. CASE ~(w[m] \in {None, stop} \/ h[w[m]].parents = <<>>)
          <6>1. w[m] \in 1..N /\ h[w[m]].parents # <<>>
            BY <4>1, <5>2
          <6>2. h[w[m]].parents[1] \in 1..(w[m] - 1)
            BY <6>1, RecordedFacts
          <6>3. NextUp(h, stop, w[m]) = h[w[m]].parents[1]
            BY <5>2 DEF NextUp
          <6> QED BY <6>1, <6>2, <6>3, <1>1
        <5> QED BY <5>1, <5>2
      <4> QED BY <3>2, <4>2
    <3> QED BY <3>1, <3>2
  <2>4. g \in [1..(m + 1) -> 1..N \cup {None}]
    <3> HIDE DEF up
    <3> QED BY <2>2, <2>3
  <2>5. ASSUME NEW i \in 1..(m + 1) PROVE g[i] = IF i = 1 THEN c ELSE NextUp(h, stop, g[i - 1])
    <3>1. CASE i = m + 1
      BY <3>1
    <3>2. CASE i # m + 1
      <4>1. i \in 1..m /\ g[i] = w[i] /\ (i # 1 => g[i - 1] = w[i - 1])
        BY <3>2
      <4>2. w[i] = IF i = 1 THEN c ELSE NextUp(h, stop, w[i - 1])
        BY <4>1, <2>1 DEF Climbs
      <4> HIDE DEF g
      <4> QED BY <4>1, <4>2
    <3> QED BY <3>1, <3>2
  <2>6. Climbs(h, c, stop, g, m + 1)
    <3> HIDE DEF g
    <3> QED BY <2>4, <2>5 DEF Climbs
  <2> QED BY <2>6, <1>1
<1>4. \A m \in 0..N : m \in T
  <2> HIDE DEF T, N
  <2> QED BY <1>1, <1>2, <1>3, UpTo
<1> QED BY <1>1, <1>4

\* FirstParents is the part of such a walk before it meets stop, or the end.
LEMMA FirstParentsClimbs ==
    ASSUME NEW h, Recorded(h), NEW c \in 1..Len(h) \cup {None}, NEW stop
    PROVE  \E w : LET met == {i \in 1..Len(h) : w[i] \notin {None, stop}}
                  IN  /\ Climbs(h, c, stop, w, Len(h))
                      /\ FirstParents(h, c, stop) = [i \in 1..Cardinality(met) |-> w[i]]
<1> DEFINE N == Len(h)
           Def(w) == w = [i \in 1..N |->
                             IF i = 1 THEN c
                             ELSE IF w[i-1] \in {None, stop} \/ h[w[i-1]].parents = <<>> THEN None
                             ELSE h[w[i-1]].parents[1]]
           w == CHOOSE g : Def(g)
<1>1. N \in Nat
  BY RecordedFacts
<1>2. PICK f : Climbs(h, c, stop, f, N)
  BY ClimbExists
<1>3. Def(f)
  BY <1>2 DEF Climbs, NextUp
<1>4. Def(w)
  <2> HIDE DEF Def
  <2> QED BY <1>3
<1>5. FirstParents(h, c, stop) =
          [i \in 1..Cardinality({j \in 1..N : w[j] \notin {None, stop}}) |-> w[i]]
  BY DEF FirstParents
<1> HIDE DEF w
<1>6. ASSUME NEW i \in 1..N PROVE w[i] = IF i = 1 THEN c ELSE NextUp(h, stop, w[i - 1])
  BY <1>4 DEF NextUp
<1>7. w \in [1..N -> 1..N \cup {None}]
  <2> DEFINE T == {d \in 0..N : d \in 1..N => w[d] = f[d]}
  <2>1. 0 \in T
    BY <1>1
  <2>2. ASSUME NEW i \in 0..(N - 1), i \in T PROVE i + 1 \in T
    BY <1>1, <1>6, <1>2, <2>2 DEF Climbs
  <2>3. \A i \in 0..N : i \in T
    <3> HIDE DEF T, N
    <3> QED BY <1>1, <2>1, <2>2, UpTo
  <2>4. w = [i \in 1..N |-> w[i]]
    BY <1>4
  <2>5. ASSUME NEW i \in 1..N PROVE w[i] \in 1..N \cup {None}
    BY <2>3, <1>1, <1>2 DEF Climbs
  <2> QED BY <2>4, <2>5
<1>8. Climbs(h, c, stop, w, N)
  BY <1>6, <1>7 DEF Climbs
<1> QED BY <1>5, <1>8

\* It is a sequence of commits, and begins with c unless c is where it is to stop.
LEMMA FirstParentsTyped ==
    ASSUME NEW h, Recorded(h), NEW c \in 1..Len(h) \cup {None}, NEW stop
    PROVE  /\ FirstParents(h, c, stop) \in Seq(1..Len(h))
           /\ c \notin {None, stop} => Len(FirstParents(h, c, stop)) >= 1
<1> DEFINE N == Len(h)
           path == FirstParents(h, c, stop)
<1>1. N \in Nat
  BY RecordedFacts
<1>2. PICK w : /\ Climbs(h, c, stop, w, N)
               /\ path = [i \in 1..Cardinality({i \in 1..N : w[i] \notin {None, stop}}) |-> w[i]]
  BY FirstParentsClimbs
<1> DEFINE I == {i \in 1..N : w[i] \notin {None, stop}}
           n == Cardinality(I)
<1> HIDE DEF path
<1>3. ASSUME NEW i \in I, i # 1 PROVE i - 1 \in I
  BY <1>1, <1>3, <1>2 DEF Climbs, NextUp
<1>4. n \in 0..N /\ I = 1..n
  <2>1. I \in SUBSET (1..N)
    OBVIOUS
  <2> HIDE DEF I, N
  <2> QED BY <1>1, <1>3, <2>1, PrefixIsInterval
<1>5. path = [i \in 1..n |-> w[i]]
  BY <1>2
<1> HIDE DEF n
<1>6. ASSUME NEW i \in 1..n PROVE w[i] \in 1..N
  BY <1>4, <1>2 DEF Climbs
<1>7. path \in [1..n -> 1..N]
  BY <1>5, <1>6
<1>8. n \in Nat
  BY <1>1, <1>4
<1>9. path \in Seq(1..N)
  BY <1>7, <1>8, SeqDef
<1>10. Len(path) = n
  <2> HIDE DEF N
  <2>1. DOMAIN path = 1..n /\ DOMAIN path = 1..Len(path) /\ Len(path) \in Nat
    BY <1>7, <1>9, LenProperties
  <2> QED BY <2>1, <1>8
<1>11. ASSUME c \notin {None, stop} PROVE 1 \in I
  BY <1>1, <1>11, <1>2 DEF Climbs
<1> QED BY <1>4, <1>8, <1>9, <1>10, <1>11 DEF path

-----------------------------------------------------------------------------
(***************************************************************************)
(* The levels of Distances, and merge bases.                               *)
(***************************************************************************)
LEMMA LevelsExist ==
    ASSUME NEW h, Dated(h), NEW c \in 1..Len(h)
    PROVE  \E w : Levels(h, c, w, Len(h))
<1> DEFINE N == Len(h)
           T == {m \in 0..N : \E w : Levels(h, c, w, m)}
<1>1. N \in Nat
  BY DEF Dated
<1>2. 0 \in T
  <2> DEFINE g == [d \in {0} |-> {c}]
  <2>1. Levels(h, c, g, 0)
    <3>1. g \in [{0} -> SUBSET (1..N)] /\ g[0] = {c}
      OBVIOUS
    <3>2. 0..0 = {0} /\ 1..0 = {}
      OBVIOUS
    <3> HIDE DEF g
    <3> QED BY <3>1, <3>2 DEF Levels
  <2> QED BY <1>1, <2>1
<1>3. ASSUME NEW m \in 0..(N - 1), m \in T PROVE m + 1 \in T
  <2>1. PICK w : Levels(h, c, w, m)
    BY <1>3
  <2> DEFINE Up == UNION {Parents(h, x) : x \in w[m]}
             g == [d \in 0..(m + 1) |-> IF d = m + 1 THEN Up ELSE w[d]]
  <2>2. w \in [0..m -> SUBSET (1..N)]
    BY <2>1 DEF Levels
  <2>3. Up \subseteq 1..N
    BY <2>2, <1>1 DEF Dated
  <2>4. g \in [0..(m + 1) -> SUBSET (1..N)]
    <3> HIDE DEF Up
    <3> QED BY <2>2, <2>3, <1>1
  <2>5. g[0] = {c}
    BY <2>1 DEF Levels
  <2>6. ASSUME NEW d \in 1..(m + 1) PROVE g[d] = UNION {Parents(h, x) : x \in g[d - 1]}
    <3>1. CASE d = m + 1
      <4>1. g[d] = Up /\ g[d - 1] = w[m]
        BY <3>1, <1>1
      <4> QED BY <4>1, Zenon
    <3>2. CASE d # m + 1
      <4>1. d \in 1..m
        BY <3>2
      <4>2. g[d] = w[d] /\ g[d - 1] = w[d - 1]
        BY <4>1
      <4>3. w[d] = UNION {Parents(h, x) : x \in w[d - 1]}
        BY <4>1, <2>1 DEF Levels
      <4> HIDE DEF g
      <4> QED BY <4>2, <4>3, Zenon
    <3> QED BY <3>1, <3>2
  <2>7. Levels(h, c, g, m + 1)
    <3> HIDE DEF g
    <3> QED BY <2>4, <2>5, <2>6 DEF Levels
  <2> QED BY <2>7, <1>1
<1>4. \A m \in 0..N : m \in T
  <2> HIDE DEF T, N
  <2> QED BY <1>1, <1>2, <1>3, UpTo
<1> QED BY <1>1, <1>4

\* The commits with a distance from c are in its history.
LEMMA DistancesReachHistory ==
    ASSUME NEW h, Dated(h), NEW c \in 1..Len(h)
    PROVE  DOMAIN Distances(h, c) \subseteq History(h, {c})
<1> DEFINE N == Len(h)
           H == History(h, {c})
           Next1(S) == UNION {Parents(h, x) : x \in S}
           Def(w) == w = [d \in 0..N |-> IF d = 0 THEN {c} ELSE Next1(w[d - 1])]
           w == CHOOSE g : Def(g)
<1>1. N \in Nat
  BY DEF Dated
<1>2. PICK f : Levels(h, c, f, N)
  BY LevelsExist
<1>3. Def(f)
  BY <1>1, <1>2 DEF Levels
<1>4. Def(w)
  <2> HIDE DEF Def
  <2> QED BY <1>3
<1>5. DOMAIN Distances(h, c) = UNION {w[d] : d \in 0..N}
  BY DEF Distances
<1> HIDE DEF w
<1> DEFINE T == {d \in 0..N : w[d] \subseteq H}
<1>0. c \in H /\ Closed(h, H)
  BY HistoryCloses
<1> HIDE DEF H
<1>6. 0 \in T
  BY <1>0, <1>1, <1>4
<1>7. ASSUME NEW i \in 0..(N - 1), i \in T PROVE i + 1 \in T
  <2>1. i + 1 \in 0..N /\ (i + 1) - 1 = i /\ i + 1 # 0
    BY <1>1
  <2>2. w[i + 1] = Next1(w[(i + 1) - 1])
    BY <2>1, <1>4
  <2>3. ASSUME NEW x \in w[i] PROVE Parents(h, x) \subseteq H
    BY <1>0, <1>7 DEF Closed
  <2>4. w[(i + 1) - 1] = w[i]
    BY <2>1
  <2>5. Next1(w[i]) \subseteq H
    BY <2>3
  <2>6. w[i + 1] \subseteq H
    <3> HIDE DEF Next1
    <3> QED BY <2>2, <2>4, <2>5
  <2> QED BY <2>1, <2>6
<1>8. \A d \in 0..N : d \in T
  <2> HIDE DEF T, N
  <2> QED BY <1>1, <1>6, <1>7, UpTo
<1> QED BY <1>5, <1>8 DEF H

LEMMA BasesAreCommits ==
    ASSUME NEW h, Dated(h), NEW a \in 1..Len(h), NEW b \in 1..Len(h)
    PROVE  /\ MergeBases(h, a, b) \subseteq 1..Len(h) \cup {None}
           /\ \A c \in MergeBases(h, a, b) : c # None => c \in History(h, {b})
<1>1. DOMAIN Distances(h, a) \subseteq History(h, {a}) /\ DOMAIN Distances(h, b) \subseteq History(h, {b})
  BY DistancesReachHistory
<1>2. History(h, {a}) \subseteq 1..Len(h)
  BY HistoryCloses
<1> QED BY <1>1, <1>2 DEF MergeBases

-----------------------------------------------------------------------------
(***************************************************************************)
(* What a recorded history is.                                             *)
(***************************************************************************)
LEMMA RecordedIsDated == ASSUME NEW h, Recorded(h) PROVE Dated(h)
BY RecordedFacts DEF Recorded, Dated

\* More commits: whatever was well typed still is.
LEMMA MoreCommits ==
    ASSUME NEW C, NEW D, C \subseteq D
    PROVE  /\ FilesOver(C) \subseteq FilesOver(D)
           /\ Holding(C) \subseteq Holding(D)
           /\ Writes(C) \subseteq Writes(D)
BY SeqMonotonic DEF Picks, Rebases, Bisects, FilesOver, Holding, Writes

\* Single writes.
LEMMA OneWrite == ASSUME NEW W, NEW w \in W PROVE <<w>> \in Seq(W)
OBVIOUS

LEMMA PutTyped ==
    ASSUME NEW C
    PROVE  /\ \A v \in Branches \cup C : Put("head", v) \in Seq(Holding(C))
           /\ \A v \in [Branches -> C \cup {None}] : Put("branch", v) \in Seq(Holding(C))
           /\ \A v \in Indexes : Put("index", v) \in Seq(Holding(C))
           /\ \A v \in Tree : Put("worktree", v) \in Seq(Holding(C))
           /\ \A f \in {"mergeHead", "mergeOrig", "stash"}, v \in C \cup {None} : Put(f, v) \in Seq(Holding(C))
           /\ \A v \in SUBSET Paths : Put("conflicts", v) \in Seq(Holding(C))
           /\ \A v \in Picks(C) \cup {None} : Put("cherry", v) \in Seq(Holding(C))
           /\ \A v \in Rebases(C) : Put("rebase", v) \in Seq(Holding(C))
           /\ \A v \in Bisects(C) \cup {None} : Put("bisect", v) \in Seq(Holding(C))
           /\ Put("rebase", None) \in Seq(Writes(C))
           /\ <<>> \in Seq(Holding(C))
<1> DEFINE W(f, v) == [at |-> f, to |-> v]
<1>1. /\ \A v \in Branches \cup C : W("head", v) \in Holding(C)
      /\ \A v \in [Branches -> C \cup {None}] : W("branch", v) \in Holding(C)
      /\ \A v \in Indexes : W("index", v) \in Holding(C)
      /\ \A v \in Tree : W("worktree", v) \in Holding(C)
  BY DEF Holding
<1>2. /\ \A f \in {"mergeHead", "mergeOrig", "stash"}, v \in C \cup {None} : W(f, v) \in Holding(C)
      /\ \A v \in SUBSET Paths : W("conflicts", v) \in Holding(C)
      /\ \A v \in Picks(C) \cup {None} : W("cherry", v) \in Holding(C)
  BY DEF Holding
<1>3. /\ \A v \in Rebases(C) : W("rebase", v) \in Holding(C)
      /\ \A v \in Bisects(C) \cup {None} : W("bisect", v) \in Holding(C)
      /\ W("rebase", None) \in Writes(C)
  BY DEF Holding, Writes
<1>4. \A f, v : Put(f, v) = <<W(f, v)>>
  BY DEF Put
<1> HIDE DEF W
<1> QED BY <1>1, <1>2, <1>3, <1>4, OneWrite, EmptySeq

LEMMA Joined == ASSUME NEW W, NEW s \in Seq(W), NEW t \in Seq(W) PROVE s \o t \in Seq(W)
BY ConcatProperties

LEMMA HoldingWrites == ASSUME NEW C, NEW s \in Seq(Holding(C)) PROVE s \in Seq(Writes(C))
BY SeqMonotonic DEF Writes

-----------------------------------------------------------------------------
(***************************************************************************)
(* What the operators of the commands yield.                               *)
(***************************************************************************)
\* What the current files hold.
LEMMA Facts ==
    ASSUME TypeInv
    PROVE  /\ Len(log) \in Nat /\ DOMAIN log = Commits
           /\ files.head \in Branches \cup Commits /\ files.branch \in [Branches -> Commits \cup {None}]
           /\ files.index \in Indexes /\ files.index.staged \in Tree /\ files.index.unmerged \subseteq Paths
           /\ files.worktree \in Tree /\ files.mergeHead \in Commits \cup {None}
           /\ files.mergeOrig \in Commits \cup {None} /\ files.conflicts \subseteq Paths
           /\ files.cherry \in Picks(Commits) \cup {None} /\ files.rebase \in Rebases(Commits) \cup {None}
           /\ files.bisect \in Bisects(Commits) \cup {None} /\ files.stash \in Commits \cup {None}
           /\ HeadSha \in Commits \cup {None} /\ None \notin Commits
BY RecordedFacts, NamesAreNoCommits DEF TypeInv, Commits, FilesOver, Indexes, HeadSha

LEMMA TreesTyped ==
    ASSUME TypeInv
    PROVE  /\ EmptyTree \in Tree
           /\ \A c \in Commits \cup {None} : TreeAt(c) \in Tree
           /\ \A c \in Commits : ParentTree(c) \in Tree /\ log[c].msg \in Nat \cup {None}
                                 /\ log[c].parents \in Seq(Commits) /\ log[c].parents \in Seq(Nat)
<1>1. EmptyTree \in Tree
  BY DEF EmptyTree, Tree
<1>2. ASSUME NEW c \in Commits
      PROVE  /\ log[c] \in [tree : Tree, parents : Seq(Nat), msg : Nat \cup {None}]
             /\ log[c].parents \in Seq(Commits)
             /\ log[c].parents # <<>> => log[c].parents[1] \in 1..(c - 1)
  BY RecordedFacts DEF TypeInv, Commits
<1>3. ASSUME NEW c \in Commits \cup {None} PROVE TreeAt(c) \in Tree
  BY <1>1, <1>2, Facts DEF TreeAt
<1>4. ASSUME NEW c \in Commits PROVE ParentTree(c) \in Tree
  BY <1>1, Facts, <1>2, <1>3 DEF ParentTree, Commits
<1> QED BY <1>1, <1>2, <1>3, <1>4

LEMMA RestoredTyped ==
    ASSUME NEW t \in Tree, NEW S, NEW w \in Tree PROVE Restored(t, S, w) \in Tree
BY DEF Tree, Restored

LEMMA ChosenTyped ==
    ASSUME NEW b \in Contents \cup {Gone}, NEW o \in Contents \cup {Gone}, NEW t \in Contents \cup {Gone}
    PROVE  Chosen(b, o, t) \in Contents \cup {Gone}
BY LineMergesAreContent DEF Chosen

LEMMA MergedTyped ==
    ASSUME NEW base \in Tree, NEW ours \in Tree, NEW theirs \in Tree, NEW t \in Tree
    PROVE  Merged(base, ours, theirs, t) \in Tree /\ MergedFiles(base, ours, theirs, t) \in Tree
BY ChosenTyped DEF Tree, Merged, MergedFiles

LEMMA ThreeWayTyped ==
    ASSUME TypeInv, NEW base \in Tree, NEW theirs \in Tree
    PROVE  ThreeWay(base, theirs) \in Outcomes
BY Facts, TreesTyped, MergedTyped DEF Index, Indexes, Clashes, ThreeWay, Outcomes

LEMMA IndexTyped ==
    ASSUME TypeInv
    PROVE  /\ \A t \in Tree : Index(t) \in Indexes
           /\ \A i \in Indexes, S \in SUBSET Paths : [i EXCEPT !.unmerged = S] \in Indexes
           /\ \A i \in Indexes, t \in Tree : [i EXCEPT !.staged = t] \in Indexes
           /\ \A i \in Indexes, p \in Paths, c \in Contents \cup {Gone} : With(i, p, c) \in Indexes
           /\ \A r \in Outcomes : WithStages(r) \in Indexes
BY Facts DEF Index, Indexes, With, Tree, Outcomes, WithStages

\* The writes commands share.  D: the commits there are once the command's own are made.
LEMMA CommonWrites ==
    ASSUME TypeInv, NEW D, Commits \subseteq D
    PROVE  /\ \A t \in Tree, S \in SUBSET Paths : Replace(t, S) \in Seq(Holding(D))
           /\ \A t \in Tree : ReplaceTracked(t) \in Seq(Holding(D))
           /\ \A b \in Branches, c \in D \cup {None} : SetBranch(b, c) \in Seq(Holding(D))
           /\ \A c \in D : MoveHead(c) \in Seq(Holding(D))
           /\ \A i \in Indexes : /\ Clear("cherry", i) \in Seq(Holding(D))
                                 /\ Clear("rebase", i) \in Seq(Writes(D))
                                 /\ ClearMerge(i) \in Seq(Holding(D))
           /\ ClearConflicts \in Seq(Holding(D))
           /\ \A p \in Paths : ClearConflict(p) \in Seq(Holding(D))
           /\ \A r \in Outcomes : Applied(r) \in Seq(Holding(D)) /\ Conflicted(r) \in Seq(Holding(D))
<1>1. ASSUME NEW t \in Tree, NEW S \in SUBSET Paths PROVE Replace(t, S) \in Seq(Holding(D))
  BY RestoredTyped, IndexTyped, Facts, PutTyped, Joined DEF Replace
<1>2. ASSUME NEW t \in Tree PROVE ReplaceTracked(t) \in Seq(Holding(D))
  BY <1>1, Facts DEF ReplaceTracked, PathsOf
<1>3. ASSUME NEW b \in Branches, NEW c \in D \cup {None} PROVE SetBranch(b, c) \in Seq(Holding(D))
  BY Facts, PutTyped DEF SetBranch
<1>4. ASSUME NEW c \in D PROVE MoveHead(c) \in Seq(Holding(D))
  BY <1>3, PutTyped DEF MoveHead
<1>5. ASSUME NEW i \in Indexes PROVE Put("index", [i EXCEPT !.unmerged = {}]) \in Seq(Holding(D))
  BY IndexTyped, PutTyped
<1>6. ASSUME NEW i \in Indexes
      PROVE  /\ Clear("cherry", i) \in Seq(Holding(D))
             /\ Clear("rebase", i) \in Seq(Writes(D))
             /\ ClearMerge(i) \in Seq(Holding(D))
  <2> DEFINE unmerged == Put("index", [i EXCEPT !.unmerged = {}])
  <2>1. unmerged \in Seq(Holding(D)) /\ unmerged \in Seq(Writes(D))
    BY <1>5, HoldingWrites
  <2>2. /\ <<>> \in Seq(Holding(D)) /\ <<>> \in Seq(Writes(D))
        /\ Put("cherry", None) \in Seq(Holding(D)) /\ Put("rebase", None) \in Seq(Writes(D))
        /\ Put("mergeHead", None) \in Seq(Holding(D)) /\ Put("mergeOrig", None) \in Seq(Holding(D))
        /\ Put("conflicts", {}) \in Seq(Holding(D))
    BY PutTyped, EmptySeq
  <2>3. Clear("cherry", i) = <<>> \/ Clear("cherry", i) = Put("cherry", None) \o <<>>
        \/ Clear("cherry", i) = Put("cherry", None) \o unmerged
    BY DEF Clear
  <2>4. Clear("rebase", i) = <<>> \/ Clear("rebase", i) = Put("rebase", None) \o <<>>
        \/ Clear("rebase", i) = Put("rebase", None) \o unmerged
    BY DEF Clear
  <2>5. PICK a, b, c, d \in Seq(Holding(D)) : ClearMerge(i) = a \o b \o c \o d
    <3> DEFINE a == IF files.mergeHead = None THEN <<>> ELSE Put("mergeHead", None)
               b == IF files.mergeOrig = None THEN <<>> ELSE Put("mergeOrig", None)
               c == IF files.conflicts = {} THEN <<>> ELSE Put("conflicts", {})
               d == IF files.mergeHead # None /\ i.unmerged # {} THEN unmerged ELSE <<>>
    <3>1. ClearMerge(i) = a \o b \o c \o d
      BY DEF ClearMerge
    <3>2. a \in Seq(Holding(D)) /\ b \in Seq(Holding(D)) /\ c \in Seq(Holding(D)) /\ d \in Seq(Holding(D))
      <4> HIDE DEF unmerged
      <4> QED BY <2>1, <2>2
    <3> QED BY <3>1, <3>2
  <2>6. ClearMerge(i) \in Seq(Holding(D))
    BY Joined, <2>5
  <2> HIDE DEF unmerged
  <2> QED BY <2>1, <2>2, <2>3, <2>4, <2>6, Joined
<1>7. ClearConflicts \in Seq(Holding(D))
  BY PutTyped DEF ClearConflicts
<1>8. ASSUME NEW p \in Paths PROVE ClearConflict(p) \in Seq(Holding(D))
  BY PutTyped, Facts DEF ClearConflict
<1>9. ASSUME NEW r \in Outcomes PROVE Applied(r) \in Seq(Holding(D)) /\ Conflicted(r) \in Seq(Holding(D))
  BY PutTyped, IndexTyped, Joined DEF Outcomes, Applied, Conflicted
<1> QED BY <1>1, <1>2, <1>3, <1>4, <1>6, <1>7, <1>8, <1>9

\* The writes of commit(), whatever is to be committed.
LEMMA CommittedTyped ==
    ASSUME TypeInv, NEW D, Commits \subseteq D, NewCommit \in D, NEW i \in Indexes
    PROVE  Committed(i) \in Seq(Holding(D))
BY CommonWrites, Joined DEF Committed

\* A history stays one when a commit is added whose parents are in it.
LEMMA OneMore ==
    ASSUME NEW h, Recorded(h), NEW e \in Entry, e.parents \in Seq(1..Len(h))
    PROVE  /\ Recorded(h \o <<e>>) /\ Len(h \o <<e>>) = Len(h) + 1
           /\ (h \o <<e>>)[Len(h) + 1] = e
           /\ \A c \in 1..Len(h) : (h \o <<e>>)[c] = h[c]
<1> DEFINE g == h \o <<e>>
<1>1. h \in Seq(Entry) /\ <<e>> \in Seq(Entry) /\ Len(<<e>>) = 1 /\ Len(h) \in Nat
  BY RecordedFacts, OneWrite DEF Recorded, Entry
<1>2. /\ g \in Seq(Entry) /\ Len(g) = Len(h) + 1
      /\ \A i \in 1..(Len(h) + 1) : g[i] = IF i <= Len(h) THEN h[i] ELSE <<e>>[i - Len(h)]
  BY <1>1, ConcatProperties
<1> HIDE DEF g
<1>3. (\A c \in 1..Len(h) : g[c] = h[c]) /\ g[Len(h) + 1] = e
  BY <1>1, <1>2
<1>4. ASSUME NEW c \in 1..Len(g) PROVE Parents(g, c) \subseteq 1..(c - 1)
  <2>1. CASE c \in 1..Len(h)
    BY <2>1, <1>3 DEF Parents, Recorded
  <2>2. CASE c = Len(h) + 1
    BY ElementOfSeq, LenProperties, <1>1, <1>3, <2>2 DEF Parents
  <2> QED BY <1>1, <1>2, <2>1, <2>2
<1> QED BY <1>2, <1>3, <1>4 DEF Recorded, Entry, g

LEMMA ParentsTyped ==
    ASSUME TypeInv
    PROVE  HeadAndMergeHead \in Seq(Commits)
<1> DEFINE s == IF HeadSha = None THEN <<>> ELSE <<HeadSha>>
           t == IF files.mergeHead \in {None, HeadSha} THEN <<>> ELSE <<files.mergeHead>>
<1>1. s \in Seq(Commits) /\ t \in Seq(Commits)
  BY Facts, OneWrite, EmptySeq
<1>2. HeadAndMergeHead = s \o t
  BY DEF HeadAndMergeHead
<1> HIDE DEF s, t
<1> QED BY <1>1, <1>2, Joined

\* What a record is made of.
LEMMA RecordTyped ==
    ASSUME NEW t \in Tree, NEW ps \in Seq(Commits), NEW msg \in Nat \cup {None}
    PROVE  Record(t, ps, msg) \in Entry /\ Record(t, ps, msg).parents = ps
BY SeqMonotonic DEF Commits, Record, Entry

-----------------------------------------------------------------------------
(***************************************************************************)
(* Types: what the commands have in common.                                *)
(***************************************************************************)
\* A command that records nothing.
LEMMA Starts ==
    ASSUME TypeInv, NEW cmd, NEW todo \in Seq(Writes(Commits)), NEW then \in {"end", "replay"},
           then = "replay" => /\ todo \in Seq(Holding(Commits))
                              /\ files.rebase # None \/ \E i \in DOMAIN todo : todo[i].at = "rebase",
           job' = [cmd |-> cmd, todo |-> todo, then |-> then], log' = log, files' = files,
           work' \in Tree \cup {None}
    PROVE  TypeInv'
<1>1. Recorded(log') /\ files' \in FilesOver(Commits)' /\ Commits' = Commits
  BY DEF TypeInv, Commits
<1>2. job' \in [cmd : {job'.cmd}, todo : Seq(Writes(Commits)), then : {"end", "replay"}]
  OBVIOUS
<1>3. job'.then = "replay" =>
          /\ job'.todo \in Seq(Holding(Commits))
          /\ files.rebase # None \/ \E i \in DOMAIN job'.todo : job'.todo[i].at = "rebase"
  OBVIOUS
<1>4. Writes(Commits)' = Writes(Commits) /\ Holding(Commits)' = Holding(Commits)
  BY <1>1 DEF Writes, Holding, Rebases, Picks, Bisects
<1> QED BY <1>1, <1>2, <1>3, <1>4 DEF TypeInv

\* A command that records one commit.
LEMMA StartsRecording ==
    ASSUME TypeInv, NEW cmd, NEW todo \in Seq(Writes(More)), NEW then \in {"end", "replay"},
           then = "replay" => /\ todo \in Seq(Holding(More))
                              /\ files.rebase # None \/ \E i \in DOMAIN todo : todo[i].at = "rebase",
           NEW e \in Entry, e.parents \in Seq(Commits),
           job' = [cmd |-> cmd, todo |-> todo, then |-> then], log' = log \o <<e>>, files' = files,
           work' \in Tree \cup {None}
    PROVE  TypeInv'
<1>1. Recorded(log') /\ Len(log') = Len(log) + 1
  BY OneMore DEF TypeInv, Commits
<1>2. Commits' = More /\ Commits \subseteq More
  BY <1>1, Facts DEF Commits, More
<1>3. files' \in FilesOver(More)
  BY <1>2, MoreCommits DEF TypeInv
<1>4. job' \in [cmd : {job'.cmd}, todo : Seq(Writes(More)), then : {"end", "replay"}]
  OBVIOUS
<1>5. job'.then = "replay" =>
          /\ job'.todo \in Seq(Holding(More))
          /\ files'.rebase # None \/ \E i \in DOMAIN job'.todo : job'.todo[i].at = "rebase"
  OBVIOUS
<1>6. TypeInv' = (/\ Recorded(log')
                  /\ files' \in FilesOver(Commits')
                  /\ job' \in [cmd : {job'.cmd}, todo : Seq(Writes(Commits')), then : {"end", "replay"}]
                  /\ work' \in Tree \cup {None}
                  /\ job'.then = "replay" =>
                        /\ job'.todo \in Seq(Holding(Commits'))
                        /\ files'.rebase # None \/ \E i \in DOMAIN job'.todo : job'.todo[i].at = "rebase")
  BY DEF TypeInv
<1> HIDE DEF More
<1> QED BY <1>1, <1>2, <1>3, <1>4, <1>5, <1>6

LEMMA MoreFacts ==
    ASSUME TypeInv
    PROVE  Commits \subseteq More /\ NewCommit \in More /\ NewCommit \in Nat
BY Facts DEF Commits, More, NewCommit

LEMMA NothingAdded == ASSUME TypeInv PROVE log \o <<>> = log
BY ConcatEmptySeq DEF TypeInv, Recorded

LEMMA RunsAlone ==
    ASSUME TypeInv, NEW cmd, NEW todo \in Seq(Writes(Commits)),
           Run(cmd, todo, "end", <<>>), work' \in Tree \cup {None}
    PROVE  TypeInv'
BY Starts, NothingAdded DEF Run

LEMMA RunsRecording ==
    ASSUME TypeInv, NEW cmd, NEW todo \in Seq(Writes(More)),
           NEW t \in Tree, NEW ps \in Seq(Commits), NEW msg \in Nat \cup {None},
           Run(cmd, todo, "end", <<Record(t, ps, msg)>>), work' \in Tree \cup {None}
    PROVE  TypeInv'
BY RecordTyped, StartsRecording DEF Run

LEMMA Three ==
    ASSUME NEW W, NEW a \in Seq(W), NEW b \in Seq(W), NEW c \in Seq(W) PROVE a \o b \o c \in Seq(W)
BY Joined

LEMMA Four ==
    ASSUME NEW W, NEW a \in Seq(W), NEW b \in Seq(W), NEW c \in Seq(W), NEW d \in Seq(W)
    PROVE  a \o b \o c \o d \in Seq(W)
BY Three, Joined

\* The user's edits.
LEMMA EditingTyped == ASSUME TypeInv, Editing PROVE TypeInv'
<1> USE DEF MayEdit
<1>0. job = Idle
  BY DEF Editing, Edit, Add, Rm, Mv, RunEdit
<1>1. ASSUME NEW p \in Paths, NEW c \in Typed, Edit(p, c) PROVE TypeInv'
  <2>1. [files EXCEPT !.worktree[p] = c] \in FilesOver(Commits)
    BY TypedIsContent, Facts DEF Tree, TypeInv, FilesOver
  <2>2. job' = job /\ log' = log /\ work' = None /\ files' = [files EXCEPT !.worktree[p] = c]
    BY <1>1 DEF Edit
  <2>3. Commits' = Commits
    BY <2>2 DEF Commits
  <2>4. job.then = "end"
    BY <1>0 DEF Idle
  <2>5. job'.then = "end" /\ job' \in [cmd : {job'.cmd}, todo : Seq(Writes(Commits)), then : {"end", "replay"}]
        /\ Recorded(log') /\ files' \in FilesOver(Commits)
    BY <2>1, <2>2, <2>4 DEF TypeInv
  <2> QED BY <2>2, <2>3, <2>5 DEF TypeInv, Writes, Holding
<1>2. ASSUME NEW cmd, NEW S, NEW todo \in Seq(Holding(Commits)), RunEdit(cmd, S, todo)
      PROVE  TypeInv'
  BY HoldingWrites, <1>2, Starts DEF RunEdit
<1>3. ASSUME NEW p \in Paths, Add(p) PROVE TypeInv'
  <2> DEFINE todo == Put("index", With(files.index, p, files.worktree[p])) \o ClearConflict(p)
  <2>1. files.worktree[p] \in Contents \cup {Gone}
    BY Facts DEF Tree
  <2>2. todo \in Seq(Holding(Commits))
    BY <2>1, IndexTyped, Facts, PutTyped, CommonWrites, Joined
  <2>3. RunEdit("add", {p}, todo)
    BY <1>3 DEF Add
  <2> HIDE DEF todo
  <2> QED BY <1>2, <2>2, <2>3
<1>4. ASSUME NEW p \in Paths, NEW cached \in BOOLEAN, Rm(p, cached) PROVE TypeInv'
  <2> DEFINE a == Put("index", With(files.index, p, Gone))
             b == ClearConflict(p)
             c == IF cached THEN <<>> ELSE Put("worktree", [files.worktree EXCEPT ![p] = Gone])
  <2>1. a \in Seq(Holding(Commits))
    BY IndexTyped, Facts, PutTyped
  <2>2. b \in Seq(Holding(Commits))
    BY CommonWrites
  <2>3. c \in Seq(Holding(Commits))
    BY Facts, PutTyped DEF Tree
  <2>4. RunEdit("rm", {p}, a \o b \o c)
    BY <1>4 DEF Rm
  <2> HIDE DEF a, b, c
  <2> QED BY <1>2, <2>1, <2>2, <2>3, <2>4, Three
<1>5. ASSUME NEW p \in Paths, NEW q \in Paths, Mv(p, q) PROVE TypeInv'
  <2> DEFINE removed == With(files.index, p, Gone)
             a == Put("worktree", [files.worktree EXCEPT ![q] = files.worktree[p], ![p] = Gone])
             b == Put("index", removed)
             c == Put("index", With(removed, q, files.worktree[p]))
  <2>1. files.worktree[p] \in Contents \cup {Gone}
    BY Facts DEF Tree
  <2>2. removed \in Indexes
    BY IndexTyped, Facts
  <2>3. a \in Seq(Holding(Commits))
    BY <2>1, Facts, PutTyped DEF Tree
  <2>4. b \in Seq(Holding(Commits)) /\ c \in Seq(Holding(Commits))
    <3> HIDE DEF removed
    <3> QED BY <2>1, <2>2, IndexTyped, PutTyped
  <2>5. RunEdit("mv", {p, q}, a \o b \o c)
    BY <1>5 DEF Mv
  <2> HIDE DEF a, b, c
  <2> QED BY <1>2, <2>3, <2>4, <2>5, Three
<1> QED BY <1>1, <1>3, <1>4, <1>5 DEF Editing

\* Commits.
LEMMA CommittingTyped == ASSUME TypeInv, Committing PROVE TypeInv'
<1>0. /\ HeadAndMergeHead \in Seq(Commits) /\ NewCommit \in Nat /\ files.index \in Indexes
      /\ files.index.staged \in Tree
      /\ \A i \in Indexes : Committed(i) \in Seq(Holding(More)) /\ Committed(i) \in Seq(Writes(More))
  BY ParentsTyped, MoreFacts, Facts, CommittedTyped, HoldingWrites
<1>1. CASE Commit
  BY <1>1, <1>0, RunsRecording DEF Commit
<1>2. CASE Amend
  BY <1>2, Facts, TreesTyped, <1>0, RunsRecording DEF Amend
<1>3. ASSUME NEW p \in Paths, CommitOnly(p) PROVE TypeInv'
  <2> DEFINE alone == With([files.index EXCEPT !.staged = TreeAt(HeadSha)], p, files.worktree[p])
             after == IF files.mergeHead = None /\ files.cherry = None THEN alone.unmerged ELSE {}
             back == [staged   |-> [x \in Paths |-> IF x = p \/ files.index.staged[x] = Gone
                                                  THEN alone.staged[x] ELSE files.index.staged[x]],
                      unmerged |-> after]
             isolated == Put("index", alone) \o ClearConflict(p)
             all == isolated \o Committed(alone) \o Put("index", back)
  <2>1. alone \in Indexes
    BY Facts, TreesTyped, IndexTyped DEF Tree
  <2>2. alone.staged \in Tree /\ alone.unmerged \subseteq Paths
    <3> HIDE DEF alone
    <3> QED BY <2>1 DEF Indexes
  <2>3. back \in Indexes
    <3> HIDE DEF alone
    <3>1. [x \in Paths |-> IF x = p \/ files.index.staged[x] = Gone
                           THEN alone.staged[x] ELSE files.index.staged[x]] \in Tree
      BY <2>2, Facts DEF Tree
    <3> QED BY <2>2, <3>1 DEF Indexes
  <2>4. isolated \in Seq(Holding(Commits)) /\ isolated \in Seq(Holding(More))
    <3> HIDE DEF alone
    <3>1. Put("index", alone) \in Seq(Holding(Commits)) /\ Put("index", alone) \in Seq(Holding(More))
      BY <2>1, PutTyped
    <3>2. ClearConflict(p) \in Seq(Holding(Commits)) /\ ClearConflict(p) \in Seq(Holding(More))
      BY CommonWrites, MoreFacts
    <3> QED BY <3>1, <3>2, Joined
  <2>5. Put("index", back) \in Seq(Holding(More))
    <3> HIDE DEF back
    <3> QED BY <2>3, PutTyped
  <2>6. all \in Seq(Writes(More)) /\ isolated \in Seq(Writes(Commits))
    <3> HIDE DEF isolated, alone, back
    <3>1. all \in Seq(Holding(More))
      BY <1>0, <2>1, <2>4, <2>5, Three
    <3> HIDE DEF all
    <3> QED BY <2>4, <3>1, HoldingWrites
  <2>7. \/ Run("commit_only", all, "end", <<Record(alone.staged, HeadAndMergeHead, NewCommit)>>)
        \/ Run("commit_only", isolated, "end", <<>>)
    BY <1>3 DEF CommitOnly
  <2>8. work' = None
    BY <1>3 DEF CommitOnly
  <2> HIDE DEF all, isolated, alone, back
  <2>9. CASE Run("commit_only", isolated, "end", <<>>)
    BY <2>6, <2>8, <2>9, RunsAlone
  <2>10. CASE Run("commit_only", all, "end", <<Record(alone.staged, HeadAndMergeHead, NewCommit)>>)
    BY <1>0, <2>2, <2>6, <2>8, <2>10, RunsRecording
  <2> QED BY <2>7, <2>9, <2>10
<1> QED BY <1>1, <1>2, <1>3 DEF Committing

\* The writes of a command that stops, with or without a commit.
LEMMA PickWrites ==
    ASSUME TypeInv, NEW r \in Outcomes
    PROVE  /\ Applied(r) \in Seq(Writes(Commits)) /\ Applied(r) \in Seq(Holding(Commits))
           /\ Conflicted(r) \in Seq(Holding(Commits)) /\ Conflicted(r) \in Seq(Writes(Commits))
           /\ Applied(r) \o Committed(r.index) \in Seq(Writes(More))
           /\ Applied(r) \o Committed(r.index) \in Seq(Holding(More))
           /\ r.index.staged \in Tree /\ r.index \in Indexes
BY MoreFacts, CommonWrites, CommittedTyped, Joined, HoldingWrites DEF Outcomes, Indexes

\* Merges.
LEMMA MergingTyped == ASSUME TypeInv, Merging PROVE TypeInv'
<1>1. ASSUME NEW theirs \in Tips, NEW squash \in BOOLEAN, Merge(theirs, squash) PROVE TypeInv'
  <2>1. HeadSha \in Commits /\ theirs \in Commits
    BY <1>1, Facts DEF Merge, Tips
  <2>2. PICK base \in MergeBases(log, HeadSha, theirs) :
            LET r == ThreeWay(TreeAt(base), TreeAt(theirs))
            IN  \/ Run("merge", ReplaceTracked(TreeAt(theirs)) \o MoveHead(theirs), "end", <<>>)
                \/ Run("merge", Applied(r) \o Put("index", WithStages(r))
                                \o Put("mergeHead", theirs) \o Put("mergeOrig", HeadSha)
                                \o Put("conflicts", r.clashes), "end", <<>>)
                \/ Run("merge", Applied(r), "end", <<>>)
                \/ Run("merge", Applied(r) \o Committed(r.index), "end",
                       <<Record(r.index.staged, <<HeadSha, theirs>>, NewCommit)>>)
    BY <1>1, Zenon DEF Merge
  <2>3. base \in Commits \cup {None}
    BY <2>1, BasesAreCommits, RecordedIsDated DEF TypeInv, Commits
  <2> DEFINE r == ThreeWay(TreeAt(base), TreeAt(theirs))
  <2>4. r \in Outcomes
    BY <2>1, <2>3, TreesTyped, ThreeWayTyped
  <2>5. work' = None
    BY <1>1 DEF Merge
  <2> HIDE DEF r
  <2>6. CASE Run("merge", ReplaceTracked(TreeAt(theirs)) \o MoveHead(theirs), "end", <<>>)
    <3>1. ReplaceTracked(TreeAt(theirs)) \in Seq(Holding(Commits)) /\ MoveHead(theirs) \in Seq(Holding(Commits))
      BY <2>1, TreesTyped, CommonWrites
    <3>2. ReplaceTracked(TreeAt(theirs)) \o MoveHead(theirs) \in Seq(Writes(Commits))
      BY <3>1, Joined, HoldingWrites
    <3> QED BY <2>5, <2>6, <3>2, RunsAlone
  <2>7. CASE Run("merge", Applied(r) \o Put("index", WithStages(r))
                          \o Put("mergeHead", theirs) \o Put("mergeOrig", HeadSha)
                          \o Put("conflicts", r.clashes), "end", <<>>)
    <3>1. Applied(r) \in Seq(Holding(Commits))
      BY <2>4, PickWrites
    <3>2. Put("index", WithStages(r)) \in Seq(Holding(Commits))
      BY <2>4, IndexTyped, PutTyped
    <3>3. Put("mergeHead", theirs) \in Seq(Holding(Commits)) /\ Put("mergeOrig", HeadSha) \in Seq(Holding(Commits))
      BY <2>1, PutTyped
    <3>4. Put("conflicts", r.clashes) \in Seq(Holding(Commits))
      BY <2>4, PutTyped DEF Outcomes
    <3>5. Applied(r) \o Put("index", WithStages(r)) \o Put("mergeHead", theirs) \o Put("mergeOrig", HeadSha)
             \in Seq(Holding(Commits))
      BY <3>1, <3>2, <3>3, Four
    <3>6. Applied(r) \o Put("index", WithStages(r)) \o Put("mergeHead", theirs) \o Put("mergeOrig", HeadSha)
             \o Put("conflicts", r.clashes) \in Seq(Writes(Commits))
      BY <3>4, <3>5, Joined, HoldingWrites
    <3> QED BY <2>5, <2>7, <3>6, RunsAlone
  <2>8. CASE Run("merge", Applied(r), "end", <<>>)
    BY <2>4, PickWrites, <2>5, <2>8, RunsAlone
  <2>9. CASE Run("merge", Applied(r) \o Committed(r.index), "end",
                 <<Record(r.index.staged, <<HeadSha, theirs>>, NewCommit)>>)
    <3>1. <<HeadSha, theirs>> \in Seq(Commits)
      BY <2>1
    <3>2. NewCommit \in Nat \cup {None}
      BY MoreFacts
    <3>3. Applied(r) \o Committed(r.index) \in Seq(Writes(More)) /\ r.index.staged \in Tree
      BY <2>4, PickWrites
    <3> QED BY <2>5, <2>9, <3>1, <3>2, <3>3, RunsRecording
  <2> QED BY <2>2, <2>6, <2>7, <2>8, <2>9 DEF r
<1>2. ASSUME MergeAbort PROVE TypeInv'
  <2> DEFINE original == IF files.mergeOrig = None THEN HeadSha ELSE files.mergeOrig
             todo == ReplaceTracked(TreeAt(original)) \o ClearMerge(Index(TreeAt(original)))
  <2>1. TreeAt(original) \in Tree
    BY Facts, TreesTyped
  <2>2. todo \in Seq(Writes(Commits))
    <3> HIDE DEF original
    <3>1. ReplaceTracked(TreeAt(original)) \in Seq(Holding(Commits))
          /\ ClearMerge(Index(TreeAt(original))) \in Seq(Holding(Commits))
      BY <2>1, IndexTyped, CommonWrites
    <3> QED BY <3>1, Joined, HoldingWrites
  <2>3. Run("merge_abort", todo, "end", <<>>) /\ work' = None
    BY <1>2 DEF MergeAbort
  <2> HIDE DEF todo
  <2> QED BY <2>2, <2>3, RunsAlone
<1> QED BY <1>1, <1>2 DEF Merging

LEMMA NamedAreCommits ==
    ASSUME TypeInv
    PROVE  Tips \subseteq Commits /\ Named \subseteq Commits
BY Facts, RecordedIsDated, HistoryCloses DEF Tips, TypeInv, Commits, Named

\* Cherry-picks and reverts.
LEMMA PickingTyped == ASSUME TypeInv, Picking PROVE TypeInv'
<1>0. /\ HeadAndMergeHead \in Seq(Commits) /\ NewCommit \in Nat /\ files.index \in Indexes
      /\ files.index.staged \in Tree /\ HeadSha \in Commits \cup {None}
      /\ \A i \in Indexes : Committed(i) \in Seq(Writes(More))
  BY ParentsTyped, MoreFacts, Facts, CommittedTyped, HoldingWrites
<1>1. ASSUME NEW c \in Named, NEW noCommit \in BOOLEAN, CherryPick(c, noCommit) PROVE TypeInv'
  <2>1. c \in Commits /\ HeadSha \in Commits
    BY <1>1, NamedAreCommits, Facts DEF CherryPick
  <2> DEFINE r == ThreeWay(ParentTree(c), TreeAt(c))
             stop == Conflicted(r) \o Put("cherry", [source |-> c, before |-> HeadSha])
  <2>2. \/ Run("cherry_pick", stop, "end", <<>>)
        \/ Run("cherry_pick", Applied(r), "end", <<>>)
        \/ Run("cherry_pick", Applied(r) \o Committed(r.index), "end",
               <<Record(r.index.staged, HeadAndMergeHead, log[c].msg)>>)
    BY <1>1, Zenon DEF CherryPick
  <2>3. r \in Outcomes /\ log[c].msg \in Nat \cup {None}
    BY <2>1, TreesTyped, ThreeWayTyped
  <2>4. work' = None
    BY <1>1 DEF CherryPick
  <2>5. stop \in Seq(Writes(Commits))
    <3> HIDE DEF r
    <3>1. [source |-> c, before |-> HeadSha] \in Picks(Commits)
      BY <2>1 DEF Picks
    <3>2. Put("cherry", [source |-> c, before |-> HeadSha]) \in Seq(Holding(Commits))
      BY <3>1, PutTyped
    <3> QED BY <2>3, <3>2, PickWrites, Joined, HoldingWrites
  <2>6. Applied(r) \in Seq(Writes(Commits)) /\ Applied(r) \o Committed(r.index) \in Seq(Writes(More))
        /\ r.index.staged \in Tree
    BY <2>3, PickWrites
  <2> HIDE DEF r, stop
  <2>7. CASE Run("cherry_pick", stop, "end", <<>>)
    BY <2>4, <2>5, <2>7, RunsAlone
  <2>8. CASE Run("cherry_pick", Applied(r), "end", <<>>)
    BY <2>4, <2>6, <2>8, RunsAlone
  <2>9. CASE Run("cherry_pick", Applied(r) \o Committed(r.index), "end",
                 <<Record(r.index.staged, HeadAndMergeHead, log[c].msg)>>)
    BY <1>0, <2>3, <2>4, <2>6, <2>9, RunsRecording
  <2> QED BY <2>2, <2>7, <2>8, <2>9
<1>2. ASSUME CherryContinue PROVE TypeInv'
  <2>1. \/ Run("cherry_continue", Clear("cherry", files.index), "end", <<>>)
        \/ Run("cherry_continue", Committed(files.index), "end",
               <<Record(files.index.staged, HeadAndMergeHead, log[files.cherry.source].msg)>>)
    BY <1>2 DEF CherryContinue
  <2>2. work' = None
    BY <1>2 DEF CherryContinue
  <2>3. log[files.cherry.source].msg \in Nat \cup {None}
    BY <1>2, Facts, TreesTyped DEF CherryContinue, Picks
  <2>4. Clear("cherry", files.index) \in Seq(Writes(Commits))
    BY <1>0, CommonWrites, HoldingWrites
  <2>5. CASE Run("cherry_continue", Clear("cherry", files.index), "end", <<>>)
    BY <2>2, <2>4, <2>5, RunsAlone
  <2>6. CASE Run("cherry_continue", Committed(files.index), "end",
                 <<Record(files.index.staged, HeadAndMergeHead, log[files.cherry.source].msg)>>)
    BY <1>0, <2>2, <2>3, <2>6, RunsRecording
  <2> QED BY <2>1, <2>5, <2>6
<1>3. ASSUME CherryAbort PROVE TypeInv'
  <2> DEFINE before == TreeAt(files.cherry.before)
             todo == ReplaceTracked(before) \o Clear("cherry", Index(before)) \o ClearConflicts
  <2>1. before \in Tree
    BY <1>3, Facts, TreesTyped DEF CherryAbort, Picks
  <2>2. todo \in Seq(Writes(Commits))
    <3> HIDE DEF before
    <3>1. ReplaceTracked(before) \in Seq(Holding(Commits))
          /\ Clear("cherry", Index(before)) \in Seq(Holding(Commits))
          /\ ClearConflicts \in Seq(Holding(Commits))
      BY <2>1, IndexTyped, CommonWrites
    <3> QED BY <3>1, Three, HoldingWrites
  <2>3. Run("cherry_abort", todo, "end", <<>>) /\ work' = None
    BY <1>3 DEF CherryAbort
  <2> HIDE DEF todo
  <2> QED BY <2>2, <2>3, RunsAlone
<1>4. ASSUME NEW c \in Named, Revert(c) PROVE TypeInv'
  <2>1. c \in Commits
    BY NamedAreCommits
  <2> DEFINE r == ThreeWay(TreeAt(c), ParentTree(c))
  <2>2. \/ Run("revert", Applied(r), "end", <<>>)
        \/ Run("revert", Applied(r) \o Committed(r.index), "end",
               <<Record(r.index.staged, HeadAndMergeHead, NewCommit)>>)
    BY <1>4, Zenon DEF Revert
  <2>3. r \in Outcomes
    BY <2>1, TreesTyped, ThreeWayTyped
  <2>4. work' = None /\ NewCommit \in Nat \cup {None}
    BY <1>0, <1>4 DEF Revert
  <2>5. Applied(r) \in Seq(Writes(Commits)) /\ Applied(r) \o Committed(r.index) \in Seq(Writes(More))
        /\ r.index.staged \in Tree
    BY <2>3, PickWrites
  <2> HIDE DEF r
  <2>6. CASE Run("revert", Applied(r), "end", <<>>)
    BY <2>4, <2>5, <2>6, RunsAlone
  <2>7. CASE Run("revert", Applied(r) \o Committed(r.index), "end",
                 <<Record(r.index.staged, HeadAndMergeHead, NewCommit)>>)
    BY <1>0, <2>4, <2>5, <2>7, RunsRecording
  <2> QED BY <2>2, <2>6, <2>7
<1> QED BY <1>1, <1>2, <1>3, <1>4 DEF Picking

\* A rebase that goes on, with or without a commit.
LEMMA RunsReplaying ==
    ASSUME TypeInv, NEW cmd, NEW todo \in Seq(Holding(Commits)),
           Run(cmd, todo, "replay", <<>>), work' \in Tree \cup {None},
           files.rebase # None \/ \E i \in DOMAIN todo : todo[i].at = "rebase"
    PROVE  TypeInv'
BY HoldingWrites, Starts, NothingAdded DEF Run

LEMMA RunsReplayingCommit ==
    ASSUME TypeInv, NEW cmd, NEW todo \in Seq(Holding(More)),
           NEW t \in Tree, NEW ps \in Seq(Commits), NEW msg \in Nat \cup {None},
           Run(cmd, todo, "replay", <<Record(t, ps, msg)>>), work' \in Tree \cup {None},
           files.rebase # None
    PROVE  TypeInv'
BY RecordTyped, HoldingWrites, StartsRecording DEF Run

\* What a rebase keeps of itself.
LEMMA RebaseTyped ==
    ASSUME TypeInv, NEW D, Commits \subseteq D, files.rebase # None
    PROVE  /\ files.rebase \in Rebases(D) /\ files.rebase.pending \in Seq(D)
           /\ NotStopped \in Seq(Holding(D))
BY Facts, SeqMonotonic, PutTyped DEF Rebases, NotStopped

LEMMA Turned ==
    ASSUME NEW path \in Seq(Commits)
    PROVE  [i \in DOMAIN path |-> path[Len(path) + 1 - i]] \in Seq(Commits)
<1>1. Len(path) \in Nat /\ DOMAIN path = 1..Len(path) /\ path \in [1..Len(path) -> Commits]
  BY LenProperties
<1>2. \A i \in 1..Len(path) : Len(path) + 1 - i \in 1..Len(path)
  BY <1>1
<1>3. [i \in DOMAIN path |-> path[Len(path) + 1 - i]] \in [1..Len(path) -> Commits]
  BY <1>1, <1>2
<1> HIDE DEF Commits
<1> QED BY <1>1, <1>3, SeqDef

\* Rebases, as the user starts them and goes on with them.
LEMMA RebasingTyped == ASSUME TypeInv, Rebasing PROVE TypeInv'
<1>0. /\ HeadAndMergeHead \in Seq(Commits) /\ files.index \in Indexes
      /\ files.index.staged \in Tree /\ files.worktree \in Tree /\ HeadSha \in Commits \cup {None}
      /\ Committed(files.index) \in Seq(Holding(More)) /\ Commits \subseteq More
  BY ParentsTyped, MoreFacts, Facts, CommittedTyped
<1>1. ASSUME NEW onto \in Tips, Rebase(onto) PROVE TypeInv'
  <2>1. HeadSha \in Commits /\ onto \in Commits /\ files.head \in Branches
    BY <1>1, Facts, NamedAreCommits DEF Rebase
  <2> DEFINE path(base) == FirstParents(log, HeadSha, base)
             state(base) == [branch   |-> files.head,
                             original |-> HeadSha,
                             onto     |-> onto,
                             pending  |-> [i \in DOMAIN path(base) |-> path(base)[Len(path(base)) + 1 - i]],
                             current  |-> None]
             moved == ReplaceTracked(TreeAt(onto)) \o SetBranch(files.head, onto)
  <2>2. work' = None
    BY <1>1 DEF Rebase
  <2>3. PICK base : \/ Run("rebase", moved, "end", <<>>)
                    \/ Run("rebase", StateFirst(Put("rebase", state(base)), moved), "replay", <<>>)
    BY <1>1, Zenon DEF Rebase
  <2>4. moved \in Seq(Holding(Commits))
    BY <2>1, TreesTyped, CommonWrites, Joined
  <2>5. state(base) \in Rebases(Commits)
    <3>1. path(base) \in Seq(Commits)
      BY <2>1, FirstParentsTyped DEF TypeInv, Commits
    <3> HIDE DEF path
    <3>2. [i \in DOMAIN path(base) |-> path(base)[Len(path(base)) + 1 - i]] \in Seq(Commits)
      BY <3>1, Turned
    <3> QED BY <2>1, <3>2 DEF Rebases
  <2> HIDE DEF state, moved
  <2>6. CASE Run("rebase", moved, "end", <<>>)
    BY <2>2, <2>4, <2>6, HoldingWrites, RunsAlone
  <2>7. CASE Run("rebase", StateFirst(Put("rebase", state(base)), moved), "replay", <<>>)
    <3> DEFINE todo == StateFirst(Put("rebase", state(base)), moved)
    <3>1. Put("rebase", state(base)) \in Seq(Holding(Commits))
      BY <2>5, PutTyped
    <3>2. todo = Put("rebase", state(base)) \o moved
      BY DEF StateFirst
    <3>3. todo \in Seq(Holding(Commits))
      BY <2>4, <3>1, <3>2, Joined
    <3>4. 1 \in DOMAIN todo /\ todo[1].at = "rebase"
      <4>1. Put("rebase", state(base)) = <<[at |-> "rebase", to |-> state(base)]>>
        BY DEF Put
      <4> HIDE DEF todo
      <4> QED BY <2>4, <3>2, <4>1
    <3> HIDE DEF todo
    <3> QED BY <2>2, <2>7, <3>3, <3>4, RunsReplaying DEF todo
  <2> QED BY <2>3, <2>6, <2>7
<1>2. ASSUME RebaseContinue PROVE TypeInv'
  <2>1. files.rebase # None /\ work' = None
    BY <1>2 DEF RebaseContinue
  <2>2. \/ Run("rebase_continue", <<>>, "replay", <<>>)
        \/ Run("rebase_continue", NotStopped, "replay", <<>>)
        \/ /\ files.rebase.current # None
           /\ Run("rebase_continue", Committed(files.index) \o NotStopped, "replay",
                  <<Record(files.index.staged, HeadAndMergeHead, log[files.rebase.current].msg)>>)
    BY <1>2 DEF RebaseContinue
  <2>3. /\ NotStopped \in Seq(Holding(Commits)) /\ <<>> \in Seq(Holding(Commits))
        /\ Committed(files.index) \o NotStopped \in Seq(Holding(More))
    BY <1>0, <2>1, RebaseTyped, PutTyped, Joined
  <2>4. CASE Run("rebase_continue", <<>>, "replay", <<>>)
    BY <2>1, <2>3, <2>4, RunsReplaying
  <2>5. CASE Run("rebase_continue", NotStopped, "replay", <<>>)
    BY <2>1, <2>3, <2>5, RunsReplaying
  <2>6. CASE /\ files.rebase.current # None
             /\ Run("rebase_continue", Committed(files.index) \o NotStopped, "replay",
                    <<Record(files.index.staged, HeadAndMergeHead, log[files.rebase.current].msg)>>)
    <3>1. files.rebase.current \in Commits
      BY <2>1, <2>6, RebaseTyped DEF Rebases
    <3>2. log[files.rebase.current].msg \in Nat \cup {None}
      BY <3>1, TreesTyped
    <3> QED BY <1>0, <2>1, <2>3, <2>6, <3>2, RunsReplayingCommit
  <2> QED BY <2>2, <2>4, <2>5, <2>6
<1>3. ASSUME RebaseSkip PROVE TypeInv'
  <2> DEFINE index == [staged |-> TreeAt(HeadSha), unmerged |-> {}]
             a == Put("index", [files.index EXCEPT !.unmerged = {}])
             b == Put("worktree", Restored(index.staged, PathsOf(files.index.staged), files.worktree))
             c == Put("index", index)
             todo == a \o b \o c \o ClearConflicts \o NotStopped
  <2>1. files.rebase # None /\ work' = None /\ Run("rebase_skip", todo, "replay", <<>>)
    BY <1>3 DEF RebaseSkip
  <2>2. index \in Indexes /\ index.staged \in Tree
    BY <1>0, TreesTyped DEF Indexes
  <2>3. a \in Seq(Holding(Commits))
    BY <1>0, IndexTyped, PutTyped
  <2>4. b \in Seq(Holding(Commits)) /\ c \in Seq(Holding(Commits))
    <3> HIDE DEF index
    <3> QED BY <1>0, <2>2, RestoredTyped, PutTyped
  <2>5. ClearConflicts \in Seq(Holding(Commits)) /\ NotStopped \in Seq(Holding(Commits))
    BY <2>1, CommonWrites, RebaseTyped
  <2> HIDE DEF a, b, c
  <2>6. todo \in Seq(Holding(Commits))
    BY <2>3, <2>4, <2>5, Four, Joined
  <2> HIDE DEF todo
  <2> QED BY <2>1, <2>6, RunsReplaying
<1>4. ASSUME RebaseAbort PROVE TypeInv'
  <2> DEFINE s == files.rebase
             original == TreeAt(s.original)
             b == SetBranch(s.branch, s.original)
             c == Put("head", s.branch)
             d == Clear("rebase", Index(original))
             todo == ReplaceTracked(original) \o b \o c \o d \o ClearConflicts
  <2>1. work' = None /\ Run("rebase_abort", todo, "end", <<>>)
    BY <1>4 DEF RebaseAbort
  <2>2. s.branch \in Branches /\ s.original \in Commits
    BY <1>4, RebaseTyped DEF RebaseAbort, Rebases
  <2>3. original \in Tree
    BY <2>2, TreesTyped
  <2>4. /\ ReplaceTracked(original) \in Seq(Writes(Commits)) /\ b \in Seq(Writes(Commits))
        /\ c \in Seq(Writes(Commits)) /\ d \in Seq(Writes(Commits)) /\ ClearConflicts \in Seq(Writes(Commits))
    BY <2>3, IndexTyped, CommonWrites, <2>2, PutTyped, HoldingWrites
  <2> HIDE DEF b, c, d, original
  <2>5. todo \in Seq(Writes(Commits))
    BY <2>4, Four, Joined
  <2> HIDE DEF todo
  <2> QED BY <2>1, <2>5, RunsAlone
<1> QED BY <1>1, <1>2, <1>3, <1>4 DEF Rebasing

-----------------------------------------------------------------------------
(***************************************************************************)
(* Types: the commands.                                                    *)
(***************************************************************************)
LEMMA PreviousTyped ==
    ASSUME TypeInv, NEW c \in Commits PROVE Previous(c) \in Commits \cup {None}
<1>1. log[c].parents \in Seq(Commits)
  BY TreesTyped
<1> DEFINE parents == log[c].parents
<1>2. Len(parents) \in Nat /\ \A i \in 1..Len(parents) : parents[i] \in Commits
  BY <1>1, ElementOfSeq, LenProperties
<1>3. CASE Len(parents) >= 3
  BY <1>2, <1>3 DEF Previous
<1>4. CASE Len(parents) = 2 /\ log[parents[2]].msg # None
  BY <1>2, <1>4 DEF Previous
<1>5. CASE ~(Len(parents) >= 3) /\ ~(Len(parents) = 2 /\ log[parents[2]].msg # None)
  BY <1>5 DEF Previous
<1> QED BY <1>3, <1>4, <1>5

LEMMA EntriesExist == ASSUME TypeInv PROVE \E w : Entries(w, Len(log))
<1> DEFINE N == Len(log)
           C == Commits \cup {None}
           T == {m \in 0..N : \E w : Entries(w, m)}
           Up(x) == IF x = None THEN None ELSE Previous(x)
<1>1. N \in Nat /\ files.stash \in C /\ \A x \in C : Up(x) \in C
  BY Facts, PreviousTyped
<1> HIDE DEF Up
<1>2. 0 \in T
  <2> DEFINE w == [i \in {} |-> None]
  <2>1. Entries(w, 0)
    BY DEF Entries
  <2> QED BY <1>1, <2>1
<1>3. ASSUME NEW m \in 0..(N - 1), m \in T PROVE m + 1 \in T
  <2>1. PICK w : Entries(w, m)
    BY <1>3
  <2> DEFINE up == IF m = 0 THEN files.stash ELSE Up(w[m])
             g == [i \in 1..(m + 1) |-> IF i = m + 1 THEN up ELSE w[i]]
  <2>2. w \in [1..m -> C]
    BY <2>1 DEF Entries
  <2>3. up \in C
    BY <2>2, <1>1
  <2>4. g \in [1..(m + 1) -> C]
    <3> HIDE DEF up, C
    <3> QED BY <2>2, <2>3
  <2>5. ASSUME NEW i \in 1..(m + 1) PROVE g[i] = IF i = 1 THEN files.stash ELSE Up(g[i - 1])
    <3>1. CASE i = m + 1
      BY <3>1
    <3>2. CASE i # m + 1
      <4>1. i \in 1..m /\ g[i] = w[i] /\ (i # 1 => g[i - 1] = w[i - 1])
        BY <3>2
      <4>2. w[i] = IF i = 1 THEN files.stash ELSE Up(w[i - 1])
        BY <4>1, <2>1 DEF Entries, Up
      <4> HIDE DEF g
      <4> QED BY <4>1, <4>2
    <3> QED BY <3>1, <3>2
  <2>6. Entries(g, m + 1)
    <3> HIDE DEF g
    <3> QED BY <2>4, <2>5 DEF Entries, Up
  <2> QED BY <2>6, <1>1
<1>4. \A m \in 0..N : m \in T
  <2> HIDE DEF T, N
  <2> QED BY <1>1, <1>2, <1>3, UpTo
<1> QED BY <1>1, <1>4

\* Every entry of the stack is a commit.
LEMMA StashesTyped ==
    ASSUME TypeInv PROVE Stashes \in Seq(Commits)
<1> DEFINE N == Len(log)
           C == Commits \cup {None}
           Def(w) == w = [i \in 1..N |-> IF i = 1 THEN files.stash
                                         ELSE IF w[i-1] = None THEN None ELSE Previous(w[i-1])]
           w == CHOOSE g : Def(g)
           I == {i \in 1..N : w[i] # None}
           n == Cardinality(I)
<1>1. N \in Nat /\ files.stash \in C
  BY Facts
<1>2. PICK f : Entries(f, N)
  BY EntriesExist
<1>3. Def(f)
  BY <1>2 DEF Entries
<1>4. Def(w)
  <2> HIDE DEF Def
  <2> QED BY <1>3
<1>5. Stashes = [i \in 1..n |-> w[i]]
  BY DEF Stashes
<1> HIDE DEF w
<1> DEFINE T == {d \in 0..N : d \in 1..N => w[d] \in C}
<1>6. \A i \in 1..N : w[i] = IF i = 1 THEN files.stash ELSE IF w[i-1] = None THEN None ELSE Previous(w[i-1])
  BY <1>4
<1>7. \A d \in 0..N : d \in T
  <2>1. 0 \in T
    BY <1>1
  <2>2. ASSUME NEW i \in 0..(N - 1), i \in T PROVE i + 1 \in T
    BY <1>1, <1>6, <2>2, PreviousTyped
  <2> HIDE DEF T, N
  <2> QED BY <1>1, <2>1, <2>2, UpTo
<1>8. ASSUME NEW i \in I, i # 1 PROVE i - 1 \in I
  BY <1>1, <1>8, <1>6
<1>9. n \in 0..N /\ I = 1..n
  <2>1. I \in SUBSET (1..N)
    OBVIOUS
  <2> HIDE DEF I, N
  <2> QED BY <1>1, <1>8, <2>1, PrefixIsInterval
<1>10. ASSUME NEW i \in 1..n PROVE w[i] \in Commits
  BY <1>1, <1>7, <1>9
<1> HIDE DEF n
<1>11. Stashes \in [1..n -> Commits] /\ n \in Nat
  BY <1>1, <1>5, <1>9, <1>10
<1> QED BY <1>11, SeqDef

-----------------------------------------------------------------------------
(***************************************************************************)
(* The other commands, and the steps of a command that runs.               *)
(***************************************************************************)
LEMMA RunsSimple ==
    ASSUME TypeInv, NEW cmd, NEW todo \in Seq(Holding(Commits)), Simple(cmd, todo) PROVE TypeInv'
BY HoldingWrites, RunsAlone DEF Simple

\* Between a bad commit and a good one there is one to test.
LEMMA CandidateTyped ==
    ASSUME TypeInv, NEW bad \in Commits, NEW good \in Commits, bad # good
    PROVE  Candidate(bad, good) \in Commits
<1> DEFINE path == FirstParents(log, bad, good)
<1>1. path \in Seq(Commits) /\ Len(path) >= 1
  BY FirstParentsTyped, Facts DEF TypeInv, Commits
<1> HIDE DEF path
<1>2. Len(path) \in Nat /\ \A i \in 1..Len(path) : path[i] \in Commits
  BY <1>1, ElementOfSeq, LenProperties
<1>3. Len(path) \div 2 + 1 \in 1..Len(path)
  BY <1>1, <1>2
<1> QED BY <1>2, <1>3 DEF Candidate, path

LEMMA BisectNextTyped ==
    ASSUME TypeInv, NEW state \in Bisects(Commits), Bisectable(state.bad, state.good)
    PROVE  BisectNext(state) \in Seq(Holding(Commits))
<1> DEFINE c == Candidate(state.bad, state.good)
           out == IF state.bad = None \/ state.good = None THEN <<>>
                  ELSE ReplaceTracked(TreeAt(c)) \o Put("head", c)
<1>1. out \in Seq(Holding(Commits))
  <2>1. CASE state.bad = None \/ state.good = None
    BY <2>1, EmptySeq
  <2>2. CASE ~(state.bad = None \/ state.good = None)
    <3>1. c \in Commits
      BY <2>2, CandidateTyped DEF Bisects, Bisectable
    <3> HIDE DEF c
    <3>2. ReplaceTracked(TreeAt(c)) \in Seq(Holding(Commits)) /\ Put("head", c) \in Seq(Holding(Commits))
      BY <3>1, TreesTyped, CommonWrites, PutTyped
    <3> QED BY <2>2, <3>2, Joined
  <2> QED BY <2>1, <2>2
<1>2. Put("bisect", state) \in Seq(Holding(Commits))
  BY PutTyped
<1>3. BisectNext(state) = out \o Put("bisect", state)
  BY DEF BisectNext
<1> HIDE DEF out
<1> QED BY <1>1, <1>2, <1>3, Joined

LEMMA BisectingTyped == ASSUME TypeInv, Bisecting PROVE TypeInv'
<1>1. ASSUME NEW bad \in Named \cup {None}, NEW good \in Named \cup {None}, BisectStart(bad, good)
      PROVE  TypeInv'
  <2> DEFINE state == [head |-> files.head, sha |-> HeadSha, bad |-> bad, good |-> good]
  <2>1. /\ Run("bisect_start", BisectNext(state), "end", <<>>) /\ work' = None
        /\ HeadSha # None /\ Bisectable(bad, good)
    BY <1>1 DEF BisectStart
  <2>2. state \in Bisects(Commits)
    BY <2>1, Facts, NamedAreCommits DEF Bisects
  <2>3. Bisectable(state.bad, state.good)
    BY <2>1
  <2> HIDE DEF state
  <2> QED BY <2>1, <2>2, <2>3, BisectNextTyped, HoldingWrites, RunsAlone
<1>2. ASSUME NEW kind \in {"bad", "good"}, NEW c \in Named, BisectMark(kind, c) PROVE TypeInv'
  <2> DEFINE state == [files.bisect EXCEPT ![kind] = c]
  <2>1. /\ Run("bisect_mark", BisectNext(state), "end", <<>>) /\ work' = None
        /\ files.bisect # None /\ Bisectable(state.bad, state.good)
    BY <1>2 DEF BisectMark
  <2>2. state \in Bisects(Commits)
    BY <2>1, Facts, NamedAreCommits DEF Bisects
  <2> HIDE DEF state
  <2> QED BY <2>1, <2>2, BisectNextTyped, HoldingWrites, RunsAlone
<1>3. ASSUME BisectReset PROVE TypeInv'
  <2> DEFINE a == ReplaceTracked(TreeAt(files.bisect.sha))
             b == Put("head", files.bisect.head)
             c == Put("bisect", None)
  <2>1. Run("bisect_reset", a \o b \o c, "end", <<>>) /\ work' = None /\ files.bisect # None
    BY <1>3 DEF BisectReset
  <2>2. files.bisect.sha \in Commits /\ files.bisect.head \in Branches \cup Commits
    BY <2>1, Facts DEF Bisects
  <2>3. a \in Seq(Holding(Commits)) /\ b \in Seq(Holding(Commits)) /\ c \in Seq(Holding(Commits))
    BY <2>2, TreesTyped, CommonWrites, PutTyped
  <2> HIDE DEF a, b, c
  <2> QED BY <2>1, <2>3, Three, HoldingWrites, RunsAlone
<1> QED BY <1>1, <1>2, <1>3 DEF Bisecting

\* Resets, checkouts and branches.
LEMMA ResetTyped ==
    ASSUME TypeInv, NEW mode \in {"soft", "mixed", "hard"}, NEW c \in Commits, Reset(mode, c) PROVE TypeInv'
<1> DEFINE t == TreeAt(c)
           w == Replace(t, PathsOf(files.index.staged))
           x == ClearMerge(Index(t))
           y == Clear("cherry", Index(t))
           z == Clear("rebase", Index(t))
<1>1. \/ Run("reset", MoveHead(c) \o <<>>, "end", <<>>)
      \/ Run("reset", MoveHead(c) \o Put("index", Index(t)), "end", <<>>)
      \/ Run("reset", MoveHead(c) \o (w \o x \o y \o z), "end", <<>>)
  BY DEF Reset, Simple
<1>2. work' = None
  BY DEF Reset, Simple
<1>3. t \in Tree /\ Index(t) \in Indexes
  BY TreesTyped, IndexTyped
<1>4. /\ MoveHead(c) \in Seq(Writes(Commits)) /\ <<>> \in Seq(Writes(Commits))
      /\ Put("index", Index(t)) \in Seq(Writes(Commits))
  BY <1>3, CommonWrites, PutTyped, HoldingWrites
<1>5. /\ w \in Seq(Writes(Commits)) /\ x \in Seq(Writes(Commits))
      /\ y \in Seq(Writes(Commits)) /\ z \in Seq(Writes(Commits))
  <2> HIDE DEF t
  <2>1. PathsOf(files.index.staged) \in SUBSET Paths
    BY DEF PathsOf
  <2> QED BY <1>3, <2>1, CommonWrites, HoldingWrites
<1> HIDE DEF t, w, x, y, z
<1>6. /\ MoveHead(c) \o <<>> \in Seq(Writes(Commits))
      /\ MoveHead(c) \o Put("index", Index(t)) \in Seq(Writes(Commits))
      /\ MoveHead(c) \o (w \o x \o y \o z) \in Seq(Writes(Commits))
  BY <1>4, <1>5, Four, Joined
<1>7. CASE Run("reset", MoveHead(c) \o <<>>, "end", <<>>)
  BY <1>2, <1>6, <1>7, RunsAlone
<1>8. CASE Run("reset", MoveHead(c) \o Put("index", Index(t)), "end", <<>>)
  BY <1>2, <1>6, <1>8, RunsAlone
<1>9. CASE Run("reset", MoveHead(c) \o (w \o x \o y \o z), "end", <<>>)
  BY <1>2, <1>6, <1>9, RunsAlone
<1> QED BY <1>1, <1>7, <1>8, <1>9

LEMMA MovingTyped == ASSUME TypeInv, Moving PROVE TypeInv'
<1>0. Tips \subseteq Commits /\ Named \subseteq Commits
  BY NamedAreCommits
<1>1. ASSUME NEW mode \in {"soft", "mixed", "hard"}, NEW c \in Named, Reset(mode, c) PROVE TypeInv'
  BY <1>0, <1>1, ResetTyped
<1>2. ASSUME NEW p \in Paths, NEW c \in Tips, ResetPath(p, c) PROVE TypeInv'
  <2>1. Simple("reset_path", Put("index", [files.index EXCEPT !.staged[p] = TreeAt(c)[p]]))
    BY <1>2 DEF ResetPath
  <2>2. [files.index EXCEPT !.staged[p] = TreeAt(c)[p]] \in Indexes
    <3>1. TreeAt(c)[p] \in Contents \cup {Gone}
      BY <1>0, TreesTyped DEF Tree
    <3> QED BY <3>1, Facts DEF Indexes, Tree
  <2> QED BY <2>1, <2>2, PutTyped, RunsSimple
<1>3. ASSUME NEW p \in Paths, NEW c \in Tips, CheckoutPath(p, c) PROVE TypeInv'
  <2> DEFINE a == Put("worktree", [files.worktree EXCEPT ![p] = TreeAt(c)[p]])
             b == Put("index", [files.index EXCEPT !.staged[p] = TreeAt(c)[p]])
  <2>1. Simple("checkout_path", a \o b)
    BY <1>3 DEF CheckoutPath
  <2>2. TreeAt(c)[p] \in Contents \cup {Gone}
    BY <1>0, TreesTyped DEF Tree
  <2>3. [files.index EXCEPT !.staged[p] = TreeAt(c)[p]] \in Indexes
    BY <2>2, Facts DEF Indexes, Tree
  <2>4. [files.worktree EXCEPT ![p] = TreeAt(c)[p]] \in Tree
    BY <2>2, Facts DEF Tree
  <2>5. a \in Seq(Holding(Commits)) /\ b \in Seq(Holding(Commits))
    BY <2>3, <2>4, PutTyped
  <2> HIDE DEF a, b
  <2> QED BY <2>1, <2>5, Joined, RunsSimple
<1>4. ASSUME NEW head \in Branches \cup Commits, NEW c \in Commits, Checkout(head, c) PROVE TypeInv'
  BY <1>4, TreesTyped, CommonWrites, PutTyped, Joined, RunsSimple DEF Checkout
<1>5. ASSUME NEW b \in Branches, files.branch[b] # None, Checkout(b, files.branch[b]) PROVE TypeInv'
  BY <1>5, Facts, <1>4
<1>6. ASSUME NEW b \in Branches, CheckoutOrphan(b) PROVE TypeInv'
  BY <1>6, PutTyped, RunsSimple DEF CheckoutOrphan
<1>7. ASSUME NEW b \in Branches, DeleteBranch(b) PROVE TypeInv'
  BY CommonWrites, <1>7, Facts, PutTyped, Joined, RunsSimple DEF DeleteBranch
<1>8. ASSUME NEW b \in Branches, NEW c \in Tips, CreateBranch(b, c) PROVE TypeInv'
  BY <1>0, CommonWrites, PutTyped, <1>8, Joined, RunsSimple DEF CreateBranch
<1>9. ASSUME NEW b \in Branches, NEW new \in Branches, RenameBranch(b, new) PROVE TypeInv'
  <2> DEFINE both == [files.branch EXCEPT ![new] = files.branch[b]]
             x == Put("branch", both)
             y == IF files.head = b THEN Put("head", new) ELSE <<>>
             z == Put("branch", [both EXCEPT ![b] = None])
  <2>1. both \in [Branches -> Commits \cup {None}]
    BY Facts
  <2>2. [both EXCEPT ![b] = None] \in [Branches -> Commits \cup {None}]
    <3> HIDE DEF both
    <3> QED BY <2>1
  <2>3. x \in Seq(Holding(Commits)) /\ z \in Seq(Holding(Commits)) /\ y \in Seq(Holding(Commits))
    <3> HIDE DEF both
    <3> QED BY <2>1, <2>2, PutTyped
  <2>4. Simple("branch_rename", x \o y \o z)
    BY <1>9 DEF RenameBranch
  <2> HIDE DEF x, y, z
  <2> QED BY <2>3, <2>4, Three, RunsSimple
<1>10. ASSUME NEW c \in Named, Checkout(c, c) PROVE TypeInv'
  BY <1>0, <1>4, <1>10
<1> QED BY <1>1, <1>2, <1>3, <1>5, <1>6, <1>7, <1>8, <1>9, <1>10, Zenon DEF Moving

LEMMA Pair == ASSUME NEW x, NEW y PROVE <<x>> \o <<y>> = <<x, y>>
<1> DEFINE W == {x, y}
           s == <<x>>
           t == <<y>>
           u == <<x, y>>
           v == s \o t
<1>1. /\ s \in Seq(W) /\ Len(s) = 1 /\ s[1] = x /\ t \in Seq(W) /\ Len(t) = 1 /\ t[1] = y
      /\ u \in Seq(W) /\ Len(u) = 2 /\ u[1] = x /\ u[2] = y
  OBVIOUS
<1>2. v \in Seq(W) /\ Len(v) = 2 /\ v[1] = x /\ v[2] = y
  <2> HIDE DEF W, s, t
  <2> QED BY <1>1, ConcatProperties
<1> HIDE DEF W, s, t, u, v
<1>3. \A i \in 1..Len(u) : u[i] = v[i]
  BY <1>1, <1>2
<1>4. u = v
  BY <1>1, <1>2, <1>3, SeqEqual
<1> QED BY <1>4 DEF s, t, u, v

\* A push records two commits.
LEMMA StartsRecordingTwo ==
    ASSUME TypeInv, NEW cmd, NEW todo \in Seq(Writes(1..(Len(log) + 2))),
           NEW a \in Entry, a.parents \in Seq(Commits), NEW e \in Entry, e.parents \in Seq(More),
           job' = [cmd |-> cmd, todo |-> todo, then |-> "end"], log' = log \o <<a, e>>, files' = files,
           work' \in Tree \cup {None}
    PROVE  TypeInv' /\ Commits' = 1..(Len(log) + 2)
                    /\ log'[NewCommit + 1] = e /\ \A c \in Commits : log'[c] = log[c]
<1> DEFINE C == 1..(Len(log) + 2)
           g == log \o <<a>>
<1>1. Recorded(g) /\ Len(g) = Len(log) + 1 /\ Len(log) \in Nat
      /\ \A c \in 1..Len(log) : g[c] = log[c]
  BY OneMore, Facts DEF TypeInv, Commits
<1>2. log' = g \o <<e>>
  <2>1. log \in Seq(Entry) /\ <<a>> \in Seq(Entry) /\ <<e>> \in Seq(Entry)
    BY OneWrite DEF TypeInv, Recorded, Entry
  <2>2. log \o (<<a>> \o <<e>>) = (log \o <<a>>) \o <<e>>
    <3> HIDE DEF Entry
    <3> QED BY <2>1, ConcatAssociative
  <2>3. <<a>> \o <<e>> = <<a, e>>
    BY Pair
  <2> QED BY <2>2, <2>3
<1> HIDE DEF g
<1>3. e.parents \in Seq(1..Len(g))
  BY <1>1 DEF More
<1>4. /\ Recorded(log') /\ Len(log') = Len(log) + 2
      /\ log'[Len(g) + 1] = e /\ \A c \in 1..Len(g) : log'[c] = g[c]
  <2>1. Recorded(g \o <<e>>) /\ Len(g \o <<e>>) = Len(g) + 1 /\ (g \o <<e>>)[Len(g) + 1] = e
        /\ \A c \in 1..Len(g) : (g \o <<e>>)[c] = g[c]
    BY <1>1, <1>3, OneMore
  <2> DEFINE k == g \o <<e>>
  <2>2. Recorded(k) /\ Len(k) = Len(g) + 1 /\ k[Len(g) + 1] = e /\ \A c \in 1..Len(g) : k[c] = g[c]
    BY <2>1
  <2>3. log' = k
    BY <1>2
  <2> HIDE DEF k
  <2>4. Len(log') = Len(log) + 2
    BY <1>1, <2>2, <2>3
  <2> QED BY <2>2, <2>3, <2>4
<1>5. Commits' = C /\ Commits \subseteq C
  BY <1>4, Facts DEF Commits
<1>6. files' \in FilesOver(C)
  BY <1>1, <1>5, MoreCommits DEF TypeInv
<1>7. job' \in [cmd : {job'.cmd}, todo : Seq(Writes(C)), then : {"end", "replay"}] /\ job'.then = "end"
  OBVIOUS
<1>8. TypeInv' = (/\ Recorded(log')
                  /\ files' \in FilesOver(Commits')
                  /\ job' \in [cmd : {job'.cmd}, todo : Seq(Writes(Commits')), then : {"end", "replay"}]
                  /\ work' \in Tree \cup {None}
                  /\ job'.then = "replay" =>
                        /\ job'.todo \in Seq(Holding(Commits'))
                        /\ files'.rebase # None \/ \E i \in DOMAIN job'.todo : job'.todo[i].at = "rebase")
  BY DEF TypeInv
<1>9. log'[NewCommit + 1] = e /\ \A c \in Commits : log'[c] = log[c]
  BY <1>1, <1>4 DEF NewCommit, Commits
<1> HIDE DEF C
<1>10. TypeInv'
  BY <1>4, <1>5, <1>6, <1>7, <1>8
<1> QED BY <1>5, <1>9, <1>10 DEF C

LEMMA StashRecords ==
    ASSUME TypeInv
    PROVE  /\ StashIndex \in Entry /\ StashIndex.parents \in Seq(Commits)
           /\ StashTop \in Entry /\ StashTop.parents \in Seq(More) /\ StashTop.tree = files.worktree
<1>1. One(HeadSha) \in Seq(Commits) /\ One(files.stash) \in Seq(Commits)
  BY EmptySeq, OneWrite, Facts DEF One
<1>2. NewCommit \in More /\ NewCommit \in Nat /\ Commits \subseteq More /\ More \subseteq Nat
  BY MoreFacts DEF More
<1>3. One(HeadSha) \o <<NewCommit>> \o One(files.stash) \in Seq(More)
  BY <1>2, SeqMonotonic, OneWrite, <1>1, Three
<1>4. Seq(More) \subseteq Seq(Nat)
  BY <1>2, SeqMonotonic
<1>5. StashIndex \in Entry /\ StashIndex.parents \in Seq(Commits)
  <2>1. files.index.staged \in Tree /\ None \in Nat \cup {None}
    BY Facts
  <2> QED BY <1>1, <2>1, RecordTyped DEF StashIndex
<1>6. StashTop \in Entry /\ StashTop.parents \in Seq(More) /\ StashTop.tree = files.worktree
  <2>1. files.worktree \in Tree /\ NewCommit + 1 \in Nat
    BY <1>2, Facts
  <2> DEFINE ps == One(HeadSha) \o <<NewCommit>> \o One(files.stash)
  <2>2. ps \in Seq(Nat)
    BY <1>3, <1>4
  <2> HIDE DEF ps
  <2>3. StashTop = [tree |-> files.worktree, parents |-> ps, msg |-> NewCommit + 1]
    BY DEF StashTop, Record, ps
  <2>4. ps \in Seq(More)
    BY <1>3 DEF ps
  <2> QED BY <2>1, <2>2, <2>3, <2>4 DEF Entry
<1> QED BY <1>5, <1>6

LEMMA StashPushes ==
    ASSUME TypeInv, NEW how \in {"all", "keep_index", "staged"}, StashPush(how)
    PROVE  \E s : /\ Cleans(s)
                  /\ Run("stash_push", Put("stash", NewCommit + 1) \o s, "end", <<StashIndex, StashTop>>)
                  /\ work' = files.worktree
<1> DEFINE head == TreeAt(HeadSha)
           W == [at : {"worktree"}, to : Tree] \cup [at : {"index"}, to : Indexes]
           unstaged == [p \in Paths |-> IF p \in StagedPaths THEN head[p] ELSE files.worktree[p]]
           kept == [p \in Paths |-> IF p \in StagedPaths /\ files.index.staged[p] # Gone
                                    THEN files.index.staged[p] ELSE head[p]]
           a == Put("worktree", Restored(head, Paths, files.worktree))
           b == Put("index", Index(head))
           c == Put("worktree", kept)
           d == Put("index", Index(kept))
           e == Put("worktree", unstaged)
<1>1. head \in Tree /\ files.worktree \in Tree /\ files.index.staged \in Tree
  BY Facts, TreesTyped
<1>2. unstaged \in Tree /\ kept \in Tree
  <2> HIDE DEF head
  <2> QED BY <1>1 DEF Tree
<1>3. \A t \in Tree : Put("worktree", t) \in Seq(W) /\ Put("index", Index(t)) \in Seq(W)
  <2>1. \A t \in Tree : [at |-> "worktree", to |-> t] \in W
    OBVIOUS
  <2>2. \A i \in Indexes : [at |-> "index", to |-> i] \in W
    OBVIOUS
  <2> HIDE DEF W
  <2> QED BY <2>1, <2>2, OneWrite, IndexTyped DEF Put
<1>4. a \in Seq(W) /\ b \in Seq(W) /\ c \in Seq(W) /\ d \in Seq(W) /\ e \in Seq(W)
  <2> HIDE DEF head, unstaged, kept, W
  <2> QED BY <1>1, <1>2, <1>3, RestoredTyped
<1>5. /\ \/ Run("stash_push", Put("stash", NewCommit + 1) \o (a \o b), "end", <<StashIndex, StashTop>>)
         \/ Run("stash_push", Put("stash", NewCommit + 1) \o (a \o b \o c \o d), "end", <<StashIndex, StashTop>>)
         \/ Run("stash_push", Put("stash", NewCommit + 1) \o (e \o b), "end", <<StashIndex, StashTop>>)
      /\ work' = files.worktree
  BY DEF StashPush, SavedFirst, StashIndex, StashTop, One
<1> HIDE DEF head, unstaged, kept, a, b, c, d, e, W
<1>6. a \o b \in Seq(W) /\ a \o b \o c \o d \in Seq(W) /\ e \o b \in Seq(W)
  BY <1>4, Joined, Four
<1> QED BY <1>5, <1>6 DEF Cleans, W

LEMMA CleansTyped == ASSUME NEW C, NEW s, Cleans(s) PROVE s \in Seq(Holding(C))
BY SeqMonotonic DEF Holding, Cleans

LEMMA PushTyped ==
    ASSUME TypeInv, NEW how \in {"all", "keep_index", "staged"}, StashPush(how) PROVE TypeInv'
<1> DEFINE C == 1..(Len(log) + 2)
<1>1. PICK s : /\ Cleans(s)
               /\ Run("stash_push", Put("stash", NewCommit + 1) \o s, "end", <<StashIndex, StashTop>>)
               /\ work' = files.worktree
  BY StashPushes
<1> DEFINE todo == Put("stash", NewCommit + 1) \o s
<1>2. todo \in Seq(Writes(C))
  <2>1. NewCommit + 1 \in C
    BY Facts DEF NewCommit
  <2> HIDE DEF C
  <2>2. Put("stash", NewCommit + 1) \in Seq(Holding(C)) /\ s \in Seq(Holding(C))
    BY <1>1, <2>1, PutTyped, CleansTyped
  <2> QED BY <2>2, Joined, HoldingWrites
<1>3. /\ job' = [cmd |-> "stash_push", todo |-> todo, then |-> "end"]
      /\ log' = log \o <<StashIndex, StashTop>> /\ files' = files
  BY <1>1 DEF Run
<1>4. work' \in Tree \cup {None}
  BY <1>1, Facts
<1> HIDE DEF todo
<1> QED BY <1>2, <1>3, <1>4, StashRecords, StartsRecordingTwo

LEMMA StashingTyped == ASSUME TypeInv, Stashing PROVE TypeInv'
<1>0. /\ Stashes \in Seq(Commits) /\ DOMAIN Stashes = 1..Len(Stashes) /\ Len(Stashes) \in Nat
      /\ \A i \in DOMAIN Stashes : Stashes[i] \in Commits
  BY StashesTyped, ElementOfSeq, LenProperties
<1>1. ASSUME NEW t \in Tree PROVE Unstash(t) \in Seq(Holding(Commits))
  BY Facts, RestoredTyped, PutTyped DEF Unstash
<1>2. \A i \in DOMAIN Stashes : Dropped(i) \in Commits \cup {None}
  BY <1>0 DEF Dropped
<1>3. ASSUME StashPop PROVE TypeInv'
  <2>1. files.stash \in Commits
    BY <1>3, Facts DEF StashPop
  <2>2. Unstash(TreeAt(files.stash)) \o Put("stash", Previous(files.stash)) \in Seq(Holding(Commits))
    BY <1>1, <2>1, TreesTyped, PreviousTyped, PutTyped, Joined
  <2>3. Simple("stash_pop", Unstash(TreeAt(files.stash)) \o Put("stash", Previous(files.stash)))
    BY <1>3 DEF StashPop
  <2> QED BY <2>2, <2>3, RunsSimple
<1>4. ASSUME NEW i \in DOMAIN Stashes, NEW restoreIndex \in BOOLEAN, StashApply(i, restoreIndex)
      PROVE  TypeInv'
  <2> DEFINE t == TreeAt(Stashes[i])
             after == Restored(t, PathsOf(files.index.staged), files.worktree)
             held == TreeAt(log[Stashes[i]].parents[2])
             index == [staged   |-> [p \in Paths |-> IF held[p] # Gone /\ after[p] # Gone
                                                     THEN held[p] ELSE files.index.staged[p]],
                       unmerged |-> files.index.unmerged \ PathsOf(held)]
  <2>1. \/ Simple("stash_apply", Unstash(t) \o <<>>)
        \/ /\ Len(log[Stashes[i]].parents) >= 2
           /\ Simple("stash_apply", Unstash(t) \o Put("index", index))
    BY <1>4 DEF StashApply
  <2>2. Stashes[i] \in Commits /\ t \in Tree
    BY <1>0, TreesTyped
  <2>3. Unstash(t) \in Seq(Holding(Commits)) /\ <<>> \in Seq(Holding(Commits))
    <3> HIDE DEF t
    <3> QED BY <1>1, <2>2, PutTyped
  <2>4. CASE Simple("stash_apply", Unstash(t) \o <<>>)
    BY <2>3, <2>4, Joined, RunsSimple
  <2>5. CASE /\ Len(log[Stashes[i]].parents) >= 2
             /\ Simple("stash_apply", Unstash(t) \o Put("index", index))
    <3>1. held \in Tree
      BY <2>2, TreesTyped, <2>5, ElementOfSeq, LenProperties
    <3>2. index \in Indexes
      <4> HIDE DEF held, after
      <4>1. [p \in Paths |-> IF held[p] # Gone /\ after[p] # Gone
                             THEN held[p] ELSE files.index.staged[p]] \in Tree
        BY <3>1, Facts DEF Tree
      <4>2. files.index.unmerged \ PathsOf(held) \in SUBSET Paths
        BY Facts
      <4> QED BY <4>1, <4>2 DEF Indexes
    <3> HIDE DEF index, t
    <3>3. Put("index", index) \in Seq(Holding(Commits))
      BY <3>2, PutTyped
    <3> QED BY <2>3, <2>5, <3>3, Joined, RunsSimple
  <2> QED BY <2>1, <2>4, <2>5
<1>5. ASSUME NEW i \in DOMAIN Stashes, StashDrop(i) PROVE TypeInv'
  BY <1>2, PutTyped, <1>5, RunsSimple DEF StashDrop
<1>6. ASSUME NEW i \in DOMAIN Stashes, NEW b \in Branches, StashBranch(b, i) PROVE TypeInv'
  <2> DEFINE head == TreeAt(HeadSha)
             clean == Restored(head, PathsOf(files.index.staged), files.worktree)
             stash == TreeAt(Stashes[i])
             w == Put("worktree", Restored(stash, PathsOf(head), clean))
             x == Put("stash", Dropped(i))
             y == SetBranch(b, HeadSha) \o Put("head", b) \o ReplaceTracked(head)
  <2>1. Simple("stash_branch", y \o <<>>) \/ Simple("stash_branch", y \o (w \o x))
    BY <1>6 DEF StashBranch
  <2>2. HeadSha \in Commits
    BY <1>6, Facts DEF StashBranch
  <2>3. head \in Tree /\ clean \in Tree /\ stash \in Tree
    <3>1. head \in Tree
      BY <2>2, TreesTyped
    <3>2. stash \in Tree
      BY <1>0, TreesTyped
    <3> HIDE DEF head
    <3> QED BY <3>1, <3>2, Facts, RestoredTyped
  <2>4. y \in Seq(Holding(Commits))
    <3> HIDE DEF head
    <3>1. /\ SetBranch(b, HeadSha) \in Seq(Holding(Commits)) /\ Put("head", b) \in Seq(Holding(Commits))
          /\ ReplaceTracked(head) \in Seq(Holding(Commits))
      BY <2>2, <2>3, CommonWrites, PutTyped
    <3> QED BY <3>1, Three
  <2>5. w \in Seq(Holding(Commits)) /\ x \in Seq(Holding(Commits))
    <3> HIDE DEF head, clean, stash
    <3>1. Restored(stash, PathsOf(head), clean) \in Tree
      BY <2>3, RestoredTyped
    <3> QED BY <3>1, <1>2, PutTyped
  <2> HIDE DEF w, x, y
  <2>6. w \o x \in Seq(Holding(Commits)) /\ <<>> \in Seq(Holding(Commits))
    BY <2>5, Joined, PutTyped
  <2>7. y \o <<>> \in Seq(Holding(Commits)) /\ y \o (w \o x) \in Seq(Holding(Commits))
    BY <2>4, <2>6, Joined
  <2> QED BY <2>1, <2>7, RunsSimple
<1>7. ASSUME StashClear PROVE TypeInv'
  BY PutTyped, <1>7, RunsSimple DEF StashClear
<1>8. ASSUME Untrack PROVE TypeInv'
  <2> DEFINE w == [p \in Paths |-> IF p \in Untracked THEN Gone ELSE files.worktree[p]]
  <2>1. w \in Tree
    BY Facts DEF Tree
  <2>2. Simple("clean", Put("worktree", w))
    BY <1>8 DEF Untrack
  <2> HIDE DEF w
  <2> QED BY <2>1, <2>2, PutTyped, RunsSimple
<1> QED BY <1>3, <1>4, <1>5, <1>6, <1>7, <1>8, PushTyped, Zenon DEF Stashing

\* One write of a command keeps the files as they are to be.
LEMMA WriteTyped ==
    ASSUME NEW C, NEW v \in FilesOver(C), NEW w \in Writes(C)
    PROVE  /\ [v EXCEPT ![w.at] = w.to] \in FilesOver(C)
           /\ [v EXCEPT ![w.at] = w.to].head = IF w.at = "head" THEN w.to ELSE v.head
           /\ [v EXCEPT ![w.at] = w.to].branch = IF w.at = "branch" THEN w.to ELSE v.branch
           /\ [v EXCEPT ![w.at] = w.to].worktree = IF w.at = "worktree" THEN w.to ELSE v.worktree
           /\ [v EXCEPT ![w.at] = w.to].mergeHead = IF w.at = "mergeHead" THEN w.to ELSE v.mergeHead
           /\ [v EXCEPT ![w.at] = w.to].rebase = IF w.at = "rebase" THEN w.to ELSE v.rebase
           /\ [v EXCEPT ![w.at] = w.to].stash = IF w.at = "stash" THEN w.to ELSE v.stash
BY DEF FilesOver, Writes, Holding

LEMMA HoldingKeeps ==
    ASSUME NEW w \in Holding(Nat), w.at = "rebase" PROVE w.to # None
BY NoneIsNoState DEF Holding

LEMMA StepTyped == ASSUME TypeInv, Step PROVE TypeInv'
<1> DEFINE w == Head(job.todo)
           rest == Tail(job.todo)
<1>1. /\ job.todo \in Seq(Writes(Commits)) /\ job.todo # <<>>
      /\ log' = log /\ work' = work /\ Commits' = Commits
      /\ files' = [files EXCEPT ![w.at] = w.to]
  BY DEF Step, TypeInv, Commits
<1>2. w \in Writes(Commits) /\ rest \in Seq(Writes(Commits)) /\ Len(rest) = Len(job.todo) - 1
      /\ Len(job.todo) \in Nat /\ w = job.todo[1]
      /\ \A i \in 1..Len(rest) : rest[i] = job.todo[i + 1]
  BY <1>1, HeadTailProperties, LenProperties
<1>3. files' \in FilesOver(Commits) /\ files'.rebase = (IF w.at = "rebase" THEN w.to ELSE files.rebase)
  <2>1. files \in FilesOver(Commits)
    BY DEF TypeInv
  <2>2. [files EXCEPT ![w.at] = w.to] \in FilesOver(Commits)
        /\ [files EXCEPT ![w.at] = w.to].rebase = IF w.at = "rebase" THEN w.to ELSE files.rebase
    <3>1. w \in Writes(Commits)
      BY <1>2
    <3> HIDE DEF w, rest
    <3> QED BY <2>1, <3>1, WriteTyped, Zenon
  <2> HIDE DEF w
  <2> QED BY <1>1, <2>2
<1>4. job' = Idle \/ (job' = [job EXCEPT !.todo = rest])
  BY DEF Step
<1>5. CASE job' = Idle
  BY <1>5, EmptySeq, <1>1, <1>3 DEF Idle, TypeInv, Writes, Holding
<1>6. CASE job' = [job EXCEPT !.todo = rest]
  <2>1. /\ job' \in [cmd : {job'.cmd}, todo : Seq(Writes(Commits)), then : {"end", "replay"}]
        /\ job'.todo = rest /\ job'.then = job.then
    BY <1>2, <1>6 DEF TypeInv
  <2>2. ASSUME job.then = "replay"
        PROVE  /\ rest \in Seq(Holding(Commits))
               /\ files'.rebase # None \/ \E i \in DOMAIN rest : rest[i].at = "rebase"
    <3>1. job.todo \in Seq(Holding(Commits))
      BY <2>2 DEF TypeInv
    <3>2. rest \in Seq(Holding(Commits)) /\ w \in Holding(Commits)
      BY <1>1, <3>1, HeadTailProperties
    <3>3. CASE w.at = "rebase"
      <4>1. w \in Holding(Nat)
        <5>1. Commits \subseteq Nat
          BY DEF Commits
        <5> QED BY <3>2, <5>1, MoreCommits
      <4>2. w.to # None
        BY <3>3, <4>1, HoldingKeeps
      <4> QED BY <1>3, <3>2, <3>3, <4>2
    <3>4. CASE w.at # "rebase" /\ files.rebase # None
      BY <1>3, <3>2, <3>4
    <3>5. CASE w.at # "rebase" /\ files.rebase = None
      <4>1. PICK i \in DOMAIN job.todo : job.todo[i].at = "rebase"
        BY <2>2, <3>5 DEF TypeInv
      <4>2. i \in 1..Len(job.todo) /\ i # 1
        BY <1>1, <1>2, <3>5, <4>1, LenProperties
      <4>3. i - 1 \in 1..Len(rest) /\ (i - 1) + 1 = i
        BY <1>2, <4>2
      <4>4. rest[i - 1].at = "rebase" /\ i - 1 \in DOMAIN rest
        BY <1>2, LenProperties, <4>3, <4>1
      <4> QED BY <3>2, <4>4
    <3> QED BY <3>3, <3>4, <3>5
  <2>3. Recorded(log') /\ work' \in Tree \cup {None}
    BY <1>1 DEF TypeInv
  <2>4. Writes(Commits)' = Writes(Commits) /\ Holding(Commits)' = Holding(Commits)
    BY <1>1 DEF Writes, Holding, Rebases, Picks, Bisects
  <2> HIDE DEF rest, w
  <2>5. job'.then = "replay" =>
          /\ job'.todo \in Seq(Holding(Commits))
          /\ files'.rebase # None \/ \E i \in DOMAIN job'.todo : job'.todo[i].at = "rebase"
    BY <2>1, <2>2
  <2>6. files' \in FilesOver(Commits)'
    BY <1>1, <1>3
  <2>7. job' \in [cmd : {job'.cmd}, todo : Seq(Writes(Commits))', then : {"end", "replay"}]
    BY <2>1, <2>4
  <2>8. TypeInv' = (/\ Recorded(log')
                    /\ files' \in FilesOver(Commits)'
                    /\ job' \in [cmd : {job'.cmd}, todo : Seq(Writes(Commits))', then : {"end", "replay"}]
                    /\ work' \in Tree \cup {None}
                    /\ job'.then = "replay" =>
                          /\ job'.todo \in Seq(Holding(Commits))'
                          /\ files'.rebase # None \/ \E i \in DOMAIN job'.todo : job'.todo[i].at = "rebase")
    BY DEF TypeInv
  <2> QED BY <2>3, <2>4, <2>5, <2>6, <2>7, <2>8
<1> QED BY <1>4, <1>5, <1>6

\* One round of a rebase: the commit it picks leaves the pending ones.
LEMMA ReplayTyped == ASSUME TypeInv, Replay PROVE TypeInv'
<1> DEFINE source == Head(files.rebase.pending)
           picking == [files.rebase EXCEPT !.pending = Rest(@), !.current = source]
           picked == Put("rebase", [picking EXCEPT !.current = None])
           start == Put("rebase", picking)
           r == ThreeWay(ParentTree(source), TreeAt(source))
<1>1. /\ job.then = "replay" /\ job.todo = <<>> /\ files.rebase.pending # <<>>
      /\ files' = files /\ work' = work
      /\ \/ /\ job' = [job EXCEPT !.todo = start \o Conflicted(r), !.then = "end"]
            /\ log' = log \o <<>>
         \/ /\ job' = [job EXCEPT !.todo = start \o (Applied(r) \o picked), !.then = "replay"]
            /\ log' = log \o <<>>
         \/ /\ job' = [job EXCEPT !.todo = start \o (Applied(r) \o Committed(r.index) \o picked),
                                  !.then = "replay"]
            /\ log' = log \o <<Record(r.index.staged, HeadAndMergeHead, log[source].msg)>>
  BY Zenon DEF Replay
<1>2. files.rebase # None
  <2>0. job.todo = <<>>
    BY Zenon DEF Replay
  <2>1. ~ \E i \in DOMAIN job.todo : job.todo[i].at = "rebase"
    BY <2>0
  <2> QED BY <1>1, <2>1 DEF TypeInv
<1>3. files.rebase \in Rebases(Commits) /\ files.rebase.pending \in Seq(Commits)
  BY <1>2, RebaseTyped
<1>4. source \in Commits /\ Tail(files.rebase.pending) \in Seq(Commits)
  BY <1>1, <1>3, HeadTailProperties
<1>5. picking \in Rebases(Commits) /\ [picking EXCEPT !.current = None] \in Rebases(Commits)
  <2> HIDE DEF source
  <2>1. picking \in Rebases(Commits)
    BY <1>3, <1>4 DEF Rebases, Rest
  <2> HIDE DEF picking
  <2> QED BY <2>1 DEF Rebases
<1>6. r \in Outcomes /\ log[source].msg \in Nat \cup {None}
  BY <1>4, TreesTyped, ThreeWayTyped
<1>7. /\ start \in Seq(Holding(Commits)) /\ picked \in Seq(Holding(Commits))
      /\ start \in Seq(Holding(More)) /\ picked \in Seq(Holding(More))
  <2> HIDE DEF picking
  <2>1. start \in Seq(Holding(Commits)) /\ picked \in Seq(Holding(Commits))
    BY <1>5, PutTyped
  <2>2. Holding(Commits) \subseteq Holding(More)
    BY MoreFacts, MoreCommits
  <2>3. Seq(Holding(Commits)) \subseteq Seq(Holding(More))
    BY <2>2, SeqMonotonic
  <2> HIDE DEF picked, start
  <2> QED BY <2>1, <2>3
<1> HIDE DEF r, start, picked
<1>8. /\ start \o Conflicted(r) \in Seq(Holding(Commits))
      /\ start \o (Applied(r) \o picked) \in Seq(Holding(Commits))
      /\ start \o (Applied(r) \o Committed(r.index) \o picked) \in Seq(Holding(More))
      /\ r.index.staged \in Tree
  BY <1>6, <1>7, PickWrites, Joined
<1>9. job = [cmd |-> job.cmd, todo |-> job.todo, then |-> job.then] /\ work \in Tree \cup {None}
  BY DEF TypeInv
<1>10. ASSUME job' = [job EXCEPT !.todo = start \o Conflicted(r), !.then = "end"], log' = log \o <<>>
       PROVE  TypeInv'
  <2> DEFINE todo == start \o Conflicted(r)
  <2>1. todo \in Seq(Writes(Commits))
    BY <1>8, HoldingWrites
  <2>2. job' = [cmd |-> job.cmd, todo |-> todo, then |-> "end"]
    BY <1>9, <1>10
  <2> HIDE DEF todo
  <2> QED BY <1>1, <1>9, <1>10, <2>1, <2>2, Starts, NothingAdded
<1>11. ASSUME job' = [job EXCEPT !.todo = start \o (Applied(r) \o picked), !.then = "replay"], log' = log \o <<>>
       PROVE  TypeInv'
  <2> DEFINE todo == start \o (Applied(r) \o picked)
  <2>1. todo \in Seq(Writes(Commits)) /\ todo \in Seq(Holding(Commits))
    BY <1>8, HoldingWrites
  <2>2. job' = [cmd |-> job.cmd, todo |-> todo, then |-> "replay"]
    BY <1>9, <1>11
  <2> HIDE DEF todo
  <2> QED BY <1>1, <1>2, <1>9, <1>11, <2>1, <2>2, Starts, NothingAdded
<1>12. ASSUME job' = [job EXCEPT !.todo = start \o (Applied(r) \o Committed(r.index) \o picked),
                                 !.then = "replay"],
              log' = log \o <<Record(r.index.staged, HeadAndMergeHead, log[source].msg)>>
       PROVE  TypeInv'
  <2> DEFINE todo == start \o (Applied(r) \o Committed(r.index) \o picked)
             e == Record(r.index.staged, HeadAndMergeHead, log[source].msg)
  <2>1. todo \in Seq(Writes(More)) /\ todo \in Seq(Holding(More))
    BY <1>8, HoldingWrites
  <2>2. job' = [cmd |-> job.cmd, todo |-> todo, then |-> "replay"]
    BY <1>9, <1>12
  <2>3. e \in Entry /\ e.parents \in Seq(Commits)
    BY <1>6, <1>8, ParentsTyped, RecordTyped
  <2>4. log' = log \o <<e>>
    BY <1>12
  <2> HIDE DEF todo, e
  <2> QED BY <1>1, <1>2, <1>9, <2>1, <2>2, <2>3, <2>4, StartsRecording
<1> QED BY <1>1, <1>10, <1>11, <1>12

LEMMA EndReplayTyped == ASSUME TypeInv, EndReplay PROVE TypeInv'
BY Facts, CommonWrites, Starts DEF EndReplay, TypeInv

LEMMA InterruptedTyped == ASSUME TypeInv, Interrupted PROVE TypeInv'
BY EmptySeq, Starts DEF Interrupted, Idle, TypeInv

LEMMA InitTyped == ASSUME Init PROVE TypeInv
BY ScenariosAreTyped, EmptySeq DEF Init, Commits, Idle, TypeInv

LEMMA NextTyped == ASSUME TypeInv, [Next]_vars PROVE TypeInv'
<1>1. CASE UNCHANGED vars
  BY <1>1 DEF vars, TypeInv, Commits, Writes, Holding, Rebases, Picks, Bisects, FilesOver
<1>2. CASE Next
  BY <1>2, StepTyped, ReplayTyped, EndReplayTyped, InterruptedTyped, EditingTyped, CommittingTyped, MergingTyped,
     PickingTyped, RebasingTyped, BisectingTyped, MovingTyped, StashingTyped DEF Next, Work
<1> QED BY <1>1, <1>2

\* Every file the commands write holds what its readers expect, whatever commands are given
\* and wherever one of them is cut short, and a commit only names older ones.
THEOREM TypeCorrect == Spec => []TypeOK
<1>1. Init => TypeInv
  BY InitTyped
<1>2. TypeInv /\ [Next]_vars => TypeInv'
  BY NextTyped
<1>3. TypeInv => TypeOK
  BY DEF TypeInv, TypeOK
<1> QED BY <1>1, <1>2, <1>3, PTL DEF Spec

-----------------------------------------------------------------------------
(***************************************************************************)
(* What a push onto the stash keeps.                                       *)
(***************************************************************************)
\* No other command is about what a push keeps.
LEMMA OthersForget ==
    ASSUME Editing \/ Committing \/ Merging \/ Picking \/ Rebasing \/ Bisecting \/ Moving
    PROVE  work' = None
<1>1. CASE Editing
  BY <1>1 DEF Editing, Edit, Add, Rm, Mv, RunEdit
<1>2. CASE Committing
  BY <1>2 DEF Committing, Commit, Amend, CommitOnly
<1>3. CASE Merging
  BY <1>3 DEF Merging, Merge, MergeAbort
<1>4. CASE Picking
  BY <1>4 DEF Picking, CherryPick, CherryContinue, CherryAbort, Revert
<1>5. CASE Rebasing
  BY <1>5 DEF Rebasing, Rebase, RebaseContinue, RebaseSkip, RebaseAbort
<1>6. CASE Bisecting
  BY <1>6 DEF Bisecting, BisectStart, BisectMark, BisectReset
<1>7. CASE Moving
  BY <1>7 DEF Moving, Reset, ResetPath, CheckoutPath, Checkout, CheckoutOrphan, CreateBranch,
              RenameBranch, DeleteBranch, Simple
<1> QED BY <1>1, <1>2, <1>3, <1>4, <1>5, <1>6, <1>7

LEMMA StashingForgets ==
    ASSUME Stashing PROVE work' = None \/ \E how \in {"all", "keep_index", "staged"} : StashPush(how)
<1>1. \/ \E how \in {"all", "keep_index", "staged"} : StashPush(how)
      \/ StashPop \/ StashClear \/ Untrack
      \/ \E i \in DOMAIN Stashes, restoreIndex \in BOOLEAN : StashApply(i, restoreIndex)
      \/ \E i \in DOMAIN Stashes : StashDrop(i) \/ \E b \in Branches : StashBranch(b, i)
  BY DEF Stashing
<1> QED BY <1>1 DEF StashPop, StashClear, Untrack, StashApply, StashDrop, StashBranch, Simple

\* The first of two parts of a command's writes is done first.
LEMMA HeadOfPut ==
    ASSUME NEW f, NEW v, NEW W, NEW s \in Seq(W), [at |-> f, to |-> v] \in W
    PROVE  /\ Put(f, v) \o s # <<>> /\ Put(f, v) \o s \in Seq(W)
           /\ Head(Put(f, v) \o s) = [at |-> f, to |-> v]
           /\ Tail(Put(f, v) \o s) = s
           /\ Len(Put(f, v) \o s) = Len(s) + 1
<1> DEFINE w == [at |-> f, to |-> v]
           p == Put(f, v)
           t == p \o s
<1>1. p = <<w>>
  BY DEF Put
<1> HIDE DEF w, p
<1>2. p \in Seq(W) /\ Len(p) = 1 /\ p[1] = w
  BY <1>1, OneWrite DEF w
<1>3. /\ t \in Seq(W) /\ Len(t) = Len(s) + 1 /\ Len(s) \in Nat
      /\ \A i \in 1..Len(t) : t[i] = IF i <= 1 THEN p[i] ELSE s[i - 1]
  <2>1. Len(s) \in Nat
    BY LenProperties
  <2>2. /\ t \in Seq(W) /\ Len(t) = Len(p) + Len(s)
        /\ \A i \in 1..(Len(p) + Len(s)) : t[i] = IF i <= Len(p) THEN p[i] ELSE s[i - Len(p)]
    BY <1>2, ConcatProperties
  <2> HIDE DEF t
  <2> QED BY <1>2, <2>1, <2>2
<1> HIDE DEF t
<1>4. t # <<>> /\ t[1] = w
  BY <1>2, <1>3
<1>5. /\ Tail(t) \in Seq(W) /\ Len(Tail(t)) = Len(s) /\ Head(t) = t[1]
      /\ \A i \in 1..Len(s) : Tail(t)[i] = t[i + 1]
  BY <1>3, <1>4, HeadTailProperties
<1>6. \A i \in 1..Len(s) : Tail(t)[i] = s[i]
  BY <1>3, <1>5
<1>7. Tail(t) = s
  BY <1>5, <1>6, SeqEqual
<1> QED BY <1>3, <1>4, <1>5, <1>7 DEF t, p, w

LEMMA PushKeeps ==
    ASSUME TypeInv, NEW how \in {"all", "keep_index", "staged"}, StashPush(how) PROVE StashInv'
<1>1. PICK s : /\ Cleans(s)
               /\ Run("stash_push", Put("stash", NewCommit + 1) \o s, "end", <<StashIndex, StashTop>>)
               /\ work' = files.worktree
  BY StashPushes
<1> DEFINE todo == Put("stash", NewCommit + 1) \o s
           C == 1..(Len(log) + 2)
<1>2. /\ job' = [cmd |-> "stash_push", todo |-> todo, then |-> "end"]
      /\ log' = log \o <<StashIndex, StashTop>> /\ files' = files
  BY <1>1 DEF Run
<1>3. todo \in Seq(Writes(C)) /\ NewCommit + 1 \in C
  <2>1. NewCommit + 1 \in C
    BY Facts DEF NewCommit
  <2> HIDE DEF C
  <2>2. Put("stash", NewCommit + 1) \in Seq(Holding(C)) /\ s \in Seq(Holding(C))
    BY <1>1, <2>1, PutTyped, CleansTyped
  <2> QED BY <2>1, <2>2, Joined, HoldingWrites
<1>4. work' \in Tree \cup {None}
  BY <1>1, Facts
<1>5. Commits' = C /\ log'[NewCommit + 1] = StashTop
  <2> HIDE DEF todo
  <2> QED BY <1>2, <1>3, <1>4, StashRecords, StartsRecordingTwo
<1>6. PICK c \in C : c = NewCommit + 1
  BY <1>3
<1>7. TreeAt(c)' = work'
  BY <1>6, Facts, NamesAreNoCommits, <1>5, StashRecords, <1>1 DEF NewCommit, TreeAt
<1>8. files'.worktree = work' /\ job'.then = "end" /\ job'.todo = Put("stash", c) \o s
  BY <1>1, <1>2, <1>6
<1>9. c \in Commits'
  BY <1>5
<1> HIDE DEF C, todo
<1>10. \E d \in Commits' : \E u : job'.todo = Put("stash", d) \o u /\ Cleans(u) /\ TreeAt(d)' = work'
  BY <1>1, <1>7, <1>8, <1>9
<1> QED BY <1>8, <1>10 DEF StashInv, Cleans, Indexes, Put

LEMMA StepKeeps == ASSUME TypeInv, StashInv, Step PROVE StashInv'
<1>1. /\ job.todo # <<>> /\ log' = log /\ work' = work /\ Commits' = Commits
      /\ files' = [files EXCEPT ![Head(job.todo).at] = Head(job.todo).to]
      /\ job' = Idle \/ job' = [job EXCEPT !.todo = Tail(job.todo)]
      /\ files \in FilesOver(Commits)
      /\ job = [cmd |-> job.cmd, todo |-> job.todo, then |-> job.then]
  BY DEF Step, TypeInv, Commits
<1>2. SUFFICES ASSUME work # None PROVE StashInv'
  BY <1>1 DEF StashInv
<1>3. \A c \in Commits : TreeAt(c)' = TreeAt(c)
  BY <1>1 DEF TreeAt
<1>4. job'.then = "end"
  BY <1>1, <1>2 DEF StashInv, Idle
<1>5. \A s : Cleans(s) => Cleans(s)'
  BY DEF Cleans, Indexes
<1>6. Cleans(<<>>)
  BY EmptySeq DEF Cleans
<1>7. job'.todo = <<>> \/ job'.todo = Tail(job.todo)
  BY <1>1 DEF Idle
<1>8. CASE /\ files.worktree = work
           /\ \E c \in Commits : \E s : /\ job.todo = Put("stash", c) \o s
                                        /\ Cleans(s) /\ TreeAt(c) = work
  <2>0. PICK c \in Commits : \E s : job.todo = Put("stash", c) \o s /\ Cleans(s) /\ TreeAt(c) = work
    BY <1>8
  <2>1. PICK s : job.todo = Put("stash", c) \o s /\ Cleans(s) /\ TreeAt(c) = work
    BY <2>0
  <2>2. s \in Seq(Holding(Commits)) /\ [at |-> "stash", to |-> c] \in Holding(Commits)
    BY <2>1, CleansTyped DEF Holding
  <2>3. Head(job.todo) = [at |-> "stash", to |-> c] /\ Tail(job.todo) = s
    BY <2>1, <2>2, HeadOfPut
  <2>4. files'.stash = c
    BY <1>1, <2>3 DEF FilesOver
  <2>5. c # None
    BY Facts
  <2>6. Cleans(job'.todo)
    BY <1>6, <1>7, <2>1, <2>3
  <2>7. TreeAt(files.stash)' = work
    BY <1>3, <2>1, <2>4, <2>5 DEF TreeAt
  <2> QED BY <1>1, <1>4, <1>5, <2>4, <2>5, <2>6, <2>7 DEF StashInv
<1>9. CASE /\ files.stash # None /\ TreeAt(files.stash) = work
           /\ Cleans(job.todo)
  <2> DEFINE W == [at : {"worktree"}, to : Tree] \cup [at : {"index"}, to : Indexes]
  <2>1. Head(job.todo) \in W /\ Tail(job.todo) \in Seq(W)
    <3>1. job.todo \in Seq(W)
      BY <1>9 DEF Cleans
    <3> HIDE DEF W
    <3> QED BY <1>1, <3>1, HeadTailProperties
  <2>2. Head(job.todo).at \in {"worktree", "index"}
    BY <2>1
  <2>3. files'.stash = files.stash
    BY <1>1, <2>2 DEF FilesOver
  <2>4. Cleans(job'.todo)
    BY <2>1, <1>6, <1>7 DEF Cleans
  <2>5. TreeAt(files.stash)' = work
    BY <1>9, Facts, <1>1, <2>3 DEF TreeAt
  <2> QED BY <1>1, <1>4, <1>5, <1>9, <2>3, <2>4, <2>5 DEF StashInv
<1> QED BY <1>1, <1>2, <1>8, <1>9 DEF StashInv

\* What a push is to keep is in the worktree or on top of the stash at every moment, cut
\* short between any two of its writes or not.  (Repository.stash_push)
THEOREM StashKeepsIt == Spec => []StashKeepsTheWork
<1> DEFINE Inv == TypeInv /\ StashInv
<1>1. Init => Inv
  BY InitTyped DEF Init, StashInv
<1>2. Inv /\ [Next]_vars => Inv'
  <2> SUFFICES ASSUME TypeInv, StashInv, [Next]_vars PROVE StashInv'
    BY NextTyped
  <2>1. work' = None => StashInv'
    BY DEF StashInv
  <2>2. CASE UNCHANGED vars
    BY <2>2 DEF vars, StashInv, Commits, TreeAt, Cleans, Indexes
  <2>3. CASE Step
    BY <2>3, StepKeeps
  <2>4. CASE Replay \/ EndReplay
    BY <2>4, <2>1 DEF Replay, EndReplay, StashInv
  <2>5. CASE Interrupted
    BY <2>5, EmptySeq DEF Interrupted, Idle, Cleans, TreeAt, StashInv
  <2>6. CASE Editing \/ Committing \/ Merging \/ Picking \/ Rebasing \/ Bisecting \/ Moving
    BY <2>1, <2>6, OthersForget
  <2>7. CASE Stashing
    BY <2>1, <2>7, StashingForgets, PushKeeps
  <2> QED BY <2>2, <2>3, <2>4, <2>5, <2>6, <2>7 DEF Next, Work
<1>3. Inv => StashKeepsTheWork
  BY DEF StashInv, StashKeepsTheWork
<1> QED BY <1>1, <1>2, <1>3, PTL DEF Spec

-----------------------------------------------------------------------------
(***************************************************************************)
(* Writes that keep the work: none, one, and one after another.            *)
(***************************************************************************)
LEMMA SafeEmpty == ASSUME NEW h, NEW v PROVE Safe(h, v, <<>>)
BY DEF Keeping, Safe

LEMMA SafeGoesOn ==
    ASSUME NEW h, NEW v, NEW s, Safe(h, v, s), s # <<>>
    PROVE  Keeps(h, v, Written(v, Head(s))) /\ Safe(h, Written(v, Head(s)), Tail(s))
BY DEF Safe, Keeping

LEMMA SafeFirst ==
    ASSUME NEW h, NEW v, NEW s, s # <<>>,
           Keeps(h, v, Written(v, Head(s))), Safe(h, Written(v, Head(s)), Tail(s))
    PROVE  Safe(h, v, s)
<1>1. PICK X : Keeping(h, X) /\ <<Written(v, Head(s)), Tail(s)>> \in X
  BY DEF Safe
<1> DEFINE Y == X \cup {<<v, s>>}
<1>2. ASSUME NEW a, NEW t, <<a, t>> \in Y, t # <<>>
      PROVE  Keeps(h, a, Written(a, Head(t))) /\ <<Written(a, Head(t)), Tail(t)>> \in Y
  BY <1>1, <1>2 DEF Keeping
<1>3. Keeping(h, Y)
  <2> HIDE DEF Y
  <2> QED BY <1>2 DEF Keeping
<1>4. <<v, s>> \in Y
  OBVIOUS
<1> QED BY <1>3, <1>4 DEF Safe

LEMMA SafePut ==
    ASSUME NEW C, NEW h, NEW v, NEW f, NEW x, [at |-> f, to |-> x] \in Writes(C), NEW s \in Seq(Writes(C)),
           Keeps(h, v, [v EXCEPT ![f] = x]), Safe(h, [v EXCEPT ![f] = x], s)
    PROVE  Safe(h, v, Put(f, x) \o s)
<1> DEFINE t == Put(f, x) \o s
<1>1. t # <<>> /\ Head(t) = [at |-> f, to |-> x] /\ Tail(t) = s
  BY HeadOfPut
<1> HIDE DEF t
<1>2. Written(v, Head(t)) = [v EXCEPT ![f] = x]
  <2>1. Head(t).at = f /\ Head(t).to = x
    BY <1>1
  <2> QED BY <2>1, Zenon DEF Written
<1>3. Safe(h, v, t)
  BY <1>1, <1>2, SafeFirst
<1> QED BY <1>3 DEF t

-----------------------------------------------------------------------------
(***************************************************************************)
(* Files that are alike in what holds commits.                             *)
(***************************************************************************)
LEMMA AlikeRoots == ASSUME NEW u, NEW v, Alike(u, v) PROVE Roots(u) = Roots(v)
BY DEF Alike, Roots, Tip

LEMMA MoreRebases == ASSUME NEW C, C \subseteq Nat PROVE Rebases(C) \subseteq Rebases(Nat)
BY SeqMonotonic DEF Rebases

LEMMA GentleWrite ==
    ASSUME NEW C, C \subseteq Nat, NEW v \in FilesOver(C), NEW w \in Gentle(Original(v), C)
    PROVE  Written(v, w) \in FilesOver(C) /\ Alike(Written(v, w), v)
<1>1. w \in Writes(C)
  BY DEF Gentle, Writes, Holding
<1>2. Written(v, w) \in FilesOver(C)
  BY <1>1, WriteTyped DEF Written
<1>3. CASE w.at # "rebase"
  BY <1>3, <1>2 DEF Gentle, Written, Alike, Original, FilesOver
<1>4. CASE w.at = "rebase"
  <2>1. w.to \in Rebases(C) /\ w.to.original = Original(v)
    BY <1>4 DEF Gentle
  <2>2. w.to \in Rebases(Nat)
    BY <2>1, MoreCommits, SeqMonotonic DEF Rebases
  <2>3. w.to # None
    BY <2>2, NoneIsNoState
  <2>4. Original(v) # None
    BY <2>1, NamesAreNoCommits DEF Rebases
  <2>5. v.rebase # None
    BY <2>4 DEF Original
  <2> QED BY <1>2, <1>4, <2>1, <2>3, <2>5 DEF Written, Alike, Original, FilesOver
<1> QED BY <1>2, <1>3, <1>4

LEMMA HeadTailOfConcat ==
    ASSUME NEW W, NEW r \in Seq(W), r # <<>>, NEW s \in Seq(W)
    PROVE  r \o s # <<>> /\ Head(r \o s) = Head(r) /\ Tail(r \o s) = Tail(r) \o s
<1> DEFINE q == r \o s
           p == Tail(r) \o s
<1>1. Len(r) \in Nat /\ Len(s) \in Nat /\ Len(r) # 0
  BY LenProperties, EmptySeq
<1>2. /\ q \in Seq(W) /\ Len(q) = Len(r) + Len(s)
      /\ \A i \in 1..(Len(r) + Len(s)) : q[i] = IF i <= Len(r) THEN r[i] ELSE s[i - Len(r)]
  BY ConcatProperties
<1>3. /\ Tail(r) \in Seq(W) /\ Len(Tail(r)) = Len(r) - 1 /\ Head(r) = r[1]
      /\ \A i \in 1..(Len(r) - 1) : Tail(r)[i] = r[i + 1]
  BY HeadTailProperties
<1>4. /\ p \in Seq(W) /\ Len(p) = Len(r) - 1 + Len(s)
      /\ \A i \in 1..(Len(r) - 1 + Len(s)) :
            p[i] = IF i <= Len(r) - 1 THEN Tail(r)[i] ELSE s[i - (Len(r) - 1)]
  BY <1>3, ConcatProperties
<1> HIDE DEF q, p
<1>5. q # <<>> /\ Head(q) = q[1] /\ q[1] = r[1]
  BY <1>1, <1>2
<1>6. /\ Tail(q) \in Seq(W) /\ Len(Tail(q)) = Len(q) - 1
      /\ \A i \in 1..(Len(q) - 1) : Tail(q)[i] = q[i + 1]
  BY <1>2, <1>5, HeadTailProperties
<1>7. \A i \in 1..Len(p) : p[i] = Tail(q)[i]
  BY <1>1, <1>2, <1>3, <1>4, <1>6
<1>8. Tail(q) = p
  BY <1>1, <1>2, <1>4, <1>6, <1>7, SeqEqual
<1> QED BY <1>3, <1>5, <1>8 DEF q, p

\* Gentle writes are safe, and so is what follows them if it is from any files alike.
LEMMA SafeGentle ==
    ASSUME NEW C, C \subseteq Nat, NEW h, NEW v \in FilesOver(C),
           NEW t \in Seq(Gentle(Original(v), C)), NEW s \in Seq(Writes(C)),
           \A u \in FilesOver(C) : Alike(u, v) => Safe(h, u, s)
    PROVE  Safe(h, v, t \o s)
<1> DEFINE G == Gentle(Original(v), C)
           A == {u \in FilesOver(C) : Alike(u, v)}
           N == Len(t)
           T == {n \in 0..N : \A u \in A, r \in Seq(G) : Len(r) = n => Safe(h, u, r \o s)}
<1>1. N \in Nat
  BY LenProperties
<1>2. 0 \in T
  <2>1. ASSUME NEW u \in A, NEW r \in Seq(G), Len(r) = 0 PROVE Safe(h, u, r \o s)
    BY <2>1, EmptySeq, ConcatEmptySeq
  <2> QED BY <1>1, <2>1
<1>3. ASSUME NEW n \in 0..(N - 1), n \in T PROVE n + 1 \in T
  <2>1. ASSUME NEW u \in A, NEW r \in Seq(G), Len(r) = n + 1 PROVE Safe(h, u, r \o s)
    <3> DEFINE w == Head(r)
               q == r \o s
    <3>1. r # <<>> /\ w \in G /\ Tail(r) \in Seq(G) /\ Len(Tail(r)) = n
      <4> HIDE DEF G
      <4>1. r # <<>> /\ Len(r) - 1 = n
        BY <2>1, <1>1, EmptySeq
      <4> QED BY <4>1, HeadTailProperties
    <3>2. w \in Gentle(Original(u), C)
      BY <3>1 DEF Alike
    <3>3. Written(u, w) \in FilesOver(C) /\ Alike(Written(u, w), u)
      <4> HIDE DEF w
      <4> QED BY <3>2, GentleWrite
    <3>4. Written(u, w) \in A
      BY <3>3 DEF Alike
    <3>5. Safe(h, Written(u, w), Tail(r) \o s)
      <4> HIDE DEF G, A, w
      <4> QED BY <1>3, <3>1, <3>4
    <3>6. q # <<>> /\ Head(q) = w /\ Tail(q) = Tail(r) \o s
      <4>1. G \subseteq Writes(C)
        BY DEF Gentle, Writes, Holding
      <4>2. r \in Seq(Writes(C))
        <5> HIDE DEF G
        <5> QED BY <4>1, SeqMonotonic
      <4> HIDE DEF G
      <4> QED BY <3>1, <4>2, HeadTailOfConcat DEF w
    <3>7. Keeps(h, u, Written(u, w))
      BY <3>3, AlikeRoots DEF Keeps
    <3> HIDE DEF q, w
    <3>8. Safe(h, u, q)
      BY <3>5, <3>6, <3>7, SafeFirst
    <3> QED BY <3>8 DEF q
  <2>2. n + 1 \in 0..N
    BY <1>1
  <2> HIDE DEF G, A
  <2> QED BY <2>1, <2>2
<1>4. \A n \in 0..N : n \in T
  <2> HIDE DEF T, N
  <2> QED BY <1>1, <1>2, <1>3, UpTo
<1>5. N \in T /\ v \in A
  BY <1>1, <1>4 DEF Alike
<1> QED BY <1>5

LEMMA SafeGentleAlone ==
    ASSUME NEW C, C \subseteq Nat, NEW h, NEW v \in FilesOver(C), NEW t \in Seq(Gentle(Original(v), C))
    PROVE  Safe(h, v, t)
<1>1. <<>> \in Seq(Writes(C))
  BY EmptySeq
<1>2. Safe(h, v, t \o <<>>)
  BY <1>1, SafeEmpty, SafeGentle
<1> QED BY <1>2, ConcatEmptySeq

-----------------------------------------------------------------------------
(***************************************************************************)
(* Histories within histories.                                             *)
(***************************************************************************)
LEMMA HistoryWithin ==
    ASSUME NEW h, Dated(h), NEW S \in SUBSET (1..Len(h)), NEW R \in SUBSET (1..Len(h)), S \subseteq History(h, R)
    PROVE  History(h, S) \subseteq History(h, R)
BY HistoryCloses, HistoryIsLeast

LEMMA RootsTyped ==
    ASSUME NEW C, NEW v \in FilesOver(C) PROVE Roots(v) \subseteq C
BY DEF FilesOver, Original, Rebases, Tip, Roots

LEMMA KeepsWhen ==
    ASSUME NEW h, Dated(h), NEW v \in FilesOver(1..Len(h)), NEW u \in FilesOver(1..Len(h)),
           \A x \in Roots(v) : x \in Roots(u) \/ \E y \in Roots(u) : x \in History(h, {y})
    PROVE  Keeps(h, v, u)
<1>1. Roots(v) \in SUBSET (1..Len(h)) /\ Roots(u) \in SUBSET (1..Len(h))
  BY RootsTyped
<1>2. Roots(u) \subseteq History(h, Roots(u))
  BY <1>1, HistoryCloses
<1>3. ASSUME NEW y \in Roots(u) PROVE History(h, {y}) \subseteq History(h, Roots(u))
  BY <1>1, <1>2, HistoryWithin
<1>4. Roots(v) \subseteq History(h, Roots(u))
  BY <1>2, <1>3
<1> QED BY <1>1, <1>4, HistoryWithin DEF Keeps

LEMMA MovedTyped ==
    ASSUME NEW C, C \subseteq Nat, NEW v \in FilesOver(C), NEW c \in C
    PROVE  /\ Moved(v, c) \in FilesOver(C) /\ Tip(Moved(v, c)) = c
           /\ Moved(v, c).stash = v.stash /\ Moved(v, c).mergeHead = v.mergeHead
           /\ Moved(v, c).rebase = v.rebase
           /\ \A b \in Branches : Moved(v, c).branch[b] = v.branch[b]
                                  \/ (v.head = b /\ Moved(v, c).branch[b] = c)
<1>1. v.branch \in [Branches -> C \cup {None}] /\ v.head \in Branches \cup C
  BY DEF FilesOver
<1>2. CASE v.head \in Branches
  <2> DEFINE b == [v.branch EXCEPT ![v.head] = c]
             m == [v EXCEPT !["branch"] = b]
  <2>1. b \in [Branches -> C \cup {None}] /\ b[v.head] = c
        /\ \A x \in Branches : x # v.head => b[x] = v.branch[x]
    BY <1>1, <1>2
  <2> HIDE DEF b
  <2>2. /\ m \in FilesOver(C) /\ m.head = v.head /\ m.branch = b /\ m.stash = v.stash
        /\ m.mergeHead = v.mergeHead /\ m.rebase = v.rebase
    BY <2>1 DEF FilesOver
  <2>3. Moved(v, c) = m
    BY <1>2 DEF Moved, b
  <2> HIDE DEF m
  <2> QED BY <1>2, <2>1, <2>2, <2>3 DEF Tip
<1>3. CASE v.head \notin Branches
  <2> DEFINE m == [v EXCEPT !["head"] = c]
  <2>1. /\ m \in FilesOver(C) /\ m.head = c /\ m.branch = v.branch /\ m.stash = v.stash
        /\ m.mergeHead = v.mergeHead /\ m.rebase = v.rebase
    BY DEF FilesOver
  <2>2. Moved(v, c) = m
    BY <1>3 DEF Moved
  <2>3. c \notin Branches
    BY NamesAreNoCommits
  <2> HIDE DEF m
  <2> QED BY <2>1, <2>2, <2>3 DEF Tip
<1> QED BY <1>2, <1>3

\* A branch that moves to a commit above it loses none.
LEMMA SafeMove ==
    ASSUME NEW h, Dated(h), NEW v \in FilesOver(1..Len(h)), NEW c \in 1..Len(h),
           Tip(v) = None \/ Tip(v) \in History(h, {c}) \/ Tip(v) = Original(v),
           NEW s \in Seq(Writes(1..Len(h))), Safe(h, Moved(v, c), s)
    PROVE  Safe(h, v, MoveOf(v, c) \o s)
<1> DEFINE C == 1..Len(h)
           m == Moved(v, c)
<1>0. C \subseteq Nat /\ c \in C /\ v \in FilesOver(C)
  OBVIOUS
<1>1. /\ m \in FilesOver(C) /\ Tip(m) = c /\ m.stash = v.stash /\ m.mergeHead = v.mergeHead
      /\ m.rebase = v.rebase
      /\ \A b \in Branches : m.branch[b] = v.branch[b] \/ (v.head = b /\ m.branch[b] = c)
  BY MovedTyped
<1>2. c # None
  BY NamesAreNoCommits
<1>3. Keeps(h, v, m)
  <2>1. c \in Roots(m) /\ Original(m) = Original(v)
    BY <1>1, <1>2 DEF Roots, Original
  <2>2. ASSUME NEW x \in Roots(v) PROVE x \in Roots(m) \/ x \in History(h, {c})
    BY <2>1, <1>1 DEF Roots, Tip
  <2> HIDE DEF m
  <2> QED BY <1>1, <2>1, <2>2, KeepsWhen
<1>4. CASE v.head \in Branches
  <2> DEFINE b == [v.branch EXCEPT ![v.head] = c]
  <2>1. b \in [Branches -> C \cup {None}]
    BY DEF FilesOver
  <2>2. [at |-> "branch", to |-> b] \in Writes(C)
    <3> HIDE DEF b
    <3> QED BY <2>1 DEF Writes, Holding
  <2>3. m = [v EXCEPT !["branch"] = b] /\ MoveOf(v, c) = Put("branch", b)
    BY <1>4 DEF Moved, MoveOf
  <2>4. Keeps(h, v, [v EXCEPT !["branch"] = b]) /\ Safe(h, [v EXCEPT !["branch"] = b], s)
    BY <1>3, <2>3
  <2> HIDE DEF b, m, C
  <2>5. Safe(h, v, Put("branch", b) \o s)
    BY <2>2, <2>4, SafePut DEF C
  <2> QED BY <2>3, <2>5
<1>5. CASE v.head \notin Branches
  <2>1. [at |-> "head", to |-> c] \in Writes(C)
    BY DEF Writes, Holding
  <2>2. m = [v EXCEPT !["head"] = c] /\ MoveOf(v, c) = Put("head", c)
    BY <1>5 DEF Moved, MoveOf
  <2>3. Keeps(h, v, [v EXCEPT !["head"] = c]) /\ Safe(h, [v EXCEPT !["head"] = c], s)
    BY <1>3, <2>2
  <2> HIDE DEF m, C
  <2>4. Safe(h, v, Put("head", c) \o s)
    BY <2>1, <2>3, SafePut DEF C
  <2> QED BY <2>2, <2>4
<1> QED BY <1>4, <1>5

\* commit() moves the branch to a commit above it and above the one being merged, and
\* concludes the merge.
LEMMA SafeConclude ==
    ASSUME NEW h, Dated(h), NEW v \in FilesOver(1..Len(h)), NEW c \in 1..Len(h),
           Tip(v) = None \/ Tip(v) \in History(h, {c}),
           v.mergeHead = None \/ v.mergeHead \in History(h, {c}),
           NEW a \in {<<>>, Put("mergeHead", None)},
           NEW t \in Seq(Gentle(Original(v), 1..Len(h)))
    PROVE  Safe(h, v, MoveOf(v, c) \o (a \o t)) /\ a \o t \in Seq(Writes(1..Len(h)))
<1> DEFINE C == 1..Len(h)
           m == Moved(v, c)
           n == [m EXCEPT !["mergeHead"] = None]
<1>0. C \subseteq Nat /\ c \in C /\ v \in FilesOver(C) /\ c # None
  BY NamesAreNoCommits
<1>1. /\ m \in FilesOver(C) /\ Tip(m) = c /\ m.stash = v.stash /\ m.mergeHead = v.mergeHead
      /\ m.rebase = v.rebase
  BY MovedTyped
<1> HIDE DEF m
<1>2. /\ n \in FilesOver(C) /\ n.head = m.head /\ n.branch = m.branch /\ n.stash = m.stash
      /\ n.mergeHead = None /\ n.rebase = m.rebase
  <2>1. m \in FilesOver(C)
    BY <1>1
  <2>2. n.mergeHead = None /\ n.head = m.head /\ n.branch = m.branch /\ n.stash = m.stash /\ n.rebase = m.rebase
    BY <2>1 DEF FilesOver
  <2>3. n \in FilesOver(C)
    BY <2>1 DEF FilesOver
  <2> QED BY <2>2, <2>3
<1>3. Original(m) = Original(v) /\ Original(n) = Original(v)
  BY <1>1, <1>2 DEF Original
<1>4. t \in Seq(Writes(C)) /\ [at |-> "mergeHead", to |-> None] \in Writes(C)
  BY SeqMonotonic DEF Gentle, Writes, Holding
<1>5. Safe(h, m, t) /\ Safe(h, n, t)
  <2> HIDE DEF C, n
  <2> QED BY <1>0, <1>1, <1>2, <1>3, SafeGentleAlone DEF C
<1>6. Keeps(h, m, n)
  <2>1. Tip(n) = c
    BY <1>1, <1>2 DEF Tip
  <2>2. c \in Roots(n)
    BY <1>0, <2>1 DEF Roots
  <2>3. ASSUME NEW x \in Roots(m) PROVE x \in Roots(n) \/ x \in History(h, {c})
    BY <1>1, <1>2, <1>3 DEF Roots, Tip
  <2> HIDE DEF n
  <2> QED BY <1>1, <1>2, <2>2, <2>3, KeepsWhen
<1>7. Safe(h, m, a \o t) /\ a \o t \in Seq(Writes(C))
  <2>1. CASE a = <<>>
    BY <1>4, <1>5, <2>1, ConcatEmptySeq
  <2>2. CASE a = Put("mergeHead", None)
    <3> HIDE DEF n, C
    <3>1. Safe(h, m, Put("mergeHead", None) \o t)
      BY <1>4, <1>5, <1>6, SafePut DEF n
    <3>2. Put("mergeHead", None) \o t \in Seq(Writes(C))
      BY <1>4, HeadOfPut
    <3> QED BY <2>2, <3>1, <3>2
  <2> QED BY <2>1, <2>2
<1>8. Safe(h, v, MoveOf(v, c) \o (a \o t))
  <2> DEFINE s == a \o t
  <2>1. s \in Seq(Writes(1..Len(h))) /\ Safe(h, Moved(v, c), s)
    BY <1>7 DEF m
  <2> HIDE DEF s
  <2>2. Safe(h, v, MoveOf(v, c) \o s)
    BY <2>1, SafeMove
  <2> QED BY <2>2 DEF s
<1> QED BY <1>7, <1>8

-----------------------------------------------------------------------------
(***************************************************************************)
(* The writes of the commands are gentle.                                  *)
(***************************************************************************)
\* The writes commands share, as far as they are gentle.
LEMMA PutGentle ==
    ASSUME NEW C, NEW o
    PROVE  /\ \A v \in Indexes : Put("index", v) \in Seq(Gentle(o, C))
           /\ \A v \in Tree : Put("worktree", v) \in Seq(Gentle(o, C))
           /\ \A v \in C \cup {None} : Put("mergeOrig", v) \in Seq(Gentle(o, C))
           /\ \A v \in SUBSET Paths : Put("conflicts", v) \in Seq(Gentle(o, C))
           /\ \A v \in Picks(C) \cup {None} : Put("cherry", v) \in Seq(Gentle(o, C))
           /\ \A v \in Rebases(C) : v.original = o => Put("rebase", v) \in Seq(Gentle(o, C))
           /\ <<>> \in Seq(Gentle(o, C))
<1> DEFINE W(f, v) == [at |-> f, to |-> v]
           G == Gentle(o, C)
<1>1. /\ \A v \in Indexes : W("index", v) \in G
      /\ \A v \in Tree : W("worktree", v) \in G
      /\ \A v \in C \cup {None} : W("mergeOrig", v) \in G
  BY DEF Gentle
<1>2. /\ \A v \in SUBSET Paths : W("conflicts", v) \in G
      /\ \A v \in Picks(C) \cup {None} : W("cherry", v) \in G
      /\ \A v \in Rebases(C) : v.original = o => W("rebase", v) \in G
  BY DEF Gentle
<1>3. \A f, v : Put(f, v) = <<W(f, v)>>
  BY DEF Put
<1> HIDE DEF W, G
<1>4. \A w \in G : <<w>> \in Seq(G)
  BY OneWrite
<1>5. /\ \A v \in Indexes : Put("index", v) \in Seq(G)
      /\ \A v \in Tree : Put("worktree", v) \in Seq(G)
      /\ \A v \in C \cup {None} : Put("mergeOrig", v) \in Seq(G)
      /\ \A v \in SUBSET Paths : Put("conflicts", v) \in Seq(G)
      /\ \A v \in Picks(C) \cup {None} : Put("cherry", v) \in Seq(G)
      /\ \A v \in Rebases(C) : v.original = o => Put("rebase", v) \in Seq(G)
      /\ <<>> \in Seq(G)
  BY <1>1, <1>2, <1>3, <1>4, EmptySeq
<1> QED BY <1>5 DEF G

LEMMA GentleWrites == ASSUME NEW C, NEW o, NEW s \in Seq(Gentle(o, C)) PROVE s \in Seq(Writes(C))
BY SeqMonotonic DEF Gentle, Writes, Holding

LEMMA CommonGentle ==
    ASSUME TypeInv, NEW D, Commits \subseteq D, NEW o
    PROVE  /\ \A t \in Tree : ReplaceTracked(t) \in Seq(Gentle(o, D))
           /\ \A i \in Indexes : Clear("cherry", i) \in Seq(Gentle(o, D))
           /\ \A p \in Paths : ClearConflict(p) \in Seq(Gentle(o, D))
           /\ \A r \in Outcomes : Applied(r) \in Seq(Gentle(o, D)) /\ Conflicted(r) \in Seq(Gentle(o, D))
<1>1. ASSUME NEW t \in Tree PROVE ReplaceTracked(t) \in Seq(Gentle(o, D))
  BY RestoredTyped, IndexTyped, Facts, PutGentle, Joined DEF Replace, ReplaceTracked
<1>2. ASSUME NEW i \in Indexes PROVE Clear("cherry", i) \in Seq(Gentle(o, D))
  <2> DEFINE unmerged == Put("index", [i EXCEPT !.unmerged = {}])
  <2>1. unmerged \in Seq(Gentle(o, D))
    BY IndexTyped, PutGentle
  <2>2. Clear("cherry", i) = <<>> \/ Clear("cherry", i) = Put("cherry", None) \o <<>>
        \/ Clear("cherry", i) = Put("cherry", None) \o unmerged
    BY DEF Clear
  <2> HIDE DEF unmerged
  <2> QED BY <2>1, <2>2, PutGentle, Joined
<1>3. ASSUME NEW p \in Paths PROVE ClearConflict(p) \in Seq(Gentle(o, D))
  BY PutGentle, Facts DEF ClearConflict
<1>4. ASSUME NEW r \in Outcomes PROVE Applied(r) \in Seq(Gentle(o, D)) /\ Conflicted(r) \in Seq(Gentle(o, D))
  BY PutGentle, IndexTyped, Joined DEF Outcomes, Applied, Conflicted
<1> QED BY <1>1, <1>2, <1>3, <1>4

LEMMA Joins ==
    ASSUME NEW W
    PROVE  /\ \A a, b \in Seq(W) : Cat(a, b) \in Seq(W)
           /\ \A a, b, c \in Seq(W) : Cat(Cat(a, b), c) = Cat(a, Cat(b, c))
BY ConcatAssociative, ConcatProperties DEF Cat

LEMMA JoinsAll ==
    ASSUME NEW W
    PROVE  \A m, a, b, c, d, e \in Seq(W) :
              Cat(Cat(m, Cat(Cat(Cat(a, b), c), d)), e) = Cat(m, Cat(a, Cat(b, Cat(c, Cat(d, e)))))
<1> TAKE m, a, b, c, d, e \in Seq(W)
<1> DEFINE ab == Cat(a, b)
           abc == Cat(ab, c)
           abcd == Cat(abc, d)
           de == Cat(d, e)
           cde == Cat(c, de)
<1>1. ab \in Seq(W) /\ abc \in Seq(W) /\ abcd \in Seq(W) /\ de \in Seq(W) /\ cde \in Seq(W)
  BY Joins
<1>2. Cat(Cat(m, abcd), e) = Cat(m, Cat(abcd, e))
  BY <1>1, Joins
<1>3. Cat(abcd, e) = Cat(abc, de)
  BY <1>1, Joins
<1>4. Cat(abc, de) = Cat(ab, cde)
  BY <1>1, Joins
<1>5. Cat(ab, cde) = Cat(a, Cat(b, cde))
  BY <1>1, Joins
<1> HIDE DEF ab, abc, abcd, de, cde
<1> QED BY <1>2, <1>3, <1>4, <1>5 DEF ab, abc, abcd, de, cde

LEMMA JoinsFive ==
    ASSUME NEW W
    PROVE  \A a, b, c, d, e \in Seq(W) : Cat(Cat(Cat(Cat(a, b), c), d), e) = Cat(Cat(a, b), Cat(c, Cat(d, e)))
<1> TAKE a, b, c, d, e \in Seq(W)
<1> DEFINE ab == Cat(a, b)
           abc == Cat(ab, c)
           de == Cat(d, e)
<1>1. ab \in Seq(W) /\ abc \in Seq(W) /\ de \in Seq(W)
  BY Joins
<1>2. Cat(Cat(abc, d), e) = Cat(abc, de)
  BY <1>1, Joins
<1>3. Cat(abc, de) = Cat(ab, Cat(c, de))
  BY <1>1, Joins
<1> HIDE DEF ab, abc, de
<1> QED BY <1>2, <1>3 DEF ab, abc, de

\* commit() is the move of the branch, perhaps the end of a merge, and gentle writes.
LEMMA CommittedParts ==
    ASSUME TypeInv, NEW D, Commits \subseteq D, NewCommit \in D, NEW o, NEW i \in Indexes
    PROVE  \E a \in {<<>>, Put("mergeHead", None)}, t \in Seq(Gentle(o, D)) :
              Committed(i) = MoveOf(files, NewCommit) \o (a \o t)
<1> DEFINE m == MoveHead(NewCommit)
           a == IF files.mergeHead = None THEN <<>> ELSE Put("mergeHead", None)
           b == IF files.mergeOrig = None THEN <<>> ELSE Put("mergeOrig", None)
           c == IF files.conflicts = {} THEN <<>> ELSE Put("conflicts", {})
           d == IF files.mergeHead # None /\ i.unmerged # {} THEN Put("index", [i EXCEPT !.unmerged = {}])
                ELSE <<>>
           e == Clear("cherry", i)
           W == Writes(D)
<1>1. Committed(i) = m \o (a \o b \o c \o d) \o e
  BY DEF Committed, ClearMerge
<1>2. m = MoveOf(files, NewCommit)
  BY DEF MoveHead, SetBranch, MoveOf
<1>3. a \in {<<>>, Put("mergeHead", None)}
  OBVIOUS
<1>4. b \in Seq(Gentle(o, D)) /\ c \in Seq(Gentle(o, D)) /\ d \in Seq(Gentle(o, D)) /\ e \in Seq(Gentle(o, D))
  BY PutGentle, IndexTyped, CommonGentle
<1>5. m \in Seq(W) /\ a \in Seq(W)
  BY CommonWrites, PutTyped, HoldingWrites
<1> HIDE DEF m, a, b, c, d, e, W
<1>6. b \in Seq(W) /\ c \in Seq(W) /\ d \in Seq(W) /\ e \in Seq(W)
  BY <1>4, GentleWrites DEF W
<1>7. b \o (c \o (d \o e)) \in Seq(Gentle(o, D))
  BY <1>4, Joined
<1>8. m \o (a \o b \o c \o d) \o e = m \o (a \o (b \o (c \o (d \o e))))
  <2>1. Cat(Cat(m, Cat(Cat(Cat(a, b), c), d)), e) = Cat(m, Cat(a, Cat(b, Cat(c, Cat(d, e)))))
    BY <1>5, <1>6, JoinsAll
  <2> QED BY <2>1 DEF Cat
<1> QED BY <1>1, <1>2, <1>3, <1>7, <1>8

LEMMA TipIsHead == Tip(files) = HeadSha
BY DEF Tip, HeadSha

\* Concluding with a commit above HEAD and above what is being merged, with gentle writes
\* before it and after it.
LEMMA SafeCommit ==
    ASSUME TypeInv, NEW h, Recorded(h), Len(h) = Len(log) + 1, NEW i \in Indexes,
           HeadSha = None \/ HeadSha \in Parents(h, NewCommit),
           files.mergeHead \in {None, HeadSha} \/ files.mergeHead \in Parents(h, NewCommit),
           NEW p \in Seq(Gentle(Original(files), More)), NEW q \in Seq(Gentle(Original(files), More))
    PROVE  Safe(h, files, p \o (Committed(i) \o q))
<1> DEFINE C == 1..Len(h)
           o == Original(files)
           N == NewCommit
<1>1. /\ C = More /\ C \subseteq Nat /\ Commits \subseteq C /\ N \in C /\ Dated(h)
      /\ files \in FilesOver(C)
  BY MoreFacts, RecordedIsDated, MoreCommits DEF More, TypeInv
<1>2. \A x \in Parents(h, N) : x \in History(h, {N})
  BY <1>1, HistoryCloses DEF Closed
<1>3. HeadSha = None \/ HeadSha \in History(h, {N})
  BY <1>2
<1>4. files.mergeHead = None \/ files.mergeHead \in History(h, {N})
  BY <1>2, <1>3
<1>5. PICK a \in {<<>>, Put("mergeHead", None)}, t \in Seq(Gentle(o, C)) :
          Committed(i) = MoveOf(files, N) \o (a \o t)
  BY <1>1, CommittedParts
<1> DEFINE s == MoveOf(files, N) \o (a \o (t \o q))
<1>6. q \in Seq(Gentle(o, C)) /\ p \in Seq(Gentle(o, C)) /\ t \o q \in Seq(Gentle(o, C))
  BY <1>1, <1>5, Joined
<1>7. ASSUME NEW u \in FilesOver(C), Alike(u, files) PROVE Safe(h, u, s)
  <2>1. Original(u) = o /\ Tip(u) = HeadSha /\ u.mergeHead = files.mergeHead
    BY <1>7, TipIsHead DEF Alike, Tip
  <2>2. MoveOf(u, N) = MoveOf(files, N)
    BY <1>7 DEF Alike, MoveOf
  <2>3. Safe(h, u, MoveOf(u, N) \o (a \o (t \o q)))
    BY <1>1, <1>3, <1>4, <1>6, <2>1, SafeConclude
  <2> QED BY <2>2, <2>3
<1>8. /\ MoveOf(files, N) \in Seq(Writes(C)) /\ a \in Seq(Writes(C)) /\ t \in Seq(Writes(C))
      /\ q \in Seq(Writes(C))
  <2>1. MoveHead(N) \in Seq(Holding(C))
    BY <1>1, CommonWrites
  <2>2. MoveHead(N) = MoveOf(files, N)
    BY DEF MoveHead, SetBranch, MoveOf
  <2>3. a \in Seq(Holding(C))
    BY PutTyped
  <2> HIDE DEF N, C
  <2> QED BY <1>5, <1>6, <2>1, <2>2, <2>3, HoldingWrites, GentleWrites
<1>9. s \in Seq(Writes(C)) /\ Committed(i) \o q = s
  <2> DEFINE m == MoveOf(files, N)
  <2>1. Cat(m, Cat(a, Cat(t, q))) \in Seq(Writes(C)) /\ Cat(Cat(m, Cat(a, t)), q) = Cat(m, Cat(a, Cat(t, q)))
    <3>1. m \in Seq(Writes(C))
      BY <1>8
    <3> HIDE DEF m, C
    <3> QED BY <1>8, <3>1, Joins
  <2>2. Committed(i) = Cat(m, Cat(a, t)) /\ s = Cat(m, Cat(a, Cat(t, q)))
    BY <1>5 DEF Cat
  <2>3. Committed(i) \o q = Cat(Committed(i), q)
    BY DEF Cat
  <2> HIDE DEF m, s, C
  <2> QED BY <2>1, <2>2, <2>3
<1> HIDE DEF s
<1>10. Safe(h, files, p \o s)
  <2> HIDE DEF C, N
  <2> QED BY <1>1, <1>6, <1>7, <1>9, SafeGentle DEF C
<1> QED BY <1>9, <1>10

\* The parents commit() records hold HEAD, and the commit being merged.
LEMMA HeadIsParent ==
    ASSUME TypeInv
    PROVE  /\ HeadSha = None \/ \E j \in DOMAIN HeadAndMergeHead : HeadAndMergeHead[j] = HeadSha
           /\ files.mergeHead \in {None, HeadSha}
              \/ \E j \in DOMAIN HeadAndMergeHead : HeadAndMergeHead[j] = files.mergeHead
<1>1. HeadSha \in Commits \cup {None} /\ files.mergeHead \in Commits \cup {None}
  BY Facts
<1>2. CASE HeadSha = None
  BY <1>2, <1>1, OneWrite, ConcatEmptySeq DEF HeadAndMergeHead
<1>3. CASE HeadSha # None /\ files.mergeHead \in {None, HeadSha}
  BY <1>1, <1>3, OneWrite, ConcatEmptySeq DEF HeadAndMergeHead
<1>4. CASE HeadSha # None /\ files.mergeHead \notin {None, HeadSha}
  BY <1>4, Pair DEF HeadAndMergeHead
<1> QED BY <1>2, <1>3, <1>4

LEMMA RecordsJoin ==
    ASSUME TypeInv, NEW t \in Tree, NEW msg \in Nat \cup {None}
    PROVE  /\ Joining(Record(t, HeadAndMergeHead, msg))
           /\ files.mergeHead = None /\ HeadSha # None =>
                \A y \in Commits : Joining(Record(t, <<HeadSha, y>>, msg))
<1>1. Joining(Record(t, HeadAndMergeHead, msg))
  BY ParentsTyped, RecordTyped DEF Joining
<1>2. ASSUME files.mergeHead = None, HeadSha # None, NEW y \in Commits
      PROVE  Joining(Record(t, <<HeadSha, y>>, msg))
  <2>1. <<HeadSha, y>> \in Seq(Commits)
    BY <1>2, Facts
  <2>2. /\ Record(t, <<HeadSha, y>>, msg) \in Entry
        /\ Record(t, <<HeadSha, y>>, msg).parents = <<HeadSha, y>>
    BY <2>1, RecordTyped
  <2> QED BY <1>2, <2>1, <2>2 DEF Joining
<1> QED BY <1>1, <1>2

LEMMA Joined2 ==
    ASSUME TypeInv, NEW e, Joining(e)
    PROVE  LET h == log \o <<e>>
           IN  /\ Recorded(h) /\ Len(h) = Len(log) + 1
               /\ HeadSha = None \/ HeadSha \in Parents(h, NewCommit)
               /\ files.mergeHead \in {None, HeadSha} \/ files.mergeHead \in Parents(h, NewCommit)
<1> DEFINE h == log \o <<e>>
<1>1. e \in Entry /\ e.parents \in Seq(Commits)
  BY DEF Joining
<1>2. Recorded(h) /\ Len(h) = Len(log) + 1 /\ h[Len(log) + 1] = e
  BY <1>1, OneMore DEF TypeInv, Commits
<1> HIDE DEF h
<1>3. \A j \in DOMAIN e.parents : e.parents[j] \in Parents(h, NewCommit)
  BY <1>2 DEF Parents, NewCommit
<1>4. CASE e.parents = HeadAndMergeHead
  BY <1>2, <1>3, <1>4, HeadIsParent DEF h
<1>5. CASE files.mergeHead = None /\ HeadSha # None /\ \E y \in Commits : e.parents = <<HeadSha, y>>
  BY <1>5, <1>2, <1>3 DEF h
<1> QED BY <1>4, <1>5 DEF Joining

\* Gentle writes, commit(), gentle writes: safe, however they are put together.
LEMMA SafeConcluding ==
    ASSUME TypeInv, NEW e, Joining(e), NEW i \in Indexes,
           NEW o, o = Original(files),
           NEW p \in Seq(Gentle(o, More)), NEW q \in Seq(Gentle(o, More)), NEW r \in Seq(Gentle(o, More))
    PROVE  LET h == log \o <<e>>
           IN  /\ Safe(h, files, Committed(i))
               /\ Safe(h, files, p \o Committed(i))
               /\ Safe(h, files, Committed(i) \o q)
               /\ Safe(h, files, p \o Committed(i) \o q)
               /\ Safe(h, files, r \o (p \o Committed(i) \o q))
<1> DEFINE h == log \o <<e>>
           c == Committed(i)
           W == Writes(More)
           G == Gentle(o, More)
<1>1. \A x, y \in Seq(G) : Safe(h, files, x \o (c \o y))
  <2>1. /\ Recorded(h) /\ Len(h) = Len(log) + 1
        /\ HeadSha = None \/ HeadSha \in Parents(h, NewCommit)
        /\ files.mergeHead \in {None, HeadSha} \/ files.mergeHead \in Parents(h, NewCommit)
    BY Joined2
  <2> HIDE DEF h
  <2> QED BY <2>1, SafeCommit
<1>2. c \in Seq(W) /\ p \in Seq(W) /\ q \in Seq(W) /\ r \in Seq(W)
  <2>1. c \in Seq(Holding(More))
    BY MoreFacts, CommittedTyped
  <2> HIDE DEF c
  <2> QED BY <2>1, HoldingWrites, GentleWrites
<1>3. <<>> \in Seq(G) /\ p \in Seq(G) /\ q \in Seq(G) /\ Cat(r, p) \in Seq(G)
  BY Joined, PutGentle DEF Cat
<1> HIDE DEF h, c, W, G
<1>4. <<>> \o c = c /\ c \o <<>> = c
  BY <1>2, ConcatEmptySeq
<1>5. \A x, y \in Seq(G) : Safe(h, files, Cat(x, Cat(c, y)))
  BY <1>1 DEF Cat
<1>6. Cat(<<>>, Cat(c, <<>>)) = c /\ Cat(p, Cat(c, <<>>)) = Cat(p, c)
  BY <1>4 DEF Cat
<1>7. Cat(<<>>, Cat(c, q)) = Cat(c, q)
  BY <1>2, Joined, ConcatEmptySeq DEF Cat
<1>8. Cat(p, Cat(c, q)) = Cat(Cat(p, c), q)
  BY <1>2, Joins
<1>9. Cat(Cat(r, p), Cat(c, q)) = Cat(r, Cat(Cat(p, c), q))
  BY <1>2, Joins, <1>8
<1>10. /\ Safe(h, files, c) /\ Safe(h, files, Cat(p, c)) /\ Safe(h, files, Cat(c, q))
       /\ Safe(h, files, Cat(Cat(p, c), q)) /\ Safe(h, files, Cat(r, Cat(Cat(p, c), q)))
  BY <1>3, <1>5, <1>6, <1>7, <1>8, <1>9
<1> QED BY <1>10 DEF Cat, h, c

-----------------------------------------------------------------------------
(***************************************************************************)
(* What each command keeps.                                                *)
(***************************************************************************)
LEMMA RunKeeps ==
    ASSUME NEW cmd, NEW todo, NEW then, NEW new, Run(cmd, todo, then, new),
           cmd \notin Preserving \/ Safe(log \o new, files, todo)
    PROVE  KeepInv'
BY DEF Run, Preserving, KeepInv

LEMMA AloneKeeps ==
    ASSUME NEW cmd, NEW todo, NEW then, TypeInv, Run(cmd, todo, then, <<>>),
           cmd \notin Preserving \/ Safe(log, files, todo)
    PROVE  KeepInv'
BY RunKeeps, NothingAdded

LEMMA GentleKeeps ==
    ASSUME TypeInv, NEW o, o = Original(files), NEW todo \in Seq(Gentle(o, Commits)) PROVE Safe(log, files, todo)
BY SafeGentleAlone DEF TypeInv, Commits

\* Starting a merge that is in conflict.
LEMMA SafeMergeHead ==
    ASSUME NEW h, Dated(h), NEW v \in FilesOver(1..Len(h)), v.mergeHead = None, NEW c \in 1..Len(h),
           NEW t \in Seq(Gentle(Original(v), 1..Len(h)))
    PROVE  Safe(h, v, Put("mergeHead", c) \o t) /\ Put("mergeHead", c) \o t \in Seq(Writes(1..Len(h)))
<1> DEFINE C == 1..Len(h)
           n == [v EXCEPT !["mergeHead"] = c]
<1>0. C \subseteq Nat /\ c \in C /\ v \in FilesOver(C) /\ c # None
  BY NamesAreNoCommits
<1>1. /\ n \in FilesOver(C) /\ n.head = v.head /\ n.branch = v.branch /\ n.stash = v.stash
      /\ n.mergeHead = c /\ n.rebase = v.rebase
  BY <1>0 DEF FilesOver
<1>2. t \in Seq(Writes(C)) /\ [at |-> "mergeHead", to |-> c] \in Writes(C)
  BY <1>0, GentleWrites DEF Writes, Holding
<1>3. Safe(h, n, t)
  <2>1. Original(n) = Original(v)
    BY <1>1 DEF Original
  <2> HIDE DEF C, n
  <2> QED BY <1>0, <1>1, <2>1, SafeGentleAlone DEF C
<1>4. Keeps(h, v, n)
  <2>1. \A x \in Roots(v) : x \in Roots(n)
    BY <1>1 DEF Roots, Tip, Original
  <2> HIDE DEF n
  <2> QED BY <1>1, <2>1, KeepsWhen
<1> HIDE DEF n, C
<1>5. Safe(h, v, Put("mergeHead", c) \o t)
  BY <1>2, <1>3, <1>4, SafePut DEF n
<1> QED BY <1>2, <1>5, HeadOfPut DEF C

LEMMA MergingKeeps == ASSUME TypeInv, Merging PROVE KeepInv'
<1>0. Dated(log) /\ files \in FilesOver(1..Len(log)) /\ Commits = 1..Len(log) /\ Commits \subseteq Commits
      /\ Commits \subseteq Nat /\ Commits \subseteq More
  BY RecordedIsDated, MoreFacts DEF TypeInv, Commits
<1> DEFINE o == Original(files)
           G == Gentle(o, Commits)
<1>1. ASSUME NEW theirs \in Tips, NEW squash \in BOOLEAN, Merge(theirs, squash) PROVE KeepInv'
  <2>1. HeadSha \in Commits /\ theirs \in Commits /\ theirs \in 1..Len(log) /\ HeadSha \in 1..Len(log)
    BY <1>1, Facts DEF Merge, Tips, Commits
  <2>2. files.mergeHead = None
    BY <1>1 DEF Merge, Ready, Operation
  <2>3. PICK base \in MergeBases(log, HeadSha, theirs) :
            LET r == ThreeWay(TreeAt(base), TreeAt(theirs))
            IN  \/ /\ base = HeadSha
                   /\ Run("merge", ReplaceTracked(TreeAt(theirs)) \o MoveHead(theirs), "end", <<>>)
                \/ Run("merge", Applied(r) \o Put("index", WithStages(r))
                                \o Put("mergeHead", theirs) \o Put("mergeOrig", HeadSha)
                                \o Put("conflicts", r.clashes), "end", <<>>)
                \/ Run("merge", Applied(r), "end", <<>>)
                \/ Run("merge", Applied(r) \o Committed(r.index), "end",
                       <<Record(r.index.staged, <<HeadSha, theirs>>, NewCommit)>>)
    BY <1>1, Zenon DEF Merge
  <2>4. base \in Commits \cup {None} /\ (base = HeadSha => HeadSha \in History(log, {theirs}))
    BY <1>1, <1>0, <2>1, BasesAreCommits DEF Merge
  <2> DEFINE r == ThreeWay(TreeAt(base), TreeAt(theirs))
  <2>5. r \in Outcomes /\ TreeAt(theirs) \in Tree
    BY <2>1, <2>4, TreesTyped, ThreeWayTyped
  <2> HIDE DEF r
  <2>6. /\ Applied(r) \in Seq(G) /\ Applied(r) \in Seq(Gentle(o, More))
        /\ Put("index", WithStages(r)) \in Seq(G) /\ Put("mergeOrig", HeadSha) \in Seq(G)
        /\ Put("conflicts", r.clashes) \in Seq(G)
        /\ ReplaceTracked(TreeAt(theirs)) \in Seq(G) /\ r.index \in Indexes /\ r.index.staged \in Tree
    <3>1. WithStages(r) \in Indexes /\ r.clashes \in SUBSET Paths
      BY <2>5, IndexTyped DEF Outcomes
    <3>2. Applied(r) \in Seq(G) /\ Applied(r) \in Seq(Gentle(o, More)) /\ ReplaceTracked(TreeAt(theirs)) \in Seq(G)
      BY <1>0, <2>5, CommonGentle
    <3>3. r.index \in Indexes /\ r.index.staged \in Tree
      BY <2>5, PickWrites
    <3> QED BY <2>1, <3>1, <3>2, <3>3, PutGentle
  <2>7. CASE /\ base = HeadSha
             /\ Run("merge", ReplaceTracked(TreeAt(theirs)) \o MoveHead(theirs), "end", <<>>)
    <3> DEFINE s == MoveOf(files, theirs)
    <3>1. MoveHead(theirs) = s
      BY DEF MoveHead, SetBranch, MoveOf
    <3>2. s \in Seq(Writes(Commits))
      BY <1>0, <2>1, CommonWrites, <3>1, HoldingWrites
    <3>3. ASSUME NEW u \in FilesOver(Commits), Alike(u, files) PROVE Safe(log, u, s)
      <4>1. Tip(u) = HeadSha /\ MoveOf(u, theirs) = s
        BY <3>3, TipIsHead DEF Alike, Tip, MoveOf
      <4>2. <<>> \in Seq(Writes(1..Len(log))) /\ Safe(log, Moved(u, theirs), <<>>)
        BY EmptySeq, SafeEmpty
      <4>3. u \in FilesOver(1..Len(log))
        BY <1>0
      <4>4. Safe(log, u, MoveOf(u, theirs) \o <<>>)
        BY <1>0, <2>1, <2>4, <2>7, <4>1, <4>2, <4>3, SafeMove
      <4>5. s \o <<>> = s
        <5> HIDE DEF s
        <5> QED BY <3>2, ConcatEmptySeq
      <4> QED BY <4>1, <4>4, <4>5
    <3>4. files \in FilesOver(Commits)
      BY <1>0
    <3> HIDE DEF s
    <3>5. Safe(log, files, ReplaceTracked(TreeAt(theirs)) \o s)
      BY <1>0, <2>6, <3>2, <3>3, <3>4, SafeGentle
    <3> QED BY <2>7, <3>1, <3>5, AloneKeeps
  <2>8. CASE Run("merge", Applied(r) \o Put("index", WithStages(r))
                          \o Put("mergeHead", theirs) \o Put("mergeOrig", HeadSha)
                          \o Put("conflicts", r.clashes), "end", <<>>)
    <3> DEFINE a == Applied(r)
               b == Put("index", WithStages(r))
               m == Put("mergeHead", theirs)
               d == Put("mergeOrig", HeadSha)
               e == Put("conflicts", r.clashes)
    <3>1. a \o b \in Seq(G) /\ d \o e \in Seq(G)
      BY <2>6, Joined
    <3>2. ASSUME NEW u \in FilesOver(Commits), Alike(u, files)
          PROVE  Safe(log, u, m \o (d \o e)) /\ m \o (d \o e) \in Seq(Writes(Commits))
      <4>1. u \in FilesOver(1..Len(log)) /\ u.mergeHead = None /\ d \o e \in Seq(Gentle(Original(u), 1..Len(log)))
        BY <1>0, <2>2, <3>1, <3>2 DEF Alike
      <4> DEFINE t == d \o e
      <4>2. t \in Seq(Gentle(Original(u), 1..Len(log)))
        BY <4>1
      <4> HIDE DEF t
      <4>3. Safe(log, u, Put("mergeHead", theirs) \o t)
            /\ Put("mergeHead", theirs) \o t \in Seq(Writes(1..Len(log)))
        BY <1>0, <2>1, <4>1, <4>2, SafeMergeHead
      <4> QED BY <1>0, <4>3 DEF t
    <3>3. files \in FilesOver(Commits) /\ Alike(files, files)
      BY <1>0 DEF Alike
    <3>4. m \o (d \o e) \in Seq(Writes(Commits))
      BY <3>2, <3>3
    <3> HIDE DEF m, d, e, a, b
    <3>5. Safe(log, files, (a \o b) \o (m \o (d \o e)))
      <4> DEFINE s == m \o (d \o e)
                 t == a \o b
      <4>1. \A u \in FilesOver(Commits) : Alike(u, files) => Safe(log, u, s)
        BY <3>2
      <4>2. s \in Seq(Writes(Commits)) /\ t \in Seq(G)
        BY <3>1, <3>4
      <4> HIDE DEF s, t
      <4>3. Safe(log, files, t \o s)
        BY <1>0, <3>3, <4>1, <4>2, SafeGentle
      <4> QED BY <4>3 DEF s, t
    <3>6. (((a \o b) \o m) \o d) \o e = (a \o b) \o (m \o (d \o e))
      <4>1. a \in Seq(Writes(Commits)) /\ b \in Seq(Writes(Commits)) /\ d \in Seq(Writes(Commits))
            /\ e \in Seq(Writes(Commits))
        BY <2>6, GentleWrites DEF a, b, d, e
      <4>2. m \in Seq(Writes(Commits))
        BY <2>1, PutTyped, HoldingWrites DEF m
      <4>3. Cat(Cat(Cat(Cat(a, b), m), d), e) = Cat(Cat(a, b), Cat(m, Cat(d, e)))
        BY <4>1, <4>2, JoinsFive
      <4> QED BY <4>3 DEF Cat
    <3>7. Safe(log, files, (((a \o b) \o m) \o d) \o e)
      BY <3>5, <3>6, Zenon
    <3>8. Run("merge", (((a \o b) \o m) \o d) \o e, "end", <<>>)
      BY <2>8 DEF a, b, m, d, e
    <3> DEFINE all == (((a \o b) \o m) \o d) \o e
    <3>9. Run("merge", all, "end", <<>>) /\ Safe(log, files, all)
      BY <3>7, <3>8
    <3> HIDE DEF all
    <3> QED BY <3>9, AloneKeeps
  <2>9. CASE Run("merge", Applied(r), "end", <<>>)
    BY <2>6, GentleKeeps, <2>9, AloneKeeps
  <2>10. CASE Run("merge", Applied(r) \o Committed(r.index), "end",
                  <<Record(r.index.staged, <<HeadSha, theirs>>, NewCommit)>>)
    <3> DEFINE e == Record(r.index.staged, <<HeadSha, theirs>>, NewCommit)
    <3>1. Joining(e)
      BY <1>1, MoreFacts, <2>1, <2>2, <2>6, RecordsJoin DEF Merge
    <3>2. Applied(r) \in Seq(Gentle(o, More)) /\ <<>> \in Seq(Gentle(o, More))
      BY <2>6, PutGentle
    <3> HIDE DEF e, o
    <3>3. Safe(log \o <<e>>, files, Applied(r) \o Committed(r.index))
      BY <2>6, <3>1, <3>2, SafeConcluding DEF o
    <3> QED BY <2>10, <3>3, RunKeeps DEF e
  <2> QED BY <2>3, <2>7, <2>8, <2>9, <2>10 DEF r
<1>2. ASSUME MergeAbort PROVE KeepInv'
  BY <1>2, RunKeeps DEF Preserving, MergeAbort
<1> QED BY <1>1, <1>2 DEF Merging

LEMMA EditingKeeps == ASSUME TypeInv, Editing PROVE KeepInv'
<1>1. ASSUME NEW p \in Paths, NEW c \in Typed, Edit(p, c) PROVE job'.cmd \in {"none", "add", "rm", "mv"}
  BY <1>1 DEF Edit, MayEdit, Idle
<1>2. ASSUME NEW cmd \in {"add", "rm", "mv"}, NEW S, NEW todo, RunEdit(cmd, S, todo)
      PROVE  job'.cmd \in {"none", "add", "rm", "mv"}
  BY <1>2 DEF RunEdit
<1>3. job'.cmd \in {"none", "add", "rm", "mv"}
  BY <1>1, <1>2, Zenon DEF Editing, Add, Rm, Mv
<1> QED BY <1>3 DEF KeepInv, Preserving

LEMMA CommittingKeeps == ASSUME TypeInv, Committing PROVE KeepInv'
<1> DEFINE o == Original(files)
<1>0. /\ NewCommit \in Nat \cup {None} /\ files.index \in Indexes /\ files.index.staged \in Tree
      /\ <<>> \in Seq(Gentle(o, More)) /\ Commits \subseteq More
  BY MoreFacts, Facts, PutGentle
<1>1. CASE Commit
  <2> DEFINE e == Record(files.index.staged, HeadAndMergeHead, NewCommit)
  <2>1. Run("commit", Committed(files.index), "end", <<e>>)
    BY <1>1 DEF Commit
  <2>2. Joining(e)
    BY <1>0, RecordsJoin
  <2> HIDE DEF e, o
  <2>3. Safe(log \o <<e>>, files, Committed(files.index))
    BY <1>0, <2>2, SafeConcluding DEF o
  <2> QED BY <2>1, <2>3, RunKeeps
<1>2. CASE Amend
  BY <1>2, RunKeeps DEF Preserving, Amend
<1>3. ASSUME NEW p \in Paths, CommitOnly(p) PROVE KeepInv'
  <2> DEFINE alone == With([files.index EXCEPT !.staged = TreeAt(HeadSha)], p, files.worktree[p])
             after == IF files.mergeHead = None /\ files.cherry = None THEN alone.unmerged ELSE {}
             back == [staged   |-> [x \in Paths |-> IF x = p \/ files.index.staged[x] = Gone
                                                  THEN alone.staged[x] ELSE files.index.staged[x]],
                      unmerged |-> after]
             isolated == Put("index", alone) \o ClearConflict(p)
             all == isolated \o Committed(alone) \o Put("index", back)
             e == Record(alone.staged, HeadAndMergeHead, NewCommit)
  <2>1. alone \in Indexes
    BY Facts, TreesTyped, IndexTyped DEF Tree
  <2>2. alone.staged \in Tree /\ alone.unmerged \subseteq Paths
    <3> HIDE DEF alone
    <3> QED BY <2>1 DEF Indexes
  <2>3. back \in Indexes
    <3> HIDE DEF alone
    <3>1. [x \in Paths |-> IF x = p \/ files.index.staged[x] = Gone
                           THEN alone.staged[x] ELSE files.index.staged[x]] \in Tree
      BY <2>2, Facts DEF Tree
    <3> QED BY <2>2, <3>1 DEF Indexes
  <2>4. isolated \in Seq(Gentle(o, Commits)) /\ isolated \in Seq(Gentle(o, More))
    <3> HIDE DEF alone
    <3>1. Put("index", alone) \in Seq(Gentle(o, Commits)) /\ Put("index", alone) \in Seq(Gentle(o, More))
      BY <2>1, PutGentle
    <3>2. ClearConflict(p) \in Seq(Gentle(o, Commits)) /\ ClearConflict(p) \in Seq(Gentle(o, More))
      BY <1>0, CommonGentle
    <3> QED BY <3>1, <3>2, Joined
  <2>5. Put("index", back) \in Seq(Gentle(o, More))
    <3> HIDE DEF back
    <3> QED BY <2>3, PutGentle
  <2>6. \/ Run("commit_only", all, "end", <<e>>)
        \/ Run("commit_only", isolated, "end", <<>>)
    BY <1>3 DEF CommitOnly
  <2>7. Joining(e)
    <3> HIDE DEF alone
    <3> QED BY <1>0, <2>2, RecordsJoin
  <2> HIDE DEF isolated, alone, back, e, o
  <2>8. CASE Run("commit_only", isolated, "end", <<>>)
    BY <2>4, GentleKeeps, <2>8, AloneKeeps DEF o
  <2>9. CASE Run("commit_only", all, "end", <<e>>)
    <3>1. Safe(log \o <<e>>, files, all)
      BY <1>0, <2>1, <2>4, <2>5, <2>7, SafeConcluding DEF o
    <3> HIDE DEF all
    <3> QED BY <2>9, <3>1, RunKeeps
  <2> QED BY <2>6, <2>8, <2>9
<1> QED BY <1>1, <1>2, <1>3 DEF Committing

LEMMA PickingKeeps == ASSUME TypeInv, Picking PROVE KeepInv'
<1> DEFINE o == Original(files)
<1>0. /\ NewCommit \in Nat \cup {None} /\ files.index \in Indexes /\ files.index.staged \in Tree
      /\ <<>> \in Seq(Gentle(o, More)) /\ Commits \subseteq More /\ Commits \subseteq Commits
  BY MoreFacts, Facts, PutGentle
<1>1. ASSUME NEW r \in Outcomes, NEW cmd, NEW msg \in Nat \cup {None},
             \/ Run(cmd, Applied(r), "end", <<>>)
             \/ Run(cmd, Applied(r) \o Committed(r.index), "end",
                    <<Record(r.index.staged, HeadAndMergeHead, msg)>>)
      PROVE  KeepInv'
  <2>1. /\ Applied(r) \in Seq(Gentle(o, Commits)) /\ Applied(r) \in Seq(Gentle(o, More))
        /\ r.index.staged \in Tree /\ r.index \in Indexes
    BY <1>0, CommonGentle, PickWrites
  <2> DEFINE e == Record(r.index.staged, HeadAndMergeHead, msg)
  <2>2. Joining(e)
    BY <2>1, RecordsJoin
  <2> HIDE DEF e, o
  <2>3. Safe(log, files, Applied(r))
    BY <2>1, GentleKeeps DEF o
  <2>4. Safe(log \o <<e>>, files, Applied(r) \o Committed(r.index))
    BY <1>0, <2>1, <2>2, SafeConcluding DEF o
  <2>5. CASE Run(cmd, Applied(r), "end", <<>>)
    BY <2>3, <2>5, AloneKeeps
  <2>6. CASE Run(cmd, Applied(r) \o Committed(r.index), "end", <<e>>)
    BY <2>4, <2>6, RunKeeps
  <2> QED BY <1>1, <2>5, <2>6 DEF e
<1>2. ASSUME NEW c \in Named, NEW noCommit \in BOOLEAN, CherryPick(c, noCommit) PROVE KeepInv'
  <2>1. c \in Commits /\ HeadSha \in Commits
    BY <1>2, NamedAreCommits, Facts DEF CherryPick
  <2> DEFINE r == ThreeWay(ParentTree(c), TreeAt(c))
             stop == Conflicted(r) \o Put("cherry", [source |-> c, before |-> HeadSha])
  <2>2. \/ Run("cherry_pick", stop, "end", <<>>)
        \/ Run("cherry_pick", Applied(r), "end", <<>>)
        \/ Run("cherry_pick", Applied(r) \o Committed(r.index), "end",
               <<Record(r.index.staged, HeadAndMergeHead, log[c].msg)>>)
    BY <1>2, Zenon DEF CherryPick
  <2>3. r \in Outcomes /\ log[c].msg \in Nat \cup {None}
    BY <2>1, TreesTyped, ThreeWayTyped
  <2>4. stop \in Seq(Gentle(o, Commits))
    <3> HIDE DEF r
    <3>1. [source |-> c, before |-> HeadSha] \in Picks(Commits)
      BY <2>1 DEF Picks
    <3>2. Put("cherry", [source |-> c, before |-> HeadSha]) \in Seq(Gentle(o, Commits))
      BY <3>1, PutGentle
    <3>3. Conflicted(r) \in Seq(Gentle(o, Commits))
      BY <1>0, <2>3, CommonGentle
    <3> QED BY <3>2, <3>3, Joined
  <2> HIDE DEF r, stop
  <2>5. CASE Run("cherry_pick", stop, "end", <<>>)
    BY <2>4, <2>5, GentleKeeps, AloneKeeps
  <2> QED BY <1>1, <2>2, <2>3, <2>5
<1>3. ASSUME CherryContinue PROVE KeepInv'
  <2> DEFINE e == Record(files.index.staged, HeadAndMergeHead, log[files.cherry.source].msg)
  <2>1. \/ Run("cherry_continue", Clear("cherry", files.index), "end", <<>>)
        \/ Run("cherry_continue", Committed(files.index), "end", <<e>>)
    BY <1>3 DEF CherryContinue
  <2>2. log[files.cherry.source].msg \in Nat \cup {None}
    BY <1>3, Facts, TreesTyped DEF CherryContinue, Picks
  <2>3. Joining(e)
    BY <1>0, <2>2, RecordsJoin
  <2>4. Clear("cherry", files.index) \in Seq(Gentle(o, Commits))
    BY <1>0, CommonGentle
  <2> HIDE DEF e, o
  <2>5. Safe(log \o <<e>>, files, Committed(files.index))
    BY <1>0, <2>3, SafeConcluding DEF o
  <2>6. Safe(log, files, Clear("cherry", files.index))
    BY <2>4, GentleKeeps DEF o
  <2>7. CASE Run("cherry_continue", Clear("cherry", files.index), "end", <<>>)
    BY <2>6, <2>7, AloneKeeps
  <2>8. CASE Run("cherry_continue", Committed(files.index), "end", <<e>>)
    BY <2>5, <2>8, RunKeeps
  <2> QED BY <2>1, <2>7, <2>8
<1>4. ASSUME CherryAbort PROVE KeepInv'
  BY <1>4, RunKeeps DEF Preserving, CherryAbort
<1>5. ASSUME NEW c \in Named, Revert(c) PROVE KeepInv'
  <2>1. c \in Commits
    BY NamedAreCommits
  <2> DEFINE r == ThreeWay(TreeAt(c), ParentTree(c))
  <2>2. \/ Run("revert", Applied(r), "end", <<>>)
        \/ Run("revert", Applied(r) \o Committed(r.index), "end",
               <<Record(r.index.staged, HeadAndMergeHead, NewCommit)>>)
    BY <1>5, Zenon DEF Revert
  <2>3. r \in Outcomes
    BY <2>1, TreesTyped, ThreeWayTyped
  <2> HIDE DEF r
  <2> QED BY <1>0, <1>1, <2>2, <2>3
<1> QED BY <1>2, <1>3, <1>4, <1>5 DEF Picking

\* Writing the state of a rebase before the branch moves, or moving it to a commit above.
LEMMA SafeRebase ==
    ASSUME NEW h, Dated(h), NEW v \in FilesOver(1..Len(h)), v.rebase = None, v.head \in Branches, Tip(v) # None,
           NEW s \in Rebases(1..Len(h)), s.original = Tip(v), NEW c \in 1..Len(h),
           NEW t, \A o : t \in Seq(Gentle(o, 1..Len(h)))
    PROVE  /\ Safe(h, v, Put("rebase", s) \o (t \o MoveOf(v, c)))
           /\ Tip(v) \in History(h, {c}) => Safe(h, v, t \o MoveOf(v, c))
<1> DEFINE C == 1..Len(h)
           n == [v EXCEPT !["rebase"] = s]
           m == MoveOf(v, c)
<1>0. C \subseteq Nat /\ c \in C /\ v \in FilesOver(C) /\ c # None /\ s # None
  BY MoreRebases, NoneIsNoState, NamesAreNoCommits
<1>1. /\ n \in FilesOver(C) /\ n.head = v.head /\ n.branch = v.branch /\ n.stash = v.stash
      /\ n.mergeHead = v.mergeHead /\ n.rebase = s
  BY <1>0 DEF FilesOver
<1>2. Tip(n) = Tip(v) /\ Original(n) = Tip(v) /\ Original(v) = None
  BY <1>0, <1>1 DEF Tip, Original
<1>3. m \in Seq(Writes(C)) /\ [at |-> "rebase", to |-> s] \in Writes(C)
  BY OneWrite DEF FilesOver, Writes, Holding, MoveOf, Put
<1>4. ASSUME NEW u \in FilesOver(C), u.head = v.head, u.branch = v.branch,
             Tip(u) \in History(h, {c}) \/ Tip(u) = Original(u)
      PROVE  Safe(h, u, m)
  <2>1. MoveOf(u, c) = m
    BY <1>4 DEF MoveOf
  <2>2. <<>> \in Seq(Writes(1..Len(h))) /\ Safe(h, Moved(u, c), <<>>)
    BY EmptySeq, SafeEmpty
  <2>3. Safe(h, u, MoveOf(u, c) \o <<>>)
    BY <1>4, <2>2, SafeMove
  <2>4. m \o <<>> = m
    <3> HIDE DEF m
    <3> QED BY <1>3, ConcatEmptySeq
  <2> QED BY <2>1, <2>3, <2>4
<1>5. ASSUME Tip(v) \in History(h, {c}) PROVE Safe(h, v, t \o m)
  <2>1. \A u \in FilesOver(C) : Alike(u, v) => Safe(h, u, m)
    <3> SUFFICES ASSUME NEW u \in FilesOver(C), Alike(u, v) PROVE Safe(h, u, m)
      OBVIOUS
    <3>1. u.head = v.head /\ u.branch = v.branch /\ Tip(u) = Tip(v)
      BY DEF Alike, Tip
    <3> HIDE DEF C, m
    <3> QED BY <1>4, <1>5, <3>1
  <2> HIDE DEF m
  <2> QED BY <1>0, <1>3, <2>1, SafeGentle
<1>6. Safe(h, n, t \o m) /\ t \o m \in Seq(Writes(C))
  <2>1. \A u \in FilesOver(C) : Alike(u, n) => Safe(h, u, m)
    <3> SUFFICES ASSUME NEW u \in FilesOver(C), Alike(u, n) PROVE Safe(h, u, m)
      OBVIOUS
    <3>1. u.head = v.head /\ u.branch = v.branch /\ Tip(u) = Original(u)
      BY <1>1, <1>2 DEF Alike, Tip
    <3> HIDE DEF C, m
    <3> QED BY <1>4, <3>1
  <2>2. t \in Seq(Gentle(Original(n), C)) /\ n \in FilesOver(C)
    BY <1>1
  <2>3. t \in Seq(Writes(C))
    BY <2>2, GentleWrites
  <2> HIDE DEF m, n, C
  <2> QED BY <1>0, <1>3, <2>1, <2>2, <2>3, SafeGentle, Joined
<1>7. Keeps(h, v, n)
  <2>1. \A x \in Roots(v) : x \in Roots(n)
    BY <1>1, <1>2 DEF Roots
  <2> HIDE DEF n
  <2> QED BY <1>1, <2>1, KeepsWhen
<1>8. Safe(h, v, Put("rebase", s) \o (t \o m))
  <2> DEFINE q == t \o m
  <2>1. Safe(h, n, q) /\ q \in Seq(Writes(C))
    BY <1>6
  <2> HIDE DEF q, C
  <2>2. Safe(h, v, Put("rebase", s) \o q)
    BY <1>3, <1>7, <2>1, SafePut
  <2> QED BY <2>2 DEF q
<1> QED BY <1>5, <1>8

LEMMA RebasingKeeps == ASSUME TypeInv, Rebasing PROVE KeepInv'
<1> DEFINE o == Original(files)
<1>0. /\ files.index \in Indexes /\ files.index.staged \in Tree
      /\ <<>> \in Seq(Gentle(o, More)) /\ <<>> \in Seq(Gentle(o, Commits))
      /\ Commits \subseteq More /\ Commits \subseteq Commits
      /\ Dated(log) /\ files \in FilesOver(1..Len(log)) /\ Commits = 1..Len(log)
  BY MoreFacts, Facts, PutGentle, RecordedIsDated DEF TypeInv, Commits
<1>1. ASSUME NEW onto \in Tips, Rebase(onto) PROVE KeepInv'
  <2>1. HeadSha \in Commits /\ onto \in Commits /\ files.head \in Branches /\ files.rebase = None
    BY <1>1, Facts, NamedAreCommits DEF Rebase, Ready, Operation
  <2> DEFINE path(base) == FirstParents(log, HeadSha, base)
             state(base) == [branch   |-> files.head,
                             original |-> HeadSha,
                             onto     |-> onto,
                             pending  |-> [i \in DOMAIN path(base) |-> path(base)[Len(path(base)) + 1 - i]],
                             current  |-> None]
             t == ReplaceTracked(TreeAt(onto))
             moved == t \o SetBranch(files.head, onto)
  <2>2. PICK base \in MergeBases(log, HeadSha, onto) :
            \/ base = HeadSha /\ Run("rebase", moved, "end", <<>>)
            \/ Run("rebase", StateFirst(Put("rebase", state(base)), moved), "replay", <<>>)
    BY <1>1, Zenon DEF Rebase
  <2>3. base = HeadSha => HeadSha \in History(log, {onto})
    BY <1>0, <1>1, <2>1, BasesAreCommits DEF Rebase
  <2>4. \A x : t \in Seq(Gentle(x, 1..Len(log)))
    BY <2>1, TreesTyped, <1>0, CommonGentle
  <2>5. state(base) \in Rebases(Commits) /\ state(base).original = HeadSha
    <3>1. path(base) \in Seq(Commits)
      BY <2>1, FirstParentsTyped DEF TypeInv, Commits
    <3> HIDE DEF path
    <3>2. [i \in DOMAIN path(base) |-> path(base)[Len(path(base)) + 1 - i]] \in Seq(Commits)
      BY <3>1, Turned
    <3> QED BY <2>1, <3>2 DEF Rebases
  <2> HIDE DEF state, t
  <2>6. SetBranch(files.head, onto) = MoveOf(files, onto)
    BY <2>1 DEF SetBranch, MoveOf
  <2>7. /\ Safe(log, files, Put("rebase", state(base)) \o (t \o MoveOf(files, onto)))
        /\ HeadSha \in History(log, {onto}) => Safe(log, files, t \o MoveOf(files, onto))
    <3>1. Tip(files) = HeadSha /\ Tip(files) # None
      BY <1>1, TipIsHead DEF Rebase
    <3>2. onto \in 1..Len(log) /\ state(base) \in Rebases(1..Len(log))
      BY <1>0, <2>1, <2>5
    <3> QED BY <1>0, <2>1, <2>4, <2>5, <3>1, <3>2, SafeRebase
  <2>8. CASE base = HeadSha /\ Run("rebase", moved, "end", <<>>)
    <3>1. Safe(log, files, moved)
      BY <2>3, <2>6, <2>7, <2>8
    <3> HIDE DEF moved
    <3> QED BY <2>8, <3>1, AloneKeeps
  <2>9. CASE Run("rebase", StateFirst(Put("rebase", state(base)), moved), "replay", <<>>)
    <3> DEFINE all == Put("rebase", state(base)) \o moved
    <3>1. Run("rebase", all, "replay", <<>>)
      BY <2>9 DEF StateFirst
    <3>2. Safe(log, files, all)
      BY <2>6, <2>7
    <3> HIDE DEF all
    <3> QED BY <3>1, <3>2, AloneKeeps
  <2> QED BY <2>2, <2>8, <2>9
<1>2. ASSUME RebaseContinue PROVE KeepInv'
  <2> DEFINE e == Record(files.index.staged, HeadAndMergeHead, log[files.rebase.current].msg)
  <2>1. files.rebase # None
    BY <1>2 DEF RebaseContinue
  <2>2. \/ Run("rebase_continue", <<>>, "replay", <<>>)
        \/ Run("rebase_continue", NotStopped, "replay", <<>>)
        \/ /\ files.rebase.current # None
           /\ Run("rebase_continue", Committed(files.index) \o NotStopped, "replay", <<e>>)
    BY <1>2 DEF RebaseContinue
  <2>3. NotStopped \in Seq(Gentle(o, Commits)) /\ NotStopped \in Seq(Gentle(o, More))
    <3> DEFINE s == [files.rebase EXCEPT !.current = None]
    <3>1. files.rebase \in Rebases(Commits) /\ files.rebase \in Rebases(More)
      BY <1>0, <2>1, RebaseTyped
    <3>2. s \in Rebases(Commits) /\ s \in Rebases(More) /\ s.original = o
      BY <2>1, <3>1 DEF Rebases, Original
    <3> HIDE DEF s, o
    <3> QED BY <3>2, PutGentle DEF NotStopped, s
  <2>4. CASE Run("rebase_continue", <<>>, "replay", <<>>)
    BY <2>4, SafeEmpty, AloneKeeps
  <2>5. CASE Run("rebase_continue", NotStopped, "replay", <<>>)
    BY <2>3, <2>5, GentleKeeps, AloneKeeps
  <2>6. CASE files.rebase.current # None
             /\ Run("rebase_continue", Committed(files.index) \o NotStopped, "replay", <<e>>)
    <3>1. files.rebase.current \in Commits
      BY <2>1, <2>6, <1>0, RebaseTyped DEF Rebases
    <3>2. log[files.rebase.current].msg \in Nat \cup {None}
      BY <3>1, TreesTyped
    <3>3. Joining(e)
      BY <1>0, <3>2, RecordsJoin
    <3> HIDE DEF e, o
    <3>4. Safe(log \o <<e>>, files, Committed(files.index) \o NotStopped)
      BY <1>0, <2>3, <3>3, SafeConcluding DEF o
    <3> QED BY <2>6, <3>4, RunKeeps
  <2> QED BY <2>2, <2>4, <2>5, <2>6
<1>3. ASSUME RebaseSkip \/ RebaseAbort PROVE KeepInv'
  BY <1>3, RunKeeps DEF Preserving, RebaseSkip, RebaseAbort
<1> QED BY <1>1, <1>2, <1>3 DEF Rebasing

LEMMA OtherRunsKeep ==
    ASSUME NEW cmd, NEW todo, Simple(cmd, todo),
           cmd \in {"reset", "reset_path", "checkout_path", "checkout", "checkout_orphan", "branch",
                    "branch_delete", "stash_pop", "stash_apply", "stash_drop", "stash_branch",
                    "stash_clear", "clean"}
    PROVE  KeepInv'
BY RunKeeps DEF Preserving, Simple

LEMMA BisectingKeeps == ASSUME Bisecting PROVE KeepInv'
BY RunKeeps DEF Preserving, Bisecting, BisectStart, BisectMark, BisectReset

\* A branch has its new name before it loses the old one, HEAD between the two.
LEMMA SafeRename ==
    ASSUME TypeInv, NEW b \in Branches, NEW new \in Branches, files.branch[b] # None, files.branch[new] = None
    PROVE  LET both == [files.branch EXCEPT ![new] = files.branch[b]]
           IN  Safe(log, files, Put("branch", both) \o (IF files.head = b THEN Put("head", new) ELSE <<>>)
                                \o Put("branch", [both EXCEPT ![b] = None]))
<1> DEFINE C == Commits
           both == [files.branch EXCEPT ![new] = files.branch[b]]
           one == [both EXCEPT ![b] = None]
           u == [files EXCEPT !["branch"] = both]
           h == IF files.head = b THEN new ELSE files.head
           v == [u EXCEPT !["head"] = h]
           w == [v EXCEPT !["branch"] = one]
           x == IF files.head = b THEN Put("head", new) ELSE <<>>
           z == Put("branch", one)
<1>0. /\ C = 1..Len(log) /\ C \subseteq Nat /\ Dated(log) /\ files \in FilesOver(C) /\ b # new
      /\ files.branch \in [Branches -> C \cup {None}] /\ files.head \in Branches \cup C
  BY RecordedIsDated, Facts DEF TypeInv, Commits
<1>1. both \in [Branches -> C \cup {None}] /\ both[new] = files.branch[b] /\ both[b] = files.branch[b]
      /\ \A y \in Branches : y # new => both[y] = files.branch[y]
  BY <1>0
<1> HIDE DEF both, C
<1>2. one \in [Branches -> C \cup {None}] /\ one[b] = None /\ \A y \in Branches : y # b => one[y] = both[y]
  BY <1>1
<1> HIDE DEF one
<1>3. h \in Branches \cup C /\ (files.head \in Branches => h \in Branches) /\ h # b
      /\ (files.head \notin Branches => h = files.head /\ h \notin Branches)
  BY <1>0
<1>4. /\ u \in FilesOver(C) /\ u.head = files.head /\ u.branch = both /\ u.stash = files.stash
      /\ u.mergeHead = files.mergeHead /\ u.rebase = files.rebase
  BY <1>0, <1>1 DEF FilesOver
<1> HIDE DEF u
<1>5. /\ v \in FilesOver(C) /\ v.head = h /\ v.branch = both /\ v.stash = files.stash
      /\ v.mergeHead = files.mergeHead /\ v.rebase = files.rebase
  <2> HIDE DEF h
  <2> QED BY <1>3, <1>4 DEF FilesOver
<1> HIDE DEF v
<1>6. /\ w \in FilesOver(C) /\ w.head = h /\ w.branch = one /\ w.stash = files.stash
      /\ w.mergeHead = files.mergeHead /\ w.rebase = files.rebase
  <2> HIDE DEF h
  <2> QED BY <1>2, <1>5 DEF FilesOver
<1> HIDE DEF w
<1>7. Keeps(log, files, u)
  BY <1>0, <1>1, <1>4, KeepsWhen DEF Tip, Roots, Original
<1>8. Keeps(log, u, v)
  <2>1. Tip(u) = Tip(v)
    BY <1>1, <1>3, <1>4, <1>5 DEF Tip
  <2>2. Roots(u) = Roots(v)
    <3> HIDE DEF h
    <3> QED BY <1>4, <1>5, <2>1 DEF Roots, Original
  <2> QED BY <2>2 DEF Keeps
<1>9. Keeps(log, v, w)
  <2>1. Tip(w) = Tip(v)
    BY <1>2, <1>3, <1>5, <1>6 DEF Tip
  <2>2. \A a \in Branches : \E c \in Branches : both[a] = one[c]
    BY <1>0, <1>1, <1>2
  <2>3. ASSUME NEW y \in Roots(v) PROVE y \in Roots(w)
    <3> HIDE DEF h
    <3> QED BY <1>5, <1>6, <2>1, <2>2 DEF Roots, Original
  <2> QED BY <1>0, <1>5, <1>6, <2>3, KeepsWhen
<1>10. /\ [at |-> "branch", to |-> both] \in Writes(C) /\ [at |-> "branch", to |-> one] \in Writes(C)
       /\ [at |-> "head", to |-> new] \in Writes(C)
  BY <1>1, <1>2 DEF Writes, Holding
<1>11. z \in Seq(Writes(C)) /\ <<>> \in Seq(Writes(C))
  BY <1>10, OneWrite, EmptySeq DEF Put
<1>12. Safe(log, v, z)
  <2>1. Safe(log, w, <<>>)
    BY SafeEmpty
  <2>2. Safe(log, v, Put("branch", one) \o <<>>)
    BY <1>9, <1>10, <1>11, <2>1, SafePut DEF w
  <2>3. z \o <<>> = z
    <3> HIDE DEF z
    <3> QED BY <1>11, ConcatEmptySeq
  <2> QED BY <2>2, <2>3
<1> HIDE DEF z
<1>13. Safe(log, u, x \o z) /\ x \in Seq(Writes(C)) /\ x \o z \in Seq(Writes(C))
  <2>1. CASE files.head = b
    <3>1. [u EXCEPT !["head"] = new] = v
      BY <2>1 DEF v
    <3>2. x = Put("head", new)
      BY <2>1
    <3>3. Safe(log, u, Put("head", new) \o z)
      BY <1>8, <1>10, <1>11, <1>12, <3>1, SafePut
    <3>4. x \in Seq(Writes(C))
      BY <1>10, <3>2, OneWrite DEF Put
    <3>5. x \o z \in Seq(Writes(C))
      <4> HIDE DEF x
      <4> QED BY <1>11, <3>4, Joined
    <3> QED BY <3>2, <3>3, <3>4, <3>5
  <2>2. CASE files.head # b
    <3>1. v = u
      BY <1>4, <2>2 DEF v, FilesOver
    <3>2. x = <<>> /\ x \o z = z
      BY <1>11, <2>2, ConcatEmptySeq
    <3> QED BY <1>11, <1>12, <3>1, <3>2
  <2> QED BY <2>1, <2>2
<1> HIDE DEF x
<1>14. Safe(log, files, Put("branch", both) \o (x \o z))
  <2> DEFINE s == x \o z
  <2>1. Safe(log, [files EXCEPT !["branch"] = both], s) /\ s \in Seq(Writes(C))
        /\ Keeps(log, files, [files EXCEPT !["branch"] = both])
    BY <1>7, <1>13 DEF u
  <2> HIDE DEF s
  <2>2. Safe(log, files, Put("branch", both) \o s)
    BY <1>10, <2>1, SafePut
  <2> QED BY <2>2 DEF s
<1>15. (Put("branch", both) \o x) \o z = Put("branch", both) \o (x \o z)
  <2> DEFINE a == Put("branch", both)
  <2>1. a \in Seq(Writes(C))
    BY <1>10, OneWrite DEF Put
  <2> HIDE DEF a
  <2>2. Cat(Cat(a, x), z) = Cat(a, Cat(x, z))
    BY <1>11, <1>13, <2>1, Joins
  <2> QED BY <2>2 DEF Cat, a
<1>16. Safe(log, files, (Put("branch", both) \o x) \o z)
  BY <1>14, <1>15, Zenon
<1> QED BY <1>16 DEF x, z, both, one

LEMMA MovingKeeps == ASSUME TypeInv, Moving PROVE KeepInv'
<1>1. ASSUME NEW b \in Branches, NEW new \in Branches, RenameBranch(b, new) PROVE KeepInv'
  <2> DEFINE both == [files.branch EXCEPT ![new] = files.branch[b]]
             all == Put("branch", both) \o (IF files.head = b THEN Put("head", new) ELSE <<>>)
                    \o Put("branch", [both EXCEPT ![b] = None])
  <2>1. files.branch[b] # None /\ files.branch[new] = None /\ Run("branch_rename", all, "end", <<>>)
    BY <1>1 DEF RenameBranch, Simple
  <2>2. Safe(log, files, all)
    BY <2>1, SafeRename
  <2> HIDE DEF all
  <2> QED BY <2>1, <2>2, AloneKeeps
<1>2. ASSUME NEW mode, NEW c, Reset(mode, c) PROVE KeepInv'
  BY <1>2, OtherRunsKeep DEF Reset
<1>3. ASSUME NEW p, NEW c, ResetPath(p, c) \/ CheckoutPath(p, c) PROVE KeepInv'
  BY <1>3, OtherRunsKeep DEF ResetPath, CheckoutPath
<1>4. ASSUME NEW head, NEW c, Checkout(head, c) \/ CreateBranch(head, c) PROVE KeepInv'
  BY <1>4, OtherRunsKeep DEF Checkout, CreateBranch
<1>5. ASSUME NEW b, CheckoutOrphan(b) PROVE KeepInv'
  BY <1>5, OtherRunsKeep DEF CheckoutOrphan
<1>6. ASSUME NEW b, DeleteBranch(b) PROVE KeepInv'
  <2>1. ASSUME NEW todo, Simple("branch_delete", todo) PROVE KeepInv'
    BY <2>1, OtherRunsKeep
  <2> QED BY <1>6, <2>1, Zenon DEF DeleteBranch
<1> QED BY <1>1, <1>2, <1>3, <1>4, <1>5, <1>6, Zenon DEF Moving

\* The new entry of the stack names the one it is put upon.
LEMMA PushIsSafe ==
    ASSUME TypeInv, NEW how \in {"all", "keep_index", "staged"}, StashPush(how) PROVE KeepInv'
<1> DEFINE c == NewCommit + 1
           C == 1..(Len(log) + 2)
           n == [files EXCEPT !["stash"] = c]
<1>1. PICK s : /\ Cleans(s)
               /\ Run("stash_push", Put("stash", NewCommit + 1) \o s, "end", <<StashIndex, StashTop>>)
               /\ work' = files.worktree
  BY StashPushes
<1>2. /\ job' = [cmd |-> "stash_push", todo |-> Put("stash", c) \o s, then |-> "end"]
      /\ log' = log \o <<StashIndex, StashTop>> /\ files' = files
  BY <1>1 DEF Run
<1>3. c \in C /\ C \subseteq Nat /\ c # None
  BY Facts, NamesAreNoCommits DEF NewCommit
<1>4. Put("stash", c) \o s \in Seq(Writes(C)) /\ s \in Seq(Writes(C)) /\ [at |-> "stash", to |-> c] \in Writes(C)
  <2> HIDE DEF C, c
  <2>1. Put("stash", c) \in Seq(Holding(C)) /\ s \in Seq(Holding(C))
    BY <1>1, <1>3, PutTyped, CleansTyped
  <2> QED BY <1>3, <2>1, Joined, HoldingWrites DEF Writes, Holding
<1>5. Recorded(log') /\ Commits' = C /\ log'[c] = StashTop
  <2>1. work' \in Tree \cup {None}
    BY <1>1, Facts
  <2> DEFINE todo == Put("stash", c) \o s
  <2>2. job' = [cmd |-> "stash_push", todo |-> todo, then |-> "end"] /\ todo \in Seq(Writes(1..(Len(log) + 2)))
    BY <1>2, <1>4
  <2> HIDE DEF todo
  <2>3. TypeInv' /\ Commits' = 1..(Len(log) + 2) /\ log'[NewCommit + 1] = StashTop
    BY <1>2, <2>1, <2>2, StashRecords, StartsRecordingTwo
  <2> QED BY <2>3 DEF TypeInv
<1>6. Dated(log') /\ 1..Len(log') = C /\ files \in FilesOver(C)
  BY Facts, <1>5, RecordedIsDated, MoreCommits DEF TypeInv, Commits
<1>7. files.stash # None => files.stash \in History(log', {c})
  <2> SUFFICES ASSUME files.stash # None PROVE files.stash \in History(log', {c})
    OBVIOUS
  <2> DEFINE a == One(HeadSha) \o <<NewCommit>>
             ps == a \o <<files.stash>>
  <2>1. StashTop.parents = ps
    BY DEF StashTop, Record, One
  <2>2. <<files.stash>> \in Seq(More) /\ a \in Seq(More)
    BY Facts, MoreFacts, OneWrite, EmptySeq, Joined DEF One
  <2> HIDE DEF a
  <2>3. Len(a) + 1 \in DOMAIN ps /\ ps[Len(a) + 1] = files.stash
    <3> DEFINE t == <<files.stash>>
    <3>1. t \in Seq(More) /\ Len(t) = 1 /\ t[1] = files.stash
      BY <2>2
    <3> HIDE DEF t
    <3>2. Len(a \o t) = Len(a) + 1 /\ (a \o t)[Len(a) + 1] = t[1] /\ Len(a) \in Nat /\ a \o t \in Seq(More)
      <4> DEFINE q == a \o t
      <4>1. Len(a) \in Nat
        BY <2>2, LenProperties
      <4>2. /\ q \in Seq(More) /\ Len(q) = Len(a) + Len(t)
            /\ \A i \in 1..(Len(a) + Len(t)) : q[i] = IF i <= Len(a) THEN a[i] ELSE t[i - Len(a)]
        BY <2>2, <3>1, ConcatProperties
      <4> HIDE DEF q
      <4>3. Len(a) + 1 \in 1..(Len(a) + Len(t)) /\ ~(Len(a) + 1 <= Len(a)) /\ (Len(a) + 1) - Len(a) = 1
        BY <3>1, <4>1
      <4>4. q[Len(a) + 1] = t[1]
        BY <4>2, <4>3
      <4>5. Len(q) = Len(a) + 1 /\ q \in Seq(More)
        BY <3>1, <4>2
      <4> QED BY <4>1, <4>4, <4>5 DEF q
    <3>3. DOMAIN (a \o t) = 1..Len(a \o t)
      BY <3>2, LenProperties
    <3>4. Len(a) + 1 \in DOMAIN (a \o t)
      BY <3>2, <3>3
    <3> QED BY <3>1, <3>2, <3>4 DEF t
  <2> HIDE DEF ps
  <2>4. files.stash \in Parents(log', c)
    <3> HIDE DEF c
    <3> QED BY <1>5, <2>1, <2>3 DEF Parents
  <2>5. c \in History(log', {c}) /\ Closed(log', History(log', {c}))
    <3>1. {c} \in SUBSET (1..Len(log'))
      BY <1>3, <1>6
    <3> HIDE DEF c
    <3> QED BY <1>6, <3>1, HistoryCloses
  <2> HIDE DEF c
  <2> QED BY <2>4, <2>5 DEF Closed
<1> HIDE DEF c, C
<1>8. /\ n \in FilesOver(C) /\ n.head = files.head /\ n.branch = files.branch /\ n.stash = c
      /\ n.mergeHead = files.mergeHead /\ n.rebase = files.rebase
  BY <1>3, <1>6 DEF FilesOver
<1> HIDE DEF n
<1>9. Keeps(log', files, n)
  <2>1. \A x \in Roots(files) : x \in Roots(n) \/ (c \in Roots(n) /\ x \in History(log', {c}))
    BY <1>3, <1>7, <1>8 DEF Roots, Tip, Original
  <2> DEFINE g == log'
  <2>2. /\ Dated(g) /\ files \in FilesOver(1..Len(g)) /\ n \in FilesOver(1..Len(g))
        /\ \A x \in Roots(files) : x \in Roots(n) \/ \E y \in Roots(n) : x \in History(g, {y})
    BY <1>6, <1>8, <2>1
  <2> HIDE DEF g
  <2>3. Keeps(g, files, n)
    BY <2>2, KeepsWhen
  <2> QED BY <2>3 DEF g
<1>10. Safe(log', n, s)
  <2>1. s \in Seq(Gentle(Original(n), C))
    <3> DEFINE W == [at : {"worktree"}, to : Tree] \cup [at : {"index"}, to : Indexes]
    <3>1. W \subseteq Gentle(Original(n), C) /\ s \in Seq(W)
      BY <1>1 DEF Gentle, Cleans
    <3> HIDE DEF W
    <3> QED BY <3>1, SeqMonotonic
  <2> QED BY <1>3, <1>8, <2>1, SafeGentleAlone
<1>11. Safe(log', files, Put("stash", c) \o s)
  BY <1>4, <1>9, <1>10, SafePut DEF n
<1>12. KeepInv' = (job'.cmd \in Preserving => Safe(log', files', job'.todo))
  BY DEF KeepInv, Preserving
<1>13. job'.todo = Put("stash", c) \o s /\ files' = files
  BY <1>2 DEF c
<1> QED BY <1>11, <1>12, <1>13

LEMMA StashingKeeps == ASSUME TypeInv, Stashing PROVE KeepInv'
<1>1. ASSUME NEW i, NEW restoreIndex, StashApply(i, restoreIndex) PROVE KeepInv'
  BY <1>1, OtherRunsKeep DEF StashApply
<1>2. ASSUME NEW i, NEW b, StashDrop(i) \/ StashBranch(b, i) PROVE KeepInv'
  BY <1>2, OtherRunsKeep DEF StashDrop, StashBranch
<1>3. ASSUME StashPop \/ StashClear \/ Untrack PROVE KeepInv'
  BY <1>3, OtherRunsKeep DEF StashPop, StashClear, Untrack
<1>4. ASSUME NEW i, StashDrop(i) PROVE KeepInv'
  BY <1>4, OtherRunsKeep DEF StashDrop
<1> QED BY <1>1, <1>2, <1>3, <1>4, PushIsSafe, Zenon DEF Stashing

\* One round of a rebase: the original stays what it was.
LEMMA ReplayKeeps == ASSUME TypeInv, Replay PROVE KeepInv'
<1> DEFINE source == Head(files.rebase.pending)
           picking == [files.rebase EXCEPT !.pending = Rest(@), !.current = source]
           picked == Put("rebase", [picking EXCEPT !.current = None])
           start == Put("rebase", picking)
           r == ThreeWay(ParentTree(source), TreeAt(source))
           o == Original(files)
           e == Record(r.index.staged, HeadAndMergeHead, log[source].msg)
<1>1. /\ job.then = "replay" /\ job.todo = <<>> /\ files.rebase.pending # <<>>
      /\ files' = files
      /\ \/ job' = [job EXCEPT !.todo = start \o Conflicted(r), !.then = "end"] /\ log' = log \o <<>>
         \/ job' = [job EXCEPT !.todo = start \o (Applied(r) \o picked), !.then = "replay"] /\ log' = log \o <<>>
         \/ /\ job' = [job EXCEPT !.todo = start \o (Applied(r) \o Committed(r.index) \o picked),
                                  !.then = "replay"]
            /\ log' = log \o <<e>>
  BY Zenon DEF Replay
<1>2. files.rebase # None /\ job = [cmd |-> job.cmd, todo |-> job.todo, then |-> job.then]
  <2>0. job.todo = <<>>
    BY Zenon DEF Replay
  <2>1. ~ \E i \in DOMAIN job.todo : job.todo[i].at = "rebase"
    BY <2>0
  <2> QED BY <1>1, <2>1 DEF TypeInv
<1>3. files.rebase \in Rebases(Commits) /\ files.rebase.pending \in Seq(Commits)
  BY <1>2, RebaseTyped
<1>4. source \in Commits /\ Tail(files.rebase.pending) \in Seq(Commits)
  BY <1>1, <1>3, HeadTailProperties
<1>5. /\ picking \in Rebases(Commits) /\ [picking EXCEPT !.current = None] \in Rebases(Commits)
      /\ picking.original = o /\ [picking EXCEPT !.current = None].original = o
  <2> HIDE DEF source
  <2>1. picking \in Rebases(Commits) /\ picking.original = o
    BY <1>2, <1>3, <1>4 DEF Rebases, Rest, Original
  <2> HIDE DEF picking
  <2> QED BY <2>1 DEF Rebases
<1>6. r \in Outcomes /\ log[source].msg \in Nat \cup {None}
  BY <1>4, TreesTyped, ThreeWayTyped
<1>7. /\ start \in Seq(Gentle(o, Commits)) /\ picked \in Seq(Gentle(o, Commits))
      /\ start \in Seq(Gentle(o, More)) /\ picked \in Seq(Gentle(o, More))
  <2> HIDE DEF picking, o
  <2>1. start \in Seq(Gentle(o, Commits)) /\ picked \in Seq(Gentle(o, Commits))
    BY <1>5, PutGentle
  <2>2. picking \in Rebases(More) /\ [picking EXCEPT !.current = None] \in Rebases(More)
    BY MoreFacts, SeqMonotonic, <1>5 DEF Rebases
  <2>3. start \in Seq(Gentle(o, More)) /\ picked \in Seq(Gentle(o, More))
    BY <1>5, <2>2, PutGentle
  <2> QED BY <2>1, <2>3
<1> HIDE DEF r, start, picked, source
<1>8. /\ Applied(r) \in Seq(Gentle(o, Commits)) /\ Conflicted(r) \in Seq(Gentle(o, Commits))
      /\ Applied(r) \in Seq(Gentle(o, More)) /\ r.index \in Indexes /\ r.index.staged \in Tree
  BY <1>6, MoreFacts, CommonGentle, PickWrites
<1>9. Joining(e)
  BY <1>6, <1>8, RecordsJoin
<1> HIDE DEF e, o
<1>10. /\ Safe(log, files, start \o Conflicted(r)) /\ Safe(log, files, start \o (Applied(r) \o picked))
       /\ Safe(log \o <<e>>, files, start \o (Applied(r) \o Committed(r.index) \o picked))
  BY <1>7, <1>8, Joined, <1>9, SafeConcluding, GentleKeeps DEF o
<1>11. log \o <<>> = log
  BY NothingAdded
<1>12. Safe(log', files', job'.todo)
  <2> DEFINE a == start \o Conflicted(r)
             b == start \o (Applied(r) \o picked)
             c == start \o (Applied(r) \o Committed(r.index) \o picked)
  <2>1. Safe(log, files, a) /\ Safe(log, files, b) /\ Safe(log \o <<e>>, files, c)
    BY <1>10
  <2>2. \/ job'.todo = a /\ log' = log
        \/ job'.todo = b /\ log' = log
        \/ job'.todo = c /\ log' = log \o <<e>>
    <3> HIDE DEF a, b, c
    <3> QED BY <1>1, <1>2, <1>11 DEF a, b, c
  <2> HIDE DEF a, b, c
  <2> QED BY <1>1, <2>1, <2>2
<1>13. KeepInv' = (job'.cmd \in Preserving => Safe(log', files', job'.todo))
  BY DEF KeepInv, Preserving
<1> QED BY <1>12, <1>13

\* The end of a rebase: the one write that may forget.
LEMMA EndReplayKeeps == ASSUME TypeInv, EndReplay PROVE KeepInv'
<1> DEFINE n == [files EXCEPT !["rebase"] = None]
           u == [files.index EXCEPT !.unmerged = {}]
           t == IF files.index.unmerged = {} THEN <<>> ELSE Put("index", u)
           C == Commits
<1>1. job' = [job EXCEPT !.todo = Clear("rebase", files.index), !.then = "end"] /\ files' = files /\ log' = log
      /\ job = [cmd |-> job.cmd, todo |-> job.todo, then |-> job.then]
  BY DEF EndReplay, TypeInv
<1>2. \/ Clear("rebase", files.index) = <<>>
      \/ files.rebase # None /\ Clear("rebase", files.index) = Put("rebase", None) \o t
  BY DEF Clear
<1>3. files.rebase # None => Keeps(log, files, n)
  BY DEF TypeInv, FilesOver, Keeps
<1>4. n \in FilesOver(C) /\ C \subseteq Nat
  BY DEF TypeInv, FilesOver, Commits
<1>5. t \in Seq(Gentle(Original(n), C))
  <2>1. u \in Indexes
    BY Facts, IndexTyped
  <2> HIDE DEF u, n
  <2> QED BY <2>1, PutGentle
<1> HIDE DEF n, t, C
<1>6. Safe(log, n, t)
  BY <1>4, <1>5, SafeGentleAlone
<1>7. [at |-> "rebase", to |-> None] \in Writes(C) /\ t \in Seq(Writes(C))
  BY <1>5, GentleWrites DEF Writes
<1>8. Safe(log, files, Clear("rebase", files.index))
  BY <1>3, <1>6, <1>7, SafePut, <1>2, SafeEmpty DEF n
<1>9. KeepInv' = (job'.cmd \in Preserving => Safe(log', files', job'.todo))
  BY DEF KeepInv, Preserving
<1> QED BY <1>1, <1>8, <1>9

LEMMA StepGoesOn == ASSUME TypeInv, KeepInv, Step PROVE KeepInv'
BY SafeGoesOn DEF Step, TypeInv, KeepInv, Preserving, Idle, Written

LEMMA NextKeeps == ASSUME TypeInv, KeepInv, [Next]_vars PROVE KeepInv'
<1>1. KeepInv' = (job'.cmd \in Preserving => Safe(log', files', job'.todo))
  BY DEF KeepInv, Preserving
<1>2. CASE UNCHANGED vars
  BY <1>1, <1>2 DEF vars, KeepInv
<1>3. CASE Interrupted
  BY <1>1, <1>3 DEF Interrupted, Idle, Preserving
<1>4. CASE Next /\ ~Interrupted
  BY <1>4, StepGoesOn, ReplayKeeps, EndReplayKeeps, EditingKeeps, CommittingKeeps, MergingKeeps,
     PickingKeeps, RebasingKeeps, BisectingKeeps, MovingKeeps, StashingKeeps DEF Next, Work
<1> QED BY <1>2, <1>3, <1>4

\* More commits take none out of the history of others.
LEMMA HistoryGrows ==
    ASSUME NEW h, Dated(h), NEW g, Dated(g), Len(h) <= Len(g), \A c \in 1..Len(h) : g[c] = h[c],
           NEW S \in SUBSET (1..Len(h))
    PROVE  History(h, S) \subseteq History(g, S)
<1> DEFINE H == History(g, S)
           C == H \cap (1..Len(h))
<1>1. Len(h) \in Nat /\ Len(g) \in Nat
  BY DEF Dated
<1>2. S \in SUBSET (1..Len(g))
  BY <1>1
<1>3. S \subseteq H /\ Closed(g, H)
  BY <1>2, HistoryCloses
<1> HIDE DEF H
<1>4. Closed(h, C)
  <2> SUFFICES ASSUME NEW x \in C PROVE Parents(h, x) \subseteq C
    BY DEF Closed
  <2>1. Parents(h, x) = Parents(g, x)
    BY DEF Parents
  <2>2. Parents(g, x) \subseteq H
    BY <1>3 DEF Closed
  <2>3. Parents(h, x) \subseteq 1..(x - 1)
    BY DEF Dated
  <2>4. 1..(x - 1) \subseteq 1..Len(h)
    BY <1>1
  <2> QED BY <2>1, <2>2, <2>3, <2>4
<1>5. S \subseteq C
  BY <1>3
<1> HIDE DEF C
<1>6. History(h, S) \subseteq C
  BY <1>4, <1>5, HistoryIsLeast
<1> QED BY <1>6 DEF C, H

LEMMA KeptIsRooted == TypeInv => Kept = History(log, Roots(files))
<1> SUFFICES ASSUME TypeInv PROVE Kept = History(log, Roots(files))
  OBVIOUS
<1>1. files.rebase # None => files.rebase.original # None
  <2> SUFFICES ASSUME files.rebase # None PROVE files.rebase.original \in Commits
    BY Facts
  <2> QED BY RebaseTyped DEF Rebases
<1>2. Tips \cup ({files.stash} \ {None}) \cup ({files.mergeHead} \ {None})
         \cup (IF files.rebase = None THEN {} ELSE {files.rebase.original}) = Roots(files)
  BY <1>1, TipIsHead DEF Tips, Roots, Original
<1> QED BY <1>2 DEF Kept

\* A round of a rebase adds to the commits, or leaves them.
LEMMA ReplayAdds == ASSUME TypeInv, Replay PROVE \E new : log' = log \o new /\ new \in Seq(Entry)
<1> DEFINE source == Head(files.rebase.pending)
           r == ThreeWay(ParentTree(source), TreeAt(source))
           e == Record(r.index.staged, HeadAndMergeHead, log[source].msg)
<1>1. /\ job.then = "replay" /\ job.todo = <<>> /\ files.rebase.pending # <<>>
      /\ log' = log \o <<>> \/ log' = log \o <<e>>
  BY Zenon DEF Replay
<1>2. files.rebase # None
  <2>0. job.todo = <<>>
    BY Zenon DEF Replay
  <2>1. ~ \E i \in DOMAIN job.todo : job.todo[i].at = "rebase"
    BY <2>0
  <2> QED BY <1>1, <2>1 DEF TypeInv
<1>3. source \in Commits
  BY <1>1, <1>2, RebaseTyped, HeadTailProperties
<1>4. e \in Entry
  <2>1. r \in Outcomes /\ log[source].msg \in Nat \cup {None}
    BY <1>3, TreesTyped, ThreeWayTyped
  <2> HIDE DEF r
  <2> QED BY <2>1, PickWrites, ParentsTyped, RecordTyped
<1> HIDE DEF e
<1>5. <<e>> \in Seq(Entry) /\ <<>> \in Seq(Entry)
  BY <1>4, OneWrite, EmptySeq
<1> QED BY <1>1, <1>5

LEMMA StartsIdle ==
    ASSUME Editing \/ Committing \/ Merging \/ Picking \/ Rebasing \/ Bisecting \/ Moving \/ Stashing
    PROVE  job = Idle
<1> USE DEF MayStart, MayEdit
<1>1. CASE Editing
  BY <1>1 DEF Editing, Edit, Add, Rm, Mv, RunEdit
<1>2. CASE Committing
  BY <1>2 DEF Committing, Commit, Amend, CommitOnly
<1>3. CASE Merging
  BY <1>3 DEF Merging, Merge, MergeAbort
<1>4. CASE Picking
  BY <1>4 DEF Picking, CherryPick, CherryContinue, CherryAbort, Revert
<1>5. CASE Rebasing
  BY <1>5 DEF Rebasing, Rebase, RebaseContinue, RebaseSkip, RebaseAbort
<1>6. CASE Bisecting
  BY <1>6 DEF Bisecting, BisectStart, BisectMark, BisectReset
<1>7. CASE Moving
  BY <1>7 DEF Moving, Reset, ResetPath, CheckoutPath, Checkout, CheckoutOrphan, CreateBranch,
              RenameBranch, DeleteBranch
<1>8. CASE Stashing
  BY <1>8 DEF Stashing, StashPush, StashPop, StashClear, Untrack, StashApply, StashDrop, StashBranch
<1> QED BY <1>1, <1>2, <1>3, <1>4, <1>5, <1>6, <1>7, <1>8

\* The commands that make history lose none: whatever of their writes is done, and wherever
\* they are cut short, every commit that could be reached can be reached still, until a rebase
\* that is done forgets the original branch.  (Repository.commit, merge, cherry_pick, revert,
\* rebase, stash_push, rename_branch)
THEOREM NothingForgotten == Spec => NothingIsForgotten
<1> DEFINE Inv == TypeInv /\ KeepInv
<1>1. Init => Inv
  BY InitTyped DEF Init, KeepInv, Idle, Preserving
<1>2. Inv /\ [Next]_vars => Inv'
  BY NextTyped, NextKeeps
<1>3. Inv /\ [Next]_vars => [job.cmd \in Preserving /\ (files.rebase = None \/ files'.rebase # None)
                                => Kept \subseteq Kept']_vars
  <2> SUFFICES ASSUME TypeInv, KeepInv, Next, job.cmd \in Preserving, files.rebase = None \/ files'.rebase # None
               PROVE  Kept \subseteq Kept'
    BY DEF vars
  <2>0. TypeInv'
    BY NextTyped
  <2>1. Kept = History(log, Roots(files)) /\ Kept' = History(log', Roots(files'))
    <3>1. (Kept = History(log, Roots(files)))'
      BY <2>0, KeptIsRooted, PTL
    <3> QED BY <3>1, KeptIsRooted
  <2>2. CASE Step
    BY <2>2, SafeGoesOn, <2>1 DEF Step, Written, KeepInv, Keeps
  <2>3. CASE EndReplay \/ Interrupted
    BY <2>3, <2>1 DEF EndReplay, Interrupted
  <2>4. CASE Replay
    <3>1. files' = files
      BY <2>4 DEF Replay
    <3>2. \E new : log' = log \o new /\ new \in Seq(Entry)
      BY <2>4, ReplayAdds
    <3>3. Len(log) <= Len(log') /\ \A c \in 1..Len(log) : log'[c] = log[c]
      <4>1. PICK new : log' = log \o new /\ new \in Seq(Entry)
        BY <3>2
      <4>2. log \in Seq(Entry)
        BY DEF TypeInv, Recorded, Entry
      <4> DEFINE k == log \o new
      <4>3. Len(log) \in Nat /\ Len(new) \in Nat
        BY <4>1, <4>2, LenProperties
      <4>4. /\ Len(k) = Len(log) + Len(new)
            /\ \A i \in 1..(Len(log) + Len(new)) :
                   k[i] = IF i <= Len(log) THEN log[i] ELSE new[i - Len(log)]
        <5> HIDE DEF Entry
        <5> QED BY <4>1, <4>2, ConcatProperties
      <4>5. log' = k
        BY <4>1
      <4> HIDE DEF k
      <4> QED BY <4>3, <4>4, <4>5
    <3>4. Dated(log) /\ Dated(log') /\ Roots(files) \in SUBSET (1..Len(log))
      BY <2>0, RecordedIsDated, RootsTyped DEF TypeInv, Commits
    <3> DEFINE g == log'
    <3>5. Dated(g) /\ Len(log) <= Len(g) /\ \A c \in 1..Len(log) : g[c] = log[c]
      BY <3>3, <3>4
    <3> HIDE DEF g
    <3>6. History(log, Roots(files)) \subseteq History(g, Roots(files))
      BY <3>4, <3>5, HistoryGrows
    <3> QED BY <2>1, <3>1, <3>6 DEF g
  <2>5. CASE Editing \/ Committing \/ Merging \/ Picking \/ Rebasing \/ Bisecting \/ Moving \/ Stashing
    BY <2>5, StartsIdle DEF Idle, Preserving
  <2> QED BY <2>2, <2>3, <2>4, <2>5 DEF Next, Work
<1> QED BY <1>1, <1>2, <1>3, PTL DEF Spec, NothingIsForgotten

-----------------------------------------------------------------------------
(***************************************************************************)
(* Where the writes of a command lead.                                     *)
(***************************************************************************)
LEMMA LeadsNowhere == ASSUME NEW v PROVE Leads(v, <<>>, v) /\ \A u : Leads(v, <<>>, u) => u = v
<1>1. Len(<<>>) = 0 /\ 1..0 = {}
  OBVIOUS
<1> DEFINE c == [k \in {0} |-> v]
<1>2. c[0] = v
  OBVIOUS
<1> HIDE DEF c
<1> QED BY <1>1, <1>2 DEF Leads

LEMMA LeadsOn ==
    ASSUME NEW W, NEW s \in Seq(W), s # <<>>, NEW v, NEW u, Leads(v, s, u)
    PROVE  Leads(Written(v, Head(s)), Tail(s), u)
<1>1. PICK c : /\ c[0] = v /\ c[Len(s)] = u
               /\ \A k \in 1..Len(s) : c[k] = Written(c[k - 1], s[k])
  BY DEF Leads
<1>2. /\ Len(s) \in Nat /\ Len(s) >= 1 /\ Head(s) = s[1] /\ Len(Tail(s)) = Len(s) - 1
      /\ \A k \in 1..(Len(s) - 1) : Tail(s)[k] = s[k + 1]
  BY HeadTailProperties, LenProperties, EmptySeq
<1> DEFINE d == [k \in 0..(Len(s) - 1) |-> c[k + 1]]
<1>3. d[0] = c[1] /\ d[Len(s) - 1] = c[Len(s)] /\ c[1] = Written(v, Head(s))
  BY <1>2, <1>1
<1>4. ASSUME NEW k \in 1..(Len(s) - 1) PROVE d[k] = Written(d[k - 1], Tail(s)[k])
  BY <1>2, <1>1
<1> HIDE DEF d
<1> QED BY <1>1, <1>2, <1>3, <1>4 DEF Leads

LEMMA LeadsOnce == ASSUME NEW v, NEW f, NEW x PROVE Leads(v, Put(f, x), Written(v, [at |-> f, to |-> x]))
<1> DEFINE w == [at |-> f, to |-> x]
           u == Written(v, w)
           c == [k \in 0..1 |-> IF k = 0 THEN v ELSE u]
<1>1. Put(f, x) = <<w>> /\ Len(<<w>>) = 1 /\ <<w>>[1] = w
  BY DEF Put
<1>2. c[0] = v /\ c[1] = u
  OBVIOUS
<1>3. u = Written(v, w)
  OBVIOUS
<1>4. 1..1 = {1} /\ 1 - 1 = 0
  OBVIOUS
<1> HIDE DEF c, u, w
<1>5. \A k \in 1..Len(<<w>>) : c[k] = Written(c[k - 1], <<w>>[k])
  BY <1>1, <1>2, <1>3, <1>4
<1>6. Leads(v, <<w>>, u)
  BY <1>1, <1>2, <1>5 DEF Leads
<1> QED BY <1>1, <1>6 DEF u, w

LEMMA LeadsBoth ==
    ASSUME NEW W, NEW s \in Seq(W), NEW t \in Seq(W), NEW v, NEW u, NEW x, Leads(v, s, u), Leads(u, t, x)
    PROVE  Leads(v, s \o t, x)
<1>1. PICK c : /\ c[0] = v /\ c[Len(s)] = u
               /\ \A k \in 1..Len(s) : c[k] = Written(c[k - 1], s[k])
  BY DEF Leads
<1>2. PICK d : /\ d[0] = u /\ d[Len(t)] = x
               /\ \A k \in 1..Len(t) : d[k] = Written(d[k - 1], t[k])
  BY DEF Leads
<1> DEFINE q == s \o t
           N == Len(s)
           M == Len(t)
           e == [k \in 0..(N + M) |-> IF k <= N THEN c[k] ELSE d[k - N]]
<1>3. N \in Nat /\ M \in Nat
  BY LenProperties
<1>4. Len(q) = N + M /\ \A i \in 1..(N + M) : q[i] = IF i <= N THEN s[i] ELSE t[i - N]
  BY ConcatProperties
<1> HIDE DEF q
<1>5. \A k \in 0..(N + M) : e[k] = IF k <= N THEN c[k] ELSE d[k - N]
  OBVIOUS
<1> HIDE DEF e, N, M
<1>6. e[0] = v /\ e[N + M] = x
  BY <1>3, <1>1, <1>2, <1>5 DEF N, M
<1>7. ASSUME NEW k \in 1..(N + M) PROVE e[k] = Written(e[k - 1], q[k])
  <2>0. k \in 0..(N + M) /\ k - 1 \in 0..(N + M)
    BY <1>3
  <2>1. CASE k <= N
    BY <1>3, <2>1, <1>4, <1>5, <2>0, <1>1 DEF N
  <2>2. CASE ~(k <= N)
    <3>1. k - N \in 1..M /\ (k - 1) - N = (k - N) - 1
      BY <1>3, <2>2
    <3>2. e[k] = d[k - N] /\ q[k] = t[k - N]
      BY <1>4, <1>5, <2>0, <2>2
    <3>3. e[k - 1] = d[(k - N) - 1]
      <4>1. CASE k - 1 <= N
        <5>1. k - 1 = N /\ (k - N) - 1 = 0
          BY <4>1, <2>2, <1>3
        <5>2. e[k - 1] = c[N]
          BY <5>1, <4>1, <2>0, <1>5
        <5> QED BY <5>1, <5>2, <1>1, <1>2 DEF N
      <4>2. CASE ~(k - 1 <= N)
        BY <4>2, <2>0, <3>1, <1>5
      <4> QED BY <4>1, <4>2
    <3>4. d[k - N] = Written(d[(k - N) - 1], t[k - N])
      BY <1>2, <3>1 DEF M
    <3> QED BY <3>2, <3>3, <3>4
  <2> QED BY <2>1, <2>2
<1>8. \E z : /\ z[0] = v /\ z[Len(q)] = x
             /\ \A k \in 1..Len(q) : z[k] = Written(z[k - 1], q[k])
  BY <1>4, <1>6, <1>7
<1> QED BY <1>8 DEF Leads, q

LEMMA WriteBut ==
    ASSUME NEW v \in FilesOver(Nat), NEW w \in Writes(Nat)
    PROVE  w.at \in Names /\ But(v, Written(v, w), w.at, w.to)
<1>1. w.at \in Names
  BY DEF Writes, Holding, Names
<1>2. Written(v, w) \in FilesOver(Nat)
  BY WriteTyped DEF Written
<1>3. Written(v, w)[w.at] = w.to /\ \A g \in Names \ {w.at} : Written(v, w)[g] = v[g]
  BY <1>1 DEF Written, FilesOver, Names
<1> QED BY <1>1, <1>2, <1>3 DEF But

\* A write, or none where the file is as it should be.
LEMMA LeadsPut ==
    ASSUME NEW v \in FilesOver(Nat), NEW f, NEW x, NEW s \in {<<>>, Put(f, x)},
           [at |-> f, to |-> x] \in Writes(Nat), s = <<>> => v[f] = x
    PROVE  \E u : Leads(v, s, u) /\ But(v, u, f, x)
<1>1. CASE s = <<>>
  BY <1>1, LeadsNowhere DEF But
<1>2. CASE s = Put(f, x)
  <2> DEFINE w == [at |-> f, to |-> x]
  <2>1. w \in Writes(Nat) /\ w.at = f /\ w.to = x
    OBVIOUS
  <2>2. Leads(v, Put(f, x), Written(v, w))
    BY LeadsOnce
  <2> HIDE DEF w
  <2>3. But(v, Written(v, w), f, x)
    BY <2>1, WriteBut
  <2> QED BY <1>2, <2>2, <2>3
<1> QED BY <1>1, <1>2

-----------------------------------------------------------------------------
(***************************************************************************)
(* Writes that leave the operation in progress undisturbed.                *)
(***************************************************************************)
\* A write that fits keeps the operation undisturbed.
LEMMA HeldWrite ==
    ASSUME NEW v \in FilesOver(Nat), NEW a, a.op \in Operations, Held(a, v), NEW w \in Fitting(a)
    PROVE  Held(a, Written(v, w))
<1> DEFINE u == Written(v, w)
<1>1. w \in Writes(Nat) /\ Fits(a, w)
  BY DEF Fitting
<1>2. But(v, u, w.at, w.to)
  BY <1>1, WriteBut
<1> SUFFICES Held(a, u)
  OBVIOUS
<1> HIDE DEF u
<1>3. /\ \A g \in Names \ {w.at} : u[g] = v[g]
      /\ u[w.at] = w.to
  BY <1>2 DEF But
<1>4. /\ w.at # "head" => u.head = v.head
      /\ w.at # "branch" => u.branch = v.branch
      /\ w.at # "index" => u.index = v.index
      /\ w.at # "mergeHead" => u.mergeHead = v.mergeHead
      /\ w.at # "mergeOrig" => u.mergeOrig = v.mergeOrig
      /\ w.at # "cherry" => u.cherry = v.cherry
      /\ w.at # "rebase" => u.rebase = v.rebase
      /\ w.at # "bisect" => u.bisect = v.bisect
  BY <1>3 DEF Names
<1>5. /\ w.at = "head" => u.head = w.to
      /\ w.at = "index" => u.index = w.to
      /\ w.at = "mergeHead" => u.mergeHead = w.to
      /\ w.at = "mergeOrig" => u.mergeOrig = w.to
      /\ w.at = "cherry" => u.cherry = w.to
      /\ w.at = "rebase" => u.rebase = w.to
      /\ w.at = "bisect" => u.bisect = w.to
  BY <1>3
<1>6. CASE a.op = "merge"
  BY <1>1, <1>6, <1>4, <1>5 DEF Fits, Held, Heading, Tip
<1>7. CASE a.op = "cherry-pick"
  BY <1>1, <1>7, <1>4, <1>5 DEF Fits, Held, Heading, Tip
<1>8. CASE a.op = "rebase"
  BY <1>1, <1>8, <1>4, <1>5 DEF Fits, Held
<1>9. CASE a.op = "bisect"
  BY <1>1, <1>9, <1>4, <1>5 DEF Fits, Held
<1> QED BY <1>6, <1>7, <1>8, <1>9 DEF Operations

LEMMA QuietWrite ==
    ASSUME NEW v \in FilesOver(Nat), Calm(v), NEW w \in Quiet PROVE Calm(Written(v, w))
<1> DEFINE u == Written(v, w)
<1>1. But(v, u, w.at, w.to) /\ w.at \notin StateFiles
  BY WriteBut DEF Quiet
<1> HIDE DEF u
<1>2. \A g \in StateFiles : u[g] = v[g]
  BY <1>1 DEF But, Names, StateFiles
<1>3. u.mergeHead = v.mergeHead /\ u.cherry = v.cherry /\ u.rebase = v.rebase /\ u.bisect = v.bisect
  BY <1>2 DEF StateFiles
<1> QED BY <1>3 DEF Calm, u

\* The next write of a command.
LEMMA StandsOn ==
    ASSUME NEW v \in FilesOver(Nat), NEW a, a.op \in Operations, NEW how, NEW then,
           NEW s \in Seq(Writes(Nat)), s # <<>>, Stands(a, how, v, s, then)
    PROVE  Stands(a, how, Written(v, Head(s)), Tail(s), then)
BY HeadTailProperties, QuietWrite, HeldWrite, LeadsOn DEF Stands

\* With nothing left to write, what is to be done is done.
LEMMA StandsDone ==
    ASSUME NEW v, NEW a, NEW how \in {"open", "aborted", "finished"}, NEW then, Stands(a, how, v, <<>>, then)
    PROVE  /\ how = "aborted" => then = "end" /\ Back(a, v)
           /\ how = "finished" => then = "end" /\ Calm(v)
           /\ ~Calm(v) => how = "open" /\ Held(a, v)
BY LeadsNowhere DEF Stands, Back

-----------------------------------------------------------------------------
(***************************************************************************)
(* The writes of a command, put together.                                  *)
(***************************************************************************)
LEMMA PutIn == ASSUME NEW S, NEW f, NEW x, [at |-> f, to |-> x] \in S PROVE Put(f, x) \in Seq(S)
BY OneWrite DEF Put

LEMMA Within == ASSUME NEW S, NEW T, S \subseteq T, NEW s \in Seq(S) PROVE s \in Seq(T)
BY SeqMonotonic

LEMMA WritesAre ==
    /\ \A x \in Branches \cup Nat : [at |-> "head", to |-> x] \in Writes(Nat)
    /\ \A x \in [Branches -> Nat \cup {None}] : [at |-> "branch", to |-> x] \in Writes(Nat)
    /\ \A x \in Indexes : [at |-> "index", to |-> x] \in Writes(Nat)
    /\ \A x \in Tree : [at |-> "worktree", to |-> x] \in Writes(Nat)
    /\ \A x \in Nat \cup {None} : /\ [at |-> "mergeHead", to |-> x] \in Writes(Nat)
                                  /\ [at |-> "mergeOrig", to |-> x] \in Writes(Nat)
    /\ \A x \in SUBSET Paths : [at |-> "conflicts", to |-> x] \in Writes(Nat)
    /\ \A x \in Picks(Nat) \cup {None} : [at |-> "cherry", to |-> x] \in Writes(Nat)
    /\ \A x \in Rebases(Nat) \cup {None} : [at |-> "rebase", to |-> x] \in Writes(Nat)
    /\ \A x \in Bisects(Nat) \cup {None} : [at |-> "bisect", to |-> x] \in Writes(Nat)
BY DEF Writes, Holding

LEMMA WorkingFits ==
    ASSUME NEW a, NEW v
    PROVE  /\ Mild(v) \subseteq Working /\ Working \subseteq Quiet
           /\ a.op # "bisect" => Working \subseteq Fitting(a)
           /\ v.index.unmerged = {} => Mild(v) \subseteq Fitting(a)
BY DEF Mild, Working, Quiet, StateFiles, Fitting, Fits

\* The state files of the operation itself.
LEMMA OwnFits ==
    ASSUME NEW a, a.tip \in Nat
    PROVE  /\ a.op = "merge" => \A x \in Nat \cup {None} : [at |-> "mergeHead", to |-> x] \in Fitting(a)
           /\ a.op = "merge" => \A x \in {None, a.tip} : [at |-> "mergeOrig", to |-> x] \in Fitting(a)
           /\ a.op = "cherry-pick" => \A x \in Picks(Nat) \cup {None} :
                  x = None \/ x.before = a.tip => [at |-> "cherry", to |-> x] \in Fitting(a)
           /\ a.op = "rebase" => \A x \in [Branches -> Nat \cup {None}] : [at |-> "branch", to |-> x] \in Fitting(a)
           /\ a.op = "rebase" => \A f \in {"mergeOrig", "mergeHead", "cherry"} :
                  [at |-> f, to |-> None] \in Fitting(a)
           /\ a.op = "rebase" /\ a.head \in Branches => [at |-> "head", to |-> a.head] \in Fitting(a)
           /\ a.op = "rebase" => \A x \in Rebases(Nat) \cup {None} :
                  x = None \/ (x.branch = a.head /\ x.original = a.tip) =>
                      [at |-> "rebase", to |-> x] \in Fitting(a)
           /\ a.op = "bisect" => \A x \in Branches \cup Nat : [at |-> "head", to |-> x] \in Fitting(a)
           /\ a.op = "bisect" => \A x \in Bisects(Nat) \cup {None} :
                  x = None \/ (x.head = a.head /\ x.sha = a.tip) => [at |-> "bisect", to |-> x] \in Fitting(a)
<1> DEFINE W(f, x) == [at |-> f, to |-> x]
<1>1. \A f, x : W(f, x).at = f /\ W(f, x).to = x
  OBVIOUS
<1>2. /\ \A x \in Branches \cup Nat : W("head", x) \in Writes(Nat)
      /\ \A x \in [Branches -> Nat \cup {None}] : W("branch", x) \in Writes(Nat)
      /\ \A x \in Nat \cup {None} : W("mergeHead", x) \in Writes(Nat) /\ W("mergeOrig", x) \in Writes(Nat)
      /\ \A x \in Picks(Nat) \cup {None} : W("cherry", x) \in Writes(Nat)
      /\ \A x \in Rebases(Nat) \cup {None} : W("rebase", x) \in Writes(Nat)
      /\ \A x \in Bisects(Nat) \cup {None} : W("bisect", x) \in Writes(Nat)
  BY WritesAre
<1> HIDE DEF W
<1>3. CASE a.op = "merge"
  <2>1. ASSUME NEW x \in Nat \cup {None} PROVE W("mergeHead", x) \in Fitting(a)
    BY <1>1, <1>2, <1>3 DEF Fitting, Fits
  <2>2. ASSUME NEW x \in {None, a.tip} PROVE W("mergeOrig", x) \in Fitting(a)
    <3>1. W("mergeOrig", x) \in Writes(Nat)
      BY <1>2
    <3> QED BY <1>1, <1>3, <3>1 DEF Fitting, Fits
  <2> QED BY <1>3, <2>1, <2>2 DEF W
<1>4. CASE a.op = "cherry-pick"
  BY <1>1, <1>2, <1>4 DEF Fitting, Fits, W
<1>5. CASE a.op = "rebase"
  <2>0. ASSUME NEW f \in {"mergeOrig", "mergeHead", "cherry"} PROVE W(f, None) \in Fitting(a)
    <3>1. W(f, None) \in Writes(Nat)
      BY <1>2
    <3> QED BY <1>1, <1>5, <3>1 DEF Fitting, Fits
  <2>1. /\ \A x \in [Branches -> Nat \cup {None}] : W("branch", x) \in Fitting(a)
        /\ a.head \in Branches => W("head", a.head) \in Fitting(a)
    BY <1>1, <1>2, <1>5 DEF Fitting, Fits
  <2>2. \A x \in Rebases(Nat) \cup {None} :
            x = None \/ (x.branch = a.head /\ x.original = a.tip) => W("rebase", x) \in Fitting(a)
    BY <1>1, <1>2, <1>5 DEF Fitting, Fits
  <2> QED BY <1>5, <2>0, <2>1, <2>2 DEF W
<1>6. CASE a.op = "bisect"
  BY <1>1, <1>2, <1>6 DEF Fitting, Fits, W
<1> QED BY <1>3, <1>4, <1>5, <1>6

\* The commands' writes to the user's files.
LEMMA MildWrites ==
    ASSUME TypeInv
    PROVE  /\ \A t \in Tree : Put("worktree", t) \in Seq(Mild(files))
           /\ \A i \in Indexes : i.unmerged \subseteq files.index.unmerged => Put("index", i) \in Seq(Mild(files))
           /\ \A S \in SUBSET Paths : Put("conflicts", S) \in Seq(Mild(files))
           /\ \A t \in Tree : Index(t).unmerged = files.index.unmerged /\ ReplaceTracked(t) \in Seq(Mild(files))
           /\ ClearConflicts \in Seq(Mild(files)) /\ \A p \in Paths : ClearConflict(p) \in Seq(Mild(files))
<1>1. /\ \A t \in Tree : [at |-> "worktree", to |-> t] \in Mild(files)
      /\ \A S \in SUBSET Paths : [at |-> "conflicts", to |-> S] \in Mild(files)
      /\ \A i \in Indexes : i.unmerged \subseteq files.index.unmerged => [at |-> "index", to |-> i] \in Mild(files)
  BY WritesAre DEF Mild, Working
<1>2. /\ \A t \in Tree : Put("worktree", t) \in Seq(Mild(files))
      /\ \A i \in Indexes : i.unmerged \subseteq files.index.unmerged => Put("index", i) \in Seq(Mild(files))
      /\ \A S \in SUBSET Paths : Put("conflicts", S) \in Seq(Mild(files))
  BY <1>1, PutIn
<1>3. ASSUME NEW t \in Tree
      PROVE  Index(t).unmerged = files.index.unmerged /\ ReplaceTracked(t) \in Seq(Mild(files))
  BY Facts, <1>2, RestoredTyped, Joined DEF Index, Indexes, ReplaceTracked, Replace
<1>4. ClearConflicts \in Seq(Mild(files)) /\ \A p \in Paths : ClearConflict(p) \in Seq(Mild(files))
  BY Facts, EmptySeq, <1>2 DEF ClearConflicts, ClearConflict
<1> QED BY <1>2, <1>3, <1>4

LEMMA WorkingWrites ==
    ASSUME TypeInv
    PROVE  /\ \A t \in Tree : ReplaceTracked(t) \in Seq(Working)
           /\ \A i \in Indexes : Put("index", i) \in Seq(Working)
           /\ \A S \in SUBSET Paths : Put("conflicts", S) \in Seq(Working)
           /\ \A r \in Outcomes : /\ Applied(r) \in Seq(Working) /\ Conflicted(r) \in Seq(Working)
                                  /\ Put("index", WithStages(r)) \in Seq(Working)
           /\ ClearConflicts \in Seq(Working)
<1>1. Mild(files) \subseteq Working
  BY WorkingFits
<1>2. \A i \in Indexes : Put("index", i) \in Seq(Working)
  BY WritesAre, PutIn DEF Working
<1>3. /\ \A t \in Tree : ReplaceTracked(t) \in Seq(Working) /\ Put("worktree", t) \in Seq(Working)
      /\ \A S \in SUBSET Paths : Put("conflicts", S) \in Seq(Working)
      /\ ClearConflicts \in Seq(Working)
  <2> DEFINE M == Mild(files)
  <2>1. /\ \A t \in Tree : ReplaceTracked(t) \in Seq(M) /\ Put("worktree", t) \in Seq(M)
        /\ \A S \in SUBSET Paths : Put("conflicts", S) \in Seq(M)
        /\ ClearConflicts \in Seq(M)
    BY MildWrites
  <2>2. M \subseteq Working
    BY <1>1
  <2> HIDE DEF M
  <2>3. Seq(M) \subseteq Seq(Working)
    BY <2>2, SeqMonotonic
  <2> QED BY <2>1, <2>3
<1>4. ASSUME NEW r \in Outcomes
      PROVE  Applied(r) \in Seq(Working) /\ Conflicted(r) \in Seq(Working)
             /\ Put("index", WithStages(r)) \in Seq(Working)
  BY IndexTyped, <1>2, <1>3, Joined, Three DEF Outcomes, Applied, Conflicted
<1> QED BY <1>2, <1>3, <1>4

\* The writes that clear a state.
LEMMA ClearIn ==
    ASSUME NEW S, NEW f, NEW i,
           files[f] = None \/ (Put(f, None) \in Seq(S) /\ Put("index", [i EXCEPT !.unmerged = {}]) \in Seq(S))
    PROVE  Clear(f, i) \in Seq(S)
<1> DEFINE p == Put(f, None)
           q == Put("index", [i EXCEPT !.unmerged = {}])
<1>1. Clear(f, i) = IF files[f] = None THEN <<>> ELSE p \o IF i.unmerged = {} THEN <<>> ELSE q
  BY DEF Clear
<1>2. files[f] = None \/ (p \in Seq(S) /\ q \in Seq(S))
  OBVIOUS
<1>3. <<>> \in Seq(S)
  BY EmptySeq
<1> HIDE DEF p, q
<1> QED BY <1>1, <1>2, <1>3, Joined

LEMMA ClearMergeIn ==
    ASSUME NEW S, NEW i,
           \/ files.mergeHead = None
           \/ Put("mergeHead", None) \in Seq(S) /\ Put("index", [i EXCEPT !.unmerged = {}]) \in Seq(S),
           files.mergeOrig = None \/ Put("mergeOrig", None) \in Seq(S),
           Put("conflicts", {}) \in Seq(S)
    PROVE  ClearMerge(i) \in Seq(S)
<1> DEFINE q == Put("index", [i EXCEPT !.unmerged = {}])
           a == IF files.mergeHead = None THEN <<>> ELSE Put("mergeHead", None)
           b == IF files.mergeOrig = None THEN <<>> ELSE Put("mergeOrig", None)
           c == IF files.conflicts = {} THEN <<>> ELSE Put("conflicts", {})
           d == IF files.mergeHead # None /\ i.unmerged # {} THEN q ELSE <<>>
<1>1. ClearMerge(i) = a \o b \o c \o d
  BY DEF ClearMerge
<1>2. \/ files.mergeHead = None
      \/ Put("mergeHead", None) \in Seq(S) /\ q \in Seq(S)
  OBVIOUS
<1>3. <<>> \in Seq(S)
  BY EmptySeq
<1>4. a \in Seq(S) /\ b \in Seq(S) /\ c \in Seq(S) /\ d \in Seq(S)
  <2> HIDE DEF q
  <2> QED BY <1>2, <1>3
<1> HIDE DEF a, b, c, d, q
<1> QED BY <1>1, <1>4, Four

-----------------------------------------------------------------------------
(***************************************************************************)
(* Where the writes of the commands lead.                                  *)
(***************************************************************************)
LEMMA LeadsMay ==
    ASSUME NEW v \in FilesOver(Nat), NEW f, NEW x, NEW s \in {<<>>, Put(f, x)},
           [at |-> f, to |-> x] \in Writes(Nat)
    PROVE  \E u : Reaches(v, s, f, x, u)
BY LeadsNowhere, LeadsPut DEF Reaches, But

\* The unmerged entries of an index are cleared, if there are any.
LEMMA Unmerging ==
    ASSUME NEW i \in Indexes
    PROVE  /\ [i EXCEPT !.unmerged = {}] = [staged |-> i.staged, unmerged |-> {}]
           /\ i.unmerged = {} => [i EXCEPT !.unmerged = {}] = i
           /\ [at |-> "index", to |-> [i EXCEPT !.unmerged = {}]] \in Writes(Nat)
<1>1. [i EXCEPT !.unmerged = {}] \in Indexes
  BY DEF Indexes
<1>2. [i EXCEPT !.unmerged = {}] = [staged |-> i.staged, unmerged |-> {}]
  BY DEF Indexes
<1>3. i = [staged |-> i.staged, unmerged |-> i.unmerged]
  BY DEF Indexes
<1> QED BY <1>1, <1>2, <1>3, WritesAre

LEMMA ClearLeads ==
    ASSUME NEW v \in FilesOver(Nat), NEW f \in {"cherry", "rebase"}, v[f] = files[f], NEW i \in Indexes
    PROVE  \E u : Cleared(v, f, i, u)
<1> DEFINE j == [i EXCEPT !.unmerged = {}]
           p == Put(f, None)
           q == Put("index", j)
<1>1. CASE files[f] = None
  BY <1>1, LeadsNowhere DEF Clear, Cleared
<1>2. CASE files[f] # None
  <2> DEFINE t == IF i.unmerged = {} THEN <<>> ELSE q
  <2>1. Clear(f, i) = p \o t
    BY <1>2 DEF Clear
  <2>2. [at |-> f, to |-> None] \in Writes(Nat) /\ [at |-> "index", to |-> j] \in Writes(Nat)
    BY WritesAre, Unmerging
  <2>3. p \in Seq(Writes(Nat)) /\ q \in Seq(Writes(Nat)) /\ <<>> \in Seq(Writes(Nat))
    BY <2>2, PutIn, EmptySeq
  <2>4. p # <<>> /\ q # <<>>
    BY DEF Put
  <2>5. j = [staged |-> i.staged, unmerged |-> {}] /\ (i.unmerged = {} => j = i)
    BY Unmerging
  <2> HIDE DEF j
  <2>6. PICK u : /\ Leads(v, p, u) /\ u \in FilesOver(Nat)
                 /\ \A g \in Names \ {f} : u[g] = v[g]
                 /\ u[f] = None
    <3>1. PICK u : Reaches(v, p, f, None, u)
      BY <2>2, <2>4, LeadsMay
    <3> QED BY <2>4, <3>1 DEF Reaches
  <2>7. t \in {<<>>, q} /\ (t = <<>> => i.unmerged = {})
    BY <2>4
  <2> HIDE DEF t, p
  <2>8. PICK x : /\ Leads(u, t, x) /\ x \in FilesOver(Nat)
                 /\ \A g \in Names \ {"index"} : x[g] = u[g]
                 /\ x["index"] = IF t = <<>> THEN u["index"] ELSE j
    <3>1. PICK x : Reaches(u, t, "index", j, x)
      BY <2>2, <2>6, <2>7, LeadsMay
    <3> QED BY <3>1 DEF Reaches
  <2>9. t \in Seq(Writes(Nat))
    BY <2>3, <2>7
  <2>10. Leads(v, Clear(f, i), x)
    BY <2>1, <2>3, <2>6, <2>8, <2>9, LeadsBoth
  <2>11. /\ f \in Names \ {"index"} /\ "index" \in Names \ {f}
         /\ \A g \in Names \ {f, "index"} : g \in Names \ {f} /\ g \in Names \ {"index"}
    BY DEF Names
  <2>12. x[f] = None /\ \A g \in Names \ {f, "index"} : x[g] = v[g]
    BY <2>6, <2>8, <2>11
  <2>13. v.index = i => x.index = j
    BY <2>5, <2>6, <2>7, <2>8, <2>11
  <2> QED BY <2>5, <2>8, <2>10, <2>12, <2>13 DEF Cleared
<1> QED BY <1>1, <1>2

LEMMA ClearMergeLeads ==
    ASSUME NEW v \in FilesOver(Nat), NEW i \in Indexes,
           v.mergeHead = files.mergeHead, v.mergeOrig = files.mergeOrig, v.conflicts = files.conflicts
    PROVE  \E u : MergeCleared(v, i, u)
<1> DEFINE j == [i EXCEPT !.unmerged = {}]
           W == Writes(Nat)
           a == IF files.mergeHead = None THEN <<>> ELSE Put("mergeHead", None)
           b == IF files.mergeOrig = None THEN <<>> ELSE Put("mergeOrig", None)
           c == IF files.conflicts = {} THEN <<>> ELSE Put("conflicts", {})
           d == IF files.mergeHead # None /\ i.unmerged # {} THEN Put("index", j) ELSE <<>>
<1>1. ClearMerge(i) = a \o b \o c \o d
  BY DEF ClearMerge
<1>2. /\ [at |-> "mergeHead", to |-> None] \in W /\ [at |-> "mergeOrig", to |-> None] \in W
      /\ [at |-> "conflicts", to |-> {}] \in W /\ [at |-> "index", to |-> j] \in W
  BY WritesAre, Unmerging
<1>3. j = [staged |-> i.staged, unmerged |-> {}] /\ (i.unmerged = {} => j = i)
  BY Unmerging
<1>4. \A f, x : Put(f, x) # <<>>
  BY DEF Put
<1>5. /\ a \in {<<>>, Put("mergeHead", None)} /\ (a = <<>> <=> files.mergeHead = None)
      /\ b \in {<<>>, Put("mergeOrig", None)} /\ (b = <<>> <=> files.mergeOrig = None)
      /\ c \in {<<>>, Put("conflicts", {})} /\ (c = <<>> <=> files.conflicts = {})
      /\ d \in {<<>>, Put("index", j)} /\ (d = <<>> <=> ~(files.mergeHead # None /\ i.unmerged # {}))
  <2> HIDE DEF j
  <2> QED BY <1>4
<1> HIDE DEF j, a, b, c, d
<1>6. a \in Seq(W) /\ b \in Seq(W) /\ c \in Seq(W) /\ d \in Seq(W)
  <2>1. /\ Put("mergeHead", None) \in Seq(W) /\ Put("mergeOrig", None) \in Seq(W)
        /\ Put("conflicts", {}) \in Seq(W) /\ Put("index", j) \in Seq(W) /\ <<>> \in Seq(W)
    <3> HIDE DEF W
    <3> QED BY <1>2, PutIn, EmptySeq
  <2> QED BY <1>5, <2>1
<1>7. PICK u1 : /\ Leads(v, a, u1) /\ u1 \in FilesOver(Nat)
                /\ \A g \in Names \ {"mergeHead"} : u1[g] = v[g]
                /\ u1["mergeHead"] = IF a = <<>> THEN v["mergeHead"] ELSE None
  <2>1. PICK u : Reaches(v, a, "mergeHead", None, u)
    BY <1>2, <1>5, LeadsMay
  <2> QED BY <2>1 DEF Reaches
<1>8. PICK u2 : /\ Leads(u1, b, u2) /\ u2 \in FilesOver(Nat)
                /\ \A g \in Names \ {"mergeOrig"} : u2[g] = u1[g]
                /\ u2["mergeOrig"] = IF b = <<>> THEN u1["mergeOrig"] ELSE None
  <2>1. PICK u : Reaches(u1, b, "mergeOrig", None, u)
    BY <1>2, <1>5, <1>7, LeadsMay
  <2> QED BY <2>1 DEF Reaches
<1>9. PICK u3 : /\ Leads(u2, c, u3) /\ u3 \in FilesOver(Nat)
                /\ \A g \in Names \ {"conflicts"} : u3[g] = u2[g]
                /\ u3["conflicts"] = IF c = <<>> THEN u2["conflicts"] ELSE {}
  <2>1. PICK u : Reaches(u2, c, "conflicts", {}, u)
    <3> DEFINE e == {}
    <3>1. c \in {<<>>, Put("conflicts", e)} /\ [at |-> "conflicts", to |-> e] \in Writes(Nat)
      BY <1>2, <1>5
    <3> HIDE DEF e
    <3>2. \E x : Reaches(u2, c, "conflicts", e, x)
      BY ONLY <1>8, <3>1, LeadsMay
    <3> QED BY <3>2 DEF e
  <2> QED BY <2>1 DEF Reaches
<1>10. PICK u4 : /\ Leads(u3, d, u4) /\ u4 \in FilesOver(Nat)
                 /\ \A g \in Names \ {"index"} : u4[g] = u3[g]
                 /\ u4["index"] = IF d = <<>> THEN u3["index"] ELSE j
  <2>1. PICK u : Reaches(u3, d, "index", j, u)
    BY <1>2, <1>5, <1>9, LeadsMay
  <2> QED BY <2>1 DEF Reaches
<1>11. Leads(v, a \o b \o c \o d, u4)
  <2>1. a \o b \in Seq(W) /\ a \o b \o c \in Seq(W)
    BY <1>6, Joined, Three
  <2>2. Leads(v, a \o b, u2)
    BY <1>6, <1>7, <1>8, LeadsBoth
  <2>3. Leads(v, a \o b \o c, u3)
    BY <1>6, <1>9, <2>1, <2>2, LeadsBoth
  <2> QED BY <1>6, <1>10, <2>1, <2>3, LeadsBoth
<1>12. \A g \in Names \ {"mergeHead", "mergeOrig", "conflicts", "index"} : u4[g] = v[g]
  BY <1>7, <1>8, <1>9, <1>10
<1>13. u4["mergeHead"] = u1["mergeHead"] /\ u4["mergeOrig"] = u2["mergeOrig"] /\ u4["conflicts"] = u3["conflicts"]
       /\ u1["mergeOrig"] = v["mergeOrig"] /\ u2["conflicts"] = v["conflicts"] /\ u3["index"] = v["index"]
  BY <1>7, <1>8, <1>9, <1>10 DEF Names
<1>14. u4.mergeHead = None /\ u4.mergeOrig = None /\ u4.conflicts = {}
  BY <1>5, <1>7, <1>8, <1>9, <1>13
<1>15. v.index = i /\ files.mergeHead # None => u4.index = j
  BY <1>3, <1>5, <1>10, <1>13
<1> QED BY <1>1, <1>3, <1>10, <1>11, <1>12, <1>14, <1>15 DEF MergeCleared

\* The worktree and the index become those of a commit.
LEMMA ReplaceLeads ==
    ASSUME TypeInv, NEW v \in FilesOver(Nat), NEW t \in Tree
    PROVE  \E u : /\ Leads(v, ReplaceTracked(t), u) /\ u \in FilesOver(Nat)
                  /\ u.index = Index(t) /\ \A p \in PathsOf(t) : u.worktree[p] = t[p]
                  /\ \A g \in Names \ {"worktree", "index"} : u[g] = v[g]
<1> DEFINE r == Restored(t, PathsOf(files.index.staged), files.worktree)
           a == Put("worktree", r)
           b == Put("index", Index(t))
           W == Writes(Nat)
<1>1. ReplaceTracked(t) = a \o b
  BY DEF ReplaceTracked, Replace
<1>2. r \in Tree /\ Index(t) \in Indexes
  BY RestoredTyped, IndexTyped, Facts
<1>3. \A p \in PathsOf(t) : r[p] = t[p]
  BY DEF Restored, PathsOf
<1> HIDE DEF r
<1>4. [at |-> "worktree", to |-> r] \in W /\ [at |-> "index", to |-> Index(t)] \in W
  BY <1>2, WritesAre
<1>5. a \in Seq(W) /\ b \in Seq(W) /\ a # <<>> /\ b # <<>>
  <2>1. a # <<>> /\ b # <<>>
    BY DEF Put
  <2> HIDE DEF W
  <2> QED BY <1>4, <2>1, PutIn
<1>6. PICK u : /\ Leads(v, a, u) /\ u \in FilesOver(Nat)
               /\ \A g \in Names \ {"worktree"} : u[g] = v[g]
               /\ u["worktree"] = r
  <2>1. PICK z : Reaches(v, a, "worktree", r, z)
    BY <1>4, <1>5, LeadsMay
  <2> QED BY <1>5, <2>1 DEF Reaches
<1>7. PICK x : /\ Leads(u, b, x) /\ x \in FilesOver(Nat)
               /\ \A g \in Names \ {"index"} : x[g] = u[g]
               /\ x["index"] = Index(t)
  <2>1. PICK z : Reaches(u, b, "index", Index(t), z)
    BY <1>4, <1>5, <1>6, LeadsMay
  <2> QED BY <1>5, <2>1 DEF Reaches
<1>8. Leads(v, a \o b, x)
  <2> HIDE DEF a, b, W
  <2> QED BY <1>5, <1>6, <1>7, LeadsBoth
<1>9. x["worktree"] = r
  BY <1>6, <1>7 DEF Names
<1>10. \A g \in Names \ {"worktree", "index"} : x[g] = v[g]
  BY <1>6, <1>7
<1>11. x.index = Index(t) /\ \A p \in PathsOf(t) : x.worktree[p] = t[p]
  BY <1>3, <1>7, <1>9
<1> QED BY <1>1, <1>7, <1>8, <1>10, <1>11

\* commit(): neither a merge nor a cherry-pick is left.
LEMMA CommittedLeads ==
    ASSUME TypeInv, NEW i \in Indexes
    PROVE  \E u : /\ Leads(files, Committed(i), u)
                  /\ u.mergeHead = None /\ u.cherry = None
                  /\ u.rebase = files.rebase /\ u.bisect = files.bisect
<1> DEFINE W == Writes(Nat)
           a == MoveHead(NewCommit)
           b == ClearMerge(i)
           c == Clear("cherry", i)
<1>0. files \in FilesOver(Nat) /\ Commits \subseteq Nat /\ NewCommit \in Nat
  BY MoreCommits, MoreFacts DEF TypeInv, Commits
<1>1. Committed(i) = a \o b \o c
  BY DEF Committed
<1>2. a \in Seq(W) /\ b \in Seq(W) /\ c \in Seq(W)
  BY <1>0, CommonWrites, HoldingWrites
<1>3. \E f \in {"branch", "head"} : \E x : a = Put(f, x) /\ [at |-> f, to |-> x] \in W
  <2>1. CASE files.head \in Branches
    <3> DEFINE x == [files.branch EXCEPT ![files.head] = NewCommit]
    <3>1. x \in [Branches -> Nat \cup {None}]
      BY <1>0, Facts
    <3>2. a = Put("branch", x)
      BY <2>1 DEF MoveHead, SetBranch
    <3> HIDE DEF x, a
    <3> QED BY <3>1, <3>2, WritesAre
  <2>2. CASE files.head \notin Branches
    <3>1. a = Put("head", NewCommit)
      BY <2>2 DEF MoveHead
    <3> HIDE DEF a
    <3> QED BY <1>0, <3>1, WritesAre
  <2> QED BY <2>1, <2>2
<1> HIDE DEF a
<1>4. PICK f \in {"branch", "head"} : \E x : a = Put(f, x) /\ [at |-> f, to |-> x] \in W
  BY <1>3
<1>5. PICK u1 : /\ Leads(files, a, u1) /\ u1 \in FilesOver(Nat)
                /\ \A g \in Names \ {f} : u1[g] = files[g]
  BY <1>4, <1>0, LeadsMay DEF Reaches
<1>6. /\ u1["mergeHead"] = files["mergeHead"] /\ u1["mergeOrig"] = files["mergeOrig"]
      /\ u1["conflicts"] = files["conflicts"] /\ u1["cherry"] = files["cherry"]
      /\ u1["rebase"] = files["rebase"] /\ u1["bisect"] = files["bisect"]
  BY <1>4, <1>5 DEF Names
<1>7. PICK u2 : /\ Leads(u1, b, u2) /\ u2 \in FilesOver(Nat)
                /\ u2.mergeHead = None
                /\ \A g \in Names \ {"mergeHead", "mergeOrig", "conflicts", "index"} : u2[g] = u1[g]
  <2>1. PICK z : MergeCleared(u1, i, z)
    BY <1>5, <1>6, ClearMergeLeads
  <2> QED BY <2>1 DEF MergeCleared
<1>8. u2["cherry"] = files["cherry"] /\ u2["rebase"] = files["rebase"] /\ u2["bisect"] = files["bisect"]
  BY <1>6, <1>7 DEF Names
<1>9. PICK u3 : /\ Leads(u2, c, u3)
                /\ u3["cherry"] = None
                /\ \A g \in Names \ {"cherry", "index"} : u3[g] = u2[g]
  <2>1. PICK z : Cleared(u2, "cherry", i, z)
    BY <1>7, <1>8, ClearLeads
  <2> QED BY <2>1 DEF Cleared
<1>10. u3["mergeHead"] = u2["mergeHead"] /\ u3["rebase"] = files["rebase"] /\ u3["bisect"] = files["bisect"]
  BY <1>8, <1>9 DEF Names
<1>11. Leads(files, a \o b \o c, u3)
  <2> HIDE DEF b, c, W
  <2>1. a \o b \in Seq(W)
    BY <1>2, Joined
  <2>2. Leads(files, a \o b, u2)
    BY <1>2, <1>5, <1>7, LeadsBoth
  <2> QED BY <1>2, <1>9, <2>1, <2>2, LeadsBoth
<1> QED BY <1>1, <1>7, <1>9, <1>10, <1>11

-----------------------------------------------------------------------------
(***************************************************************************)
(* What a command does to the operation in progress.                       *)
(***************************************************************************)
LEMMA CalmIsNone == Operation = "none" <=> Calm(files)
BY DEF Operation, Calm

LEMMA OperationIs ==
    /\ files.mergeHead # None => Operation = "merge"
    /\ files.mergeHead = None /\ files.cherry # None => Operation = "cherry-pick"
    /\ Operation = "merge" => files.mergeHead # None
    /\ Operation = "cherry-pick" => files.cherry # None
BY DEF Operation

LEMMA MoreLog ==
    ASSUME TypeInv, NEW new \in Seq(Entry)
    PROVE  /\ Len(log \o new) \in Nat /\ Len(log \o new) >= Len(log)
           /\ \A c \in Commits : (log \o new)[c] = log[c]
<1> DEFINE k == log \o new
<1>1. log \in Seq(Entry)
  BY DEF TypeInv, Recorded, Entry
<1>2. Len(log) \in Nat /\ Len(new) \in Nat
  BY <1>1, LenProperties
<1>3. /\ Len(k) = Len(log) + Len(new)
      /\ \A i \in 1..(Len(log) + Len(new)) : k[i] = IF i <= Len(log) THEN log[i] ELSE new[i - Len(log)]
  <2> HIDE DEF Entry
  <2> QED BY <1>1, ConcatProperties
<1> HIDE DEF k
<1>4. \A c \in Commits : c \in 1..(Len(log) + Len(new)) /\ c <= Len(log)
  BY <1>2 DEF Commits
<1>5. \A c \in Commits : k[c] = log[c]
  BY <1>3, <1>4
<1>6. Len(k) \in Nat /\ Len(k) >= Len(log)
  BY <1>2, <1>3
<1> QED BY <1>5, <1>6 DEF k

LEMMA BegunMore == ASSUME NEW C, NEW D, C \subseteq D PROVE Begun(C) \subseteq Begun(D)
BY DEF Begun

\* Whatever is begun, and however it stands, is seen in what the job has to write.
LEMMA Started ==
    ASSUME TypeInv, NEW e \in Begun(Commits), begun' = e, NEW new \in Seq(Entry), log' = log \o new,
           Counts(e) => Stands(Aim(e), e.how, files', job'.todo, job'.then)
    PROVE  Standing'
<1> DEFINE k == log \o new
<1>1. Len(k) \in Nat /\ Len(k) >= Len(log) /\ \A c \in Commits : k[c] = log[c]
  BY MoreLog
<1>2. log' = k
  OBVIOUS
<1> HIDE DEF k
<1>3. Commits \subseteq Commits' /\ \A c \in Commits : log'[c] = log[c]
  BY <1>1, <1>2, Facts DEF Commits
<1>4. e \in Begun(Commits')
  BY <1>3, BegunMore
<1>5. e.tip \in Commits
  BY DEF Begun
<1>6. Aim(begun)' = Aim(e)
  BY <1>3, <1>5 DEF TreeAt, Aim
<1>7. AbortInv'
  BY <1>6 DEF AbortInv, Live
<1>8. BegunTyped'
  BY <1>4 DEF BegunTyped
<1> QED BY <1>7, <1>8 DEF Standing

LEMMA NothingStands == ASSUME begun' = None PROVE Standing'
BY DEF Standing, BegunTyped, AbortInv, Live, Counts

\* The operation in progress, as a record.
LEMMA BegunIs ==
    ASSUME Standing, begun # None
    PROVE  /\ begun \in Begun(Commits)
           /\ Aim(begun).op = begun.op /\ Aim(begun).head = begun.head /\ Aim(begun).tip = begun.tip
           /\ Aim(begun).tree = TreeAt(begun.tip)
           /\ begun.op \in Operations /\ begun.tip \in Commits /\ begun.head \in Branches \cup Commits
           /\ begun.how \in {"open", "aborted", "finished"}
BY DEF Standing, BegunTyped, Begun, Aim

LEMMA LiveIs == Live => begun # None
BY DEF Live, Counts

LEMMA EndsStands ==
    ASSUME TypeInv, Standing, NEW how \in {"aborted", "finished"}, Ends(how), NEW new \in Seq(Entry),
           log' = log \o new, files' = files,
           Live => Stands(Aim(begun), how, files, job'.todo, job'.then)
    PROVE  Standing'
<1>1. CASE begun = None
  BY <1>1, NothingStands DEF Ends
<1>2. CASE begun # None
  <2> DEFINE e == [begun EXCEPT !.how = how]
  <2>1. begun \in Begun(Commits)
    BY <1>2, BegunIs
  <2>2. e \in Begun(Commits)
    BY <2>1 DEF Begun
  <2>3. e.how = how /\ Aim(e) = Aim(begun)
    BY <2>1 DEF Aim, Begun
  <2>4. Counts(e) => Live
    <3>1. e.fresh = begun.fresh /\ e.cut = begun.cut
      BY <2>1 DEF Begun
    <3> HIDE DEF e
    <3> QED BY <1>2, <3>1 DEF Counts, Live
  <2>5. begun' = e
    BY <1>2 DEF Ends
  <2> HIDE DEF e
  <2> QED BY <2>2, <2>3, <2>4, <2>5, Started
<1> QED BY <1>1, <1>2

LEMMA GoesOnStands ==
    ASSUME TypeInv, Standing, begun' = begun, NEW new \in Seq(Entry), log' = log \o new, files' = files,
           Live => Stands(Aim(begun), begun.how, files, job'.todo, job'.then)
    PROVE  Standing'
<1>1. CASE begun = None
  BY <1>1, NothingStands
<1>2. CASE begun # None
  <2>1. begun \in Begun(Commits)
    BY <1>2, BegunIs
  <2> DEFINE e == begun
  <2>2. e \in Begun(Commits) /\ begun' = e /\ (Counts(e) => Stands(Aim(e), e.how, files, job'.todo, job'.then))
    BY <2>1 DEF Live
  <2> HIDE DEF e
  <2> QED BY <2>2, Started
<1> QED BY <1>1, <1>2

LEMMA BeginsStands ==
    ASSUME TypeInv, NEW op \in Operations, NEW base \in Commits \cup {None}, NEW theirs \in Commits \cup {None},
           HeadSha # None, Begins(op, base, theirs), NEW new \in Seq(Entry), log' = log \o new, files' = files,
           files.mergeOrig = None /\ files.index.unmerged = {} =>
               Stands(Target(op), "open", files, job'.todo, job'.then)
    PROVE  Standing'
<1> DEFINE flag == files.mergeOrig = None /\ files.index.unmerged = {}
           e == [op |-> op, how |-> "open", head |-> files.head, tip |-> HeadSha,
                 base |-> base, theirs |-> theirs, touched |-> {}, cut |-> "never", fresh |-> flag]
<1>1. begun' = e
  BY DEF Begins
<1>2. flag \in BOOLEAN
  OBVIOUS
<1>3. flag => Stands(Target(op), "open", files, job'.todo, job'.then)
  OBVIOUS
<1> HIDE DEF flag
<1>4. e \in Begun(Commits)
  BY <1>2, Facts DEF Begun
<1>5. Counts(e) => flag
  BY DEF Counts
<1>6. Aim(e) = Target(op) /\ e.how = "open"
  BY DEF Aim, Target
<1> HIDE DEF e
<1> QED BY <1>1, <1>3, <1>4, <1>5, <1>6, Started

LEMMA OpenQuiet ==
    ASSUME NEW a, NEW v, NEW s \in Seq(Quiet), NEW then, Calm(v), a.op \in {"merge", "cherry-pick"}
    PROVE  Stands(a, "open", v, s, then)
BY DEF Stands

LEMMA OpenHeld ==
    ASSUME NEW a, NEW v, NEW s \in Seq(Fitting(a)), NEW then, Held(a, v)
    PROVE  Stands(a, "open", v, s, then)
BY DEF Stands

LEMMA Aborting ==
    ASSUME NEW a, NEW v, NEW s \in Seq(Fitting(a)), Held(a, v), NEW u, Leads(v, s, u), Back(a, u)
    PROVE  Stands(a, "aborted", v, s, "end")
BY DEF Stands

LEMMA Concluding ==
    ASSUME NEW a, NEW v, NEW s, NEW u, Leads(v, s, u), Calm(u)
    PROVE  Stands(a, "finished", v, s, "end")
BY DEF Stands

\* Nothing is being written.
LEMMA AtRest ==
    ASSUME TypeInv, Standing, job.todo = <<>>, Live
    PROVE  /\ begun.how = "aborted" => job.then = "end" /\ Back(Aim(begun), files)
           /\ begun.how = "finished" => job.then = "end" /\ Calm(files)
           /\ ~Calm(files) => begun.how = "open" /\ Held(Aim(begun), files)
BY LiveIs, BegunIs, StandsDone DEF Standing, AbortInv

-----------------------------------------------------------------------------
(***************************************************************************)
(* Writing, being cut short, and the user's edits.                         *)
(***************************************************************************)
LEMMA MildStands ==
    ASSUME TypeInv, NEW a, a.op \in Operations, Stands(a, "open", files, <<>>, "end"), NEW s \in Seq(Mild(files))
    PROVE  Stands(a, "open", files, s, "end")
<1> DEFINE M == Mild(files)
<1>0. s \in Seq(M)
  OBVIOUS
<1>1. M \subseteq Quiet /\ (a.op # "bisect" => M \subseteq Fitting(a))
      /\ (files.index.unmerged = {} => M \subseteq Fitting(a))
  BY WorkingFits
<1> HIDE DEF M
<1>2. CASE Calm(files) /\ a.op \in {"merge", "cherry-pick"}
  BY <1>0, <1>1, <1>2, Within, OpenQuiet
<1>3. CASE Held(a, files)
  BY <1>3, <1>0, <1>1, Within, OpenHeld DEF Held
<1> QED BY <1>2, <1>3 DEF Stands

LEMMA StepStands == ASSUME TypeInv, Standing, Step PROVE Standing'
<1>1. /\ job.todo # <<>> /\ log' = log /\ begun' = begun
      /\ files' = Written(files, Head(job.todo))
      /\ job' = IF Len(job.todo) = 1 /\ job.then = "end" THEN Idle ELSE [job EXCEPT !.todo = Tail(@)]
  BY DEF Step, Written
<1>2. CASE begun = None
  BY <1>1, <1>2, NothingStands
<1>3. CASE begun # None
  <2>1. begun \in Begun(Commits) /\ begun.op \in Operations /\ Aim(begun).op = begun.op
    BY <1>3, BegunIs
  <2>2. files \in FilesOver(Nat) /\ job.todo \in Seq(Writes(Nat))
    <3>1. Commits \subseteq Nat /\ files \in FilesOver(Commits) /\ job.todo \in Seq(Writes(Commits))
      BY DEF TypeInv, Commits
    <3>2. Writes(Commits) \subseteq Writes(Nat)
      BY <3>1, MoreCommits
    <3> QED BY <3>1, <3>2, MoreCommits, Within
  <2>3. job'.todo = Tail(job.todo) /\ job'.then = job.then
    <3>1. CASE Len(job.todo) = 1 /\ job.then = "end"
      <4>1. job' = Idle
        BY <1>1, <3>1
      <4>2. Tail(job.todo) \in Seq(Writes(Nat)) /\ Len(Tail(job.todo)) = 0
        BY <1>1, <2>2, <3>1, HeadTailProperties
      <4>3. Tail(job.todo) = <<>>
        BY <4>2, EmptySeq
      <4> QED BY <3>1, <4>1, <4>3 DEF Idle
    <3>2. CASE ~(Len(job.todo) = 1 /\ job.then = "end")
      BY <1>1, <3>2 DEF TypeInv
    <3> QED BY <3>1, <3>2
  <2>4. Live => Stands(Aim(begun), begun.how, files', job'.todo, job'.then)
    BY <1>1, <2>1, <2>2, StandsOn, <2>3 DEF Standing, AbortInv
  <2>5. log' = log \o <<>> /\ <<>> \in Seq(Entry)
    BY <1>1, NothingAdded, EmptySeq
  <2> DEFINE e == begun
  <2>6. e \in Begun(Commits) /\ begun' = e /\ (Counts(e) => Stands(Aim(e), e.how, files', job'.todo, job'.then))
    BY <1>1, <2>1, <2>4 DEF Live
  <2> HIDE DEF e
  <2> QED BY <2>5, <2>6, Started
<1> QED BY <1>2, <1>3

LEMMA InterruptedStands == ASSUME TypeInv, Standing, Interrupted PROVE Standing'
<1>1. /\ job' = Idle /\ files' = files /\ log' = log
      /\ begun = None => begun' = None
  BY DEF Interrupted
<1>2. CASE begun = None
  BY <1>1, <1>2, NothingStands
<1>3. CASE begun # None
  <2> DEFINE cut == IF begun.how = "finished" \/ begun.cut = "at its end" THEN "at its end" ELSE "before"
             e == [begun EXCEPT !.how = "open", !.cut = cut]
  <2>1. begun \in Begun(Commits)
    BY <1>3, BegunIs
  <2>2. begun' = e
    BY <1>3, <2>1 DEF Interrupted, Begun
  <2>3. cut \in {"before", "at its end"}
        /\ (cut # "at its end" => begun.how # "finished" /\ begun.cut # "at its end")
    OBVIOUS
  <2> HIDE DEF cut
  <2>4. e \in Begun(Commits) /\ e.how = "open" /\ Aim(e) = Aim(begun) /\ e.cut = cut /\ e.fresh = begun.fresh
    BY <2>1, <2>3 DEF Begun, Aim
  <2> HIDE DEF e
  <2>5. ASSUME Counts(e) PROVE Stands(Aim(begun), "open", files, <<>>, "end")
    <3>1. Live /\ begun.how # "finished"
      BY <1>3, <2>3, <2>4, <2>5 DEF Counts, Live
    <3>2. Stands(Aim(begun), begun.how, files, job.todo, job.then)
      BY <3>1 DEF Standing, AbortInv
    <3>3. (Calm(files) /\ Aim(begun).op \in {"merge", "cherry-pick"}) \/ Held(Aim(begun), files)
      BY <3>1, <3>2 DEF Stands
    <3>4. \A S : <<>> \in Seq(S)
      BY EmptySeq
    <3> QED BY <3>3, <3>4, OpenQuiet, OpenHeld
  <2>6. log' = log \o <<>> /\ <<>> \in Seq(Entry)
    BY <1>1, NothingAdded, EmptySeq
  <2>7. job'.todo = <<>> /\ job'.then = "end"
    BY <1>1 DEF Idle
  <2>8. Counts(e) => Stands(Aim(e), e.how, files', job'.todo, job'.then)
    BY <1>1, <2>4, <2>5, <2>7
  <2> QED BY <2>2, <2>4, <2>6, <2>8, Started
<1> QED BY <1>2, <1>3

\* What the user touches of the worktree, the index and the conflicts.
LEMMA TouchesStands ==
    ASSUME TypeInv, Standing, job = Idle, NEW S \in SUBSET Paths, Touches(S), log' = log,
           NEW s \in Seq(Mild(files)),
           \/ files' = files /\ job'.todo = s /\ job'.then = "end"
           \/ s # <<>> /\ files' = Written(files, Head(s)) /\ job'.todo = Tail(s) /\ job'.then = "end"
    PROVE  Standing'
<1>1. CASE begun = None \/ begun.how # "open"
  BY <1>1, NothingStands DEF Touches
<1>2. CASE begun # None /\ begun.how = "open"
  <2> DEFINE e == [begun EXCEPT !.touched = @ \cup S]
  <2>1. begun \in Begun(Commits) /\ begun' = e /\ begun.op \in Operations /\ Aim(begun).op = begun.op
    BY <1>2, BegunIs DEF Touches
  <2>2. e \in Begun(Commits)
    BY <2>1 DEF Begun
  <2>3. e.how = "open" /\ Aim(e) = Aim(begun) /\ e.cut = begun.cut /\ e.fresh = begun.fresh
    BY <1>2, <2>1 DEF Begun, Aim
  <2> HIDE DEF e
  <2>4. ASSUME Counts(e) PROVE Stands(Aim(begun), "open", files', job'.todo, "end")
    <3>1. Live
      BY <1>2, <2>3, <2>4 DEF Counts, Live
    <3>2. Stands(Aim(begun), "open", files, <<>>, "end")
      BY <1>2, <3>1 DEF Standing, AbortInv, Idle
    <3>3. Stands(Aim(begun), "open", files, s, "end")
      BY <2>1, <3>2, MildStands
    <3>4. CASE files' = files /\ job'.todo = s
      BY <3>3, <3>4
    <3>5. CASE s # <<>> /\ files' = Written(files, Head(s)) /\ job'.todo = Tail(s)
      <4>1. s \in Seq(Writes(Nat)) /\ files \in FilesOver(Nat)
        <5>1. Mild(files) \subseteq Writes(Nat)
          BY DEF Mild, Working
        <5>2. Commits \subseteq Nat /\ files \in FilesOver(Commits)
          BY DEF TypeInv, Commits
        <5> DEFINE M == Mild(files)
        <5>3. s \in Seq(M) /\ M \subseteq Writes(Nat)
          BY <5>1
        <5> HIDE DEF M
        <5> QED BY <5>2, <5>3, Within, MoreCommits
      <4>2. Stands(Aim(begun), "open", Written(files, Head(s)), Tail(s), "end")
        BY <2>1, <3>3, <3>5, <4>1, StandsOn
      <4> QED BY <3>5, <4>2
    <3> QED BY <3>4, <3>5
  <2>5. log' = log \o <<>> /\ <<>> \in Seq(Entry)
    BY NothingAdded, EmptySeq
  <2>6. Counts(e) => Stands(Aim(e), e.how, files', job'.todo, job'.then)
    BY <2>3, <2>4
  <2> QED BY <2>1, <2>2, <2>5, <2>6, Started
<1> QED BY <1>1, <1>2

LEMMA WithUnmerges ==
    ASSUME NEW i \in Indexes, NEW p, NEW c PROVE With(i, p, c).unmerged \subseteq i.unmerged
BY DEF With

LEMMA EditingStands == ASSUME TypeInv, Standing, Editing PROVE Standing'
<1> DEFINE M == Mild(files)
<1>0. /\ job = Idle
      /\ \A t \in Tree : Put("worktree", t) \in Seq(M)
      /\ \A i \in Indexes : i.unmerged \subseteq files.index.unmerged => Put("index", i) \in Seq(M)
      /\ \A p \in Paths : ClearConflict(p) \in Seq(M)
      /\ <<>> \in Seq(M)
  BY StartsIdle, MildWrites, EmptySeq
<1>1. ASSUME NEW p \in Paths, NEW c \in Typed, Edit(p, c) PROVE Standing'
  <2> DEFINE t == [files.worktree EXCEPT ![p] = c]
             w == [at |-> "worktree", to |-> t]
  <2>1. t \in Tree
    BY TypedIsContent, Facts DEF Tree
  <2>2. Touches({p}) /\ log' = log /\ job' = job /\ files' = [files EXCEPT !.worktree = t]
    BY <1>1, Facts DEF Edit, Tree
  <2>3. files' = Written(files, w)
    BY <2>2 DEF Written
  <2>4. Put("worktree", t) \in Seq(M) /\ Put("worktree", t) = <<w>>
    BY <1>0, <2>1 DEF Put
  <2> HIDE DEF w, t
  <2>5. <<w>> # <<>> /\ Head(<<w>>) = w /\ Tail(<<w>>) = <<>>
    OBVIOUS
  <2> DEFINE s == <<w>>
  <2>6. s \in Seq(Mild(files)) /\ s # <<>> /\ files' = Written(files, Head(s)) /\ job'.todo = Tail(s)
        /\ job'.then = "end" /\ {p} \in SUBSET Paths
    BY <1>0, <2>2, <2>3, <2>4, <2>5 DEF Idle
  <2> HIDE DEF s
  <2> QED BY <1>0, <2>2, <2>6, TouchesStands
<1>2. ASSUME NEW cmd, NEW S \in SUBSET Paths, NEW todo \in Seq(M), RunEdit(cmd, S, todo)
      PROVE  Standing'
  BY <1>2, <1>0, TouchesStands DEF RunEdit
<1>3. ASSUME NEW p \in Paths, Add(p) PROVE Standing'
  <2> DEFINE todo == Put("index", With(files.index, p, files.worktree[p])) \o ClearConflict(p)
  <2>1. files.worktree[p] \in Contents \cup {Gone}
    BY Facts DEF Tree
  <2>2. todo \in Seq(M)
    <3>1. With(files.index, p, files.worktree[p]) \in Indexes
          /\ With(files.index, p, files.worktree[p]).unmerged \subseteq files.index.unmerged
      BY <2>1, IndexTyped, Facts, WithUnmerges
    <3> HIDE DEF M
    <3> QED BY <1>0, <3>1, Joined
  <2>3. RunEdit("add", {p}, todo) /\ {p} \in SUBSET Paths
    BY <1>3 DEF Add
  <2> HIDE DEF todo, M
  <2> QED BY <1>2, <2>2, <2>3
<1>4. ASSUME NEW p \in Paths, NEW cached \in BOOLEAN, Rm(p, cached) PROVE Standing'
  <2> DEFINE a == Put("index", With(files.index, p, Gone))
             b == ClearConflict(p)
             c == IF cached THEN <<>> ELSE Put("worktree", [files.worktree EXCEPT ![p] = Gone])
  <2>1. a \in Seq(M)
    <3>1. With(files.index, p, Gone) \in Indexes /\ With(files.index, p, Gone).unmerged \subseteq files.index.unmerged
      BY IndexTyped, Facts, WithUnmerges
    <3> HIDE DEF M
    <3> QED BY <1>0, <3>1
  <2>2. b \in Seq(M)
    BY <1>0
  <2>3. c \in Seq(M)
    <3>1. [files.worktree EXCEPT ![p] = Gone] \in Tree
      BY Facts DEF Tree
    <3> HIDE DEF M
    <3> QED BY <1>0, <3>1
  <2>4. RunEdit("rm", {p}, a \o b \o c) /\ {p} \in SUBSET Paths
    BY <1>4 DEF Rm
  <2> HIDE DEF a, b, c, M
  <2> QED BY <1>2, <2>1, <2>2, <2>3, <2>4, Three
<1>5. ASSUME NEW p \in Paths, NEW q \in Paths, Mv(p, q) PROVE Standing'
  <2> DEFINE removed == With(files.index, p, Gone)
             moved == With(removed, q, files.worktree[p])
             a == Put("worktree", [files.worktree EXCEPT ![q] = files.worktree[p], ![p] = Gone])
             b == Put("index", removed)
             c == Put("index", moved)
  <2>1. files.worktree[p] \in Contents \cup {Gone}
    BY Facts DEF Tree
  <2>2. removed \in Indexes /\ removed.unmerged \subseteq files.index.unmerged
    BY IndexTyped, Facts, WithUnmerges
  <2>3. moved \in Indexes /\ moved.unmerged \subseteq removed.unmerged
    <3> HIDE DEF removed
    <3> QED BY <2>1, <2>2, IndexTyped, WithUnmerges
  <2>4. a \in Seq(M)
    <3>1. [files.worktree EXCEPT ![q] = files.worktree[p], ![p] = Gone] \in Tree
      BY <2>1, Facts DEF Tree
    <3> HIDE DEF M
    <3> QED BY <1>0, <3>1
  <2>5. RunEdit("mv", {p, q}, a \o b \o c) /\ {p, q} \in SUBSET Paths
    BY <1>5 DEF Mv
  <2> HIDE DEF removed, moved, M
  <2>6. b \in Seq(M) /\ c \in Seq(M)
    BY <1>0, <2>2, <2>3
  <2> HIDE DEF a, b, c
  <2> QED BY <1>2, <2>4, <2>5, <2>6, Three
<1> QED BY <1>1, <1>3, <1>4, <1>5 DEF Editing

-----------------------------------------------------------------------------
(***************************************************************************)
(* Concluding an operation.                                                *)
(***************************************************************************)
\* A commit in the middle of a merge or a cherry-pick.
LEMMA CommitConcludes ==
    ASSUME TypeInv, Standing, job.todo = <<>>, Live, NEW i \in Indexes, ~Calm(files),
           files.mergeHead # None \/ files.cherry # None
    PROVE  Stands(Aim(begun), "finished", files, Committed(i), "end")
<1> DEFINE a == Aim(begun)
<1>1. Held(a, files) /\ a.op \in Operations
  BY AtRest, LiveIs, BegunIs
<1> HIDE DEF a
<1>2. files.rebase = None /\ files.bisect = None
  BY <1>1 DEF Held, Operations
<1>3. PICK u : /\ Leads(files, Committed(i), u)
               /\ u.mergeHead = None /\ u.cherry = None /\ u.rebase = files.rebase /\ u.bisect = files.bisect
  BY CommittedLeads
<1>4. Calm(u)
  BY <1>2, <1>3 DEF Calm
<1> QED BY <1>3, <1>4, Concluding DEF a

LEMMA CommittingStands == ASSUME TypeInv, Standing, Committing PROVE Standing'
<1>0. job.todo = <<>>
  BY StartsIdle DEF Idle
<1>1. ASSUME Commit PROVE Standing'
  <2> DEFINE r == Record(files.index.staged, HeadAndMergeHead, NewCommit)
             todo == Committed(files.index)
  <2>1. Run("commit", todo, "end", <<r>>) /\ Concludes
    BY <1>1 DEF Commit
  <2>2. r \in Entry /\ files.index \in Indexes
    BY Facts, ParentsTyped, MoreFacts, RecordTyped
  <2> HIDE DEF r
  <2>3. <<r>> \in Seq(Entry)
    BY <2>2, OneWrite
  <2>4. files' = files /\ log' = log \o <<r>> /\ job'.todo = todo /\ job'.then = "end"
    BY <2>1 DEF Run
  <2>5. CASE ~(Operation \in {"merge", "cherry-pick"})
    BY <2>1, <2>5, NothingStands DEF Concludes, Unrelated
  <2>6. CASE Operation \in {"merge", "cherry-pick"}
    <3>1. Ends("finished")
      BY <2>1, <2>6 DEF Concludes
    <3>2. ~Calm(files) /\ (files.mergeHead # None \/ files.cherry # None)
      BY <2>6, OperationIs, CalmIsNone
    <3>3. Live => Stands(Aim(begun), "finished", files, todo, "end")
      BY <1>0, <2>2, <3>2, CommitConcludes
    <3> HIDE DEF todo
    <3> QED BY <2>3, <2>4, <3>1, <3>3, EndsStands
  <2> QED BY <2>5, <2>6
<1>2. ASSUME Amend \/ \E p \in Paths : CommitOnly(p) PROVE Standing'
  <2>1. begun' = None
    BY <1>2, Zenon DEF Amend, CommitOnly, Unrelated
  <2> QED BY <2>1, NothingStands
<1> QED BY <1>1, <1>2 DEF Committing

-----------------------------------------------------------------------------
(***************************************************************************)
(* Merges.                                                                 *)
(***************************************************************************)
\* On a calm repository a commit writes no state file.
LEMMA CommittedQuiet ==
    ASSUME TypeInv, Calm(files), NEW i \in Indexes PROVE Committed(i) \in Seq(Quiet)
<1>1. files.mergeHead = None /\ files["cherry"] = None
  BY DEF Calm
<1>2. /\ Put("mergeOrig", None) \in Seq(Quiet) /\ Put("conflicts", {}) \in Seq(Quiet)
      /\ \A x \in Branches \cup Nat : Put("head", x) \in Seq(Quiet)
      /\ \A x \in [Branches -> Nat \cup {None}] : Put("branch", x) \in Seq(Quiet)
  BY WritesAre, PutIn DEF Quiet, StateFiles
<1>3. ClearMerge(i) \in Seq(Quiet) /\ Clear("cherry", i) \in Seq(Quiet)
  BY <1>1, <1>2, ClearMergeIn, ClearIn
<1>4. MoveHead(NewCommit) \in Seq(Quiet)
  <2>1. NewCommit \in Nat /\ [files.branch EXCEPT ![files.head] = NewCommit] \in [Branches -> Nat \cup {None}]
    <3>1. Commits \subseteq Nat /\ NewCommit \in Nat /\ files.branch \in [Branches -> Commits \cup {None}]
      BY Facts, MoreFacts DEF Commits
    <3> QED BY <3>1
  <2> QED BY <1>2, <2>1 DEF MoveHead, SetBranch
<1> QED BY <1>3, <1>4, Three DEF Committed

\* Where an operation begins.
LEMMA TargetIs ==
    ASSUME TypeInv, HeadSha # None, NEW op
    PROVE  /\ Target(op).op = op /\ Target(op).head = files.head /\ Target(op).tip = HeadSha
           /\ Target(op).tip \in Nat /\ Heading(Target(op), files)
BY Facts, TipIsHead DEF Commits, Target, Heading

LEMMA MergeStands ==
    ASSUME TypeInv, Standing, NEW theirs \in Tips, NEW squash \in BOOLEAN, Merge(theirs, squash) PROVE Standing'
<1>1. HeadSha \in Commits /\ theirs \in Commits /\ HeadSha # None /\ Ready
  BY Facts DEF Merge, Tips
<1>2. PICK base \in MergeBases(log, HeadSha, theirs) :
          LET r == ThreeWay(TreeAt(base), TreeAt(theirs))
          IN  /\ \/ Run("merge", ReplaceTracked(TreeAt(theirs)) \o MoveHead(theirs), "end", <<>>)
                 \/ Run("merge", Applied(r) \o Put("index", WithStages(r))
                                 \o Put("mergeHead", theirs) \o Put("mergeOrig", HeadSha)
                                 \o Put("conflicts", r.clashes), "end", <<>>)
                 \/ Run("merge", Applied(r), "end", <<>>)
                 \/ Run("merge", Applied(r) \o Committed(r.index), "end",
                        <<Record(r.index.staged, <<HeadSha, theirs>>, NewCommit)>>)
              /\ Begins("merge", base, theirs)
  BY Zenon DEF Merge
<1>3. base \in Commits \cup {None}
  BY <1>1, BasesAreCommits, RecordedIsDated DEF TypeInv, Commits
<1> DEFINE r == ThreeWay(TreeAt(base), TreeAt(theirs))
           a == Target("merge")
<1>4. r \in Outcomes /\ r.index \in Indexes /\ r.index.staged \in Tree /\ r.clashes \in SUBSET Paths
  BY <1>1, <1>3, TreesTyped, ThreeWayTyped DEF Outcomes, Indexes
<1>5. Calm(files)
  BY <1>1, CalmIsNone DEF Ready
<1>6. "merge" \in Operations /\ a.op = "merge" /\ a.tip = HeadSha /\ a.tip \in Nat /\ Heading(a, files)
  BY <1>1, TargetIs DEF Operations
<1> HIDE DEF r, a
<1>7. Working \subseteq Quiet /\ Working \subseteq Fitting(a)
  BY <1>6, WorkingFits
<1>8. /\ ReplaceTracked(TreeAt(theirs)) \in Seq(Working)
      /\ Applied(r) \in Seq(Working) /\ Put("index", WithStages(r)) \in Seq(Working)
      /\ Put("conflicts", r.clashes) \in Seq(Working)
  BY <1>1, <1>4, TreesTyped, WorkingWrites
<1>9. ASSUME NEW todo, NEW new \in Seq(Entry), Run("merge", todo, "end", new),
             todo \in Seq(Quiet) \/ (files.mergeOrig = None => Held(a, files) /\ todo \in Seq(Fitting(a)))
      PROVE  Standing'
  <2>1. files' = files /\ log' = log \o new /\ job'.todo = todo /\ job'.then = "end"
    BY <1>9 DEF Run
  <2>2. ASSUME files.mergeOrig = None PROVE Stands(a, "open", files, todo, "end")
    BY <1>5, <1>6, OpenQuiet, OpenHeld, <1>9, <2>2
  <2>3. files.mergeOrig = None /\ files.index.unmerged = {} =>
            Stands(Target("merge"), "open", files, job'.todo, job'.then)
    BY <2>1, <2>2 DEF a
  <2>4. Begins("merge", base, theirs) /\ HeadSha # None /\ theirs \in Commits \cup {None}
    BY <1>1, <1>2
  <2> QED BY <1>3, <1>6, <2>1, <2>3, <2>4, BeginsStands
<1>10. <<>> \in Seq(Entry)
  BY EmptySeq
<1>11. CASE Run("merge", ReplaceTracked(TreeAt(theirs)) \o MoveHead(theirs), "end", <<>>)
  <2>1. MoveHead(theirs) \in Seq(Quiet)
    <3>1. CASE files.head \in Branches
      <4> DEFINE x == [files.branch EXCEPT ![files.head] = theirs]
      <4>1. x \in [Branches -> Nat \cup {None}]
        <5>1. Commits \subseteq Nat /\ files.branch \in [Branches -> Commits \cup {None}]
          BY Facts DEF Commits
        <5> QED BY <1>1, <5>1
      <4>2. MoveHead(theirs) = Put("branch", x)
        BY <3>1 DEF MoveHead, SetBranch
      <4> HIDE DEF x
      <4>3. [at |-> "branch", to |-> x] \in Quiet
        BY <4>1, WritesAre DEF Quiet, StateFiles
      <4> QED BY <4>2, <4>3, PutIn
    <3>2. CASE files.head \notin Branches
      <4>1. theirs \in Branches \cup Nat /\ MoveHead(theirs) = Put("head", theirs)
        BY <1>1, <3>2 DEF MoveHead, Commits
      <4>2. [at |-> "head", to |-> theirs] \in Quiet
        BY <4>1, WritesAre DEF Quiet, StateFiles
      <4> QED BY <4>1, <4>2, PutIn
    <3> QED BY <3>1, <3>2
  <2>2. ReplaceTracked(TreeAt(theirs)) \in Seq(Quiet)
    BY <1>7, <1>8, Within
  <2> QED BY <1>9, <1>10, <1>11, <2>1, <2>2, Joined
<1>12. CASE Run("merge", Applied(r) \o Put("index", WithStages(r)) \o Put("mergeHead", theirs)
                         \o Put("mergeOrig", HeadSha) \o Put("conflicts", r.clashes), "end", <<>>)
  <2> DEFINE F == Fitting(a)
  <2>1. Applied(r) \in Seq(F) /\ Put("index", WithStages(r)) \in Seq(F) /\ Put("conflicts", r.clashes) \in Seq(F)
    <3>1. Working \subseteq F
      BY <1>7
    <3> HIDE DEF F
    <3> QED BY <1>8, <3>1, Within
  <2>2. Put("mergeHead", theirs) \in Seq(F) /\ Put("mergeOrig", HeadSha) \in Seq(F)
    <3>1. theirs \in Nat \cup {None} /\ HeadSha \in {None, a.tip}
      BY <1>1, <1>6 DEF Commits
    <3>2. [at |-> "mergeHead", to |-> theirs] \in F /\ [at |-> "mergeOrig", to |-> HeadSha] \in F
      BY <1>6, <3>1, OwnFits
    <3> HIDE DEF F
    <3> QED BY <3>2, PutIn
  <2>3. files.mergeOrig = None => Held(a, files)
    BY <1>5, <1>6 DEF Calm, Held
  <2> HIDE DEF F
  <2>4. Applied(r) \o Put("index", WithStages(r)) \o Put("mergeHead", theirs) \o Put("mergeOrig", HeadSha) \in Seq(F)
    BY <2>1, <2>2, Four
  <2>5. Applied(r) \o Put("index", WithStages(r)) \o Put("mergeHead", theirs) \o Put("mergeOrig", HeadSha)
            \o Put("conflicts", r.clashes) \in Seq(F)
    BY <2>1, <2>4, Joined
  <2> QED BY <1>9, <1>10, <1>12, <2>3, <2>5 DEF F
<1>13. CASE Run("merge", Applied(r), "end", <<>>)
  BY <1>7, <1>8, Within, <1>9, <1>10, <1>13
<1>14. CASE Run("merge", Applied(r) \o Committed(r.index), "end",
                <<Record(r.index.staged, <<HeadSha, theirs>>, NewCommit)>>)
  <2> DEFINE e == Record(r.index.staged, <<HeadSha, theirs>>, NewCommit)
  <2>1. e \in Entry
    <3>1. <<HeadSha, theirs>> \in Seq(Commits) /\ NewCommit \in Nat \cup {None}
      BY <1>1, MoreFacts
    <3> QED BY <1>4, <3>1, RecordTyped
  <2> HIDE DEF e
  <2>2. <<e>> \in Seq(Entry)
    BY <2>1, OneWrite
  <2>3. Applied(r) \in Seq(Quiet) /\ Committed(r.index) \in Seq(Quiet)
    BY <1>4, <1>5, <1>7, <1>8, Within, CommittedQuiet
  <2>4. Applied(r) \o Committed(r.index) \in Seq(Quiet)
    BY <2>3, Joined
  <2>5. Run("merge", Applied(r) \o Committed(r.index), "end", <<e>>)
    BY <1>14 DEF e
  <2> QED BY <1>9, <2>2, <2>4, <2>5
<1> QED BY <1>2, <1>11, <1>12, <1>13, <1>14 DEF r

LEMMA IndexIs ==
    ASSUME TypeInv, NEW t \in Tree
    PROVE  /\ Index(t) \in Indexes /\ Index(t).staged = t /\ Index(t).unmerged = files.index.unmerged
           /\ files.index.unmerged = {} => Index(t) = [staged |-> t, unmerged |-> {}]
<1>1. files.index \in Indexes
  BY Facts
<1> QED BY <1>1 DEF Index, Indexes

\* HEAD has not moved, nothing of an operation is left, and the files are those of the commit.
LEMMA BackAgain ==
    ASSUME NEW a, NEW u, u.head = a.head, Tip(u) = a.tip,
           u.mergeHead = None, u.cherry = None, u.rebase = None, u.bisect = None, u.conflicts = {},
           u.index = [staged |-> a.tree, unmerged |-> {}], \A p \in PathsOf(a.tree) : u.worktree[p] = a.tree[p]
    PROVE  Back(a, u)
BY DEF Back, Heading, Calm

LEMMA MergeAbortStands == ASSUME TypeInv, Standing, MergeAbort PROVE Standing'
<1> DEFINE original == IF files.mergeOrig = None THEN HeadSha ELSE files.mergeOrig
           t == TreeAt(original)
           todo == ReplaceTracked(t) \o ClearMerge(Index(t))
           a == Aim(begun)
<1>1. job = Idle /\ files.mergeHead # None /\ Ends("aborted") /\ Run("merge_abort", todo, "end", <<>>)
  BY DEF MergeAbort, MayStart
<1>2. files' = files /\ log' = log \o <<>> /\ <<>> \in Seq(Entry) /\ job'.todo = todo /\ job'.then = "end"
      /\ job.todo = <<>>
  BY <1>1, EmptySeq DEF Run, Idle
<1>3. ASSUME Live PROVE Stands(a, "aborted", files, todo, "end")
  <2>1. ~Calm(files)
    BY <1>1 DEF Calm
  <2>2. Held(a, files) /\ a.op \in Operations /\ a.tip \in Commits /\ a.tree = TreeAt(a.tip)
    BY <1>2, <1>3, <2>1, AtRest, LiveIs, BegunIs
  <2> HIDE DEF a
  <2>3. a.op = "merge" /\ Heading(a, files) /\ files.mergeOrig \in {None, a.tip}
        /\ files.cherry = None /\ files.rebase = None /\ files.bisect = None
    BY <1>1, <2>2 DEF Held
  <2>4. original = a.tip
    BY <2>3, TipIsHead DEF Heading
  <2>5. t = a.tree /\ t \in Tree
    BY <2>2, <2>4, TreesTyped
  <2> HIDE DEF original, t
  <2>6. Index(t) \in Indexes /\ Index(t).staged = t
    BY <2>5, IndexIs
  <2>7. todo \in Seq(Fitting(a))
    <3> DEFINE F == Fitting(a)
               j == [Index(t) EXCEPT !.unmerged = {}]
    <3>1. Working \subseteq F
      BY <2>3, WorkingFits
    <3>2. /\ ReplaceTracked(t) \in Seq(Working)
          /\ Put("conflicts", {}) \in Seq(Working) /\ Put("index", j) \in Seq(Working)
      BY <2>5, <2>6, WorkingWrites, IndexTyped
    <3>3. [at |-> "mergeHead", to |-> None] \in F /\ [at |-> "mergeOrig", to |-> None] \in F
      <4>1. a.tip \in Nat
        BY <2>2 DEF Commits
      <4> QED BY <2>3, <4>1, OwnFits
    <3> HIDE DEF F
    <3>4. Put("mergeHead", None) \in Seq(F) /\ Put("mergeOrig", None) \in Seq(F)
      BY <3>3, PutIn
    <3>5. ReplaceTracked(t) \in Seq(F) /\ Put("conflicts", {}) \in Seq(F) /\ Put("index", j) \in Seq(F)
      BY <3>1, <3>2, Within
    <3>6. ClearMerge(Index(t)) \in Seq(F)
      BY <3>4, <3>5, ClearMergeIn
    <3> QED BY <3>5, <3>6, Joined DEF F
  <2>8. /\ files \in FilesOver(Nat)
        /\ ReplaceTracked(t) \in Seq(Writes(Nat)) /\ ClearMerge(Index(t)) \in Seq(Writes(Nat))
    <3>1. Commits \subseteq Nat /\ files \in FilesOver(Commits)
      BY DEF TypeInv, Commits
    <3> QED BY <2>5, <2>6, <3>1, MoreCommits, CommonWrites, HoldingWrites
  <2>9. PICK u : /\ Leads(files, ReplaceTracked(t), u) /\ u \in FilesOver(Nat)
                 /\ u.index = Index(t) /\ \A p \in PathsOf(t) : u.worktree[p] = t[p]
                 /\ \A g \in Names \ {"worktree", "index"} : u[g] = files[g]
    BY <2>5, <2>8, ReplaceLeads
  <2>10. /\ u["head"] = files["head"] /\ u["branch"] = files["branch"] /\ u["mergeHead"] = files["mergeHead"]
         /\ u["mergeOrig"] = files["mergeOrig"] /\ u["conflicts"] = files["conflicts"]
         /\ u["cherry"] = files["cherry"] /\ u["rebase"] = files["rebase"] /\ u["bisect"] = files["bisect"]
    BY <2>9 DEF Names
  <2>11. PICK x : MergeCleared(u, Index(t), x)
    BY <2>6, <2>9, <2>10, ClearMergeLeads
  <2>12. /\ x["head"] = u["head"] /\ x["branch"] = u["branch"] /\ x["cherry"] = u["cherry"]
         /\ x["rebase"] = u["rebase"] /\ x["bisect"] = u["bisect"] /\ x["worktree"] = u["worktree"]
    BY <2>11 DEF MergeCleared, Names
  <2>13. /\ x.mergeHead = None /\ x.conflicts = {} /\ x.index = [staged |-> t, unmerged |-> {}]
         /\ Leads(u, ClearMerge(Index(t)), x)
    BY <1>1, <2>6, <2>9, <2>11 DEF MergeCleared
  <2>14. Back(a, x)
    <3>1. x.head = a.head /\ Tip(x) = a.tip
      BY <2>3, <2>10, <2>12 DEF Heading, Tip
    <3>2. x.cherry = None /\ x.rebase = None /\ x.bisect = None
      BY <2>3, <2>10, <2>12
    <3>3. \A p \in PathsOf(a.tree) : x.worktree[p] = a.tree[p]
      BY <2>5, <2>9, <2>12
    <3> QED BY <2>5, <2>13, <3>1, <3>2, <3>3, BackAgain
  <2>15. Leads(files, todo, x)
    BY <2>8, <2>9, <2>13, LeadsBoth
  <2> HIDE DEF todo
  <2> QED BY <2>2, <2>7, <2>14, <2>15, Aborting
<1> HIDE DEF todo
<1>4. Live => Stands(Aim(begun), "aborted", files, job'.todo, job'.then)
  BY <1>2, <1>3
<1> QED BY <1>1, <1>2, <1>4, EndsStands

LEMMA MergingStands == ASSUME TypeInv, Standing, Merging PROVE Standing'
BY MergeStands, MergeAbortStands DEF Merging

-----------------------------------------------------------------------------
(***************************************************************************)
(* Cherry-picks.                                                           *)
(***************************************************************************)
LEMMA CherryPickStands ==
    ASSUME TypeInv, Standing, NEW c \in Named, NEW noCommit \in BOOLEAN, CherryPick(c, noCommit) PROVE Standing'
<1> DEFINE r == ThreeWay(ParentTree(c), TreeAt(c))
           a == Target("cherry-pick")
           e == Record(r.index.staged, HeadAndMergeHead, log[c].msg)
           own == Put("cherry", [source |-> c, before |-> HeadSha])
<1>1. c \in Commits /\ HeadSha \in Commits /\ HeadSha # None /\ Ready
  BY NamedAreCommits, Facts DEF CherryPick
<1>2. /\ \/ Run("cherry_pick", Conflicted(r) \o own, "end", <<>>)
         \/ Run("cherry_pick", Applied(r), "end", <<>>)
         \/ Run("cherry_pick", Applied(r) \o Committed(r.index), "end", <<e>>)
      /\ Begins("cherry-pick", None, c)
  BY Zenon DEF CherryPick
<1>3. r \in Outcomes /\ r.index \in Indexes /\ r.index.staged \in Tree
  BY <1>1, TreesTyped, ThreeWayTyped DEF Outcomes, Indexes
<1>4. Calm(files)
  BY <1>1, CalmIsNone DEF Ready
<1>5. "cherry-pick" \in Operations /\ a.op = "cherry-pick" /\ a.tip = HeadSha /\ a.tip \in Nat /\ Heading(a, files)
  BY <1>1, TargetIs DEF Operations
<1>6. e \in Entry
  <2>1. log[c].msg \in Nat \cup {None} /\ HeadAndMergeHead \in Seq(Commits)
    BY <1>1, TreesTyped, ParentsTyped
  <2> HIDE DEF r
  <2> QED BY <1>3, <2>1, RecordTyped
<1>7. own \in Seq(Fitting(a))
  <2> DEFINE p == [source |-> c, before |-> HeadSha]
  <2>1. p \in Picks(Nat) /\ p.before = a.tip
    BY <1>1, <1>5 DEF Picks, Commits
  <2> HIDE DEF p, a
  <2>2. [at |-> "cherry", to |-> p] \in Fitting(a)
    BY <1>5, <2>1, OwnFits
  <2>3. Put("cherry", p) \in Seq(Fitting(a))
    BY <2>2, PutIn
  <2> QED BY <2>3 DEF p
<1> HIDE DEF r, a, e, own
<1>8. Working \subseteq Quiet /\ Working \subseteq Fitting(a)
  BY <1>5, WorkingFits
<1>9. Applied(r) \in Seq(Working) /\ Conflicted(r) \in Seq(Working)
  BY <1>3, WorkingWrites
<1>10. Applied(r) \in Seq(Quiet) /\ Conflicted(r) \in Seq(Fitting(a)) /\ Committed(r.index) \in Seq(Quiet)
  <2> DEFINE F == Fitting(a)
  <2>1. Working \subseteq F
    BY <1>8
  <2> HIDE DEF F
  <2>2. Conflicted(r) \in Seq(F)
    BY <1>9, <2>1, Within
  <2> QED BY <1>3, <1>4, <1>8, <1>9, <2>2, Within, CommittedQuiet DEF F
<1>11. ASSUME NEW todo, NEW new \in Seq(Entry), Run("cherry_pick", todo, "end", new),
              todo \in Seq(Quiet) \/ todo \in Seq(Fitting(a))
       PROVE  Standing'
  <2>1. files' = files /\ log' = log \o new /\ job'.todo = todo /\ job'.then = "end"
    BY <1>11 DEF Run
  <2>2. Held(a, files)
    BY <1>4, <1>5 DEF Calm, Held
  <2>3. Stands(a, "open", files, todo, "end")
    BY <1>4, <1>5, <1>11, <2>2, OpenQuiet, OpenHeld
  <2>4. files.mergeOrig = None /\ files.index.unmerged = {} =>
            Stands(Target("cherry-pick"), "open", files, job'.todo, job'.then)
    BY <2>1, <2>3 DEF a
  <2>5. Begins("cherry-pick", None, c) /\ HeadSha # None /\ c \in Commits \cup {None} /\ None \in Commits \cup {None}
    BY <1>1, <1>2
  <2> QED BY <1>5, <2>1, <2>4, <2>5, BeginsStands
<1>12. <<>> \in Seq(Entry) /\ <<e>> \in Seq(Entry)
  BY <1>6, EmptySeq, OneWrite
<1>13. CASE Run("cherry_pick", Conflicted(r) \o own, "end", <<>>)
  <2>1. Conflicted(r) \o own \in Seq(Fitting(a))
    <3> DEFINE F == Fitting(a)
    <3>1. Conflicted(r) \in Seq(F) /\ own \in Seq(F)
      BY <1>7, <1>10
    <3> HIDE DEF F
    <3>2. Conflicted(r) \o own \in Seq(F)
      BY <3>1, Joined
    <3> QED BY <3>2 DEF F
  <2> QED BY <1>11, <1>12, <1>13, <2>1
<1>14. CASE Run("cherry_pick", Applied(r), "end", <<>>)
  BY <1>10, <1>11, <1>12, <1>14
<1>15. CASE Run("cherry_pick", Applied(r) \o Committed(r.index), "end", <<e>>)
  BY <1>10, Joined, <1>11, <1>12, <1>15
<1> QED BY <1>2, <1>13, <1>14, <1>15

LEMMA CherryContinueStands == ASSUME TypeInv, Standing, CherryContinue PROVE Standing'
<1> DEFINE clear == Clear("cherry", files.index)
           whole == Committed(files.index)
           e == Record(files.index.staged, HeadAndMergeHead, log[files.cherry.source].msg)
<1>1. /\ job = Idle /\ files.cherry # None /\ Ends("finished")
      /\ \/ Run("cherry_continue", clear, "end", <<>>)
         \/ Run("cherry_continue", whole, "end", <<e>>)
  BY DEF CherryContinue, MayStart
<1>2. job.todo = <<>> /\ ~Calm(files) /\ files.index \in Indexes /\ files \in FilesOver(Nat)
  BY <1>1, MoreCommits, Facts DEF TypeInv, Commits, Calm, Idle
<1>3. e \in Entry
  BY <1>1, Facts, TreesTyped, ParentsTyped, RecordTyped DEF Picks
<1>4. Live => Stands(Aim(begun), "finished", files, whole, "end")
  BY <1>1, <1>2, CommitConcludes
<1>5. ASSUME Live PROVE Stands(Aim(begun), "finished", files, clear, "end")
  <2> DEFINE a == Aim(begun)
  <2>1. Held(a, files) /\ a.op \in Operations
    BY <1>2, <1>5, AtRest, LiveIs, BegunIs
  <2> HIDE DEF a
  <2>2. files.mergeHead = None /\ files.rebase = None /\ files.bisect = None
    BY <1>1, <2>1 DEF Held
  <2>3. PICK u : Cleared(files, "cherry", files.index, u)
    BY <1>2, ClearLeads
  <2>4. /\ u["cherry"] = None /\ u["mergeHead"] = files["mergeHead"] /\ u["rebase"] = files["rebase"]
        /\ u["bisect"] = files["bisect"] /\ Leads(files, clear, u)
    BY <2>3 DEF Cleared, Names
  <2>5. Calm(u)
    BY <2>2, <2>4 DEF Calm
  <2> QED BY <2>4, <2>5, Concluding DEF a
<1> HIDE DEF clear, whole, e
<1>6. ASSUME NEW todo, NEW new \in Seq(Entry), Run("cherry_continue", todo, "end", new),
             Live => Stands(Aim(begun), "finished", files, todo, "end")
      PROVE  Standing'
  BY <1>6, <1>1, EndsStands DEF Run
<1>7. <<>> \in Seq(Entry) /\ <<e>> \in Seq(Entry)
  BY <1>3, EmptySeq, OneWrite
<1> QED BY <1>1, <1>4, <1>5, <1>6, <1>7

LEMMA CherryAbortStands == ASSUME TypeInv, Standing, CherryAbort PROVE Standing'
<1> DEFINE t == TreeAt(files.cherry.before)
           clear == Clear("cherry", Index(t))
           todo == ReplaceTracked(t) \o clear \o ClearConflicts
           a == Aim(begun)
<1>1. job = Idle /\ files.cherry # None /\ Ends("aborted") /\ Run("cherry_abort", todo, "end", <<>>)
  BY DEF CherryAbort, MayStart
<1>2. files' = files /\ log' = log \o <<>> /\ <<>> \in Seq(Entry) /\ job'.todo = todo /\ job'.then = "end"
      /\ job.todo = <<>>
  BY <1>1, EmptySeq DEF Run, Idle
<1>3. ASSUME Live PROVE Stands(a, "aborted", files, todo, "end")
  <2>1. ~Calm(files)
    BY <1>1 DEF Calm
  <2>2. Held(a, files) /\ a.op \in Operations /\ a.tip \in Commits /\ a.tree = TreeAt(a.tip)
    BY <1>2, <1>3, <2>1, AtRest, LiveIs, BegunIs
  <2> HIDE DEF a
  <2>3. a.op = "cherry-pick" /\ Heading(a, files) /\ files.cherry.before = a.tip
        /\ files.mergeHead = None /\ files.rebase = None /\ files.bisect = None
    BY <1>1, <2>2 DEF Held
  <2>4. t = a.tree /\ t \in Tree
    BY <2>2, <2>3, TreesTyped
  <2> HIDE DEF t
  <2>5. Index(t) \in Indexes /\ Index(t).staged = t
    BY <2>4, IndexIs
  <2>6. todo \in Seq(Fitting(a))
    <3> DEFINE F == Fitting(a)
               j == [Index(t) EXCEPT !.unmerged = {}]
    <3>1. Working \subseteq F
      BY <2>3, WorkingFits
    <3>2. ReplaceTracked(t) \in Seq(Working) /\ ClearConflicts \in Seq(Working) /\ Put("index", j) \in Seq(Working)
      BY <2>4, <2>5, WorkingWrites, IndexTyped
    <3>3. [at |-> "cherry", to |-> None] \in F
      <4>1. a.tip \in Nat
        BY <2>2 DEF Commits
      <4> QED BY <2>3, <4>1, OwnFits
    <3> HIDE DEF F
    <3>4. Put("cherry", None) \in Seq(F)
      BY <3>3, PutIn
    <3>5. ReplaceTracked(t) \in Seq(F) /\ ClearConflicts \in Seq(F) /\ Put("index", j) \in Seq(F)
      BY <3>1, <3>2, Within
    <3>6. clear \in Seq(F)
      BY <3>4, <3>5, ClearIn
    <3> HIDE DEF clear
    <3> QED BY <3>5, <3>6, Three DEF F
  <2>7. files \in FilesOver(Nat) /\ ReplaceTracked(t) \in Seq(Writes(Nat)) /\ clear \in Seq(Writes(Nat))
        /\ ClearConflicts \in Seq(Writes(Nat))
    <3>1. Commits \subseteq Nat /\ files \in FilesOver(Commits)
      BY DEF TypeInv, Commits
    <3> QED BY <2>4, <2>5, <3>1, MoreCommits, CommonWrites, HoldingWrites
  <2>8. PICK u : /\ Leads(files, ReplaceTracked(t), u) /\ u \in FilesOver(Nat)
                 /\ u.index = Index(t) /\ \A p \in PathsOf(t) : u.worktree[p] = t[p]
                 /\ \A g \in Names \ {"worktree", "index"} : u[g] = files[g]
    BY <2>4, <2>7, ReplaceLeads
  <2>9. /\ u["head"] = files["head"] /\ u["branch"] = files["branch"] /\ u["mergeHead"] = files["mergeHead"]
        /\ u["conflicts"] = files["conflicts"] /\ u["cherry"] = files["cherry"]
        /\ u["rebase"] = files["rebase"] /\ u["bisect"] = files["bisect"]
    BY <2>8 DEF Names
  <2>10. PICK x : Cleared(u, "cherry", Index(t), x)
    BY <2>5, <2>8, <2>9, ClearLeads
  <2>11. /\ x["head"] = u["head"] /\ x["branch"] = u["branch"] /\ x["mergeHead"] = u["mergeHead"]
         /\ x["rebase"] = u["rebase"] /\ x["bisect"] = u["bisect"] /\ x["worktree"] = u["worktree"]
         /\ x["conflicts"] = u["conflicts"] /\ x["cherry"] = None /\ x \in FilesOver(Nat)
    BY <2>10 DEF Cleared, Names
  <2>12. x.index = [staged |-> t, unmerged |-> {}] /\ Leads(u, clear, x)
    BY <1>1, <2>5, <2>8, <2>10 DEF Cleared
  <2>13. PICK z : /\ Leads(x, ClearConflicts, z)
                  /\ \A g \in Names \ {"conflicts"} : z[g] = x[g]
                  /\ z["conflicts"] = {}
    <3> DEFINE e == {}
    <3>1. ClearConflicts \in {<<>>, Put("conflicts", e)} /\ (ClearConflicts = <<>> => files.conflicts = {})
      BY DEF ClearConflicts, Put
    <3>2. [at |-> "conflicts", to |-> e] \in Writes(Nat)
      BY WritesAre
    <3>3. e = {}
      OBVIOUS
    <3> HIDE DEF e
    <3>4. PICK y : Reaches(x, ClearConflicts, "conflicts", e, y)
      BY <2>11, <3>1, <3>2, LeadsMay
    <3>5. y["conflicts"] = {}
      BY <2>9, <2>11, <3>1, <3>3, <3>4 DEF Reaches
    <3> QED BY <3>4, <3>5 DEF Reaches
  <2>14. /\ z["head"] = x["head"] /\ z["branch"] = x["branch"] /\ z["mergeHead"] = x["mergeHead"]
         /\ z["rebase"] = x["rebase"] /\ z["bisect"] = x["bisect"] /\ z["worktree"] = x["worktree"]
         /\ z["index"] = x["index"] /\ z["cherry"] = x["cherry"]
    BY <2>13 DEF Names
  <2>15. Back(a, z)
    <3>1. z.head = a.head /\ Tip(z) = a.tip
      BY <2>3, <2>9, <2>11, <2>14 DEF Heading, Tip
    <3>2. z.mergeHead = None /\ z.cherry = None /\ z.rebase = None /\ z.bisect = None /\ z.conflicts = {}
      BY <2>3, <2>9, <2>11, <2>13, <2>14
    <3>3. \A p \in PathsOf(a.tree) : z.worktree[p] = a.tree[p]
      BY <2>4, <2>8, <2>11, <2>14
    <3>4. z.index = [staged |-> a.tree, unmerged |-> {}]
      BY <2>4, <2>12, <2>14
    <3> QED BY <3>1, <3>2, <3>3, <3>4, BackAgain
  <2> HIDE DEF clear
  <2>16. ReplaceTracked(t) \o clear \in Seq(Writes(Nat))
    BY <2>7, Joined
  <2>17. Leads(files, ReplaceTracked(t) \o clear, x)
    BY <2>7, <2>8, <2>12, LeadsBoth
  <2>18. Leads(files, todo, z)
    BY <2>7, <2>13, <2>16, <2>17, LeadsBoth
  <2> HIDE DEF todo
  <2> QED BY <2>2, <2>6, <2>15, <2>18, Aborting
<1> HIDE DEF todo
<1>4. Live => Stands(Aim(begun), "aborted", files, job'.todo, job'.then)
  BY <1>2, <1>3
<1> QED BY <1>1, <1>2, <1>4, EndsStands

LEMMA PickingStands == ASSUME TypeInv, Standing, Picking PROVE Standing'
<1>1. \A c : Revert(c) => begun' = None
  BY Zenon DEF Revert, Unrelated
<1> QED BY <1>1, NothingStands, CherryPickStands, CherryContinueStands, CherryAbortStands DEF Picking

-----------------------------------------------------------------------------
(***************************************************************************)
(* Rebases.                                                                *)
(***************************************************************************)
LEMMA BranchFits ==
    ASSUME TypeInv, NEW a, a.op = "rebase", a.tip \in Nat, NEW b \in Branches, NEW c \in Nat
    PROVE  SetBranch(b, c) \in Seq(Fitting(a))
<1> DEFINE x == [files.branch EXCEPT ![b] = c]
           F == Fitting(a)
<1>1. x \in [Branches -> Nat \cup {None}]
  BY Facts DEF Commits
<1> HIDE DEF x
<1>2. [at |-> "branch", to |-> x] \in F
  BY <1>1, OwnFits
<1> HIDE DEF F
<1>3. Put("branch", x) \in Seq(F)
  BY <1>2, PutIn
<1> QED BY <1>3 DEF SetBranch, x, F

\* A commit while a rebase is in progress.
LEMMA CommittedFits ==
    ASSUME TypeInv, NEW a, a.op = "rebase", a.tip \in Nat, files.head \in Branches, NEW i \in Indexes
    PROVE  Committed(i) \in Seq(Fitting(a))
<1> DEFINE F == Fitting(a)
           j == [i EXCEPT !.unmerged = {}]
<1>1. MoveHead(NewCommit) \in Seq(F)
  BY BranchFits, MoreFacts DEF MoveHead
<1>2. Working \subseteq F /\ Put("conflicts", {}) \in Seq(Working) /\ Put("index", j) \in Seq(Working)
  BY WorkingFits, WorkingWrites, IndexTyped
<1>3. /\ [at |-> "mergeHead", to |-> None] \in F /\ [at |-> "mergeOrig", to |-> None] \in F
      /\ [at |-> "cherry", to |-> None] \in F
  BY OwnFits
<1> HIDE DEF F
<1>4. /\ Put("mergeHead", None) \in Seq(F) /\ Put("mergeOrig", None) \in Seq(F)
      /\ Put("cherry", None) \in Seq(F) /\ Put("conflicts", {}) \in Seq(F) /\ Put("index", j) \in Seq(F)
  BY <1>2, <1>3, PutIn, Within
<1>5. ClearMerge(i) \in Seq(F) /\ Clear("cherry", i) \in Seq(F)
  BY <1>4, ClearMergeIn, ClearIn
<1> QED BY <1>1, <1>5, Three DEF Committed, F

\* What the state of a rebase becomes.
LEMMA StateFits ==
    ASSUME NEW a, a.op = "rebase", a.tip \in Nat, NEW x \in Rebases(Nat),
           x.branch = a.head, x.original = a.tip
    PROVE  Put("rebase", x) \in Seq(Fitting(a))
<1> DEFINE F == Fitting(a)
<1>1. [at |-> "rebase", to |-> x] \in F
  BY OwnFits
<1> HIDE DEF F
<1> QED BY <1>1, PutIn DEF F

\* A rebase is in progress: the operation that counts is that rebase.
LEMMA RebaseHeld ==
    ASSUME TypeInv, Standing, job.todo = <<>>, Live, files.rebase # None
    PROVE  /\ begun.how = "open" /\ Held(Aim(begun), files) /\ Aim(begun).op = "rebase"
           /\ Aim(begun).tip \in Commits /\ Aim(begun).tip \in Nat /\ files.head = Aim(begun).head
           /\ Aim(begun).tree = TreeAt(Aim(begun).tip)
           /\ files.head \in Branches
           /\ files.rebase.branch = Aim(begun).head /\ files.rebase.original = Aim(begun).tip
           /\ files.mergeHead = None /\ files.cherry = None /\ files.bisect = None
BY AtRest, LiveIs, BegunIs DEF Calm, Commits, Held

LEMMA NotStoppedFits ==
    ASSUME TypeInv, files.rebase # None, NEW a, a.op = "rebase", a.tip \in Nat,
           files.rebase.branch = a.head, files.rebase.original = a.tip
    PROVE  NotStopped \in Seq(Fitting(a))
<1> DEFINE x == [files.rebase EXCEPT !.current = None]
<1>1. files.rebase \in Rebases(Nat)
  BY Facts, MoreRebases DEF Commits
<1>2. x \in Rebases(Nat) /\ x.branch = a.head /\ x.original = a.tip
  BY <1>1 DEF Rebases
<1> HIDE DEF x
<1>3. Put("rebase", x) \in Seq(Fitting(a))
  BY <1>2, StateFits
<1> QED BY <1>3 DEF NotStopped, x

LEMMA RebaseStands == ASSUME TypeInv, Standing, NEW onto \in Tips, Rebase(onto) PROVE Standing'
<1>1. HeadSha \in Commits /\ onto \in Commits /\ HeadSha # None /\ Ready /\ files.head \in Branches
  BY Facts DEF Rebase, Tips
<1> DEFINE path(base) == FirstParents(log, HeadSha, base)
           state(base) == [branch   |-> files.head,
                           original |-> HeadSha,
                           onto     |-> onto,
                           pending  |-> [i \in DOMAIN path(base) |-> path(base)[Len(path(base)) + 1 - i]],
                           current  |-> None]
           moved == ReplaceTracked(TreeAt(onto)) \o SetBranch(files.head, onto)
           a == Target("rebase")
<1>2. PICK base \in MergeBases(log, HeadSha, onto) :
          /\ \/ Run("rebase", moved, "end", <<>>)
             \/ Run("rebase", StateFirst(Put("rebase", state(base)), moved), "replay", <<>>)
          /\ Begins("rebase", base, onto)
  BY Zenon DEF Rebase
<1>3. base \in Commits \cup {None}
  BY <1>1, BasesAreCommits, RecordedIsDated DEF TypeInv, Commits
<1>4. "rebase" \in Operations /\ a.op = "rebase" /\ a.tip = HeadSha /\ a.tip \in Nat /\ a.head = files.head
      /\ Heading(a, files)
  BY <1>1, TargetIs DEF Operations
<1>5. Held(a, files)
  <2>1. Calm(files)
    BY <1>1, CalmIsNone DEF Ready
  <2> HIDE DEF a
  <2> QED BY <1>1, <1>4, <2>1 DEF Calm, Held
<1>6. Put("rebase", state(base)) \in Seq(Fitting(a))
  <2>1. state(base) \in Rebases(Nat)
    <3>0. Commits \subseteq Nat
      BY DEF Commits
    <3>1. path(base) \in Seq(Commits)
      BY <1>1, FirstParentsTyped DEF TypeInv, Commits
    <3> HIDE DEF path
    <3>2. [i \in DOMAIN path(base) |-> path(base)[Len(path(base)) + 1 - i]] \in Seq(Commits)
      BY <3>1, Turned
    <3>3. state(base) \in Rebases(Commits)
      BY <1>1, <3>2 DEF Rebases
    <3> HIDE DEF state
    <3> QED BY <3>0, <3>3, MoreRebases
  <2>2. state(base).branch = a.head /\ state(base).original = a.tip
    BY <1>4
  <2> HIDE DEF state, a
  <2> QED BY <1>4, <2>1, <2>2, StateFits
<1> HIDE DEF a, state
<1>7. moved \in Seq(Fitting(a))
  <2> DEFINE F == Fitting(a)
  <2>1. Working \subseteq F /\ ReplaceTracked(TreeAt(onto)) \in Seq(Working)
    BY <1>1, <1>4, WorkingFits, WorkingWrites, TreesTyped
  <2>2. SetBranch(files.head, onto) \in Seq(F)
    BY <1>1, <1>4, BranchFits DEF Commits
  <2> HIDE DEF F
  <2>3. ReplaceTracked(TreeAt(onto)) \in Seq(F)
    BY <2>1, Within
  <2> QED BY <2>2, <2>3, Joined DEF F
<1> HIDE DEF moved
<1>8. StateFirst(Put("rebase", state(base)), moved) \in Seq(Fitting(a))
  BY <1>6, <1>7, Joined DEF StateFirst
<1>9. ASSUME NEW todo \in Seq(Fitting(a)), NEW then, Run("rebase", todo, then, <<>>) PROVE Standing'
  <2>1. files' = files /\ log' = log \o <<>> /\ <<>> \in Seq(Entry) /\ job'.todo = todo /\ job'.then = then
    BY <1>9, EmptySeq DEF Run
  <2>2. Stands(a, "open", files, todo, then)
    BY <1>5, OpenHeld
  <2>3. files.mergeOrig = None /\ files.index.unmerged = {} =>
            Stands(Target("rebase"), "open", files, job'.todo, job'.then)
    BY <2>1, <2>2 DEF a
  <2>4. Begins("rebase", base, onto) /\ HeadSha # None /\ onto \in Commits \cup {None}
    BY <1>1, <1>2
  <2> QED BY <1>3, <1>4, <2>1, <2>3, <2>4, BeginsStands
<1> QED BY <1>2, <1>7, <1>8, <1>9

LEMMA RebaseContinueStands == ASSUME TypeInv, Standing, RebaseContinue PROVE Standing'
<1> DEFINE e == Record(files.index.staged, HeadAndMergeHead, log[files.rebase.current].msg)
           whole == Committed(files.index) \o NotStopped
<1>1. /\ job = Idle /\ files.rebase # None /\ begun' = begun
      /\ \/ Run("rebase_continue", <<>>, "replay", <<>>)
         \/ Run("rebase_continue", NotStopped, "replay", <<>>)
         \/ files.rebase.current # None /\ Run("rebase_continue", whole, "replay", <<e>>)
  BY DEF RebaseContinue, MayStart
<1>2. job.todo = <<>>
  BY <1>1 DEF Idle
<1>3. files.rebase.current # None => e \in Entry
  <2> SUFFICES ASSUME files.rebase.current # None PROVE e \in Entry
    OBVIOUS
  <2>1. files.rebase.current \in Commits
    BY <1>1, RebaseTyped DEF Rebases
  <2>2. log[files.rebase.current].msg \in Nat \cup {None}
    BY <2>1, TreesTyped
  <2> QED BY <2>2, Facts, ParentsTyped, RecordTyped
<1> HIDE DEF e
<1>4. ASSUME NEW todo, NEW new \in Seq(Entry), Run("rebase_continue", todo, "replay", new),
             todo \in {<<>>, NotStopped, whole}
      PROVE  Standing'
  <2>1. files' = files /\ log' = log \o new /\ job'.todo = todo /\ job'.then = "replay"
    BY <1>4 DEF Run
  <2>2. ASSUME Live PROVE Stands(Aim(begun), begun.how, files, todo, "replay")
    <3> DEFINE a == Aim(begun)
    <3>1. /\ begun.how = "open" /\ Held(a, files) /\ a.op = "rebase" /\ a.tip \in Nat /\ files.head \in Branches
          /\ files.rebase.branch = a.head /\ files.rebase.original = a.tip
      BY <1>1, <1>2, <2>2, RebaseHeld
    <3> HIDE DEF a
    <3>2. NotStopped \in Seq(Fitting(a)) /\ Committed(files.index) \in Seq(Fitting(a))
      BY <1>1, <3>1, NotStoppedFits, CommittedFits, Facts
    <3>3. whole \in Seq(Fitting(a)) /\ <<>> \in Seq(Fitting(a))
      BY <3>2, Joined, EmptySeq
    <3>4. todo \in Seq(Fitting(a))
      BY <1>4, <3>2, <3>3
    <3> QED BY <3>1, <3>4, OpenHeld DEF a
  <2>3. Live => Stands(Aim(begun), begun.how, files, job'.todo, job'.then)
    BY <2>1, <2>2
  <2> QED BY <1>1, <2>1, <2>3, GoesOnStands
<1> HIDE DEF whole
<1>5. <<>> \in Seq(Entry) /\ (files.rebase.current # None => <<e>> \in Seq(Entry))
  BY <1>3, EmptySeq, OneWrite
<1> QED BY <1>1, <1>4, <1>5

LEMMA RebaseAbortStands == ASSUME TypeInv, Standing, RebaseAbort PROVE Standing'
<1> DEFINE s == files.rebase
           t == TreeAt(s.original)
           moved == SetBranch(s.branch, s.original)
           headed == Put("head", s.branch)
           clear == Clear("rebase", Index(t))
           todo == ReplaceTracked(t) \o moved \o headed \o clear \o ClearConflicts
           a == Aim(begun)
           W == Writes(Nat)
<1>1. job = Idle /\ files.rebase # None /\ Ends("aborted") /\ Run("rebase_abort", todo, "end", <<>>)
  BY DEF RebaseAbort, MayStart
<1>2. files' = files /\ log' = log \o <<>> /\ <<>> \in Seq(Entry) /\ job'.todo = todo /\ job'.then = "end"
      /\ job.todo = <<>>
  BY <1>1, EmptySeq DEF Run, Idle
<1>3. ASSUME Live PROVE Stands(a, "aborted", files, todo, "end")
  <2>1. /\ Held(a, files) /\ a.op = "rebase" /\ a.tip \in Commits /\ a.tip \in Nat /\ a.tree = TreeAt(a.tip)
        /\ files.head = a.head /\ files.head \in Branches /\ s.branch = a.head /\ s.original = a.tip
        /\ files.mergeHead = None /\ files.cherry = None /\ files.bisect = None
    BY <1>1, <1>2, <1>3, RebaseHeld
  <2> HIDE DEF a
  <2>2. t = a.tree /\ t \in Tree
    BY <2>1, TreesTyped
  <2> HIDE DEF t
  <2>3. Index(t) \in Indexes /\ Index(t).staged = t
    BY <2>2, IndexIs
  <2> DEFINE nb == [files.branch EXCEPT ![a.head] = a.tip]
  <2>4. moved = Put("branch", nb) /\ headed = Put("head", a.head)
    BY <2>1 DEF SetBranch
  <2>5. nb \in [Branches -> Nat \cup {None}] /\ nb[a.head] = a.tip
    BY Facts, <2>1 DEF Commits
  <2> HIDE DEF nb, moved, headed
  <2>6. /\ ReplaceTracked(t) \in Seq(Fitting(a)) /\ moved \in Seq(Fitting(a)) /\ headed \in Seq(Fitting(a))
        /\ clear \in Seq(Fitting(a)) /\ ClearConflicts \in Seq(Fitting(a))
    <3> DEFINE F == Fitting(a)
               j == [Index(t) EXCEPT !.unmerged = {}]
    <3>1. Working \subseteq F
      BY <2>1, WorkingFits
    <3>2. ReplaceTracked(t) \in Seq(Working) /\ ClearConflicts \in Seq(Working) /\ Put("index", j) \in Seq(Working)
      BY <2>2, <2>3, WorkingWrites, IndexTyped
    <3>3. /\ [at |-> "branch", to |-> nb] \in F /\ [at |-> "head", to |-> a.head] \in F
          /\ [at |-> "rebase", to |-> None] \in F
      BY <2>1, <2>5, OwnFits
    <3> HIDE DEF F
    <3>4. Put("rebase", None) \in Seq(F) /\ moved \in Seq(F) /\ headed \in Seq(F)
      BY <2>4, <3>3, PutIn
    <3>5. ReplaceTracked(t) \in Seq(F) /\ ClearConflicts \in Seq(F) /\ Put("index", j) \in Seq(F)
      BY <3>1, <3>2, Within
    <3>6. clear \in Seq(F)
      BY <3>4, <3>5, ClearIn
    <3> QED BY <3>4, <3>5, <3>6 DEF F
  <2>7. todo \in Seq(Fitting(a))
    <3> DEFINE F == Fitting(a)
    <3> HIDE DEF F, clear
    <3>1. /\ ReplaceTracked(t) \in Seq(F) /\ moved \in Seq(F) /\ headed \in Seq(F)
          /\ clear \in Seq(F) /\ ClearConflicts \in Seq(F)
      BY <2>6 DEF F
    <3>2. ReplaceTracked(t) \o moved \o headed \o clear \in Seq(F)
      BY <3>1, Four
    <3>3. todo \in Seq(F)
      BY <3>1, <3>2, Joined
    <3> QED BY <3>3 DEF F
  <2>8. files \in FilesOver(Nat) /\ Commits \subseteq Nat
    BY MoreCommits DEF TypeInv, Commits
  <2>9. /\ ReplaceTracked(t) \in Seq(W) /\ moved \in Seq(W) /\ headed \in Seq(W)
        /\ clear \in Seq(W) /\ ClearConflicts \in Seq(W)
    <3>1. Fitting(a) \subseteq W
      BY DEF Fitting
    <3> DEFINE F == Fitting(a)
    <3>2. F \subseteq W
      BY <3>1
    <3> HIDE DEF F, clear, W
    <3>3. /\ ReplaceTracked(t) \in Seq(F) /\ moved \in Seq(F) /\ headed \in Seq(F)
          /\ clear \in Seq(F) /\ ClearConflicts \in Seq(F)
      BY <2>6 DEF F
    <3> QED BY <3>2, <3>3, Within
  <2>10. PICK u : /\ Leads(files, ReplaceTracked(t), u) /\ u \in FilesOver(Nat)
                  /\ u.index = Index(t) /\ \A p \in PathsOf(t) : u.worktree[p] = t[p]
                  /\ \A g \in Names \ {"worktree", "index"} : u[g] = files[g]
    BY <2>2, <2>8, ReplaceLeads
  <2>11. PICK v : Reaches(u, moved, "branch", nb, v)
    BY <2>5, WritesAre, <2>4, <2>10, LeadsMay
  <2>12. moved # <<>> /\ headed # <<>>
    BY <2>4 DEF Put
  <2>13. PICK x : Reaches(v, headed, "head", a.head, x)
    <3>1. [at |-> "head", to |-> a.head] \in Writes(Nat)
      BY <2>1, WritesAre
    <3>2. v \in FilesOver(Nat)
      BY <2>11 DEF Reaches
    <3> QED BY <2>4, <3>1, <3>2, LeadsMay
  <2>14. /\ v["branch"] = nb /\ x["head"] = a.head /\ x["branch"] = v["branch"]
         /\ \A g \in Names \ {"worktree", "index", "branch", "head"} : x[g] = files[g]
         /\ x["index"] = u["index"] /\ x["worktree"] = u["worktree"]
         /\ x \in FilesOver(Nat) /\ Leads(u, moved, v) /\ Leads(v, headed, x)
    BY <2>10, <2>11, <2>12, <2>13 DEF Reaches, Names
  <2>15. /\ x["rebase"] = files["rebase"] /\ x["mergeHead"] = files["mergeHead"]
         /\ x["cherry"] = files["cherry"] /\ x["bisect"] = files["bisect"]
         /\ x["conflicts"] = files["conflicts"] /\ x["index"] = Index(t)
    BY <2>10, <2>14 DEF Names
  <2>16. PICK y : Cleared(x, "rebase", Index(t), y)
    BY <2>3, <2>14, <2>15, ClearLeads
  <2>17. /\ y["head"] = x["head"] /\ y["branch"] = x["branch"] /\ y["mergeHead"] = x["mergeHead"]
         /\ y["cherry"] = x["cherry"] /\ y["bisect"] = x["bisect"] /\ y["worktree"] = x["worktree"]
         /\ y["conflicts"] = x["conflicts"] /\ y["rebase"] = None /\ y \in FilesOver(Nat)
    BY <2>16 DEF Cleared, Names
  <2>18. y.index = [staged |-> t, unmerged |-> {}] /\ Leads(x, clear, y)
    BY <1>1, <2>3, <2>15, <2>16 DEF Cleared
  <2>19. PICK z : /\ Leads(y, ClearConflicts, z)
                  /\ \A g \in Names \ {"conflicts"} : z[g] = y[g]
                  /\ z["conflicts"] = {}
    <3> DEFINE e == {}
    <3>1. ClearConflicts \in {<<>>, Put("conflicts", e)} /\ (ClearConflicts = <<>> => files.conflicts = {})
      BY DEF ClearConflicts, Put
    <3>2. [at |-> "conflicts", to |-> e] \in Writes(Nat)
      BY WritesAre
    <3>3. e = {}
      OBVIOUS
    <3> HIDE DEF e
    <3>4. PICK o : Reaches(y, ClearConflicts, "conflicts", e, o)
      BY <2>17, <3>1, <3>2, LeadsMay
    <3>5. o["conflicts"] = {}
      BY <2>15, <2>17, <3>1, <3>3, <3>4 DEF Reaches
    <3> QED BY <3>4, <3>5 DEF Reaches
  <2>20. /\ z["head"] = y["head"] /\ z["branch"] = y["branch"] /\ z["mergeHead"] = y["mergeHead"]
         /\ z["rebase"] = y["rebase"] /\ z["bisect"] = y["bisect"] /\ z["worktree"] = y["worktree"]
         /\ z["index"] = y["index"] /\ z["cherry"] = y["cherry"]
    BY <2>19 DEF Names
  <2>21. Back(a, z)
    <3>1. z.head = a.head /\ z.branch[a.head] = a.tip
      BY <2>5, <2>14, <2>17, <2>20
    <3>2. Tip(z) = a.tip
      BY <2>1, <3>1 DEF Tip
    <3>3. z.mergeHead = None /\ z.cherry = None /\ z.rebase = None /\ z.bisect = None /\ z.conflicts = {}
      BY <2>1, <2>15, <2>17, <2>19, <2>20
    <3>4. \A p \in PathsOf(a.tree) : z.worktree[p] = a.tree[p]
      BY <2>2, <2>10, <2>14, <2>17, <2>20
    <3>5. z.index = [staged |-> a.tree, unmerged |-> {}]
      BY <2>2, <2>18, <2>20
    <3> QED BY <3>1, <3>2, <3>3, <3>4, <3>5, BackAgain
  <2> HIDE DEF clear, W
  <2>22. /\ ReplaceTracked(t) \o moved \in Seq(W) /\ ReplaceTracked(t) \o moved \o headed \in Seq(W)
         /\ ReplaceTracked(t) \o moved \o headed \o clear \in Seq(W)
    BY <2>9, Joined, Three, Four
  <2>23. Leads(files, ReplaceTracked(t) \o moved, v)
    BY <2>9, <2>10, <2>14, LeadsBoth
  <2>24. Leads(files, ReplaceTracked(t) \o moved \o headed, x)
    BY <2>9, <2>14, <2>22, <2>23, LeadsBoth
  <2>25. Leads(files, ReplaceTracked(t) \o moved \o headed \o clear, y)
    BY <2>9, <2>18, <2>22, <2>24, LeadsBoth
  <2>26. Leads(files, todo, z)
    BY <2>9, <2>19, <2>22, <2>25, LeadsBoth
  <2> HIDE DEF todo
  <2> QED BY <2>1, <2>7, <2>21, <2>26, Aborting
<1> HIDE DEF todo
<1>4. Live => Stands(Aim(begun), "aborted", files, job'.todo, job'.then)
  BY <1>2, <1>3
<1> QED BY <1>1, <1>2, <1>4, EndsStands

LEMMA RebasingStands == ASSUME TypeInv, Standing, Rebasing PROVE Standing'
<1>1. RebaseSkip => begun' = None
  BY Zenon DEF RebaseSkip, Unrelated
<1> QED BY <1>1, NothingStands, RebaseStands, RebaseContinueStands, RebaseAbortStands DEF Rebasing

-----------------------------------------------------------------------------
(***************************************************************************)
(* Bisections.                                                             *)
(***************************************************************************)
\* A bisection is in progress: the operation that counts is that bisection.
LEMMA BisectHeld ==
    ASSUME TypeInv, Standing, job.todo = <<>>, Live, files.bisect # None
    PROVE  /\ begun.how = "open" /\ Held(Aim(begun), files) /\ Aim(begun).op = "bisect"
           /\ Aim(begun).tip \in Commits /\ Aim(begun).tip \in Nat
           /\ Aim(begun).tree = TreeAt(Aim(begun).tip)
           /\ files.index.unmerged = {}
           /\ files.bisect.head = Aim(begun).head /\ files.bisect.sha = Aim(begun).tip
           /\ IF Aim(begun).head \in Branches THEN files.branch[Aim(begun).head] = Aim(begun).tip
              ELSE Aim(begun).head = Aim(begun).tip
           /\ files.mergeHead = None /\ files.cherry = None /\ files.rebase = None
BY AtRest, LiveIs, BegunIs DEF Calm, Commits, Held

\* The checkout of the next candidate, and the state.
LEMMA BisectNextFits ==
    ASSUME TypeInv, files.index.unmerged = {}, NEW a, a.op = "bisect", a.tip \in Nat,
           NEW state \in Bisects(Commits), Bisectable(state.bad, state.good),
           state.head = a.head, state.sha = a.tip
    PROVE  BisectNext(state) \in Seq(Fitting(a))
<1> DEFINE c == Candidate(state.bad, state.good)
           out == IF state.bad = None \/ state.good = None THEN <<>>
                  ELSE ReplaceTracked(TreeAt(c)) \o Put("head", c)
           F == Fitting(a)
<1>0. Commits \subseteq Nat
  BY DEF Commits
<1>1. Put("bisect", state) \in Seq(F)
  <2>1. state \in Bisects(Nat)
    BY <1>0 DEF Bisects
  <2>2. [at |-> "bisect", to |-> state] \in F
    BY <2>1, OwnFits
  <2> HIDE DEF F
  <2> QED BY <2>2, PutIn
<1>2. out \in Seq(F)
  <2>1. CASE state.bad = None \/ state.good = None
    BY <2>1, EmptySeq
  <2>2. CASE ~(state.bad = None \/ state.good = None)
    <3>1. c \in Commits
      BY <2>2, CandidateTyped DEF Bisects, Bisectable
    <3> HIDE DEF c
    <3> DEFINE M == Mild(files)
    <3>2. M \subseteq F /\ ReplaceTracked(TreeAt(c)) \in Seq(M)
      BY <3>1, WorkingFits, MildWrites, TreesTyped
    <3>3. [at |-> "head", to |-> c] \in F
      BY <1>0, <3>1, OwnFits
    <3> HIDE DEF F, M
    <3>4. ReplaceTracked(TreeAt(c)) \in Seq(F) /\ Put("head", c) \in Seq(F)
      BY <3>2, <3>3, Within, PutIn
    <3> QED BY <2>2, <3>4, Joined
  <2> QED BY <2>1, <2>2
<1>3. BisectNext(state) = out \o Put("bisect", state)
  BY DEF BisectNext
<1> HIDE DEF out
<1> QED BY <1>1, <1>2, <1>3, Joined

LEMMA BisectStartStands ==
    ASSUME TypeInv, Standing, NEW bad \in Named \cup {None}, NEW good \in Named \cup {None},
           BisectStart(bad, good)
    PROVE  Standing'
<1> DEFINE state == [head |-> files.head, sha |-> HeadSha, bad |-> bad, good |-> good]
           a == Target("bisect")
<1>1. /\ Run("bisect_start", BisectNext(state), "end", <<>>) /\ Begins("bisect", None, None)
      /\ HeadSha # None /\ HeadSha \in Commits /\ Bisectable(bad, good) /\ Ready
  BY Facts DEF BisectStart
<1>2. state \in Bisects(Commits)
  BY <1>1, Facts, NamedAreCommits DEF Bisects
<1>3. "bisect" \in Operations /\ a.op = "bisect" /\ a.tip = HeadSha /\ a.tip \in Nat /\ a.head = files.head
  BY <1>1, TargetIs DEF Operations
<1>4. state.head = a.head /\ state.sha = a.tip /\ state.bad = bad /\ state.good = good
  BY <1>3
<1> HIDE DEF state, a
<1>5. ASSUME files.index.unmerged = {} PROVE Stands(a, "open", files, BisectNext(state), "end")
  <2>1. BisectNext(state) \in Seq(Fitting(a))
    BY <1>1, <1>2, <1>3, <1>4, <1>5, BisectNextFits
  <2>2. Calm(files)
    BY <1>1, CalmIsNone DEF Ready
  <2>3. IF a.head \in Branches THEN files.branch[a.head] = a.tip ELSE a.head = a.tip
    BY <1>3 DEF HeadSha
  <2>4. Held(a, files)
    BY <1>3, <1>5, <2>2, <2>3 DEF Calm, Held
  <2> QED BY <2>1, <2>4, OpenHeld
<1>6. files' = files /\ log' = log \o <<>> /\ <<>> \in Seq(Entry) /\ job'.todo = BisectNext(state)
      /\ job'.then = "end"
  BY <1>1, EmptySeq DEF Run
<1>7. files.mergeOrig = None /\ files.index.unmerged = {} =>
          Stands(Target("bisect"), "open", files, job'.todo, job'.then)
  BY <1>5, <1>6 DEF a
<1>8. None \in Commits \cup {None}
  OBVIOUS
<1> QED BY <1>1, <1>3, <1>6, <1>7, <1>8, BeginsStands

LEMMA BisectMarkStands ==
    ASSUME TypeInv, Standing, NEW kind \in {"bad", "good"}, NEW c \in Named, BisectMark(kind, c)
    PROVE  Standing'
<1> DEFINE state == [files.bisect EXCEPT ![kind] = c]
<1>1. /\ job = Idle /\ files.bisect # None /\ begun' = begun
      /\ Run("bisect_mark", BisectNext(state), "end", <<>>) /\ Bisectable(state.bad, state.good)
  BY DEF BisectMark, MayStart
<1>2. job.todo = <<>> /\ files' = files /\ log' = log \o <<>> /\ <<>> \in Seq(Entry)
      /\ job'.todo = BisectNext(state) /\ job'.then = "end"
  BY <1>1, EmptySeq DEF Run, Idle
<1>3. /\ state \in Bisects(Commits)
      /\ state.head = files.bisect.head /\ state.sha = files.bisect.sha
  BY <1>1, Facts, NamedAreCommits DEF Bisects
<1> HIDE DEF state
<1>4. ASSUME Live PROVE Stands(Aim(begun), begun.how, files, BisectNext(state), "end")
  <2> DEFINE a == Aim(begun)
  <2>1. /\ begun.how = "open" /\ Held(a, files) /\ a.op = "bisect" /\ a.tip \in Nat
        /\ files.index.unmerged = {} /\ files.bisect.head = a.head /\ files.bisect.sha = a.tip
    BY <1>1, <1>2, <1>4, BisectHeld
  <2> HIDE DEF a
  <2>2. BisectNext(state) \in Seq(Fitting(a))
    BY <1>1, <1>3, <2>1, BisectNextFits
  <2> QED BY <2>1, <2>2, OpenHeld DEF a
<1>5. Live => Stands(Aim(begun), begun.how, files, job'.todo, job'.then)
  BY <1>2, <1>4
<1> QED BY <1>1, <1>2, <1>5, GoesOnStands

LEMMA BisectResetStands == ASSUME TypeInv, Standing, BisectReset PROVE Standing'
<1> DEFINE t == TreeAt(files.bisect.sha)
           headed == Put("head", files.bisect.head)
           done == Put("bisect", None)
           todo == ReplaceTracked(t) \o headed \o done
           a == Aim(begun)
           W == Writes(Nat)
<1>1. job = Idle /\ files.bisect # None /\ Ends("aborted") /\ Run("bisect_reset", todo, "end", <<>>)
      /\ files.conflicts = {}
  BY DEF BisectReset, MayStart, Clean
<1>2. files' = files /\ log' = log \o <<>> /\ <<>> \in Seq(Entry) /\ job'.todo = todo /\ job'.then = "end"
      /\ job.todo = <<>>
  BY <1>1, EmptySeq DEF Run, Idle
<1>3. ASSUME Live PROVE Stands(a, "aborted", files, todo, "end")
  <2>1. /\ Held(a, files) /\ a.op = "bisect" /\ a.tip \in Commits /\ a.tip \in Nat /\ a.tree = TreeAt(a.tip)
        /\ files.index.unmerged = {} /\ files.bisect.head = a.head /\ files.bisect.sha = a.tip
        /\ IF a.head \in Branches THEN files.branch[a.head] = a.tip ELSE a.head = a.tip
        /\ files.mergeHead = None /\ files.cherry = None /\ files.rebase = None
    BY <1>1, <1>2, <1>3, BisectHeld
  <2> HIDE DEF a
  <2>2. t = a.tree /\ t \in Tree /\ headed = Put("head", a.head)
    BY <2>1, TreesTyped
  <2> HIDE DEF t, headed
  <2>3. Index(t) = [staged |-> t, unmerged |-> {}]
    BY <2>1, <2>2, IndexIs
  <2>4. a.head \in Branches \cup Nat
    BY <2>1
  <2>5. [at |-> "head", to |-> a.head] \in W /\ [at |-> "bisect", to |-> None] \in W
    BY <2>4, WritesAre
  <2>6. ReplaceTracked(t) \in Seq(Fitting(a)) /\ headed \in Seq(Fitting(a)) /\ done \in Seq(Fitting(a))
    <3> DEFINE F == Fitting(a)
               M == Mild(files)
    <3>1. M \subseteq F /\ ReplaceTracked(t) \in Seq(M)
      BY <2>1, <2>2, WorkingFits, MildWrites
    <3>2. [at |-> "head", to |-> a.head] \in F /\ [at |-> "bisect", to |-> None] \in F
      BY <2>1, <2>4, OwnFits
    <3> HIDE DEF F, M
    <3>3. ReplaceTracked(t) \in Seq(F) /\ headed \in Seq(F) /\ done \in Seq(F)
      BY <2>2, <3>1, <3>2, Within, PutIn
    <3> QED BY <3>3 DEF F
  <2> HIDE DEF done
  <2>7. todo \in Seq(Fitting(a))
    <3> DEFINE F == Fitting(a)
    <3>1. ReplaceTracked(t) \in Seq(F) /\ headed \in Seq(F) /\ done \in Seq(F)
      BY <2>6
    <3> HIDE DEF F
    <3> QED BY <3>1, Three DEF F
  <2>8. files \in FilesOver(Nat)
    BY MoreCommits DEF TypeInv, Commits
  <2>9. ReplaceTracked(t) \in Seq(W) /\ headed \in Seq(W) /\ done \in Seq(W)
    <3> DEFINE F == Fitting(a)
    <3>1. F \subseteq W /\ ReplaceTracked(t) \in Seq(F) /\ headed \in Seq(F) /\ done \in Seq(F)
      BY <2>6 DEF Fitting
    <3> HIDE DEF F, W
    <3> QED BY <3>1, Within
  <2>10. PICK u : /\ Leads(files, ReplaceTracked(t), u) /\ u \in FilesOver(Nat)
                  /\ u.index = Index(t) /\ \A p \in PathsOf(t) : u.worktree[p] = t[p]
                  /\ \A g \in Names \ {"worktree", "index"} : u[g] = files[g]
    BY <2>2, <2>8, ReplaceLeads
  <2>11. PICK v : Reaches(u, headed, "head", a.head, v)
    BY <2>2, <2>5, <2>10, LeadsMay
  <2>12. PICK x : Reaches(v, done, "bisect", None, x)
    <3>1. v \in FilesOver(Nat)
      BY <2>11 DEF Reaches
    <3>2. done = Put("bisect", None)
      BY DEF done
    <3> QED BY <2>5, <3>1, <3>2, LeadsMay
  <2>13. headed # <<>> /\ done # <<>>
    BY <2>2 DEF Put, done
  <2>14. /\ v["head"] = a.head /\ x["head"] = v["head"] /\ x["bisect"] = None
         /\ \A g \in Names \ {"worktree", "index", "bisect", "head"} : x[g] = files[g]
         /\ x["index"] = u["index"] /\ x["worktree"] = u["worktree"]
         /\ Leads(u, headed, v) /\ Leads(v, done, x)
    BY <2>10, <2>11, <2>12, <2>13 DEF Reaches, Names
  <2>15. /\ x["rebase"] = files["rebase"] /\ x["mergeHead"] = files["mergeHead"]
         /\ x["cherry"] = files["cherry"] /\ x["branch"] = files["branch"]
         /\ x["conflicts"] = files["conflicts"] /\ x["index"] = Index(t)
    BY <2>10, <2>14 DEF Names
  <2>16. Back(a, x)
    <3>1. x.head = a.head /\ (IF a.head \in Branches THEN x.branch[a.head] = a.tip ELSE a.head = a.tip)
      BY <2>1, <2>14, <2>15
    <3>2. Tip(x) = a.tip
      BY <3>1 DEF Tip
    <3>3. x.mergeHead = None /\ x.cherry = None /\ x.rebase = None /\ x.bisect = None /\ x.conflicts = {}
      BY <1>1, <2>1, <2>14, <2>15
    <3>4. \A p \in PathsOf(a.tree) : x.worktree[p] = a.tree[p]
      BY <2>2, <2>10, <2>14
    <3>5. x.index = [staged |-> a.tree, unmerged |-> {}]
      BY <2>2, <2>3, <2>15
    <3> QED BY <3>1, <3>2, <3>3, <3>4, <3>5, BackAgain
  <2> HIDE DEF W
  <2>17. ReplaceTracked(t) \o headed \in Seq(W)
    BY <2>9, Joined
  <2>18. Leads(files, ReplaceTracked(t) \o headed, v)
    BY <2>9, <2>10, <2>14, LeadsBoth
  <2>19. Leads(files, todo, x)
    BY <2>9, <2>14, <2>17, <2>18, LeadsBoth
  <2> HIDE DEF todo
  <2> QED BY <2>1, <2>7, <2>16, <2>19, Aborting
<1> HIDE DEF todo
<1>4. Live => Stands(Aim(begun), "aborted", files, job'.todo, job'.then)
  BY <1>2, <1>3
<1> QED BY <1>1, <1>2, <1>4, EndsStands

LEMMA BisectingStands == ASSUME TypeInv, Standing, Bisecting PROVE Standing'
BY BisectStartStands, BisectMarkStands, BisectResetStands DEF Bisecting

-----------------------------------------------------------------------------
(***************************************************************************)
(* The other commands, and the rounds of a rebase.                         *)
(***************************************************************************)
LEMMA CheckoutPathStands ==
    ASSUME TypeInv, Standing, NEW p \in Paths, NEW c \in Tips, CheckoutPath(p, c) PROVE Standing'
<1> DEFINE t == [files.worktree EXCEPT ![p] = TreeAt(c)[p]]
           i == [files.index EXCEPT !.staged[p] = TreeAt(c)[p]]
           todo == Put("worktree", t) \o Put("index", i)
           M == Mild(files)
<1>1. job = Idle /\ Run("checkout_path", todo, "end", <<>>) /\ Touches({p})
  BY DEF CheckoutPath, MayStart, Simple
<1>2. t \in Tree /\ i \in Indexes /\ i.unmerged = files.index.unmerged
  <2>1. c \in Commits
    BY NamedAreCommits
  <2>2. TreeAt(c) \in Tree /\ files.worktree \in Tree /\ files.index \in Indexes
    BY <2>1, TreesTyped, Facts
  <2> QED BY <2>2 DEF Tree, Indexes
<1> HIDE DEF t, i
<1>3. Put("worktree", t) \in Seq(M) /\ Put("index", i) \in Seq(M)
  BY <1>2, MildWrites
<1> HIDE DEF M
<1>4. todo \in Seq(M)
  BY <1>3, Joined
<1>5. log' = log /\ files' = files /\ job'.todo = todo /\ job'.then = "end"
  BY <1>1, NothingAdded DEF Run
<1> HIDE DEF todo
<1>6. {p} \in SUBSET Paths
  OBVIOUS
<1> QED BY <1>1, <1>4, <1>5, <1>6, TouchesStands DEF M

\* The other commands that move HEAD, and those of the stash, end what was begun.
LEMMA MovingForgets == ASSUME Moving, ~ \E p \in Paths : \E c \in Tips : CheckoutPath(p, c) PROVE begun' = None
<1>1. \/ \E mode \in {"soft", "mixed", "hard"} : \E c \in Named : Reset(mode, c)
      \/ \E p \in Paths : \E c \in Tips : ResetPath(p, c)
      \/ \E c \in Named : Checkout(c, c)
      \/ \E b \in Branches : Checkout(b, files.branch[b])
      \/ \E b \in Branches : CheckoutOrphan(b) \/ DeleteBranch(b)
      \/ \E b \in Branches : \E c \in Tips : CreateBranch(b, c)
      \/ \E b \in Branches : \E new \in Branches : RenameBranch(b, new)
  BY DEF Moving
<1>2. /\ \A mode, c : Reset(mode, c) => begun' = None
      /\ \A p, c : ResetPath(p, c) => begun' = None
      /\ \A h, c : Checkout(h, c) => begun' = None
      /\ \A b : CheckoutOrphan(b) => begun' = None
  BY Zenon DEF Reset, ResetPath, Checkout, CheckoutOrphan, Unrelated
<1>3. /\ \A b : DeleteBranch(b) => begun' = None
      /\ \A b, c : CreateBranch(b, c) => begun' = None
      /\ \A b, new : RenameBranch(b, new) => begun' = None
  BY Zenon DEF DeleteBranch, CreateBranch, RenameBranch, Unrelated
<1> QED BY <1>1, <1>2, <1>3

LEMMA StashingIsUnrelated == ASSUME Stashing PROVE begun' = None
<1>1. /\ \A how : StashPush(how) => begun' = None
      /\ StashPop => begun' = None
      /\ StashClear => begun' = None
      /\ Untrack => begun' = None
  BY Zenon DEF StashPush, StashPop, StashClear, Untrack, Unrelated
<1>2. /\ \A i, x : StashApply(i, x) => begun' = None
      /\ \A i : StashDrop(i) => begun' = None
      /\ \A b, i : StashBranch(b, i) => begun' = None
  BY Zenon DEF StashApply, StashDrop, StashBranch, Unrelated
<1> QED BY <1>1, <1>2, Zenon DEF Stashing

LEMMA MovingStands == ASSUME TypeInv, Standing, Moving PROVE Standing'
BY CheckoutPathStands, MovingForgets, NothingStands

LEMMA StashingStands == ASSUME Stashing PROVE Standing'
BY StashingIsUnrelated, NothingStands

LEMMA ReplayStands == ASSUME TypeInv, Standing, Replay PROVE Standing'
<1> DEFINE source == Head(files.rebase.pending)
           picking == [files.rebase EXCEPT !.pending = Rest(@), !.current = source]
           done == [picking EXCEPT !.current = None]
           picked == Put("rebase", done)
           start == Put("rebase", picking)
           r == ThreeWay(ParentTree(source), TreeAt(source))
<1>1. /\ job.then = "replay" /\ job.todo = <<>> /\ files.rebase.pending # <<>>
      /\ files' = files /\ begun' = begun
      /\ \/ job' = [job EXCEPT !.todo = start \o Conflicted(r), !.then = "end"]
         \/ job' = [job EXCEPT !.todo = start \o (Applied(r) \o picked), !.then = "replay"]
         \/ job' = [job EXCEPT !.todo = start \o (Applied(r) \o Committed(r.index) \o picked),
                               !.then = "replay"]
  BY Zenon DEF Replay
<1>2. files.rebase # None
  BY <1>1 DEF TypeInv
<1>3. files.rebase \in Rebases(Commits) /\ files.rebase.pending \in Seq(Commits)
  BY <1>2, RebaseTyped
<1>4. source \in Commits /\ Tail(files.rebase.pending) \in Seq(Commits)
  BY <1>1, <1>3, HeadTailProperties
<1>5. /\ picking \in Rebases(Commits) /\ done \in Rebases(Commits)
      /\ picking.branch = files.rebase.branch /\ picking.original = files.rebase.original
      /\ done.branch = files.rebase.branch /\ done.original = files.rebase.original
  <2> HIDE DEF source
  <2>1. picking \in Rebases(Commits) /\ picking.branch = files.rebase.branch
        /\ picking.original = files.rebase.original
    BY <1>3, <1>4 DEF Rebases, Rest
  <2> HIDE DEF picking
  <2> QED BY <2>1 DEF Rebases
<1>6. r \in Outcomes /\ r.index \in Indexes
  <2>1. r \in Outcomes
    BY <1>4, TreesTyped, ThreeWayTyped
  <2> HIDE DEF r
  <2> QED BY <2>1, PickWrites
<1>7. job = [cmd |-> job.cmd, todo |-> job.todo, then |-> job.then]
  BY DEF TypeInv
<1>8. job'.todo \in {start \o Conflicted(r), start \o (Applied(r) \o picked),
                     start \o (Applied(r) \o Committed(r.index) \o picked)}
  <2> HIDE DEF start, picked, r
  <2> QED BY <1>1, <1>7
<1> HIDE DEF r, picking, done, start, picked
<1>9. ASSUME Live PROVE Stands(Aim(begun), begun.how, files, job'.todo, job'.then)
  <2> DEFINE a == Aim(begun)
             F == Fitting(a)
  <2>1. /\ begun.how = "open" /\ Held(a, files) /\ a.op = "rebase" /\ a.tip \in Nat /\ files.head \in Branches
        /\ files.rebase.branch = a.head /\ files.rebase.original = a.tip
    BY <1>1, <1>2, <1>9, RebaseHeld
  <2> HIDE DEF a
  <2>2. start \in Seq(F) /\ picked \in Seq(F)
    BY <1>5, MoreRebases, <2>1, StateFits DEF Commits, start, picked
  <2>3. Applied(r) \in Seq(F) /\ Conflicted(r) \in Seq(F)
    <3>1. Working \subseteq F /\ Applied(r) \in Seq(Working) /\ Conflicted(r) \in Seq(Working)
      BY <1>6, <2>1, WorkingFits, WorkingWrites
    <3> HIDE DEF F
    <3> QED BY <3>1, Within
  <2>4. Committed(r.index) \in Seq(F)
    BY <1>6, <2>1, CommittedFits
  <2> HIDE DEF F
  <2>5. /\ start \o Conflicted(r) \in Seq(F) /\ start \o (Applied(r) \o picked) \in Seq(F)
        /\ start \o (Applied(r) \o Committed(r.index) \o picked) \in Seq(F)
    BY <2>2, <2>3, <2>4, Joined, Three
  <2>6. job'.todo \in Seq(F)
    BY <1>8, <2>5
  <2> QED BY <2>1, <2>6, OpenHeld DEF F, a
<1>10. PICK new : log' = log \o new /\ new \in Seq(Entry)
  BY ReplayAdds
<1> QED BY <1>1, <1>9, <1>10, GoesOnStands

LEMMA EndReplayStands == ASSUME TypeInv, Standing, EndReplay PROVE Standing'
<1> DEFINE clear == Clear("rebase", files.index)
<1>1. /\ job.then = "replay" /\ job.todo = <<>> /\ Ends("finished") /\ files' = files /\ log' = log
      /\ job' = [job EXCEPT !.todo = clear, !.then = "end"]
      /\ job = [cmd |-> job.cmd, todo |-> job.todo, then |-> job.then]
  BY DEF EndReplay, TypeInv
<1>2. files.rebase # None
  BY <1>1 DEF TypeInv
<1>3. job'.todo = clear /\ job'.then = "end"
  BY <1>1
<1>4. files \in FilesOver(Nat) /\ files.index \in Indexes
  BY MoreCommits, Facts DEF TypeInv, Commits
<1>5. ASSUME Live PROVE Stands(Aim(begun), "finished", files, clear, "end")
  <2>1. files.mergeHead = None /\ files.cherry = None /\ files.bisect = None
    BY <1>1, <1>2, <1>5, RebaseHeld
  <2>2. PICK u : Cleared(files, "rebase", files.index, u)
    BY <1>4, ClearLeads
  <2>3. /\ u["rebase"] = None /\ u["mergeHead"] = files["mergeHead"] /\ u["cherry"] = files["cherry"]
        /\ u["bisect"] = files["bisect"] /\ Leads(files, clear, u)
    BY <2>2 DEF Cleared, Names
  <2>4. Calm(u)
    BY <2>1, <2>3 DEF Calm
  <2> QED BY <2>3, <2>4, Concluding
<1> HIDE DEF clear
<1>6. log' = log \o <<>> /\ <<>> \in Seq(Entry)
  BY <1>1, NothingAdded, EmptySeq
<1>7. Live => Stands(Aim(begun), "finished", files, job'.todo, job'.then)
  BY <1>3, <1>5
<1> QED BY <1>1, <1>6, <1>7, EndsStands

LEMMA NextStands == ASSUME TypeInv, Standing, [Next]_vars PROVE Standing'
<1>1. CASE UNCHANGED vars
  BY <1>1, NothingAdded, EmptySeq, GoesOnStands DEF vars, Standing, AbortInv
<1>2. CASE Next
  BY <1>2, StepStands, ReplayStands, EndReplayStands, InterruptedStands, EditingStands, CommittingStands,
     MergingStands, PickingStands, RebasingStands, BisectingStands, MovingStands, StashingStands DEF Next, Work
<1> QED BY <1>1, <1>2

\* An abort, or the end of a bisect, puts everything back: HEAD and its branch, the index, the
\* tracked files, and no state of the operation is left, whatever was edited or staged meanwhile
\* and wherever a command of the operation was cut short, one that was concluding it excepted.
\* (Repository.merge_abort, cherry_pick_abort, rebase_abort, bisect_reset)
THEOREM AbortsRestore == Spec => []AbortRestores
<1> DEFINE Inv == TypeInv /\ Standing
<1>1. Init => Inv
  BY InitTyped DEF Init, Standing, BegunTyped, AbortInv, Live, Counts
<1>2. Inv /\ [Next]_vars => Inv'
  BY NextTyped, NextStands
<1>3. Inv => AbortRestores
  <2> SUFFICES ASSUME TypeInv, Standing, job = Idle, begun # None, begun.how = "aborted",
                      begun.fresh, begun.cut # "at its end"
               PROVE  /\ files.head = begun.head /\ HeadSha = begun.tip
                      /\ files.index = [staged |-> TreeAt(begun.tip), unmerged |-> {}]
                      /\ ~Unstaged
                      /\ Operation = "none" /\ files.conflicts = {}
    BY Zenon DEF AbortRestores
  <2> DEFINE a == Aim(begun)
  <2>1. Live /\ job.todo = <<>>
    BY DEF Live, Counts, Idle
  <2>2. Back(a, files)
    BY <2>1, AtRest
  <2>3. a.head = begun.head /\ a.tip = begun.tip /\ a.tree = TreeAt(begun.tip)
    BY BegunIs
  <2> HIDE DEF a
  <2>4. files.head = begun.head /\ HeadSha = begun.tip
    BY <2>2, <2>3, TipIsHead DEF Back, Heading
  <2>5. files.index = [staged |-> TreeAt(begun.tip), unmerged |-> {}] /\ files.conflicts = {}
    BY <2>2, <2>3 DEF Back
  <2>6. ~Unstaged
    <3> DEFINE i == [staged |-> a.tree, unmerged |-> {}]
    <3>0. files.index = i /\ i.staged = a.tree
      BY <2>2 DEF Back
    <3> HIDE DEF i
    <3>1. files.index.staged = a.tree
      BY <3>0
    <3>2. \A p \in PathsOf(a.tree) : files.worktree[p] = a.tree[p]
      BY <2>2 DEF Back
    <3> QED BY <3>1, <3>2 DEF Unstaged
  <2>7. Operation = "none"
    BY <2>2, CalmIsNone DEF Back
  <2> QED BY <2>4, <2>5, <2>6, <2>7
<1> QED BY <1>1, <1>2, <1>3, PTL DEF Spec

-----------------------------------------------------------------------------
(***************************************************************************)
(* The way that a rebase replays.                                          *)
(***************************************************************************)
\* Each commit is older than the one before it.
LEMMA LineGoesDown ==
    ASSUME NEW h, Recorded(h), NEW c, NEW base, NEW q, Line(h, c, base, q)
    PROVE  \A i \in 1..Len(q) : q[i] \in 1..Len(h) /\ q[i] + i <= Len(h) + 1
<1> DEFINE N == Len(h)
           T == {i \in 0..Len(q) : i >= 1 => q[i] \in 1..N /\ q[i] + i <= N + 1}
<1>1. N \in Nat /\ Len(q) \in Nat /\ \A i \in 1..Len(q) : q[i] \in 1..N
  BY RecordedFacts, LenProperties, ElementOfSeq DEF Line
<1>2. 0 \in T
  BY <1>1
<1>3. ASSUME NEW i \in 0..(Len(q) - 1), i \in T PROVE i + 1 \in T
  <2>1. i + 1 \in 1..Len(q) /\ q[i + 1] \in 1..N
    BY <1>1
  <2>2. CASE i = 0
    BY <2>1, <2>2, <1>1
  <2>3. CASE i # 0
    <3>1. i \in 1..(Len(q) - 1) /\ q[i] \in 1..N /\ q[i] + i <= N + 1
      BY <1>1, <1>3, <2>3
    <3>2. h[q[i]].parents # <<>> /\ h[q[i]].parents[1] = q[i + 1]
      BY <3>1 DEF Line
    <3>3. q[i + 1] \in 1..(q[i] - 1)
      BY <3>1, <3>2, RecordedFacts
    <3>4. q[i + 1] + (i + 1) <= N + 1
      BY <1>1, <2>1, <3>1, <3>3
    <3> QED BY <2>1, <3>4
  <2> QED BY <2>2, <2>3
<1>4. \A i \in 0..Len(q) : i \in T
  <2> HIDE DEF T
  <2> QED BY <1>1, <1>2, <1>3, UpTo
<1>5. ASSUME NEW i \in 1..Len(q) PROVE q[i] \in 1..N /\ q[i] + i <= N + 1
  BY <1>1, <1>4
<1> QED BY <1>5

\* There is one such way only: the one that FirstParents finds.
LEMMA LineIs ==
    ASSUME NEW h, Recorded(h), NEW c, NEW base, NEW q, Line(h, c, base, q)
    PROVE  FirstParents(h, c, base) = q
<1> DEFINE N == Len(h)
           L == Len(q)
<1>1. N \in Nat /\ L \in Nat /\ L >= 1 /\ DOMAIN q = 1..L /\ \A i \in 1..L : q[i] \in 1..N
  BY RecordedFacts, LenProperties, ElementOfSeq DEF Line
<1>2. None \notin 1..N
  BY <1>1, NamesAreNoCommits
<1>3. c \in 1..N /\ q[1] = c
  BY <1>1 DEF Line
<1>4. L <= N
  BY <1>1, LineGoesDown
<1>5. PICK w : /\ Climbs(h, c, base, w, N)
               /\ FirstParents(h, c, base) = [i \in 1..Cardinality({i \in 1..N : w[i] \notin {None, base}}) |-> w[i]]
  <2>1. c \in 1..Len(h) \cup {None} /\ Recorded(h)
    BY <1>3
  <2> QED BY ONLY <2>1, FirstParentsClimbs
<1> DEFINE I == {i \in 1..N : w[i] \notin {None, base}}
           n == Cardinality(I)
<1>6. \A i \in 1..N : w[i] = IF i = 1 THEN c ELSE NextUp(h, base, w[i - 1])
  BY <1>5 DEF Climbs
<1>7. ASSUME NEW i \in I, i # 1 PROVE i - 1 \in I
  BY <1>1, <1>7, <1>6 DEF NextUp
<1>8. n \in 0..N /\ I = 1..n
  <2>1. I \in SUBSET (1..N)
    OBVIOUS
  <2> HIDE DEF I, N
  <2> QED BY <1>1, <1>7, <2>1, PrefixIsInterval
<1> DEFINE T == {i \in 0..L : i >= 1 => w[i] = q[i]}
<1>9. 0 \in T
  BY <1>1
<1>10. ASSUME NEW i \in 0..(L - 1), i \in T PROVE i + 1 \in T
  <2>1. i + 1 \in 1..N /\ i + 1 \in 0..L /\ (i + 1) - 1 = i
    BY <1>1, <1>4
  <2>2. w[i + 1] = IF i + 1 = 1 THEN c ELSE NextUp(h, base, w[i])
    BY <1>6, <2>1
  <2>3. CASE i = 0
    BY <1>3, <2>1, <2>2, <2>3
  <2>4. CASE i # 0
    BY <1>1, <1>10, <2>4, <1>2, <2>1, <2>2 DEF Line, NextUp
  <2> QED BY <2>3, <2>4
<1>11. \A i \in 0..L : i \in T
  <2> HIDE DEF T, L
  <2> QED BY <1>1, <1>9, <1>10, UpTo
<1>12. \A i \in 1..L : w[i] = q[i]
  BY <1>1, <1>11
<1>13. L \in I
  BY <1>1, <1>4, <1>12, <1>2 DEF Line
<1>14. L + 1 \notin I
  <2>1. SUFFICES ASSUME L + 1 \in 1..N PROVE w[L + 1] \in {None, base}
    OBVIOUS
  <2>2. L + 1 # 1 /\ (L + 1) - 1 = L /\ w[L] = q[L] /\ L \in 1..L
    BY <1>1, <1>12
  <2>3. w[L + 1] = NextUp(h, base, q[L])
    BY <1>6, <2>1, <2>2
  <2>4. CASE base = None
    BY <2>4, <2>3 DEF Line, NextUp
  <2>5. CASE base # None
    BY <2>5, <2>3 DEF Line, NextUp
  <2> QED BY <2>4, <2>5
<1>15. n = L
  <2> HIDE DEF I, L
  <2>1. n \in 0..N /\ L \in 1..n /\ L + 1 \notin 1..n
    BY <1>8, <1>13, <1>14
  <2> QED BY <1>1, <2>1
<1>16. FirstParents(h, c, base) = [i \in 1..L |-> w[i]]
  BY <1>5, <1>15
<1>17. q = [i \in 1..L |-> q[i]]
  <2>1. q \in [1..L -> 1..N]
    BY LenProperties DEF Line
  <2> HIDE DEF L
  <2> QED BY <2>1
<1> HIDE DEF L
<1> QED BY <1>12, <1>16, <1>17

\* When the merge base is on it, what FirstParents finds is such a way.
LEMMA FirstParentsIsLine ==
    ASSUME NEW h, Recorded(h), NEW c \in 1..Len(h), NEW base \in 1..Len(h) \cup {None}, base # c,
           OnFirstParents(h, c, base)
    PROVE  Line(h, c, base, FirstParents(h, c, base))
<1> DEFINE N == Len(h)
           q == FirstParents(h, c, base)
<1>1. N \in Nat /\ None \notin 1..N
  BY RecordedFacts, NamesAreNoCommits
<1>2. PICK w : /\ Climbs(h, c, base, w, N)
               /\ q = [i \in 1..Cardinality({i \in 1..N : w[i] \notin {None, base}}) |-> w[i]]
  BY FirstParentsClimbs
<1>3. q \in Seq(1..N) /\ Len(q) >= 1
  BY <1>1, FirstParentsTyped
<1> DEFINE I == {i \in 1..N : w[i] \notin {None, base}}
           L == Cardinality(I)
<1>4. \A i \in 1..N : w[i] = IF i = 1 THEN c ELSE NextUp(h, base, w[i - 1])
  BY <1>2 DEF Climbs
<1>5. ASSUME NEW i \in I, i # 1 PROVE i - 1 \in I
  BY <1>1, <1>5, <1>4 DEF NextUp
<1>6. L \in 0..N /\ I = 1..L
  <2>1. I \in SUBSET (1..N)
    OBVIOUS
  <2> HIDE DEF I, N
  <2> QED BY <1>1, <1>5, <2>1, PrefixIsInterval
<1>7. q = [i \in 1..L |-> w[i]]
  BY <1>2
<1>8. OnFirstParents(h, c, base) <=>
          base \in {None, c} \/ \E i \in DOMAIN q : h[q[i]].parents # <<>> /\ h[q[i]].parents[1] = base
  BY DEF OnFirstParents
<1>9. Len(q) = L
  <2> HIDE DEF q, L, N
  <2>1. DOMAIN q = 1..L /\ DOMAIN q = 1..Len(q) /\ Len(q) \in Nat
    BY <1>3, <1>7, LenProperties
  <2> QED BY <1>6, <2>1
<1> HIDE DEF q
<1>10. L \in Nat /\ L >= 1 /\ L <= N /\ \A i \in 1..L : q[i] = w[i] /\ q[i] \in 1..N /\ q[i] # base
  <2>1. L \in Nat /\ L >= 1 /\ L <= N
    BY <1>1, <1>3, <1>6, <1>9
  <2>2. ASSUME NEW i \in 1..L PROVE q[i] = w[i] /\ q[i] \in 1..N /\ q[i] # base
    <3>1. i \in I
      BY <1>6
    <3> HIDE DEF L
    <3>2. q[i] = w[i]
      BY <1>7
    <3>3. w[i] \in 1..N \cup {None}
      BY <1>2, <3>1 DEF Climbs
    <3> QED BY <3>1, <3>2, <3>3
  <2> QED BY <2>1, <2>2
<1>11. L + 1 \notin I
  <2> HIDE DEF I
  <2> QED BY <1>6, <1>10
<1> HIDE DEF L, I
<1>12. q[1] = c
  BY <1>10, <1>1, <1>4
<1>13. ASSUME NEW i \in 1..(L - 1) PROVE h[q[i]].parents # <<>> /\ h[q[i]].parents[1] = q[i + 1]
  <2>1. i \in 1..L /\ i + 1 \in 1..L /\ i + 1 \in 1..N /\ (i + 1) - 1 = i /\ i + 1 # 1
    BY <1>1, <1>10
  <2>2. q[i + 1] = NextUp(h, base, q[i])
    <3>1. w[i + 1] = NextUp(h, base, w[i])
      BY <1>4, <2>1
    <3>2. q[i] = w[i] /\ q[i + 1] = w[i + 1]
      BY <1>10, <2>1
    <3> QED BY <3>1, <3>2
  <2>3. q[i + 1] # None
    BY <1>1, <1>10, <2>1
  <2> QED BY <2>2, <2>3 DEF NextUp
<1>14. IF base = None THEN h[q[L]].parents = <<>>
       ELSE h[q[L]].parents # <<>> /\ h[q[L]].parents[1] = base
  <2>0. L \in 1..L /\ q[L] \in 1..N /\ q[L] # base
    BY <1>10
  <2>1. CASE base = None
    <3>1. SUFFICES ASSUME h[q[L]].parents # <<>> PROVE FALSE
      BY <2>1
    <3>2. h[q[L]].parents[1] \in 1..(q[L] - 1)
      BY <2>0, <3>1, RecordedFacts
    <3>3. NextUp(h, base, q[L]) = h[q[L]].parents[1]
      BY <1>1, <2>0, <3>1 DEF NextUp
    <3>4. CASE L + 1 \in 1..N
      <4>1. (L + 1) - 1 = L /\ L + 1 # 1 /\ w[L] = q[L]
        BY <1>10, <2>0
      <4>2. w[L + 1] = NextUp(h, base, q[L])
        BY <1>4, <3>4, <4>1
      <4>3. w[L + 1] \in {None, base}
        BY <1>11, <3>4 DEF I
      <4>4. h[q[L]].parents[1] \in 1..N
        BY <3>2, <2>0, <1>1
      <4> QED BY <1>1, <2>1, <3>3, <4>2, <4>3, <4>4
    <3>5. CASE L + 1 \notin 1..N
      <4>1. L = N
        BY <3>5, <1>1, <1>10
      <4> DEFINE T == {i \in 0..L : i >= 1 => q[i] + i <= N + 1}
      <4>2. 0 \in T
        BY <1>10
      <4>3. ASSUME NEW i \in 0..(L - 1), i \in T PROVE i + 1 \in T
        <5>1. i + 1 \in 1..L /\ q[i + 1] \in 1..N
          BY <1>10
        <5>2. CASE i = 0
          BY <5>1, <5>2, <1>1, <1>10
        <5>3. CASE i # 0
          <6>1. i \in 1..(L - 1) /\ i \in 1..L /\ q[i] + i <= N + 1
            BY <1>10, <4>3, <5>3
          <6>2. q[i] \in 1..N
            BY <6>1, <1>10
          <6>3. q[i + 1] \in 1..(q[i] - 1)
            BY <1>13, <6>1, <6>2, RecordedFacts
          <6>4. q[i + 1] + (i + 1) <= N + 1
            BY <1>1, <5>1, <6>1, <6>2, <6>3
          <6> QED BY <5>1, <6>4
        <5> QED BY <5>2, <5>3
      <4>4. \A i \in 0..L : i \in T
        <5> HIDE DEF T
        <5> QED BY <1>10, <4>2, <4>3, UpTo
      <4>5. q[L] + L <= N + 1
        BY <1>10, <4>4
      <4>6. q[L] = 1
        BY <4>1, <4>5, <2>0, <1>1
      <4> QED BY <3>2, <4>6
    <3> QED BY <3>4, <3>5
  <2>2. CASE base # None
    <3>1. DOMAIN q = 1..L
      BY <1>3, <1>9, LenProperties
    <3>2. PICK i \in 1..L : h[q[i]].parents # <<>> /\ h[q[i]].parents[1] = base
      BY <1>8, <2>2, <3>1
    <3>3. i = L
      <4>1. SUFFICES ASSUME i # L PROVE FALSE
        OBVIOUS
      <4>2. i \in 1..(L - 1) /\ i + 1 \in 1..L
        BY <1>10, <4>1
      <4> QED BY <1>10, <1>13, <3>2, <4>2
    <3> QED BY <2>2, <3>2, <3>3
  <2> QED BY <2>1, <2>2
<1> QED BY <1>3, <1>9, <1>10, <1>12, <1>13, <1>14 DEF Line, q

-----------------------------------------------------------------------------
(***************************************************************************)
(* From some files to others: one write after another.                     *)
(***************************************************************************)
LEMMA MovesBoth ==
    ASSUME NEW X, NEW Y, NEW Z, NEW s, NEW t, Moves(X, s, Y), Moves(Y, t, Z)
    PROVE  Moves(X, s \o t, Z)
<1> DEFINE W == Writes(Nat)
<1>1. s \in Seq(W) /\ t \in Seq(W)
  BY DEF Moves
<1>2. s \o t \in Seq(W)
  <2> HIDE DEF W
  <2> QED BY <1>1, Joined
<1>3. ASSUME NEW v \in X PROVE \E x \in Z : Leads(v, s \o t, x)
  <2>1. PICK u \in Y : Leads(v, s, u)
    BY DEF Moves
  <2>2. PICK x \in Z : Leads(u, t, x)
    BY DEF Moves
  <2>3. Leads(v, s \o t, x)
    <3> HIDE DEF W
    <3> QED BY <1>1, <2>1, <2>2, LeadsBoth
  <2> QED BY <2>3
<1> QED BY <1>2, <1>3 DEF Moves

LEMMA MovesNowhere == ASSUME NEW X, NEW Y, X \subseteq Y PROVE Moves(X, <<>>, Y)
BY LeadsNowhere, EmptySeq DEF Moves

LEMMA MovesPut ==
    ASSUME NEW X, NEW Y, NEW f, NEW x, [at |-> f, to |-> x] \in Writes(Nat),
           \A v \in X : Written(v, [at |-> f, to |-> x]) \in Y
    PROVE  Moves(X, Put(f, x), Y)
BY PutIn, LeadsOnce DEF Moves

\* Writes none of which leaves X do not leave it.
LEMMA MovesWithin ==
    ASSUME NEW X, NEW S, S \subseteq Writes(Nat), \A v \in X, w \in S : Written(v, w) \in X
    PROVE  \A s \in Seq(S) : Moves(X, s, X)
<1> SUFFICES ASSUME NEW s0 \in Seq(S) PROVE Moves(X, s0, X)
  OBVIOUS
<1> DEFINE N == Len(s0)
           T == {k \in 0..N : \A s \in Seq(S) : Len(s) = k => Moves(X, s, X)}
<1>1. N \in Nat
  BY LenProperties
<1>2. 0 \in T
  BY EmptySeq, MovesNowhere, <1>1
<1>3. ASSUME NEW k \in 0..(N - 1), k \in T PROVE k + 1 \in T
  <2>1. ASSUME NEW s \in Seq(S), Len(s) = k + 1 PROVE Moves(X, s, X)
    <3> DEFINE w == Head(s)
               t == Tail(s)
    <3>1. s # <<>>
      BY <1>1, <2>1, EmptySeq
    <3>2. w \in S /\ t \in Seq(S) /\ Len(t) = k
      BY <1>1, <2>1, <3>1, HeadTailProperties
    <3>3. s = <<w>> \o t
      BY <3>1, HeadTailOfConcat
    <3>4. Moves(X, t, X)
      BY <1>3, <3>2
    <3>5. w = [at |-> w.at, to |-> w.to]
      <4>1. w \in Writes(Nat)
        BY <3>2
      <4> HIDE DEF w
      <4> QED BY <4>1 DEF Writes, Holding
    <3>6. Moves(X, <<w>>, X)
      <4>1. Put(w.at, w.to) = <<w>>
        BY <3>5 DEF Put
      <4>2. [at |-> w.at, to |-> w.to] \in Writes(Nat) /\ \A v \in X : Written(v, [at |-> w.at, to |-> w.to]) \in X
        BY <3>2, <3>5
      <4> HIDE DEF w
      <4>3. Moves(X, Put(w.at, w.to), X)
        BY ONLY <4>2, MovesPut
      <4> QED BY <4>1, <4>3
    <3> HIDE DEF w, t
    <3> QED BY <3>3, <3>4, <3>6, MovesBoth
  <2>2. k + 1 \in 0..N
    BY <1>1
  <2> QED BY <2>1, <2>2
<1>4. \A k \in 0..N : k \in T
  <2> HIDE DEF T, N
  <2> QED BY <1>1, <1>2, <1>3, UpTo
<1>5. N \in T
  BY <1>1, <1>4
<1> QED BY <1>5

LEMMA FrameKeeps == ASSUME NEW m, NEW r PROVE \A s \in Seq(Quiet) : Moves(Frame(m, r), s, Frame(m, r))
<1>1. ASSUME NEW v \in Frame(m, r), NEW w \in Quiet PROVE Written(v, w) \in Frame(m, r)
  <2>1. v \in FilesOver(Nat) /\ w \in Writes(Nat) /\ w.at \notin StateFiles
    BY DEF Frame, Quiet
  <2> DEFINE u == Written(v, w)
  <2>2. But(v, u, w.at, w.to)
    BY <2>1, WriteBut
  <2> HIDE DEF u
  <2>3. \A g \in StateFiles : u[g] = v[g]
    BY <2>1, <2>2 DEF But, Names, StateFiles
  <2>4. u \in FilesOver(Nat) /\ u.mergeHead = v.mergeHead /\ u.cherry = v.cherry
        /\ u.rebase = v.rebase /\ u.bisect = v.bisect
    BY <2>2, <2>3 DEF StateFiles, But
  <2> QED BY <2>4 DEF Frame, u
<1>2. Quiet \subseteq Writes(Nat)
  BY DEF Quiet
<1> DEFINE X == Frame(m, r)
<1> HIDE DEF X
<1>3. \A v \in X, w \in Quiet : Written(v, w) \in X
  BY <1>1 DEF X
<1>4. \A s \in Seq(Quiet) : Moves(X, s, X)
  BY <1>2, <1>3, MovesWithin
<1> QED BY <1>4 DEF X

\* What a single write does.
LEMMA SpotWrite ==
    ASSUME NEW h, NEW c, NEW t, NEW m, NEW r, NEW v \in Spot(h, c, t, m, r), NEW w \in Writes(Nat)
    PROVE  LET u == Written(v, w)
           IN  /\ w.at \notin StateFiles => u \in Frame(m, r)
               /\ w.at = "mergeHead" => u \in Frame(w.to, r)
               /\ w.at = "rebase" => u \in Frame(m, w.to)
               /\ w.at # "head" => u.head = h
               /\ w.at \notin {"head", "branch"} => Tip(u) = c
               /\ w.at # "index" => u.index.staged = t
               /\ w.at = "index" => u.index.staged = w.to.staged
               /\ w.at = "branch" /\ h \in Branches => Tip(u) = w.to[h]
               /\ w.at = "head" /\ w.to \notin Branches => u.head = w.to /\ Tip(u) = w.to
<1> DEFINE u == Written(v, w)
<1>1. /\ v \in FilesOver(Nat) /\ v["mergeHead"] = m /\ v["cherry"] = None /\ v["bisect"] = None /\ v["rebase"] = r
      /\ v["head"] = h /\ Tip(v) = c /\ v["index"].staged = t
  BY DEF Spot, Frame
<1>2. But(v, u, w.at, w.to) /\ w.at \in Names
  BY <1>1, WriteBut
<1> HIDE DEF u
<1>3. u \in FilesOver(Nat) /\ u[w.at] = w.to /\ \A g \in Names \ {w.at} : u[g] = v[g]
  BY <1>2 DEF But
<1>4. w.at \notin StateFiles => u \in Frame(m, r)
  <2>1. SUFFICES ASSUME w.at \notin StateFiles PROVE u \in Frame(m, r)
    OBVIOUS
  <2>2. u["mergeHead"] = m /\ u["cherry"] = None /\ u["bisect"] = None /\ u["rebase"] = r
    BY <1>1, <1>3, <2>1 DEF Names, StateFiles
  <2> QED BY <1>3, <2>2 DEF Frame
<1>5. w.at = "mergeHead" => u \in Frame(w.to, r)
  <2>1. SUFFICES ASSUME w.at = "mergeHead" PROVE u \in Frame(w.to, r)
    OBVIOUS
  <2>2. u["mergeHead"] = w.to /\ u["cherry"] = None /\ u["bisect"] = None /\ u["rebase"] = r
    BY <1>1, <1>3, <2>1 DEF Names
  <2> QED BY <1>3, <2>2 DEF Frame
<1>6. w.at = "rebase" => u \in Frame(m, w.to)
  <2>1. SUFFICES ASSUME w.at = "rebase" PROVE u \in Frame(m, w.to)
    OBVIOUS
  <2>2. u["mergeHead"] = m /\ u["cherry"] = None /\ u["bisect"] = None /\ u["rebase"] = w.to
    BY <1>1, <1>3, <2>1 DEF Names
  <2> QED BY <1>3, <2>2 DEF Frame
<1>7. w.at # "head" => u["head"] = h
  BY <1>1, <1>3 DEF Names
<1>8. w.at \notin {"head", "branch"} => Tip(u) = c
  <2>1. SUFFICES ASSUME w.at \notin {"head", "branch"} PROVE Tip(u) = c
    OBVIOUS
  <2>2. u["head"] = v["head"] /\ u["branch"] = v["branch"]
    BY <1>3, <2>1 DEF Names
  <2> QED BY <1>1, <2>2 DEF Tip
<1>9. (w.at # "index" => u["index"].staged = t) /\ (w.at = "index" => u["index"].staged = w.to.staged)
  BY <1>3, <1>1 DEF Names
<1>10. w.at = "branch" /\ h \in Branches => Tip(u) = w.to[h]
  <2>1. SUFFICES ASSUME w.at = "branch", h \in Branches PROVE Tip(u) = w.to[h]
    OBVIOUS
  <2>2. u["head"] = h /\ u["branch"] = w.to
    BY <1>3, <1>7, <2>1
  <2> QED BY <2>1, <2>2 DEF Tip
<1>11. w.at = "head" /\ w.to \notin Branches => u["head"] = w.to /\ Tip(u) = w.to
  BY <1>3 DEF Tip
<1> QED BY <1>4, <1>5, <1>6, <1>7, <1>8, <1>9, <1>10, <1>11 DEF u

\* Writes that leave HEAD, the stage and the state files.
LEMMA SpotKeeps ==
    ASSUME NEW h, NEW c, NEW t, NEW m, NEW r
    PROVE  \A s \in Seq(Light(t)) : Moves(Spot(h, c, t, m, r), s, Spot(h, c, t, m, r))
<1> DEFINE X == Spot(h, c, t, m, r)
<1>1. ASSUME NEW v \in X, NEW w \in Light(t) PROVE Written(v, w) \in X
  BY SpotWrite DEF Light, StateFiles, Spot
<1>2. Light(t) \subseteq Writes(Nat)
  BY DEF Light
<1> HIDE DEF X
<1>3. \A s \in Seq(Light(t)) : Moves(X, s, X)
  BY <1>1, <1>2, MovesWithin
<1> QED BY <1>3 DEF X

\* One write of each of the others.
LEMMA SpotPuts ==
    ASSUME NEW h, NEW c, NEW t, NEW m, NEW r
    PROVE  /\ \A i \in Indexes : Moves(Spot(h, c, t, m, r), Put("index", i), Spot(h, c, i.staged, m, r))
           /\ \A x \in Nat \cup {None} : Moves(Spot(h, c, t, m, r), Put("mergeHead", x), Spot(h, c, t, x, r))
           /\ \A x \in Rebases(Nat) \cup {None} : Moves(Spot(h, c, t, m, r), Put("rebase", x), Spot(h, c, t, m, x))
           /\ h \in Branches => \A x \in [Branches -> Nat \cup {None}] :
                  Moves(Spot(h, c, t, m, r), Put("branch", x), Spot(h, x[h], t, m, r))
           /\ \A x \in Nat : Moves(Spot(h, c, t, m, r), Put("head", x), Spot(x, x, t, m, r))
<1> DEFINE X == Spot(h, c, t, m, r)
<1>1. ASSUME NEW i \in Indexes PROVE Moves(X, Put("index", i), Spot(h, c, i.staged, m, r))
  <2> DEFINE w == [at |-> "index", to |-> i]
  <2>1. w \in Writes(Nat) /\ w.at = "index" /\ w.to = i /\ w.at \notin StateFiles \cup {"head", "branch"}
    BY WritesAre DEF StateFiles
  <2> HIDE DEF w
  <2>2. \A v \in X : Written(v, w) \in Spot(h, c, i.staged, m, r)
    BY <2>1, SpotWrite DEF Spot
  <2> HIDE DEF X
  <2> QED BY <2>1, <2>2, MovesPut DEF w
<1>2. ASSUME NEW x \in Nat \cup {None} PROVE Moves(X, Put("mergeHead", x), Spot(h, c, t, x, r))
  <2> DEFINE w == [at |-> "mergeHead", to |-> x]
  <2>1. w \in Writes(Nat) /\ w.at = "mergeHead" /\ w.to = x /\ w.at \notin {"index", "head", "branch"}
    BY WritesAre
  <2> HIDE DEF w
  <2>2. \A v \in X : Written(v, w) \in Spot(h, c, t, x, r)
    BY <2>1, SpotWrite DEF Spot
  <2> HIDE DEF X
  <2> QED BY <2>1, <2>2, MovesPut DEF w
<1>3. ASSUME NEW x \in Rebases(Nat) \cup {None} PROVE Moves(X, Put("rebase", x), Spot(h, c, t, m, x))
  <2> DEFINE w == [at |-> "rebase", to |-> x]
  <2>1. w \in Writes(Nat) /\ w.at = "rebase" /\ w.to = x /\ w.at \notin {"index", "head", "branch"}
    BY WritesAre
  <2> HIDE DEF w
  <2>2. \A v \in X : Written(v, w) \in Spot(h, c, t, m, x)
    BY <2>1, SpotWrite DEF Spot
  <2> HIDE DEF X
  <2> QED BY <2>1, <2>2, MovesPut DEF w
<1>4. ASSUME h \in Branches, NEW x \in [Branches -> Nat \cup {None}]
      PROVE  Moves(X, Put("branch", x), Spot(h, x[h], t, m, r))
  <2> DEFINE w == [at |-> "branch", to |-> x]
  <2>1. w \in Writes(Nat) /\ w.at = "branch" /\ w.to = x /\ w.at \notin StateFiles \cup {"index", "head"}
    BY WritesAre DEF StateFiles
  <2> HIDE DEF w
  <2>2. \A v \in X : Written(v, w) \in Spot(h, x[h], t, m, r)
    BY <1>4, <2>1, SpotWrite DEF Spot
  <2> HIDE DEF X
  <2> QED BY <2>1, <2>2, MovesPut DEF w
<1>5. ASSUME NEW x \in Nat PROVE Moves(X, Put("head", x), Spot(x, x, t, m, r))
  <2> DEFINE w == [at |-> "head", to |-> x]
  <2>1. w \in Writes(Nat) /\ w.at = "head" /\ w.to = x /\ w.at \notin StateFiles \cup {"index"}
    BY WritesAre DEF StateFiles
  <2>2. x \notin Branches
    BY NamesAreNoCommits
  <2> HIDE DEF w
  <2>3. \A v \in X : Written(v, w) \in Spot(x, x, t, m, r)
    BY <2>1, <2>2, SpotWrite DEF Spot
  <2> HIDE DEF X
  <2> QED BY <2>1, <2>3, MovesPut DEF w
<1> QED BY <1>1, <1>2, <1>3, <1>4, <1>5 DEF X

LEMMA HereIs ==
    ASSUME TypeInv, files.cherry = None, files.bisect = None
    PROVE  files \in Here
BY MoreCommits, TipIsHead DEF TypeInv, Commits, Here, Spot, Frame

LEMMA MoveHeadMoves ==
    ASSUME TypeInv, NEW c, NEW t, NEW m, NEW r, NEW x \in Nat
    PROVE  Moves(Spot(files.head, c, t, m, r), MoveHead(x), Spot(Onward(files.head, x), x, t, m, r))
<1>1. CASE files.head \in Branches
  <2> DEFINE b == [files.branch EXCEPT ![files.head] = x]
  <2>1. b \in [Branches -> Nat \cup {None}] /\ b[files.head] = x
    BY Facts, <1>1 DEF Commits
  <2>2. MoveHead(x) = Put("branch", b)
    BY <1>1 DEF MoveHead, SetBranch
  <2> HIDE DEF b
  <2> QED BY <1>1, <2>1, <2>2, SpotPuts DEF Onward
<1>2. CASE files.head \notin Branches
  BY <1>2, SpotPuts DEF MoveHead, Onward
<1> QED BY <1>1, <1>2

\* An index with the same stage and no unmerged entries.
LEMMA LightIndex ==
    ASSUME NEW i \in Indexes
    PROVE  /\ [at |-> "index", to |-> [i EXCEPT !.unmerged = {}]] \in Light(i.staged)
           /\ [at |-> "index", to |-> i] \in Light(i.staged)
<1> DEFINE j == [i EXCEPT !.unmerged = {}]
<1>1. j \in Indexes /\ j.staged = i.staged
  BY DEF Indexes
<1> HIDE DEF j
<1>2. ASSUME NEW k \in Indexes, k.staged = i.staged PROVE [at |-> "index", to |-> k] \in Light(i.staged)
  <2> DEFINE w == [at |-> "index", to |-> k]
  <2>1. w \in Writes(Nat) /\ w.at = "index" /\ w.to = k
    BY WritesAre
  <2> HIDE DEF w
  <2>2. w \in Light(i.staged)
    BY <1>2, <2>1 DEF Light
  <2> QED BY <2>2 DEF w
<1> QED BY <1>1, <1>2 DEF j

LEMMA LightWrites ==
    ASSUME NEW t
    PROVE  /\ \A x \in Tree : [at |-> "worktree", to |-> x] \in Light(t)
           /\ \A x \in SUBSET Paths : [at |-> "conflicts", to |-> x] \in Light(t)
           /\ \A x \in Nat \cup {None} : [at |-> "mergeOrig", to |-> x] \in Light(t)
BY WritesAre DEF Light

\* _clear_merge_state ends the merge and leaves the stage.
LEMMA ClearMergeMoves ==
    ASSUME TypeInv, NEW h, NEW c, NEW r, NEW i \in Indexes
    PROVE  Moves(Spot(h, c, i.staged, files.mergeHead, r), ClearMerge(i), Spot(h, c, i.staged, None, r))
<1> DEFINE t == i.staged
           X == Spot(h, c, t, files.mergeHead, r)
           Y == Spot(h, c, t, None, r)
           j == [i EXCEPT !.unmerged = {}]
           a == IF files.mergeHead = None THEN <<>> ELSE Put("mergeHead", None)
           b == IF files.mergeOrig = None THEN <<>> ELSE Put("mergeOrig", None)
           s == IF files.conflicts = {} THEN <<>> ELSE Put("conflicts", {})
           d == IF files.mergeHead # None /\ i.unmerged # {} THEN Put("index", j) ELSE <<>>
<1>1. ClearMerge(i) = a \o b \o s \o d
  BY DEF ClearMerge
<1>2. Moves(X, a, Y)
  BY MovesNowhere, SpotPuts
<1>3. b \in Seq(Light(t)) /\ s \in Seq(Light(t)) /\ d \in Seq(Light(t))
  <2>1. Put("mergeOrig", None) \in Seq(Light(t)) /\ Put("conflicts", {}) \in Seq(Light(t))
        /\ Put("index", j) \in Seq(Light(t))
    BY LightWrites, LightIndex, PutIn
  <2>2. <<>> \in Seq(Light(t))
    BY EmptySeq
  <2> HIDE DEF j, t
  <2> QED BY <2>1, <2>2
<1> HIDE DEF a, b, s, d, j, t
<1>4. Moves(Y, b, Y) /\ Moves(Y, s, Y) /\ Moves(Y, d, Y)
  BY <1>3, SpotKeeps
<1> HIDE DEF X, Y
<1>5. Moves(X, a \o b, Y)
  BY <1>2, <1>4, MovesBoth
<1>6. Moves(X, (a \o b) \o s, Y)
  BY <1>4, <1>5, MovesBoth
<1>7. Moves(X, ((a \o b) \o s) \o d, Y)
  BY <1>4, <1>6, MovesBoth
<1> QED BY <1>1, <1>7 DEF X, Y, t

\* commit() while no cherry-pick is in progress.
LEMMA CommittedMoves ==
    ASSUME TypeInv, files.cherry = None, NEW c, NEW r, NEW i \in Indexes
    PROVE  Moves(Spot(files.head, c, i.staged, files.mergeHead, r), Committed(i),
                 Spot(Onward(files.head, NewCommit), NewCommit, i.staged, None, r))
<1> DEFINE h == Onward(files.head, NewCommit)
           X == Spot(files.head, c, i.staged, files.mergeHead, r)
           Y == Spot(h, NewCommit, i.staged, files.mergeHead, r)
           Z == Spot(h, NewCommit, i.staged, None, r)
<1>1. Moves(X, MoveHead(NewCommit), Y)
  BY MoveHeadMoves, MoreFacts
<1>2. Moves(Y, ClearMerge(i), Z)
  BY ClearMergeMoves
<1>3. Clear("cherry", i) = <<>>
  BY DEF Clear
<1>4. Moves(Z, <<>>, Z)
  BY MovesNowhere
<1> HIDE DEF X, Y, Z
<1>5. Moves(X, MoveHead(NewCommit) \o ClearMerge(i), Z)
  BY <1>1, <1>2, MovesBoth
<1>6. Moves(X, (MoveHead(NewCommit) \o ClearMerge(i)) \o <<>>, Z)
  BY <1>4, <1>5, MovesBoth
<1> QED BY <1>3, <1>6 DEF Committed, X, Z

\* Replacing the tracked files, and applying a merge of trees.
LEMMA ReplaceMoves ==
    ASSUME TypeInv, NEW h, NEW c, NEW t, NEW m, NEW r, NEW x \in Tree
    PROVE  Moves(Spot(h, c, t, m, r), ReplaceTracked(x), Spot(h, c, x, m, r))
<1> DEFINE w == Restored(x, PathsOf(files.index.staged), files.worktree)
           X == Spot(h, c, t, m, r)
           Y == Spot(h, c, x, m, r)
           i == Index(x)
<1>1. ReplaceTracked(x) = Put("worktree", w) \o Put("index", i)
  BY DEF ReplaceTracked, Replace
<1>2. w \in Tree /\ i \in Indexes /\ i.staged = x
  BY Facts, RestoredTyped DEF PathsOf, Index, Indexes
<1> HIDE DEF w, i
<1>3. Moves(X, Put("worktree", w), X)
  BY <1>2, LightWrites, PutIn, SpotKeeps
<1>4. Moves(X, Put("index", i), Y)
  BY <1>2, SpotPuts
<1> HIDE DEF X, Y
<1> QED BY <1>1, <1>3, <1>4, MovesBoth DEF X, Y

LEMMA AppliedMoves ==
    ASSUME NEW h, NEW c, NEW t, NEW m, NEW r, NEW x \in Outcomes
    PROVE  Moves(Spot(h, c, t, m, r), Applied(x), Spot(h, c, x.index.staged, m, r))
<1> DEFINE X == Spot(h, c, t, m, r)
           Y == Spot(h, c, x.index.staged, m, r)
<1>1. x.worktree \in Tree /\ x.index \in Indexes
  BY DEF Outcomes
<1>2. Moves(X, Put("worktree", x.worktree), X)
  BY <1>1, LightWrites, PutIn, SpotKeeps
<1>3. Moves(X, Put("index", x.index), Y)
  BY <1>1, SpotPuts
<1> HIDE DEF X, Y
<1> QED BY <1>2, <1>3, MovesBoth DEF Applied, X, Y

-----------------------------------------------------------------------------
(***************************************************************************)
(* What a command is bound to lead to.                                     *)
(***************************************************************************)
LEMMA Unwatched == ASSUME ~Watched(begun') PROVE WholeInv'
BY DEF WholeInv, Watched

\* Nothing is being written.
LEMMA WholeNow ==
    ASSUME WholeInv, Watched(begun), job.todo = <<>>
    PROVE  EndsWell(log, begun, files, job.then)
BY LeadsNowhere DEF WholeInv

\* A command whose writes lead from where the files are to where they are to be.
LEMMA WholeMoves ==
    ASSUME NEW X, NEW Y, files \in X, files' = files, Moves(X, job'.todo, Y),
           \A u \in Y : EndsWell(log', begun', u, job'.then)
    PROVE  WholeInv'
BY DEF Moves, WholeInv

\* An operation that goes on, or changes how it stands: it is watched as it was.
LEMMA HowIs ==
    ASSUME Standing, begun # None, NEW how \in {"open", "aborted", "finished"}
    PROVE  LET e == [begun EXCEPT !.how = how]
           IN  /\ e.op = begun.op /\ e.how = how /\ e.tip = begun.tip /\ e.base = begun.base
               /\ e.theirs = begun.theirs /\ e.touched = begun.touched /\ e.cut = begun.cut
               /\ Watched(e) => Watched(begun)
<1>1. begun \in Begun(Commits)
  BY BegunIs
<1> DEFINE e == [begun EXCEPT !.how = how]
<1>2. /\ e.op = begun.op /\ e.how = how /\ e.tip = begun.tip /\ e.base = begun.base
      /\ e.theirs = begun.theirs /\ e.touched = begun.touched /\ e.cut = begun.cut
  BY <1>1 DEF Begun
<1> HIDE DEF e
<1>3. Watched(e) => Watched(begun)
  BY <1>2 DEF Watched
<1> QED BY <1>2, <1>3 DEF e

\* What is known of an operation that is watched, between two commands.
LEMMA WholeRest ==
    ASSUME TypeInv, Standing, WholeInv, Watched(begun), job.todo = <<>>
    PROVE  /\ EndsWell(log, begun, files, job.then)
           /\ begun \in Begun(Commits) /\ begun.op \in {"merge", "rebase"}
           /\ begun.tip \in Commits /\ begun.theirs \in Commits \cup {None} /\ begun.base \in Commits \cup {None}
           /\ files.cherry = None /\ files.bisect = None /\ files \in Here
           /\ files.mergeHead # None => /\ begun.op = "merge" /\ begun.how # "finished" /\ files.rebase = None
                                        /\ files.mergeHead = begun.theirs /\ HeadSha = begun.tip
           /\ files.rebase # None => /\ begun.op = "rebase" /\ begun.how = "open" /\ files.mergeHead = None
                                     /\ Along(log, begun, files, job.then)
BY WholeNow, BegunIs, HereIs, TipIsHead DEF Watched, Begun, EndsWell, MergeEnds, RebaseEnds

LEMMA StepWhole == ASSUME TypeInv, WholeInv, Step PROVE WholeInv'
<1>1. /\ job.todo # <<>> /\ log' = log /\ begun' = begun
      /\ files' = Written(files, Head(job.todo))
      /\ job' = IF Len(job.todo) = 1 /\ job.then = "end" THEN Idle ELSE [job EXCEPT !.todo = Tail(@)]
  BY DEF Step, Written
<1>2. job.todo \in Seq(Writes(Commits))
  BY DEF TypeInv
<1>3. job'.todo = Tail(job.todo) /\ job'.then = job.then
  <2>1. CASE Len(job.todo) = 1 /\ job.then = "end"
    <3>1. job' = Idle
      BY <1>1, <2>1
    <3>2. Tail(job.todo) \in Seq(Writes(Commits)) /\ Len(Tail(job.todo)) = 0
      BY <1>1, <1>2, <2>1, HeadTailProperties
    <3>3. Tail(job.todo) = <<>>
      BY <3>2, EmptySeq
    <3> QED BY <2>1, <3>1, <3>3 DEF Idle
  <2>2. CASE ~(Len(job.todo) = 1 /\ job.then = "end")
    BY <1>1, <2>2 DEF TypeInv
  <2> QED BY <2>1, <2>2
<1>4. CASE ~Watched(begun)
  BY <1>1, <1>4, Unwatched
<1>5. CASE Watched(begun)
  BY <1>5, <1>1, <1>2, <1>3, LeadsOn DEF WholeInv
<1> QED BY <1>4, <1>5

LEMMA InterruptedWhole == ASSUME Standing, Interrupted PROVE WholeInv'
<1>1. CASE begun = None
  BY <1>1, Unwatched DEF Interrupted, Watched
<1>2. CASE begun # None
  <2> DEFINE cut == IF begun.how = "finished" \/ begun.cut = "at its end" THEN "at its end" ELSE "before"
             e == [begun EXCEPT !.how = "open", !.cut = cut]
  <2>1. begun \in Begun(Commits)
    BY <1>2, BegunIs
  <2>2. begun' = e
    BY <1>2, <2>1 DEF Interrupted, Begun
  <2>3. cut # "never"
    OBVIOUS
  <2> HIDE DEF cut
  <2>4. e.cut = cut
    BY <2>1 DEF Begun
  <2> HIDE DEF e
  <2> QED BY <2>2, <2>3, <2>4, Unwatched DEF Watched
<1> QED BY <1>1, <1>2

-----------------------------------------------------------------------------
(***************************************************************************)
(* More commits change nothing of what was said of the ones there were.    *)
(***************************************************************************)
LEMMA LineStays ==
    ASSUME NEW h, NEW k, Len(h) \in Nat, Len(k) \in Nat, Len(k) >= Len(h), \A c \in 1..Len(h) : k[c] = h[c],
           NEW c, NEW base, NEW q, Line(h, c, base, q)
    PROVE  Line(k, c, base, q)
<1>1. q \in Seq(1..Len(h)) /\ Len(q) >= 1 /\ q[1] = c /\ \A i \in 1..Len(q) : q[i] # base
  BY DEF Line
<1>2. 1..Len(h) \subseteq 1..Len(k)
  OBVIOUS
<1>3. q \in Seq(1..Len(k))
  BY <1>1, <1>2, Within
<1>4. \A i \in 1..Len(q) : k[q[i]] = h[q[i]]
  BY <1>1, ElementOfSeq
<1>5. Len(q) \in Nat
  BY <1>1, LenProperties
<1>6. ASSUME NEW i \in 1..(Len(q) - 1) PROVE k[q[i]].parents # <<>> /\ k[q[i]].parents[1] = q[i + 1]
  <2>1. i \in 1..Len(q)
    BY <1>5
  <2>2. h[q[i]].parents # <<>> /\ h[q[i]].parents[1] = q[i + 1]
    BY DEF Line
  <2> QED BY <1>4, <2>1, <2>2
<1>7. k[q[Len(q)]] = h[q[Len(q)]]
  BY <1>1, <1>5, <1>4
<1>8. IF base = None THEN k[q[Len(q)]].parents = <<>>
      ELSE k[q[Len(q)]].parents # <<>> /\ k[q[Len(q)]].parents[1] = base
  BY <1>7 DEF Line
<1> QED BY <1>1, <1>3, <1>6, <1>8 DEF Line

LEMMA RightStays ==
    ASSUME NEW h, NEW k, Len(h) \in Nat, \A c \in 1..Len(h) : k[c] = h[c],
           NEW e, e.theirs \in 1..Len(h) \cup {None}, e.base \in 1..Len(h) \cup {None},
           NEW q \in Seq(1..Len(h)), NEW n \in 0..Len(q), NEW p, NEW x, Right(h, e, q, n, p, x)
    PROVE  Right(k, e, q, n, p, x)
<1>1. TreeIn(k, e.theirs) = TreeIn(h, e.theirs) /\ TreeIn(k, e.base) = TreeIn(h, e.base)
  BY DEF TreeIn
<1>2. Len(q) \in Nat /\ \A i \in 1..Len(q) : k[q[i]] = h[q[i]]
  BY LenProperties, ElementOfSeq
<1>3. Last(k, e.base, q, n) = Last(h, e.base, q, n)
  <2>1. n < Len(q) => n + 1 \in 1..Len(q)
    BY <1>2
  <2>2. n < Len(q) => k[q[n + 1]] = h[q[n + 1]]
    BY <1>2, <2>1
  <2> QED BY <1>1, <2>2 DEF Last
<1>4. (\A i \in 1..Len(q) : k[q[i]].tree[p] = TreeIn(k, e.base)[p])
          <=> \A i \in 1..Len(q) : h[q[i]].tree[p] = TreeIn(h, e.base)[p]
  BY <1>1, <1>2
<1> QED BY <1>1, <1>3, <1>4 DEF Right

-----------------------------------------------------------------------------
(***************************************************************************)
(* Picking the next commit of the line: what was right stays right, and a  *)
(* path about which anything was claimed is in no conflict.                *)
(***************************************************************************)
LEMMA PickIsRight ==
    ASSUME NEW h, NEW e, NEW q, NEW n \in 1..Len(q), Len(q) \in Nat, Line(h, e.tip, e.base, q),
           NEW o, NEW p \in Paths, Right(h, e, q, n, p, o[p]),
           NEW parent, parent = Last(h, e.base, q, n), NEW source, source = h[q[n]].tree
    PROVE  IF p \in Clashes(parent, o, source) THEN \A x : Right(h, e, q, n - 1, p, x)
           ELSE Right(h, e, q, n - 1, p, Merged(parent, o, source, o)[p])
<1> DEFINE b == TreeIn(h, e.base)
           t == TreeIn(h, e.theirs)
           m == Merged(parent, o, source, o)[p]
<1>1. Last(h, e.base, q, n - 1) = source
  BY DEF Last
<1>2. (\A i \in 1..Len(q) : h[q[i]].tree[p] = b[p]) => parent[p] = b[p] /\ source[p] = b[p]
  <2>1. SUFFICES ASSUME \A i \in 1..Len(q) : h[q[i]].tree[p] = b[p] PROVE parent[p] = b[p] /\ source[p] = b[p]
    OBVIOUS
  <2>2. n < Len(q) => n + 1 \in 1..Len(q)
    OBVIOUS
  <2> QED BY <2>1, <2>2 DEF Last
<1>3. m = IF p \in Clashes(parent, o, source) \/ {parent[p], o[p], source[p]} = {Gone} THEN o[p]
          ELSE Chosen(parent[p], o[p], source[p])
  BY DEF Merged
<1>4. o[p] = parent[p] => p \notin Clashes(parent, o, source) /\ m = source[p]
  <2>1. SUFFICES ASSUME o[p] = parent[p] PROVE p \notin Clashes(parent, o, source) /\ m = source[p]
    OBVIOUS
  <2>2. ~BothChanged(parent[p], o[p], source[p])
    BY <2>1 DEF BothChanged
  <2>3. p \notin Clashes(parent, o, source)
    BY <2>2 DEF Clashes
  <2>4. Chosen(parent[p], o[p], source[p]) = source[p]
    BY <2>1, <2>2 DEF Chosen
  <2>5. CASE {parent[p], o[p], source[p]} = {Gone}
    BY <2>5, <1>3, <2>3
  <2>6. CASE {parent[p], o[p], source[p]} # {Gone}
    BY <1>3, <2>3, <2>4, <2>6
  <2> QED BY <2>3, <2>5, <2>6
<1>5. source[p] = parent[p] => p \notin Clashes(parent, o, source) /\ m = o[p]
  <2>1. SUFFICES ASSUME source[p] = parent[p] PROVE p \notin Clashes(parent, o, source) /\ m = o[p]
    OBVIOUS
  <2>2. ~BothChanged(parent[p], o[p], source[p])
    BY <2>1 DEF BothChanged
  <2>3. p \notin Clashes(parent, o, source)
    BY <2>2 DEF Clashes
  <2>4. Chosen(parent[p], o[p], source[p]) = o[p]
    BY <2>1, <2>2 DEF Chosen
  <2> QED BY <1>3, <2>3, <2>4
<1>6. t[p] = b[p] => o[p] = parent[p]
  BY DEF Right
<1>7. (\A i \in 1..Len(q) : h[q[i]].tree[p] = b[p]) => o[p] = t[p]
  BY DEF Right
<1>8. \A x : Right(h, e, q, n - 1, p, x) <=>
               /\ t[p] = b[p] => x = source[p]
               /\ (\A i \in 1..Len(q) : h[q[i]].tree[p] = b[p]) => x = t[p]
  BY <1>1 DEF Right
<1> HIDE DEF b, t, m
<1>9. CASE p \in Clashes(parent, o, source)
  BY <1>2, <1>4, <1>5, <1>6, <1>9, <1>8
<1>10. CASE p \notin Clashes(parent, o, source)
  <2>1. t[p] = b[p] => m = source[p]
    BY <1>4, <1>6
  <2>2. (\A i \in 1..Len(q) : h[q[i]].tree[p] = b[p]) => m = t[p]
    BY <1>2, <1>5, <1>7
  <2>3. Right(h, e, q, n - 1, p, m)
    BY <1>8, <2>1, <2>2
  <2> QED BY <1>10, <2>3 DEF m
<1> QED BY <1>9, <1>10

-----------------------------------------------------------------------------
(***************************************************************************)
(* Where a command may leave an operation.                                 *)
(***************************************************************************)
\* A merge that is not concluded.
LEMMA MergeOpen ==
    ASSUME NEW h, NEW e, e.op = "merge", e.how # "finished", NEW then, NEW m, NEW v \in Frame(m, None),
           m = None \/ (m = e.theirs /\ Tip(v) = e.tip)
    PROVE  EndsWell(h, e, v, then)
BY DEF Frame, EndsWell, MergeEnds

\* A rebase that had nothing to replay, or was aborted.
LEMMA RebaseOver ==
    ASSUME NEW h, NEW e, e.op = "rebase", e.how # "finished", NEW v \in Frame(None, None)
    PROVE  EndsWell(h, e, v, "end")
BY DEF Frame, EndsWell, RebaseEnds

\* A rebase on its way.
LEMMA RebaseAlong ==
    ASSUME NEW h, NEW e, e.op = "rebase", e.how = "open", NEW b \in Branches, NEW c, NEW t, NEW x, x # None,
           NEW v \in Spot(b, c, t, None, x), NEW q, NEW n \in 0..Len(q), Line(h, e.tip, e.base, q),
           x.pending = [i \in 1..n |-> q[n + 1 - i]],
           \A p \in Paths \ e.touched : Right(h, e, q, n, p, t[p]),
           NEW then, then = "end" => x.current # None,
           then = "replay" => x.current = None /\ t = TreeIn(h, c)
    PROVE  EndsWell(h, e, v, then)
BY DEF Spot, Frame, Along, EndsWell, RebaseEnds

\* What is said of a rebase on its way.
LEMMA AlongIs ==
    ASSUME NEW h, NEW e, NEW v, NEW then, Along(h, e, v, then)
    PROVE  /\ v.head \in Branches
           /\ then = "end" => v.rebase.current # None
           /\ then = "replay" => v.rebase.current = None /\ v.index.staged = TreeIn(h, Tip(v))
           /\ \E q : \E n \in 0..Len(q) :
                 /\ Line(h, e.tip, e.base, q)
                 /\ v.rebase.pending = [i \in 1..n |-> q[n + 1 - i]]
                 /\ \A p \in Paths \ e.touched : Right(h, e, q, n, p, v.index.staged[p])
BY DEF Along

-----------------------------------------------------------------------------
(***************************************************************************)
(* The user's edits.                                                       *)
(***************************************************************************)
\* Whatever is touched of the worktree, the index and the conflicts.
LEMMA TouchesWhole ==
    ASSUME TypeInv, Standing, WholeInv, job = Idle, NEW S \in SUBSET Paths, Touches(S), log' = log,
           job'.then = "end", NEW t, \A p \in Paths \ S : t[p] = files.index.staged[p],
           files \in Here => \E u \in Spot(files.head, HeadSha, t, files.mergeHead, files.rebase) :
                                 Leads(files', job'.todo, u)
    PROVE  WholeInv'
<1>1. CASE begun = None \/ begun.how # "open"
  BY <1>1, Unwatched DEF Touches, Watched
<1>2. CASE begun # None /\ begun.how = "open"
  <2> DEFINE e == [begun EXCEPT !.touched = @ \cup S]
  <2>1. begun \in Begun(Commits) /\ begun' = e
    BY <1>2, BegunIs DEF Touches
  <2>2. /\ e.op = begun.op /\ e.how = "open" /\ e.tip = begun.tip /\ e.base = begun.base
        /\ e.theirs = begun.theirs /\ e.touched = begun.touched \cup S /\ e.cut = begun.cut
    BY <1>2, <2>1 DEF Begun
  <2> HIDE DEF e
  <2>3. CASE ~Watched(e)
    BY <2>1, <2>3, Unwatched
  <2>4. CASE Watched(e)
    <3>1. Watched(begun)
      BY <1>2, <2>2, <2>4 DEF Watched
    <3>2. job.todo = <<>> /\ job.then = "end"
      BY DEF Idle
    <3>3. files \in Here /\ begun.op \in {"merge", "rebase"}
      BY <3>1, <3>2, WholeRest
    <3>4. PICK u \in Spot(files.head, HeadSha, t, files.mergeHead, files.rebase) : Leads(files', job'.todo, u)
      BY <3>3
    <3>5. EndsWell(log, e, u, "end")
      <4>1. u \in Frame(files.mergeHead, files.rebase) /\ Tip(u) = HeadSha
        BY DEF Spot
      <4>2. CASE begun.op = "merge"
        <5>1. files.rebase = None /\ (files.mergeHead # None => files.mergeHead = begun.theirs /\ HeadSha = begun.tip)
          BY <3>1, <3>2, <4>2, WholeRest
        <5>2. u \in Frame(files.mergeHead, None) /\ e.op = "merge" /\ e.how # "finished"
              /\ (files.mergeHead = None \/ (files.mergeHead = e.theirs /\ Tip(u) = e.tip))
          BY <2>2, <4>1, <4>2, <5>1
        <5> QED BY <5>2, MergeOpen
      <4>3. CASE begun.op = "rebase" /\ files.rebase = None
        <5>1. files.mergeHead = None
          BY <3>1, <3>2, <4>3, WholeRest
        <5> QED BY <2>2, <4>1, <4>3, <5>1, RebaseOver
      <4>4. CASE begun.op = "rebase" /\ files.rebase # None
        <5>1. files.mergeHead = None /\ Along(log, begun, files, "end")
          BY <3>1, <3>2, <4>4, WholeRest
        <5>2. files.head \in Branches /\ files.rebase.current # None
          BY <5>1, AlongIs
        <5>3. PICK q : \E n \in 0..Len(q) :
                  /\ Line(log, begun.tip, begun.base, q)
                  /\ files.rebase.pending = [i \in 1..n |-> q[n + 1 - i]]
                  /\ \A p \in Paths \ begun.touched : Right(log, begun, q, n, p, files.index.staged[p])
          BY <5>1, AlongIs
        <5>4. PICK n \in 0..Len(q) :
                  /\ Line(log, begun.tip, begun.base, q)
                  /\ files.rebase.pending = [i \in 1..n |-> q[n + 1 - i]]
                  /\ \A p \in Paths \ begun.touched : Right(log, begun, q, n, p, files.index.staged[p])
          BY <5>3
        <5>5. ASSUME NEW p \in Paths \ e.touched PROVE Right(log, e, q, n, p, t[p])
          BY <2>2, <5>4 DEF Right
        <5>6. Line(log, e.tip, e.base, q) /\ e.op = "rebase" /\ e.how = "open"
          BY <2>2, <4>4, <5>4
        <5> DEFINE x == files.rebase
        <5>7. x # None /\ u \in Spot(files.head, HeadSha, t, None, x) /\ x.current # None
              /\ x.pending = [i \in 1..n |-> q[n + 1 - i]]
          BY <4>4, <5>1, <5>2, <5>4
        <5> HIDE DEF x
        <5>8. \A p \in Paths \ e.touched : Right(log, e, q, n, p, t[p])
          BY <5>5
        <5> QED BY ONLY <5>2, <5>6, <5>7, <5>8, n \in 0..Len(q), RebaseAlong
      <4> QED BY <3>3, <4>2, <4>3, <4>4
    <3> QED BY <2>1, <3>4, <3>5 DEF WholeInv
  <2> QED BY <2>3, <2>4
<1> QED BY <1>1, <1>2

\* Writes of the worktree, the index and the conflicts, as the user's commands make them.
LEMMA SpotWrites ==
    ASSUME TypeInv, NEW h, NEW c, NEW t, NEW m, NEW r
    PROVE  /\ \A x \in Tree : Moves(Spot(h, c, t, m, r), Put("worktree", x), Spot(h, c, t, m, r))
           /\ \A x \in SUBSET Paths : Moves(Spot(h, c, t, m, r), Put("conflicts", x), Spot(h, c, t, m, r))
           /\ \A x \in Nat \cup {None} : Moves(Spot(h, c, t, m, r), Put("mergeOrig", x), Spot(h, c, t, m, r))
           /\ Moves(Spot(h, c, t, m, r), <<>>, Spot(h, c, t, m, r))
           /\ Moves(Spot(h, c, t, m, r), ClearConflicts, Spot(h, c, t, m, r))
           /\ \A p \in Paths : Moves(Spot(h, c, t, m, r), ClearConflict(p), Spot(h, c, t, m, r))
<1> DEFINE X == Spot(h, c, t, m, r)
           L == Light(t)
<1>1. \A s \in Seq(L) : Moves(X, s, X)
  BY SpotKeeps
<1>2. /\ \A x \in Tree : Put("worktree", x) \in Seq(L)
      /\ \A x \in SUBSET Paths : Put("conflicts", x) \in Seq(L)
      /\ \A x \in Nat \cup {None} : Put("mergeOrig", x) \in Seq(L)
  <2>1. /\ \A x \in Tree : [at |-> "worktree", to |-> x] \in L
        /\ \A x \in SUBSET Paths : [at |-> "conflicts", to |-> x] \in L
        /\ \A x \in Nat \cup {None} : [at |-> "mergeOrig", to |-> x] \in L
    BY LightWrites
  <2> HIDE DEF L
  <2> QED BY <2>1, PutIn
<1> HIDE DEF X, L
<1>3. <<>> \in Seq(L)
  BY EmptySeq
<1>4. ClearConflicts \in Seq(L)
  BY <1>2, <1>3 DEF ClearConflicts
<1>5. \A p \in Paths : ClearConflict(p) \in Seq(L)
  BY <1>2, <1>3, Facts DEF ClearConflict
<1> QED BY <1>1, <1>2, <1>3, <1>4, <1>5 DEF X

LEMMA WithStaged ==
    ASSUME TypeInv, NEW i \in Indexes, NEW p \in Paths, NEW c \in Contents \cup {Gone}
    PROVE  /\ With(i, p, c) \in Indexes
           /\ \A x \in Paths \ {p} : With(i, p, c).staged[x] = i.staged[x]
BY IndexTyped DEF Indexes, With, Tree

LEMMA EditingWhole == ASSUME TypeInv, Standing, WholeInv, Editing PROVE WholeInv'
<1> DEFINE At(t) == Spot(files.head, HeadSha, t, files.mergeHead, files.rebase)
<1>0. /\ job = Idle /\ files.index \in Indexes /\ files.worktree \in Tree
      /\ \A p \in Paths : files.worktree[p] \in Contents \cup {Gone}
  BY StartsIdle, Facts DEF Tree
<1>1. /\ Here = At(files.index.staged)
      /\ \A t : \A x \in Tree : Moves(At(t), Put("worktree", x), At(t))
      /\ \A t : Moves(At(t), <<>>, At(t))
      /\ \A t : \A p \in Paths : Moves(At(t), ClearConflict(p), At(t))
      /\ \A t : \A i \in Indexes : Moves(At(t), Put("index", i), At(i.staged))
  BY SpotWrites, SpotPuts DEF Here
<1> HIDE DEF At
<1>2. ASSUME NEW p \in Paths, NEW c \in Typed, Edit(p, c) PROVE WholeInv'
  <2> DEFINE t == [files.worktree EXCEPT ![p] = c]
             w == [at |-> "worktree", to |-> t]
  <2>1. t \in Tree
    BY TypedIsContent, <1>0 DEF Tree
  <2>2. Touches({p}) /\ log' = log /\ job' = job /\ files' = [files EXCEPT !.worktree = t]
    BY <1>2, Facts DEF Edit, Tree
  <2>3. files' = Written(files, w)
    BY <2>2 DEF Written
  <2>4. files \in Here => \E u \in At(files.index.staged) : Leads(files', job'.todo, u)
    <3>1. SUFFICES ASSUME files \in Here PROVE \E u \in At(files.index.staged) : Leads(files', job'.todo, u)
      OBVIOUS
    <3> DEFINE d == <<w>>
    <3>2. d = Put("worktree", t) /\ d # <<>> /\ Head(d) = w /\ Tail(d) = <<>>
      BY DEF Put
    <3> HIDE DEF w, t
    <3>3. Moves(At(files.index.staged), d, At(files.index.staged))
      BY <1>1, <2>1, <3>2
    <3> HIDE DEF d
    <3>4. PICK u \in At(files.index.staged) : Leads(files, d, u)
      BY <1>1, <3>1, <3>3 DEF Moves
    <3>5. d \in Seq(Writes(Nat))
      BY <3>3 DEF Moves
    <3>6. Leads(files', Tail(d), u)
      BY <2>3, <3>2, <3>4, <3>5, LeadsOn
    <3>7. job'.todo = Tail(d)
      BY <1>0, <2>2, <3>2 DEF Idle
    <3> QED BY <3>6, <3>7
  <2>5. {p} \in SUBSET Paths /\ job'.then = "end"
        /\ \A x \in Paths \ {p} : files.index.staged[x] = files.index.staged[x]
    BY <1>0, <2>2 DEF Idle
  <2> HIDE DEF t, w
  <2> QED BY <1>0, <2>2, <2>4, <2>5, TouchesWhole DEF At
<1>3. ASSUME NEW cmd, NEW S \in SUBSET Paths, NEW todo, NEW t, RunEdit(cmd, S, todo),
             \A x \in Paths \ S : t[x] = files.index.staged[x], Moves(Here, todo, At(t))
      PROVE  WholeInv'
  BY <1>3, <1>0, TouchesWhole DEF RunEdit, Moves, At
<1>4. ASSUME NEW p \in Paths, Add(p) PROVE WholeInv'
  <2> DEFINE i == With(files.index, p, files.worktree[p])
             todo == Put("index", i) \o ClearConflict(p)
  <2>1. i \in Indexes /\ \A x \in Paths \ {p} : i.staged[x] = files.index.staged[x]
    BY <1>0, WithStaged
  <2>2. RunEdit("add", {p}, todo) /\ {p} \in SUBSET Paths
    BY <1>4 DEF Add
  <2> HIDE DEF i
  <2>3. Moves(Here, todo, At(i.staged))
    BY <1>1, <2>1, MovesBoth
  <2> HIDE DEF todo
  <2> QED BY <1>3, <2>1, <2>2, <2>3
<1>5. ASSUME NEW p \in Paths, NEW cached \in BOOLEAN, Rm(p, cached) PROVE WholeInv'
  <2> DEFINE i == With(files.index, p, Gone)
             c == IF cached THEN <<>> ELSE Put("worktree", [files.worktree EXCEPT ![p] = Gone])
             todo == Put("index", i) \o ClearConflict(p) \o c
  <2>1. i \in Indexes /\ \A x \in Paths \ {p} : i.staged[x] = files.index.staged[x]
    BY <1>0, WithStaged
  <2>2. RunEdit("rm", {p}, todo) /\ {p} \in SUBSET Paths
    BY <1>5 DEF Rm
  <2>3. Moves(At(i.staged), c, At(i.staged))
    BY <1>0, <1>1 DEF Tree
  <2> HIDE DEF i, c
  <2>4. Moves(Here, Put("index", i) \o ClearConflict(p), At(i.staged))
    BY <1>1, <2>1, MovesBoth
  <2>5. Moves(Here, todo, At(i.staged))
    BY <2>3, <2>4, MovesBoth
  <2> HIDE DEF todo
  <2> QED BY <1>3, <2>1, <2>2, <2>5
<1>6. ASSUME NEW p \in Paths, NEW q \in Paths, Mv(p, q) PROVE WholeInv'
  <2> DEFINE removed == With(files.index, p, Gone)
             moved == With(removed, q, files.worktree[p])
             w == [files.worktree EXCEPT ![q] = files.worktree[p], ![p] = Gone]
             todo == Put("worktree", w) \o Put("index", removed) \o Put("index", moved)
  <2>1. removed \in Indexes /\ \A x \in Paths \ {p} : removed.staged[x] = files.index.staged[x]
    BY <1>0, WithStaged
  <2>2. moved \in Indexes /\ \A x \in Paths \ {q} : moved.staged[x] = removed.staged[x]
    <3> HIDE DEF removed
    <3> QED BY <1>0, <2>1, WithStaged
  <2>3. w \in Tree
    BY <1>0 DEF Tree
  <2>4. RunEdit("mv", {p, q}, todo) /\ {p, q} \in SUBSET Paths
    BY <1>6 DEF Mv
  <2> HIDE DEF removed, moved, w
  <2>5. Moves(Here, Put("worktree", w), Here)
    BY <1>1, <2>3
  <2>6. Moves(Here, Put("worktree", w) \o Put("index", removed), At(removed.staged))
    BY <1>1, <2>1, <2>5, MovesBoth
  <2>7. Moves(Here, todo, At(moved.staged))
    BY <1>1, <2>2, <2>6, MovesBoth
  <2>8. \A x \in Paths \ {p, q} : moved.staged[x] = files.index.staged[x]
    BY <2>1, <2>2
  <2> HIDE DEF todo
  <2> QED BY <1>3, <2>4, <2>7, <2>8
<1> QED BY <1>2, <1>4, <1>5, <1>6 DEF Editing

LEMMA CheckoutPathWhole ==
    ASSUME TypeInv, Standing, WholeInv, NEW p \in Paths, NEW c \in Tips, CheckoutPath(p, c) PROVE WholeInv'
<1> DEFINE At(t) == Spot(files.head, HeadSha, t, files.mergeHead, files.rebase)
           w == [files.worktree EXCEPT ![p] = TreeAt(c)[p]]
           i == [files.index EXCEPT !.staged[p] = TreeAt(c)[p]]
           todo == Put("worktree", w) \o Put("index", i)
<1>1. job = Idle /\ Run("checkout_path", todo, "end", <<>>) /\ Touches({p})
  BY DEF CheckoutPath, MayStart, Simple
<1>2. w \in Tree /\ i \in Indexes /\ \A x \in Paths \ {p} : i.staged[x] = files.index.staged[x]
  BY NamedAreCommits, TreesTyped, Facts DEF Tree, Indexes
<1>3. log' = log /\ files' = files /\ job'.todo = todo /\ job'.then = "end"
  BY <1>1, NothingAdded DEF Run
<1> HIDE DEF w, i
<1>4. Moves(Here, todo, At(i.staged))
  <2>1. Moves(Here, Put("worktree", w), Here) /\ Moves(Here, Put("index", i), At(i.staged))
    BY <1>2, SpotWrites, SpotPuts DEF Here
  <2> HIDE DEF At
  <2> QED BY <2>1, MovesBoth
<1> HIDE DEF todo
<1>5. files \in Here => \E u \in At(i.staged) : Leads(files', job'.todo, u)
  <2> HIDE DEF At
  <2> QED BY <1>3, <1>4 DEF Moves
<1>6. {p} \in SUBSET Paths
  OBVIOUS
<1> QED BY <1>1, <1>2, <1>3, <1>5, <1>6, TouchesWhole

LEMMA MovingWhole == ASSUME TypeInv, Standing, WholeInv, Moving PROVE WholeInv'
BY CheckoutPathWhole, MovingForgets, Unwatched DEF Watched

LEMMA StashingWhole == ASSUME Stashing PROVE WholeInv'
BY StashingIsUnrelated, Unwatched DEF Watched

-----------------------------------------------------------------------------
(***************************************************************************)
(* Merges, and the commit that concludes one.                              *)
(***************************************************************************)
LEMMA CommitWhole == ASSUME TypeInv, Standing, WholeInv, Commit PROVE WholeInv'
<1> DEFINE r == Record(files.index.staged, HeadAndMergeHead, NewCommit)
           todo == Committed(files.index)
           e == [begun EXCEPT !.how = "finished"]
<1>1. Run("commit", todo, "end", <<r>>) /\ Concludes /\ job = Idle
  BY DEF Commit, MayStart
<1>2. files' = files /\ log' = log \o <<r>> /\ job'.todo = todo /\ job'.then = "end"
      /\ job.todo = <<>> /\ job.then = "end"
  BY <1>1 DEF Run, Idle
<1>3. CASE begun = None \/ ~(Operation \in {"merge", "cherry-pick"})
  BY <1>1, <1>3, Unwatched DEF Concludes, Unrelated, Ends, Watched
<1>4. CASE begun # None /\ Operation \in {"merge", "cherry-pick"}
  <2>1. begun' = e
    BY <1>1, <1>4 DEF Concludes, Ends
  <2>2. /\ e.op = begun.op /\ e.how = "finished" /\ e.tip = begun.tip /\ e.theirs = begun.theirs
        /\ Watched(e) => Watched(begun)
    BY <1>4, HowIs
  <2> HIDE DEF e
  <2>3. CASE ~Watched(e)
    BY <2>1, <2>3, Unwatched
  <2>4. CASE Watched(e)
    <3>1. files.mergeHead # None
      BY <1>2, <1>4, <2>2, <2>4, WholeRest, OperationIs
    <3>2. /\ begun.op = "merge" /\ files.rebase = None /\ files.mergeHead = begun.theirs /\ HeadSha = begun.tip
          /\ files \in Here /\ files.cherry = None /\ begun.tip \in Commits
      BY <1>2, <2>2, <2>4, <3>1, WholeRest
    <3> DEFINE t == files.index.staged
               h == Onward(files.head, NewCommit)
    <3>3. Moves(Here, todo, Spot(h, NewCommit, t, None, None))
      BY <3>2, CommittedMoves, Facts DEF Here
    <3>4. r \in Entry /\ r.parents = HeadAndMergeHead /\ r.parents \in Seq(Commits)
      BY Facts, ParentsTyped, MoreFacts, RecordTyped
    <3> HIDE DEF r, t, h, todo
    <3>5. /\ Recorded(log') /\ Len(log') = NewCommit /\ log'[NewCommit] = r
          /\ Len(log) \in Nat
      BY <1>2, <3>4, OneMore, Facts DEF TypeInv, Commits, NewCommit
    <3>6. {begun.tip, begun.theirs} \subseteq Parents(log', NewCommit)
      <4>1. CASE begun.theirs = begun.tip
        BY <3>2, <4>1, Facts, <3>4, <3>5 DEF HeadAndMergeHead, Parents
      <4>2. CASE begun.theirs # begun.tip
        <5>1. HeadAndMergeHead = <<begun.tip, begun.theirs>>
          BY <3>1, <3>2, <4>2, Facts, Pair DEF HeadAndMergeHead
        <5>2. 1 \in DOMAIN r.parents /\ r.parents[1] = begun.tip /\ 2 \in DOMAIN r.parents /\ r.parents[2] = begun.theirs
          BY <3>4, <5>1
        <5> QED BY <3>5, <5>2 DEF Parents
      <4> QED BY <4>1, <4>2
    <3>7. {begun.tip, begun.theirs} \subseteq History(log', {NewCommit})
      BY <3>5, RecordedIsDated, HistoryCloses, <3>6 DEF NewCommit, Closed
    <3>8. ASSUME NEW u \in Spot(h, NewCommit, t, None, None) PROVE EndsWell(log', begun', u, job'.then)
      BY <2>2, <3>7, <2>1, <3>2 DEF Spot, Frame, MergeEnds, EndsWell
    <3> DEFINE Y == Spot(h, NewCommit, t, None, None)
    <3> HIDE DEF Y
    <3>9. Moves(Here, job'.todo, Y) /\ \A u \in Y : EndsWell(log', begun', u, job'.then)
      BY <1>2, <3>3, <3>8 DEF Y
    <3> QED BY <1>2, <3>2, <3>9, WholeMoves
  <2> QED BY <2>3, <2>4
<1> QED BY <1>3, <1>4

LEMMA CommittingWhole == ASSUME TypeInv, Standing, WholeInv, Committing PROVE WholeInv'
<1>1. Amend \/ (\E p \in Paths : CommitOnly(p)) => begun' = None
  BY Zenon DEF Amend, CommitOnly, Unrelated
<1> QED BY <1>1, CommitWhole, Unwatched DEF Committing, Watched

\* An operation that begins.
LEMMA BeginsWatched ==
    ASSUME NEW op, NEW base, NEW theirs, Begins(op, base, theirs)
    PROVE  /\ begun'.op = op /\ begun'.how = "open" /\ begun'.tip = HeadSha /\ begun'.base = base
           /\ begun'.theirs = theirs /\ begun'.touched = {}
<1> DEFINE flag == files.mergeOrig = None /\ files.index.unmerged = {}
           e == [op |-> op, how |-> "open", head |-> files.head, tip |-> HeadSha,
                 base |-> base, theirs |-> theirs, touched |-> {}, cut |-> "never", fresh |-> flag]
<1>1. begun' = e
  BY DEF Begins
<1> HIDE DEF flag
<1> QED BY <1>1

LEMMA MergeWhole ==
    ASSUME TypeInv, NEW theirs \in Tips, NEW squash \in BOOLEAN, Merge(theirs, squash) PROVE WholeInv'
<1>1. HeadSha \in Commits /\ theirs \in Commits /\ HeadSha # None /\ Ready /\ theirs # None
  BY Facts DEF Merge, Tips
<1>2. PICK base \in MergeBases(log, HeadSha, theirs) :
          LET r == ThreeWay(TreeAt(base), TreeAt(theirs))
          IN  /\ \/ Run("merge", ReplaceTracked(TreeAt(theirs)) \o MoveHead(theirs), "end", <<>>)
                 \/ Run("merge", Applied(r) \o Put("index", WithStages(r))
                                 \o Put("mergeHead", theirs) \o Put("mergeOrig", HeadSha)
                                 \o Put("conflicts", r.clashes), "end", <<>>)
                 \/ Run("merge", Applied(r), "end", <<>>)
                 \/ Run("merge", Applied(r) \o Committed(r.index), "end",
                        <<Record(r.index.staged, <<HeadSha, theirs>>, NewCommit)>>)
              /\ Begins("merge", base, theirs)
  BY Zenon DEF Merge
<1>3. base \in Commits \cup {None}
  BY <1>1, BasesAreCommits, RecordedIsDated DEF TypeInv, Commits
<1> DEFINE r == ThreeWay(TreeAt(base), TreeAt(theirs))
<1>4. r \in Outcomes /\ r.index \in Indexes /\ r.clashes \in SUBSET Paths
  BY <1>1, <1>3, TreesTyped, ThreeWayTyped DEF Outcomes, Indexes
<1>5. /\ files.mergeHead = None /\ files.cherry = None /\ files.rebase = None /\ files.bisect = None
  BY <1>1, CalmIsNone DEF Ready, Calm
<1>6. begun'.op = "merge" /\ begun'.how = "open" /\ begun'.tip = HeadSha /\ begun'.theirs = theirs
  BY <1>2, BeginsWatched
<1> HIDE DEF r
<1> DEFINE At(h, c, t, m) == Spot(h, c, t, m, None)
           s == files.index.staged
<1>7. files \in At(files.head, HeadSha, s, None)
  BY <1>5, HereIs DEF Here
<1>8. ASSUME NEW todo, NEW new, Run("merge", todo, "end", new),
             NEW h, NEW c, NEW t, NEW m, Moves(At(files.head, HeadSha, s, None), todo, At(h, c, t, m)),
             m = None \/ (m = theirs /\ c = HeadSha)
      PROVE  WholeInv'
  <2>1. files' = files /\ job'.todo = todo
    BY <1>8 DEF Run
  <2>2. ASSUME NEW u \in At(h, c, t, m) PROVE EndsWell(log', begun', u, job'.then)
    BY <1>6, <1>8, MergeOpen DEF Spot
  <2> HIDE DEF At
  <2> QED BY <1>7, <1>8, <2>1, <2>2, WholeMoves
<1>9. /\ \A h, c, t, m : Moves(At(h, c, t, m), Applied(r), At(h, c, r.index.staged, m))
      /\ \A h, c, t, m : Moves(At(h, c, t, m), ReplaceTracked(TreeAt(theirs)), At(h, c, TreeAt(theirs), m))
      /\ \A h, c, t, m : Moves(At(h, c, t, m), Put("index", WithStages(r)), At(h, c, WithStages(r).staged, m))
      /\ \A h, c, t, m : Moves(At(h, c, t, m), Put("mergeHead", theirs), At(h, c, t, theirs))
      /\ \A h, c, t, m : Moves(At(h, c, t, m), Put("mergeOrig", HeadSha), At(h, c, t, m))
      /\ \A h, c, t, m : Moves(At(h, c, t, m), Put("conflicts", r.clashes), At(h, c, t, m))
  <2>1. TreeAt(theirs) \in Tree /\ theirs \in Nat \cup {None} /\ HeadSha \in Nat \cup {None} /\ WithStages(r) \in Indexes
    BY <1>1, <1>4, TreesTyped, IndexTyped DEF Commits
  <2> QED BY <1>4, <2>1, AppliedMoves, ReplaceMoves, SpotPuts, SpotWrites
<1>10. Moves(At(files.head, HeadSha, TreeAt(theirs), None), MoveHead(theirs),
             At(Onward(files.head, theirs), theirs, TreeAt(theirs), None))
  BY <1>1, MoveHeadMoves DEF Commits
<1>11. Moves(At(files.head, HeadSha, r.index.staged, None), Committed(r.index),
             At(Onward(files.head, NewCommit), NewCommit, r.index.staged, None))
  BY <1>4, <1>5, CommittedMoves
<1> HIDE DEF At, s
<1>12. CASE Run("merge", ReplaceTracked(TreeAt(theirs)) \o MoveHead(theirs), "end", <<>>)
  BY <1>9, <1>10, MovesBoth, <1>8, <1>12
<1>13. CASE Run("merge", Applied(r) \o Put("index", WithStages(r)) \o Put("mergeHead", theirs)
                         \o Put("mergeOrig", HeadSha) \o Put("conflicts", r.clashes), "end", <<>>)
  <2> DEFINE a == Applied(r) \o Put("index", WithStages(r))
             b == a \o Put("mergeHead", theirs)
             c == b \o Put("mergeOrig", HeadSha)
             d == c \o Put("conflicts", r.clashes)
             t == WithStages(r).staged
  <2>1. Moves(At(files.head, HeadSha, s, None), a, At(files.head, HeadSha, t, None))
    BY <1>9, MovesBoth
  <2> HIDE DEF a
  <2>2. Moves(At(files.head, HeadSha, s, None), b, At(files.head, HeadSha, t, theirs))
    BY <1>9, <2>1, MovesBoth
  <2> HIDE DEF b
  <2>3. Moves(At(files.head, HeadSha, s, None), c, At(files.head, HeadSha, t, theirs))
    BY <1>9, <2>2, MovesBoth
  <2> HIDE DEF c
  <2>4. Moves(At(files.head, HeadSha, s, None), d, At(files.head, HeadSha, t, theirs))
    BY <1>9, <2>3, MovesBoth
  <2>5. Run("merge", d, "end", <<>>)
    BY <1>13 DEF a, b, c
  <2> HIDE DEF d
  <2> QED BY <1>8, <2>4, <2>5
<1>14. CASE Run("merge", Applied(r), "end", <<>>)
  BY <1>8, <1>9, <1>14
<1>15. CASE Run("merge", Applied(r) \o Committed(r.index), "end",
                <<Record(r.index.staged, <<HeadSha, theirs>>, NewCommit)>>)
  BY <1>9, <1>11, MovesBoth, <1>8, <1>15
<1> QED BY <1>2, <1>12, <1>13, <1>14, <1>15 DEF r

LEMMA MergeAbortWhole == ASSUME TypeInv, Standing, WholeInv, MergeAbort PROVE WholeInv'
<1> DEFINE original == IF files.mergeOrig = None THEN HeadSha ELSE files.mergeOrig
           t == TreeAt(original)
           todo == ReplaceTracked(t) \o ClearMerge(Index(t))
           e == [begun EXCEPT !.how = "aborted"]
<1>1. job = Idle /\ files.mergeHead # None /\ Ends("aborted") /\ Run("merge_abort", todo, "end", <<>>)
  BY DEF MergeAbort, MayStart
<1>2. files' = files /\ job'.todo = todo /\ job.todo = <<>> /\ t \in Tree
  BY <1>1, TreesTyped, Facts DEF Run, Idle
<1> HIDE DEF t
<1>3. CASE begun = None
  BY <1>1, <1>3, Unwatched DEF Ends, Watched
<1>4. CASE begun # None
  <2>1. begun' = e
    BY <1>1, <1>4 DEF Ends
  <2>2. e.op = begun.op /\ e.how = "aborted" /\ (Watched(e) => Watched(begun))
    BY <1>4, HowIs
  <2> HIDE DEF e
  <2>3. CASE ~Watched(e)
    BY <2>1, <2>3, Unwatched
  <2>4. CASE Watched(e)
    <3>1. begun.op = "merge" /\ files.rebase = None /\ files \in Here
      BY <1>1, <1>2, <2>2, <2>4, WholeRest
    <3> DEFINE X == Spot(files.head, HeadSha, t, files.mergeHead, files.rebase)
               Y == Spot(files.head, HeadSha, t, None, None)
    <3>2. Moves(Here, ReplaceTracked(t), X)
      BY <1>2, ReplaceMoves DEF Here
    <3>3. Moves(X, ClearMerge(Index(t)), Y)
      <4> DEFINE i == Index(t)
      <4>1. i \in Indexes /\ i.staged = t
        BY <1>2, IndexIs
      <4> HIDE DEF i
      <4> QED BY <3>1, <4>1, ClearMergeMoves DEF i
    <3>4. ASSUME NEW u \in Y PROVE EndsWell(log', begun', u, job'.then)
      BY <2>1, <2>2, <3>1, MergeOpen DEF Spot
    <3> HIDE DEF X, Y
    <3>5. Moves(Here, todo, Y)
      BY <3>2, <3>3, MovesBoth
    <3> HIDE DEF todo
    <3> QED BY <1>2, <3>1, <3>4, <3>5, WholeMoves
  <2> QED BY <2>3, <2>4
<1> QED BY <1>3, <1>4

LEMMA MergingWhole == ASSUME TypeInv, Standing, WholeInv, Merging PROVE WholeInv'
BY MergeWhole, MergeAbortWhole DEF Merging

-----------------------------------------------------------------------------
(***************************************************************************)
(* Cherry-picks and bisections are not watched, and there is none in       *)
(* progress when something else is.                                        *)
(***************************************************************************)
LEMMA OthersUnwatched ==
    ASSUME TypeInv, Standing, WholeInv, job = Idle, files.cherry # None \/ files.bisect # None,
           begun' = begun \/ \E how \in {"aborted", "finished"} : Ends(how)
    PROVE  WholeInv'
<1>1. job.todo = <<>>
  BY DEF Idle
<1>2. ~Watched(begun)
  BY <1>1, WholeRest
<1>3. CASE begun' = begun
  BY <1>2, <1>3, Unwatched
<1>4. ASSUME NEW how \in {"aborted", "finished"}, Ends(how) PROVE WholeInv'
  <2>1. CASE begun = None
    BY <1>4, <2>1, Unwatched DEF Ends, Watched
  <2>2. CASE begun # None
    <3> DEFINE e == [begun EXCEPT !.how = how]
    <3>1. begun' = e
      BY <1>4, <2>2 DEF Ends
    <3>2. Watched(e) => Watched(begun)
      BY <2>2, HowIs
    <3> HIDE DEF e
    <3> QED BY <1>2, <3>1, <3>2, Unwatched
  <2> QED BY <2>1, <2>2
<1> QED BY <1>3, <1>4

LEMMA PickingWhole == ASSUME TypeInv, Standing, WholeInv, Picking PROVE WholeInv'
<1>0. job = Idle
  BY StartsIdle
<1>1. ASSUME NEW c, NEW noCommit, CherryPick(c, noCommit) PROVE WholeInv'
  <2>1. Begins("cherry-pick", None, c)
    BY <1>1, Zenon DEF CherryPick
  <2>2. begun'.op = "cherry-pick"
    BY <2>1, BeginsWatched
  <2> QED BY <2>2, Unwatched DEF Watched
<1>2. CherryContinue => files.cherry # None /\ Ends("finished")
  BY Zenon DEF CherryContinue
<1>3. CherryAbort => files.cherry # None /\ Ends("aborted")
  BY Zenon DEF CherryAbort
<1>4. \A c : Revert(c) => begun' = None
  BY Zenon DEF Revert, Unrelated
<1> QED BY <1>0, <1>1, <1>2, <1>3, <1>4, OthersUnwatched, Unwatched DEF Picking, Watched

LEMMA BisectingWhole == ASSUME TypeInv, Standing, WholeInv, Bisecting PROVE WholeInv'
<1>0. job = Idle
  BY StartsIdle
<1>1. ASSUME NEW bad, NEW good, BisectStart(bad, good) PROVE WholeInv'
  <2>1. Begins("bisect", None, None)
    BY <1>1, Zenon DEF BisectStart
  <2>2. begun'.op = "bisect"
    BY <2>1, BeginsWatched
  <2> QED BY <2>2, Unwatched DEF Watched
<1>2. \A kind, c : BisectMark(kind, c) => files.bisect # None /\ begun' = begun
  BY Zenon DEF BisectMark
<1>3. BisectReset => files.bisect # None /\ Ends("aborted")
  BY Zenon DEF BisectReset
<1> QED BY <1>0, <1>1, <1>2, <1>3, OthersUnwatched DEF Bisecting

-----------------------------------------------------------------------------
(***************************************************************************)
(* Rebases.                                                                *)
(***************************************************************************)
\* The commits to pick, the last one first.
LEMMA PendingIs ==
    ASSUME NEW S, NEW q \in Seq(S)
    PROVE  [i \in DOMAIN q |-> q[Len(q) + 1 - i]] = [i \in 1..Len(q) |-> q[Len(q) + 1 - i]]
           /\ Len(q) \in Nat
BY LenProperties

LEMMA PendingRest ==
    ASSUME NEW C, NEW s \in Seq(C), NEW q, NEW n \in Nat, s = [i \in 1..n |-> q[n + 1 - i]]
    PROVE  /\ s = <<>> <=> n = 0
           /\ s # <<>> => Head(s) = q[n] /\ Tail(s) = [i \in 1..(n - 1) |-> q[(n - 1) + 1 - i]]
<1>1. Len(s) \in Nat /\ DOMAIN s = 1..Len(s) /\ DOMAIN s = 1..n
  BY LenProperties
<1>2. Len(s) = n
  BY <1>1
<1>3. s = <<>> <=> n = 0
  BY <1>2, EmptySeq
<1>4. ASSUME s # <<>> PROVE Head(s) = q[n] /\ Tail(s) = [i \in 1..(n - 1) |-> q[(n - 1) + 1 - i]]
  <2>1. n >= 1 /\ Head(s) = s[1] /\ Tail(s) \in Seq(C) /\ Len(Tail(s)) = n - 1
        /\ \A i \in 1..(n - 1) : Tail(s)[i] = s[i + 1]
    BY <1>2, <1>3, <1>4, HeadTailProperties
  <2>2. Head(s) = q[n]
    BY <2>1
  <2>3. \A i \in 1..(n - 1) : Tail(s)[i] = q[(n - 1) + 1 - i]
    BY <2>1
  <2>4. Tail(s) = [i \in 1..(n - 1) |-> Tail(s)[i]]
    <3> DEFINE d == Tail(s)
    <3>1. d \in Seq(C) /\ Len(d) = n - 1
      BY <2>1
    <3> HIDE DEF d
    <3>2. d \in [1..(n - 1) -> C]
      BY <3>1, LenProperties
    <3>3. d = [i \in 1..(n - 1) |-> d[i]]
      BY <3>2
    <3> QED BY <3>3 DEF d
  <2> QED BY <2>2, <2>3, <2>4
<1> QED BY <1>3, <1>4

LEMMA RebaseWhole == ASSUME TypeInv, NEW onto \in Tips, Rebase(onto) PROVE WholeInv'
<1>1. HeadSha \in Commits /\ onto \in Commits /\ HeadSha # None /\ Ready /\ files.head \in Branches
  BY Facts DEF Rebase, Tips
<1> DEFINE path(base) == FirstParents(log, HeadSha, base)
           state(base) == [branch   |-> files.head,
                           original |-> HeadSha,
                           onto     |-> onto,
                           pending  |-> [i \in DOMAIN path(base) |-> path(base)[Len(path(base)) + 1 - i]],
                           current  |-> None]
           moved == ReplaceTracked(TreeAt(onto)) \o SetBranch(files.head, onto)
<1>2. PICK base \in MergeBases(log, HeadSha, onto) :
          /\ \/ Run("rebase", moved, "end", <<>>)
             \/ /\ base # HeadSha /\ OnFirstParents(log, HeadSha, base)
                /\ Run("rebase", StateFirst(Put("rebase", state(base)), moved), "replay", <<>>)
          /\ Begins("rebase", base, onto)
  BY Zenon DEF Rebase
<1>3. base \in Commits \cup {None}
  BY <1>1, BasesAreCommits, RecordedIsDated DEF TypeInv, Commits
<1>4. /\ files.mergeHead = None /\ files.cherry = None /\ files.rebase = None /\ files.bisect = None
  BY <1>1, CalmIsNone DEF Ready, Calm
<1>5. begun'.op = "rebase" /\ begun'.how = "open" /\ begun'.tip = HeadSha /\ begun'.theirs = onto
      /\ begun'.base = base /\ begun'.touched = {}
  BY <1>2, BeginsWatched
<1> DEFINE At(c, t, r) == Spot(files.head, c, t, None, r)
           s == files.index.staged
           x == TreeAt(onto)
<1>6. files \in At(HeadSha, s, None)
  BY <1>4, HereIs DEF Here
<1>7. \A r : Moves(At(HeadSha, s, r), moved, At(onto, x, r))
  <2> SUFFICES ASSUME NEW r PROVE Moves(At(HeadSha, s, r), moved, At(onto, x, r))
    OBVIOUS
  <2>1. Moves(At(HeadSha, s, r), ReplaceTracked(x), At(HeadSha, x, r))
    BY <1>1, TreesTyped, ReplaceMoves
  <2>2. Moves(At(HeadSha, x, r), SetBranch(files.head, onto), At(onto, x, r))
    BY <1>1, MoveHeadMoves DEF Commits, MoveHead, Onward
  <2> HIDE DEF At, x
  <2> QED BY <2>1, <2>2, MovesBoth DEF x
<1> HIDE DEF moved
<1>8. ASSUME NEW todo, NEW then, Run("rebase", todo, then, <<>>)
      PROVE  files' = files /\ log' = log /\ job'.todo = todo /\ job'.then = then
  BY <1>8, NothingAdded DEF Run
<1>9. CASE Run("rebase", moved, "end", <<>>)
  <2>1. ASSUME NEW u \in At(onto, x, None) PROVE EndsWell(log', begun', u, job'.then)
    BY <1>5, <1>8, <1>9, RebaseOver DEF Spot
  <2> HIDE DEF At
  <2> QED BY <1>6, <1>7, <1>8, <1>9, <2>1, WholeMoves
<1>10. CASE /\ base # HeadSha /\ OnFirstParents(log, HeadSha, base)
            /\ Run("rebase", StateFirst(Put("rebase", state(base)), moved), "replay", <<>>)
  <2> DEFINE q == path(base)
             y == state(base)
             todo == Put("rebase", y) \o moved
  <2>1. Line(log, HeadSha, base, q)
    <3>1. HeadSha \in 1..Len(log) /\ base \in 1..Len(log) \cup {None} /\ base # HeadSha /\ Recorded(log)
      BY <1>1, <1>3, <1>10 DEF Commits, TypeInv
    <3> QED BY ONLY <1>10, <3>1, FirstParentsIsLine
  <2>2. q \in Seq(Commits)
    BY <2>1 DEF Line, Commits
  <2> HIDE DEF path
  <2>3. y \in Rebases(Nat)
    <3>1. [i \in DOMAIN q |-> q[Len(q) + 1 - i]] \in Seq(Commits)
      BY <2>2, Turned
    <3>2. y \in Rebases(Commits) /\ Commits \subseteq Nat
      BY <1>1, <3>1 DEF Rebases, Commits
    <3> HIDE DEF y
    <3> QED BY <3>2, MoreRebases
  <2>4. Len(q) \in Nat /\ y.current = None /\ y.pending = [i \in 1..Len(q) |-> q[Len(q) + 1 - i]]
    BY <2>2, PendingIs
  <2>5. y # None
    BY <2>3, NoneIsNoState
  <2>6. files' = files /\ log' = log /\ job'.todo = todo /\ job'.then = "replay"
    BY <1>8, <1>10 DEF StateFirst
  <2> HIDE DEF state, q
  <2>7. Moves(At(HeadSha, s, None), Put("rebase", y), At(HeadSha, s, y))
    BY <2>3, SpotPuts
  <2>8. \A p \in Paths \ begun'.touched : Right(log', begun', q, Len(q), p, x[p])
    BY <2>4, <1>5, <2>6 DEF TreeIn, TreeAt, Last, Right
  <2>9. ASSUME NEW u \in At(onto, x, y) PROVE EndsWell(log', begun', u, job'.then)
    <3> DEFINE e == begun'
               h == log'
               then == job'.then
    <3>1. /\ e.op = "rebase" /\ e.how = "open" /\ Len(q) \in 0..Len(q) /\ Line(h, e.tip, e.base, q)
          /\ then = "replay" /\ x = TreeIn(h, onto)
      BY <1>5, <2>1, <2>4, <2>6 DEF TreeIn, TreeAt
    <3>2. \A p \in Paths \ e.touched : Right(h, e, q, Len(q), p, x[p])
      BY <2>8
    <3>3. u \in Spot(files.head, onto, x, None, y)
      OBVIOUS
    <3> HIDE DEF x, y, At, e, h, then
    <3>4. EndsWell(h, e, u, then)
      BY <1>1, <2>4, <2>5, <3>1, <3>2, <3>3, RebaseAlong DEF y
    <3> QED BY <3>4 DEF e, h, then
  <2> HIDE DEF At, y
  <2>10. Moves(At(HeadSha, s, None), todo, At(onto, x, y))
    BY <1>7, <2>7, MovesBoth
  <2> HIDE DEF todo
  <2> QED BY <1>6, <2>6, <2>9, <2>10, WholeMoves
<1> QED BY <1>2, <1>9, <1>10

LEMMA RebaseAbortWhole == ASSUME TypeInv, Standing, WholeInv, RebaseAbort PROVE WholeInv'
<1> DEFINE s == files.rebase
           t == TreeAt(s.original)
           moved == SetBranch(s.branch, s.original)
           headed == Put("head", s.branch)
           clear == Clear("rebase", Index(t))
           todo == ReplaceTracked(t) \o moved \o headed \o clear \o ClearConflicts
           e == [begun EXCEPT !.how = "aborted"]
<1>1. job = Idle /\ files.rebase # None /\ Ends("aborted") /\ Run("rebase_abort", todo, "end", <<>>)
  BY DEF RebaseAbort, MayStart
<1>2. files' = files /\ job'.todo = todo /\ job'.then = "end" /\ job.todo = <<>>
  BY <1>1 DEF Run, Idle
<1>3. CASE begun = None
  BY <1>1, <1>3, Unwatched DEF Ends, Watched
<1>4. CASE begun # None
  <2>1. begun' = e
    BY <1>1, <1>4 DEF Ends
  <2>2. e.op = begun.op /\ e.how = "aborted" /\ (Watched(e) => Watched(begun))
    BY <1>4, HowIs
  <2> HIDE DEF e
  <2>3. CASE ~Watched(e)
    BY <2>1, <2>3, Unwatched
  <2>4. CASE Watched(e)
    <3>1. begun.op = "rebase" /\ files.mergeHead = None /\ files \in Here
      BY <1>1, <1>2, <2>2, <2>4, WholeRest
    <3>2. s \in Rebases(Commits) /\ s.original \in Commits /\ s.branch \in Branches
      BY <1>1, RebaseTyped DEF Rebases
    <3>3. t \in Tree /\ Index(t) \in Indexes
      BY <3>2, TreesTyped, IndexIs
    <3> DEFINE X == Frame(None, s)
               Y == Frame(None, None)
    <3>4. files \in X
      BY <3>1 DEF Here, Spot
    <3>5. /\ ReplaceTracked(t) \in Seq(Quiet) /\ ClearConflicts \in Seq(Quiet)
          /\ \A i \in Indexes : Put("index", i) \in Seq(Quiet)
      BY <3>3, WorkingWrites, Within DEF Working, Quiet, StateFiles
    <3>6. moved \in Seq(Quiet) /\ headed \in Seq(Quiet)
      <4> DEFINE b == [files.branch EXCEPT ![s.branch] = s.original]
      <4>1. b \in [Branches -> Nat \cup {None}]
        BY Facts, <3>2 DEF Commits
      <4>2. moved = Put("branch", b)
        BY DEF SetBranch
      <4> HIDE DEF b
      <4>3. [at |-> "branch", to |-> b] \in Quiet /\ [at |-> "head", to |-> s.branch] \in Quiet
        BY <3>2, <4>1, WritesAre DEF Quiet, StateFiles
      <4> QED BY <4>2, <4>3, PutIn
    <3>7. Moves(X, ReplaceTracked(t), X) /\ Moves(X, moved, X) /\ Moves(X, headed, X) /\ Moves(Y, ClearConflicts, Y)
      BY <3>5, <3>6, FrameKeeps
    <3>8. Moves(X, clear, Y)
      <4> DEFINE i == Index(t)
                 j == [i EXCEPT !.unmerged = {}]
                 d == IF i.unmerged = {} THEN <<>> ELSE Put("index", j)
      <4>1. clear = Put("rebase", None) \o d
        BY <1>1 DEF Clear
      <4>2. d \in Seq(Quiet)
        <5>1. j \in Indexes
          BY <3>3, IndexTyped
        <5>2. <<>> \in Seq(Quiet)
          BY EmptySeq
        <5> HIDE DEF j
        <5> QED BY <3>5, <5>1, <5>2
      <4> HIDE DEF d
      <4>3. Moves(X, Put("rebase", None), Y)
        <5> DEFINE w == [at |-> "rebase", to |-> None]
        <5>1. w \in Writes(Nat) /\ w.at = "rebase" /\ w.to = None
          BY WritesAre
        <5> HIDE DEF w
        <5>2. ASSUME NEW v \in X PROVE Written(v, w) \in Y
          BY <5>1, SpotWrite DEF Spot
        <5> HIDE DEF X, Y
        <5> QED BY <5>1, <5>2, MovesPut DEF w
      <4>4. Moves(Y, d, Y)
        BY <4>2, FrameKeeps
      <4> HIDE DEF X, Y
      <4> QED BY <4>1, <4>3, <4>4, MovesBoth
    <3>9. ASSUME NEW u \in Y PROVE EndsWell(log', begun', u, job'.then)
      BY <1>2, <2>1, <2>2, <3>1, RebaseOver
    <3> HIDE DEF X, Y, t, moved, headed, clear
    <3>10. Moves(X, ReplaceTracked(t) \o moved, X)
      BY <3>7, MovesBoth
    <3>11. Moves(X, (ReplaceTracked(t) \o moved) \o headed, X)
      BY <3>7, <3>10, MovesBoth
    <3>12. Moves(X, ((ReplaceTracked(t) \o moved) \o headed) \o clear, Y)
      BY <3>8, <3>11, MovesBoth
    <3>13. Moves(X, todo, Y)
      BY <3>7, <3>12, MovesBoth
    <3> HIDE DEF todo
    <3> QED BY <1>2, <3>4, <3>9, <3>13, WholeMoves
  <2> QED BY <2>3, <2>4
<1> QED BY <1>3, <1>4

\* Where a rebase is along its line does not change when commits are made.
LEMMA AlongGrows ==
    ASSUME TypeInv, NEW new \in Seq(Entry), NEW e, e.theirs \in Commits \cup {None}, e.base \in Commits \cup {None},
           NEW q, NEW n \in 0..Len(q), Line(log, e.tip, e.base, q),
           NEW t, \A p \in Paths \ e.touched : Right(log, e, q, n, p, t[p])
    PROVE  /\ Line(log \o new, e.tip, e.base, q)
           /\ \A p \in Paths \ e.touched : Right(log \o new, e, q, n, p, t[p])
<1> DEFINE k == log \o new
<1>1. Len(log) \in Nat /\ Len(k) \in Nat /\ Len(k) >= Len(log) /\ \A c \in 1..Len(log) : k[c] = log[c]
  BY MoreLog, Facts DEF Commits
<1> HIDE DEF k
<1>2. Line(k, e.tip, e.base, q)
  BY <1>1, LineStays
<1>3. ASSUME NEW p \in Paths \ e.touched PROVE Right(k, e, q, n, p, t[p])
  BY <1>1, RightStays DEF Line, Commits
<1> QED BY <1>2, <1>3 DEF k

\* The commit of a rebase: what it is of is what was staged.
LEMMA RebaseRecords ==
    ASSUME TypeInv, NEW t \in Tree, NEW source \in Commits
    PROVE  LET r == Record(t, HeadAndMergeHead, log[source].msg)
           IN  <<r>> \in Seq(Entry) /\ TreeIn(log \o <<r>>, NewCommit) = t
<1> DEFINE r == Record(t, HeadAndMergeHead, log[source].msg)
<1>1. HeadAndMergeHead \in Seq(Commits) /\ log[source].msg \in Nat \cup {None}
  BY ParentsTyped, TreesTyped
<1>2. r \in Entry /\ r.parents = HeadAndMergeHead /\ r.tree = t
  BY <1>1, RecordTyped DEF Record
<1> HIDE DEF r
<1>3. r.parents \in Seq(1..Len(log)) /\ Recorded(log)
  BY <1>1, <1>2 DEF Commits, TypeInv
<1>4. (log \o <<r>>)[NewCommit] = r
  BY <1>2, <1>3, OneMore DEF NewCommit
<1>5. NewCommit # None
  BY MoreFacts, NamesAreNoCommits
<1>6. <<r>> \in Seq(Entry)
  BY <1>2, OneWrite
<1> QED BY <1>2, <1>4, <1>5, <1>6 DEF TreeIn, r

LEMMA RebaseContinueWhole == ASSUME TypeInv, Standing, WholeInv, RebaseContinue PROVE WholeInv'
<1> DEFINE x == [files.rebase EXCEPT !.current = None]
           t == files.index.staged
           r == Record(t, HeadAndMergeHead, log[files.rebase.current].msg)
           go == Put("rebase", x)
           whole == Committed(files.index) \o go
<1>1. /\ job = Idle /\ files.rebase # None /\ begun' = begun
      /\ \/ files.rebase.current = None /\ Run("rebase_continue", <<>>, "replay", <<>>)
         \/ Matches(files.index) /\ Run("rebase_continue", go, "replay", <<>>)
         \/ Run("rebase_continue", whole, "replay", <<r>>)
  BY DEF RebaseContinue, MayStart, NotStopped
<1>2. job.todo = <<>> /\ job.then = "end"
  BY <1>1 DEF Idle
<1>3. ASSUME NEW todo, NEW new, Run("rebase_continue", todo, "replay", new)
      PROVE  files' = files /\ log' = log \o new /\ job'.todo = todo /\ job'.then = "replay"
  BY <1>3 DEF Run
<1>4. CASE ~Watched(begun)
  BY <1>1, <1>4, Unwatched
<1>5. CASE Watched(begun)
  <2>1. /\ begun.op = "rebase" /\ begun.how = "open" /\ files.mergeHead = None /\ files.cherry = None
        /\ files \in Here /\ Along(log, begun, files, "end")
        /\ begun.theirs \in Commits \cup {None} /\ begun.base \in Commits \cup {None}
    BY <1>1, <1>2, <1>5, WholeRest
  <2>2. files.head \in Branches /\ files.rebase.current # None
    BY <2>1, AlongIs
  <2>3. PICK q : \E n \in 0..Len(q) :
            /\ Line(log, begun.tip, begun.base, q)
            /\ files.rebase.pending = [i \in 1..n |-> q[n + 1 - i]]
            /\ \A p \in Paths \ begun.touched : Right(log, begun, q, n, p, t[p])
    BY <2>1, AlongIs
  <2>4. PICK n \in 0..Len(q) :
            /\ Line(log, begun.tip, begun.base, q)
            /\ files.rebase.pending = [i \in 1..n |-> q[n + 1 - i]]
            /\ \A p \in Paths \ begun.touched : Right(log, begun, q, n, p, t[p])
    BY <2>3
  <2>5. /\ x \in Rebases(Nat) /\ x # None /\ x.current = None /\ x.pending = files.rebase.pending
    <3>1. files.rebase \in Rebases(Nat)
      BY <1>1, Facts, MoreRebases DEF Commits
    <3>2. x \in Rebases(Nat) /\ x.current = None /\ x.pending = files.rebase.pending
      BY <3>1 DEF Rebases
    <3> HIDE DEF x
    <3> QED BY <3>2, NoneIsNoState
  <2> DEFINE At(c, y) == Spot(files.head, c, t, None, y)
  <2>6. files \in At(HeadSha, files.rebase)
    BY <2>1 DEF Here
  <2> HIDE DEF x
  <2>7. \A c : Moves(At(c, files.rebase), go, At(c, x))
    BY <2>5, SpotPuts
  <2>8. ASSUME NEW h, NEW c, t = TreeIn(h, c), Line(h, begun.tip, begun.base, q),
               \A p \in Paths \ begun.touched : Right(h, begun, q, n, p, t[p]),
               NEW u \in At(c, x)
        PROVE  EndsWell(h, begun, u, "replay")
    <3> DEFINE then == "replay"
    <3>1. (then = "end" => x.current # None) /\ (then = "replay" => x.current = None /\ t = TreeIn(h, c))
      BY <2>5, <2>8
    <3>2. x.pending = [i \in 1..n |-> q[n + 1 - i]] /\ x # None /\ u \in Spot(files.head, c, t, None, x)
      BY <2>4, <2>5
    <3> HIDE DEF then, t
    <3>3. EndsWell(h, begun, u, then)
      BY ONLY <2>1, <2>2, <2>8, <3>1, <3>2, n \in 0..Len(q), RebaseAlong
    <3> QED BY <3>3 DEF then
  <2>9. CASE Matches(files.index) /\ Run("rebase_continue", go, "replay", <<>>)
    <3>1. files' = files /\ log' = log /\ job'.todo = go /\ job'.then = "replay"
      BY <1>3, <2>9, NothingAdded
    <3>2. t = TreeIn(log, HeadSha)
      BY <2>9 DEF Matches, TreeIn, TreeAt
    <3>3. \A u \in At(HeadSha, x) : EndsWell(log', begun', u, job'.then)
      BY <1>1, <2>4, <2>8, <3>1, <3>2
    <3> HIDE DEF At, go
    <3> QED BY <2>6, <2>7, <3>1, <3>3, WholeMoves
  <2>10. CASE Run("rebase_continue", whole, "replay", <<r>>)
    <3>1. files' = files /\ log' = log \o <<r>> /\ job'.todo = whole /\ job'.then = "replay"
      BY <1>3, <2>10
    <3>2. <<r>> \in Seq(Entry) /\ TreeIn(log', NewCommit) = t
      <4>1. files.rebase.current \in Commits /\ t \in Tree
        BY <1>1, <2>2, RebaseTyped, Facts DEF Rebases
      <4> HIDE DEF t
      <4> QED BY <3>1, <4>1, RebaseRecords
    <3> HIDE DEF r
    <3>3. /\ Line(log', begun.tip, begun.base, q)
          /\ \A p \in Paths \ begun.touched : Right(log', begun, q, n, p, t[p])
      BY <2>1, <2>4, <3>1, <3>2, AlongGrows
    <3>4. \A u \in At(NewCommit, x) : EndsWell(log', begun', u, job'.then)
      BY <1>1, <2>8, <3>1, <3>2, <3>3
    <3>5. Moves(At(HeadSha, files.rebase), Committed(files.index), At(NewCommit, files.rebase))
      BY <2>2, Facts, <2>1, CommittedMoves DEF Onward
    <3> HIDE DEF At, go
    <3>6. Moves(At(HeadSha, files.rebase), whole, At(NewCommit, x))
      BY <2>7, <3>5, MovesBoth
    <3> HIDE DEF whole
    <3> QED BY <2>6, <3>1, <3>4, <3>6, WholeMoves
  <2> QED BY <1>1, <2>2, <2>9, <2>10
<1> QED BY <1>4, <1>5

LEMMA RebasingWhole == ASSUME TypeInv, Standing, WholeInv, Rebasing PROVE WholeInv'
<1>1. RebaseSkip => begun' = None
  BY Zenon DEF RebaseSkip, Unrelated
<1> QED BY <1>1, Unwatched, RebaseWhole, RebaseContinueWhole, RebaseAbortWhole DEF Rebasing, Watched

-----------------------------------------------------------------------------
(***************************************************************************)
(* One round of the replay, and its end.                                   *)
(***************************************************************************)
\* The parent of the commit to pick is what the commits before it have led to.
LEMMA ParentIsLast ==
    ASSUME TypeInv, NEW c, NEW base, NEW q, NEW n \in 1..Len(q), Line(log, c, base, q)
    PROVE  /\ q[n] \in Commits /\ Len(q) \in Nat
           /\ ParentTree(q[n]) = Last(log, base, q, n)
           /\ TreeAt(q[n]) = log[q[n]].tree
<1>1. q \in Seq(Commits) /\ Len(q) \in Nat
  BY LenProperties DEF Line, Commits
<1>2. \A i \in 1..Len(q) : q[i] \in Commits /\ q[i] # None
  BY <1>1, ElementOfSeq, Facts
<1>3. ParentTree(q[n]) = Last(log, base, q, n)
  <2>1. CASE n < Len(q)
    <3>1. n \in 1..(Len(q) - 1) /\ n + 1 \in 1..Len(q)
      BY <1>1, <2>1
    <3>2. log[q[n]].parents # <<>> /\ log[q[n]].parents[1] = q[n + 1]
      BY <3>1 DEF Line
    <3>3. ParentTree(q[n]) = TreeAt(q[n + 1]) /\ q[n + 1] # None
      BY <1>2, <3>1, <3>2 DEF ParentTree
    <3> QED BY <2>1, <3>3 DEF Last, TreeAt
  <2>2. CASE ~(n < Len(q))
    BY <1>1, <2>2 DEF Line, ParentTree, TreeIn, TreeAt, Last
  <2> QED BY <2>1, <2>2
<1> QED BY <1>1, <1>2, <1>3 DEF TreeAt

\* The writes of a round: to a conflict, or on.
LEMMA RoundMoves ==
    ASSUME TypeInv, files.head \in Branches, files.mergeHead = None, files.cherry = None,
           NEW r \in Outcomes, NEW picking \in Rebases(Nat), NEW done \in Rebases(Nat), NEW t
    PROVE  LET At(c, s, y) == Spot(files.head, c, s, None, y)
               start == Put("rebase", picking)
               picked == Put("rebase", done)
               old == files.rebase
           IN  /\ Moves(At(HeadSha, t, old), start \o Conflicted(r), At(HeadSha, WithStages(r).staged, picking))
               /\ Moves(At(HeadSha, t, old), start \o (Applied(r) \o picked), At(HeadSha, r.index.staged, done))
               /\ Moves(At(HeadSha, t, old), start \o (Applied(r) \o Committed(r.index) \o picked),
                        At(NewCommit, r.index.staged, done))
<1> DEFINE At(c, s, y) == Spot(files.head, c, s, None, y)
           start == Put("rebase", picking)
           picked == Put("rebase", done)
           i == r.index.staged
           w == WithStages(r)
           X == At(HeadSha, t, files.rebase)
           P == At(HeadSha, t, picking)
           A == At(HeadSha, i, picking)
           C == At(HeadSha, w.staged, picking)
           D == At(HeadSha, i, done)
           N == At(NewCommit, i, picking)
           E == At(NewCommit, i, done)
<1>1. r.index \in Indexes /\ r.clashes \in SUBSET Paths /\ w \in Indexes
  BY IndexTyped DEF Outcomes
<1>2. Moves(X, start, P) /\ Moves(A, picked, D) /\ Moves(N, picked, E)
  BY SpotPuts
<1>3. Moves(P, Applied(r), A)
  BY AppliedMoves
<1>4. Moves(A, Put("conflicts", r.clashes), A)
  BY <1>1, SpotWrites
<1>5. Moves(A, Put("index", w), C)
  <2> HIDE DEF w
  <2> QED BY <1>1, SpotPuts
<1>6. Moves(A, Committed(r.index), N)
  BY <1>1, CommittedMoves DEF Onward
<1>7. Conflicted(r) = (Applied(r) \o Put("conflicts", r.clashes)) \o Put("index", w)
  BY DEF Conflicted
<1> DEFINE a == Applied(r)
           k == Put("conflicts", r.clashes)
           v == Put("index", w)
           m == Committed(r.index)
<1> HIDE DEF X, P, A, C, D, N, E, start, picked, a, k, v, m
<1>8. Moves(P, a \o k, A) /\ Moves(P, a \o picked, D) /\ Moves(P, a \o m, N)
  BY <1>2, <1>3, <1>4, <1>6, MovesBoth DEF a, k, m
<1>9. Moves(P, (a \o k) \o v, C) /\ Moves(P, (a \o m) \o picked, E)
  BY <1>2, <1>5, <1>8, MovesBoth DEF v
<1>10. /\ Moves(X, start \o ((a \o k) \o v), C) /\ Moves(X, start \o (a \o picked), D)
       /\ Moves(X, start \o ((a \o m) \o picked), E)
  BY <1>2, <1>8, <1>9, MovesBoth
<1> QED BY <1>7, <1>10 DEF X, C, D, E, start, picked, a, k, v, m

LEMMA ReplayWhole == ASSUME TypeInv, Standing, WholeInv, Replay PROVE WholeInv'
<1> DEFINE source == Head(files.rebase.pending)
           picking == [files.rebase EXCEPT !.pending = Rest(@), !.current = source]
           done == [picking EXCEPT !.current = None]
           picked == Put("rebase", done)
           start == Put("rebase", picking)
           r == ThreeWay(ParentTree(source), TreeAt(source))
           d == Record(r.index.staged, HeadAndMergeHead, log[source].msg)
           Then(todo, then, new) == /\ job' = [job EXCEPT !.todo = todo, !.then = then]
                                    /\ log' = log \o new
<1>1. /\ job.then = "replay" /\ job.todo = <<>> /\ files.rebase.pending # <<>>
      /\ files' = files /\ begun' = begun
      /\ \/ Then(start \o Conflicted(r), "end", <<>>)
         \/ Matches(r.index) /\ r.clashes = {} /\ Then(start \o (Applied(r) \o picked), "replay", <<>>)
         \/ r.clashes = {} /\ Then(start \o (Applied(r) \o Committed(r.index) \o picked), "replay", <<d>>)
  BY Zenon DEF Replay
<1> HIDE DEF Then
<1>2. files.rebase # None
  <2> HIDE DEF source, picking, done, picked, start, r, d
  <2>1. ~ \E i \in DOMAIN job.todo : job.todo[i].at = "rebase"
    BY <1>1
  <2> QED BY <1>1, <2>1 DEF TypeInv
<1>3. ASSUME NEW todo, NEW then, NEW new, Then(todo, then, new)
      PROVE  job'.todo = todo /\ job'.then = then /\ log' = log \o new
  BY <1>3 DEF TypeInv, Then
<1>4. CASE ~Watched(begun)
  BY <1>1, <1>4, Unwatched
<1>5. CASE Watched(begun)
  <2>1. /\ begun.op = "rebase" /\ begun.how = "open" /\ files.mergeHead = None /\ files.cherry = None
        /\ files \in Here /\ Along(log, begun, files, "replay")
        /\ begun.theirs \in Commits \cup {None} /\ begun.base \in Commits \cup {None}
    BY <1>1, <1>2, <1>5, WholeRest
  <2> DEFINE t == files.index.staged
  <2>2. files.head \in Branches /\ t = TreeAt(HeadSha)
    BY <2>1, AlongIs, TipIsHead DEF TreeIn, TreeAt
  <2>3. PICK q : \E n \in 0..Len(q) :
            /\ Line(log, begun.tip, begun.base, q)
            /\ files.rebase.pending = [i \in 1..n |-> q[n + 1 - i]]
            /\ \A p \in Paths \ begun.touched : Right(log, begun, q, n, p, t[p])
    BY <2>1, AlongIs
  <2>4. PICK n \in 0..Len(q) :
            /\ Line(log, begun.tip, begun.base, q)
            /\ files.rebase.pending = [i \in 1..n |-> q[n + 1 - i]]
            /\ \A p \in Paths \ begun.touched : Right(log, begun, q, n, p, t[p])
    BY <2>3
  <2> DEFINE m == n - 1
  <2>5. n # 0 /\ source = q[n] /\ Tail(files.rebase.pending) = [i \in 1..m |-> q[m + 1 - i]]
    BY <1>2, RebaseTyped, <1>1, <2>4, PendingRest
  <2>6. n \in 1..Len(q) /\ m \in 0..Len(q)
    <3>1. Len(q) \in Nat
      BY <2>4, LenProperties DEF Line
    <3> QED BY <2>5, <3>1
  <2>7. /\ source \in Commits /\ Len(q) \in Nat /\ ParentTree(source) = Last(log, begun.base, q, n)
        /\ TreeAt(source) = log[q[n]].tree
    <3>1. /\ q[n] \in Commits /\ Len(q) \in Nat /\ ParentTree(q[n]) = Last(log, begun.base, q, n)
          /\ TreeAt(q[n]) = log[q[n]].tree
      <4>1. Line(log, begun.tip, begun.base, q) /\ n \in 1..Len(q)
        BY <2>4, <2>6
      <4> QED BY ONLY TypeInv, <4>1, ParentIsLast
    <3> HIDE DEF source
    <3> QED BY <2>5, <3>1
  <2>8. /\ picking \in Rebases(Nat) /\ picking # None /\ picking.current = source
        /\ picking.pending = [i \in 1..m |-> q[m + 1 - i]]
        /\ done \in Rebases(Nat) /\ done # None /\ done.current = None
        /\ done.pending = [i \in 1..m |-> q[m + 1 - i]]
    <3>1. files.rebase \in Rebases(Commits) /\ Tail(files.rebase.pending) \in Seq(Commits)
      BY <1>2, RebaseTyped, <1>1, HeadTailProperties
    <3> HIDE DEF source
    <3>2. picking \in Rebases(Commits) /\ picking.current = source /\ picking.pending = Tail(files.rebase.pending)
      BY <2>7, <3>1 DEF Rebases, Rest
    <3> HIDE DEF picking
    <3>3. done \in Rebases(Commits) /\ done.current = None /\ done.pending = picking.pending
      BY <3>2 DEF Rebases
    <3> HIDE DEF done
    <3>4. picking \in Rebases(Nat) /\ done \in Rebases(Nat)
      BY <3>2, <3>3, MoreRebases DEF Commits
    <3> QED BY <2>5, <3>2, <3>3, <3>4, NoneIsNoState
  <2>9. r \in Outcomes
    BY <2>7, TreesTyped, ThreeWayTyped
  <2>10. r.clashes = Clashes(ParentTree(source), t, TreeAt(source))
         /\ r.index.staged = Merged(ParentTree(source), t, TreeAt(source), t)
    <3>1. r.index = Index(Merged(ParentTree(source), t, TreeAt(source), t))
      BY <2>2 DEF ThreeWay
    <3> DEFINE x == Merged(ParentTree(source), t, TreeAt(source), t)
    <3> HIDE DEF x
    <3>2. Index(x).staged = x
      BY Facts DEF Index, Indexes
    <3>3. r.clashes = Clashes(ParentTree(source), t, TreeAt(source))
      BY <2>2 DEF ThreeWay
    <3> QED BY <3>1, <3>2, <3>3 DEF x
  <2>11. \A p \in Paths \ begun.touched :
             IF p \in r.clashes THEN \A x : Right(log, begun, q, m, p, x)
             ELSE Right(log, begun, q, m, p, r.index.staged[p])
    <3> SUFFICES ASSUME NEW p \in Paths \ begun.touched
                 PROVE  IF p \in r.clashes THEN \A x : Right(log, begun, q, m, p, x)
                        ELSE Right(log, begun, q, m, p, r.index.staged[p])
      OBVIOUS
    <3> DEFINE parent == ParentTree(source)
               tree == TreeAt(source)
    <3>1. parent = Last(log, begun.base, q, n) /\ tree = log[q[n]].tree /\ p \in Paths
          /\ Right(log, begun, q, n, p, t[p]) /\ Line(log, begun.tip, begun.base, q)
      BY <2>4, <2>7
    <3> HIDE DEF parent, tree, t
    <3>2. IF p \in Clashes(parent, t, tree) THEN \A x : Right(log, begun, q, n - 1, p, x)
          ELSE Right(log, begun, q, n - 1, p, Merged(parent, t, tree, t)[p])
      BY ONLY <2>6, <2>7, <3>1, PickIsRight
    <3> HIDE DEF r
    <3> QED BY <2>10, <3>2 DEF parent, tree
  <2> DEFINE At(c, s, y) == Spot(files.head, c, s, None, y)
  <2>12. files \in At(HeadSha, t, files.rebase)
    BY <2>1 DEF Here
  <2> HIDE DEF r, picking, done, source, m
  <2>13. ASSUME NEW h, NEW c, NEW s, NEW y, y # None, y.pending = [i \in 1..m |-> q[m + 1 - i]],
                NEW then, then = "end" => y.current # None,
                then = "replay" => y.current = None /\ s = TreeIn(h, c),
                Line(h, begun.tip, begun.base, q),
                \A p \in Paths \ begun.touched : Right(h, begun, q, m, p, s[p]),
                NEW u \in At(c, s, y)
         PROVE  EndsWell(h, begun, u, then)
    BY ONLY <2>1, <2>2, <2>6, <2>13, RebaseAlong DEF At
  <2>14. /\ Moves(At(HeadSha, t, files.rebase), start \o Conflicted(r), At(HeadSha, WithStages(r).staged, picking))
         /\ Moves(At(HeadSha, t, files.rebase), start \o (Applied(r) \o picked), At(HeadSha, r.index.staged, done))
         /\ Moves(At(HeadSha, t, files.rebase), start \o (Applied(r) \o Committed(r.index) \o picked),
                  At(NewCommit, r.index.staged, done))
    BY <2>1, <2>2, <2>8, <2>9, RoundMoves
  <2> HIDE DEF At
  <2>15. CASE Then(start \o Conflicted(r), "end", <<>>)
    <3>1. job'.todo = start \o Conflicted(r) /\ job'.then = "end" /\ log' = log
      BY <1>3, <2>15, NothingAdded
    <3> DEFINE s == WithStages(r).staged
    <3>2. \A p \in Paths \ begun.touched : Right(log, begun, q, m, p, s[p])
      <4>1. \A p \in Paths : s[p] = IF p \in r.clashes THEN Gone ELSE r.index.staged[p]
        BY DEF WithStages
      <4> HIDE DEF s
      <4> QED BY <2>11, <4>1
    <3>3. picking.current # None
      BY <2>7, <2>8, Facts
    <3> HIDE DEF s
    <3>4. \A u \in At(HeadSha, s, picking) : EndsWell(log', begun', u, job'.then)
      BY <1>1, <2>4, <2>8, <2>13, <3>1, <3>2, <3>3
    <3>5. Moves(At(HeadSha, t, files.rebase), job'.todo, At(HeadSha, s, picking))
      BY <2>14, <3>1 DEF s
    <3> QED BY <1>1, <2>12, <3>4, <3>5, WholeMoves
  <2>16. ASSUME r.clashes = {}
         PROVE  \A p \in Paths \ begun.touched : Right(log, begun, q, m, p, r.index.staged[p])
    BY <2>11, <2>16
  <2>17. CASE Matches(r.index) /\ r.clashes = {} /\ Then(start \o (Applied(r) \o picked), "replay", <<>>)
    <3>1. job'.todo = start \o (Applied(r) \o picked) /\ job'.then = "replay" /\ log' = log
      BY <1>3, <2>17, NothingAdded
    <3>2. r.index.staged = TreeIn(log, HeadSha)
      BY <2>17 DEF Matches, TreeIn, TreeAt
    <3>3. \A u \in At(HeadSha, r.index.staged, done) : EndsWell(log', begun', u, job'.then)
      BY <1>1, <2>4, <2>8, <2>13, <2>16, <2>17, <3>1, <3>2
    <3>4. Moves(At(HeadSha, t, files.rebase), job'.todo, At(HeadSha, r.index.staged, done))
      BY <2>14, <3>1
    <3> QED BY <1>1, <2>12, <3>3, <3>4, WholeMoves
  <2>18. CASE r.clashes = {} /\ Then(start \o (Applied(r) \o Committed(r.index) \o picked), "replay", <<d>>)
    <3>1. /\ job'.todo = start \o (Applied(r) \o Committed(r.index) \o picked)
          /\ job'.then = "replay" /\ log' = log \o <<d>>
      BY <1>3, <2>18
    <3> DEFINE s == r.index.staged
    <3>2. <<d>> \in Seq(Entry) /\ TreeIn(log', NewCommit) = s
      <4>1. s \in Tree
        BY <2>9 DEF Outcomes, Indexes
      <4> HIDE DEF s
      <4> QED BY <2>7, <3>1, <4>1, RebaseRecords DEF s
    <3> HIDE DEF d
    <3>3. \A p \in Paths \ begun.touched : Right(log, begun, q, m, p, s[p])
      BY <2>16, <2>18
    <3> HIDE DEF s
    <3>4. Line(log', begun.tip, begun.base, q) /\ \A p \in Paths \ begun.touched : Right(log', begun, q, m, p, s[p])
      BY <2>1, <2>4, <2>6, <3>1, <3>2, <3>3, AlongGrows
    <3>5. \A u \in At(NewCommit, s, done) : EndsWell(log', begun', u, job'.then)
      BY <1>1, <2>8, <2>13, <3>1, <3>2, <3>4
    <3>6. Moves(At(HeadSha, t, files.rebase), job'.todo, At(NewCommit, s, done))
      BY <2>14, <3>1 DEF s
    <3> QED BY <1>1, <2>12, <3>5, <3>6, WholeMoves
  <2> QED BY <1>1, <2>15, <2>17, <2>18
<1> QED BY <1>4, <1>5

LEMMA EndReplayWhole == ASSUME TypeInv, Standing, WholeInv, EndReplay PROVE WholeInv'
<1> DEFINE clear == Clear("rebase", files.index)
           e == [begun EXCEPT !.how = "finished"]
<1>1. /\ job.then = "replay" /\ job.todo = <<>> /\ files.rebase.pending = <<>>
      /\ Ends("finished") /\ files' = files /\ log' = log
      /\ job' = [job EXCEPT !.todo = clear, !.then = "end"]
      /\ job = [cmd |-> job.cmd, todo |-> job.todo, then |-> job.then]
  BY DEF EndReplay, TypeInv
<1>2. files.rebase # None
  BY <1>1 DEF TypeInv
<1>3. job'.todo = clear /\ job'.then = "end"
  BY <1>1
<1>4. CASE begun = None
  BY <1>1, <1>4, Unwatched DEF Ends, Watched
<1>5. CASE begun # None
  <2>1. begun' = e
    BY <1>1, <1>5 DEF Ends
  <2>2. /\ e.op = begun.op /\ e.how = "finished" /\ e.tip = begun.tip /\ e.base = begun.base
        /\ e.theirs = begun.theirs /\ e.touched = begun.touched /\ (Watched(e) => Watched(begun))
    BY <1>5, HowIs
  <2> HIDE DEF e, clear
  <2>3. CASE ~Watched(e)
    BY <2>1, <2>3, Unwatched
  <2>4. CASE Watched(e)
    <3>1. begun.op = "rebase" /\ files.mergeHead = None /\ files \in Here /\ Along(log, begun, files, "replay")
      BY <1>1, <1>2, <2>2, <2>4, WholeRest
    <3> DEFINE t == files.index.staged
               X == Spot(files.head, HeadSha, t, None, files.rebase)
               Y == Spot(files.head, HeadSha, t, None, None)
    <3>2. t = TreeIn(log, HeadSha)
      BY <3>1, AlongIs, TipIsHead
    <3>3. PICK q : \E n \in 0..Len(q) :
              /\ Line(log, begun.tip, begun.base, q)
              /\ files.rebase.pending = [i \in 1..n |-> q[n + 1 - i]]
              /\ \A p \in Paths \ begun.touched : Right(log, begun, q, n, p, t[p])
      BY <3>1, AlongIs
    <3>4. PICK n \in 0..Len(q) :
              /\ Line(log, begun.tip, begun.base, q)
              /\ files.rebase.pending = [i \in 1..n |-> q[n + 1 - i]]
              /\ \A p \in Paths \ begun.touched : Right(log, begun, q, n, p, t[p])
      BY <3>3
    <3>5. n = 0
      BY <1>2, RebaseTyped, <1>1, <3>4, PendingRest
    <3>6. \A p \in Paths \ e.touched : Right(log, e, q, 0, p, t[p])
      BY <2>2, <3>4, <3>5 DEF Right
    <3>7. ASSUME NEW u \in Y PROVE EndsWell(log', begun', u, job'.then)
      <4>1. /\ u \in FilesOver(Nat) /\ u.mergeHead = None /\ u.cherry = None /\ u.bisect = None /\ u.rebase = None
            /\ Tip(u) = HeadSha
        BY DEF Spot, Frame
      <4>2. Line(log, e.tip, e.base, q)
            /\ \A p \in Paths \ e.touched : Right(log, e, q, 0, p, TreeIn(log, Tip(u))[p])
        BY <2>2, <3>2, <3>4, <3>6, <4>1
      <4>3. Taken(log, e, u)
        BY <4>2 DEF Taken
      <4>4. EndsWell(log, e, u, "end")
        BY <2>2, <3>1, <4>1, <4>3 DEF EndsWell, RebaseEnds
      <4> QED BY <1>1, <1>3, <2>1, <4>4
    <3>8. Moves(X, clear, Y)
      <4> DEFINE j == [files.index EXCEPT !.unmerged = {}]
                 d == IF files.index.unmerged = {} THEN <<>> ELSE Put("index", j)
      <4>1. clear = Put("rebase", None) \o d
        BY <1>2 DEF Clear, clear
      <4>2. d \in Seq(Light(t))
        <5>1. Put("index", j) \in Seq(Light(t))
          BY Facts, LightIndex, PutIn
        <5>2. <<>> \in Seq(Light(t))
          BY EmptySeq
        <5> HIDE DEF j, t
        <5> QED BY <5>1, <5>2
      <4> HIDE DEF d, t
      <4>3. Moves(X, Put("rebase", None), Y)
        BY SpotPuts
      <4>4. Moves(Y, d, Y)
        BY <4>2, SpotKeeps
      <4> HIDE DEF X, Y
      <4> QED BY <4>1, <4>3, <4>4, MovesBoth
    <3>9. files \in X
      BY <3>1 DEF Here
    <3> HIDE DEF X, Y
    <3> QED BY <1>1, <1>3, <3>7, <3>8, <3>9, WholeMoves
  <2> QED BY <2>3, <2>4
<1> QED BY <1>4, <1>5

LEMMA NextWhole == ASSUME TypeInv, Standing, WholeInv, [Next]_vars PROVE WholeInv'
<1>1. CASE UNCHANGED vars
  BY <1>1 DEF vars, WholeInv
<1>2. CASE Next
  BY <1>2, StepWhole, ReplayWhole, EndReplayWhole, InterruptedWhole, EditingWhole, CommittingWhole, MergingWhole,
     PickingWhole, RebasingWhole, BisectingWhole, MovingWhole, StashingWhole DEF Next, Work
<1> QED BY <1>1, <1>2

\* A merge that stopped at conflicts and was concluded, and a rebase that came to its end, did what
\* they set out to, whatever was edited, staged, resolved or committed on the way, if no command
\* was cut short: the merge has both histories, and of the paths that the user left to it the
\* rebase kept what upstream or the branch alone had changed.
\* (Repository.merge, commit, rebase, _continue_rebase)
THEOREM ConclusionsWhole == Spec => []ConclusionsAreWhole
<1> DEFINE Inv == TypeInv /\ Standing /\ WholeInv
<1>1. Init => Inv
  BY InitTyped DEF Init, Standing, BegunTyped, AbortInv, Live, Counts, WholeInv, Watched
<1>2. Inv /\ [Next]_vars => Inv'
  BY NextTyped, NextStands, NextWhole
<1>3. Inv => ConclusionsAreWhole
  <2> SUFFICES ASSUME TypeInv, Standing, WholeInv, job = Idle, begun # None,
                      begun.how = "finished", begun.cut = "never"
               PROVE  /\ begun.op = "merge" => {begun.tip, begun.theirs} \subseteq History(log, {HeadSha})
                      /\ begun.op = "rebase" => BothSidesTaken
    BY Zenon DEF ConclusionsAreWhole
  <2>1. job.todo = <<>>
    BY DEF Idle
  <2>2. begun.op \in {"merge", "rebase"} => EndsWell(log, begun, files, job.then)
    BY <2>1, WholeNow DEF Watched
  <2>3. begun.op = "merge" => {begun.tip, begun.theirs} \subseteq History(log, {HeadSha})
    BY <2>2, TipIsHead DEF EndsWell, MergeEnds
  <2>4. ASSUME begun.op = "rebase" PROVE BothSidesTaken
    <3>1. Taken(log, begun, files)
      BY <2>2, <2>4 DEF EndsWell, RebaseEnds
    <3>2. PICK q : /\ Line(log, begun.tip, begun.base, q)
                   /\ \A p \in Paths \ begun.touched : Right(log, begun, q, 0, p, TreeIn(log, HeadSha)[p])
      BY <3>1, TipIsHead DEF Taken
    <3>3. FirstParents(log, begun.tip, begun.base) = q
      BY <3>2, LineIs DEF TypeInv
    <3>4. /\ Len(q) \in Nat /\ DOMAIN q = 1..Len(q) /\ Len(q) >= 1 /\ q[1] = begun.tip
          /\ \A i \in 1..Len(q) : q[i] \in Commits
      BY <3>2, LenProperties, ElementOfSeq DEF Line, Commits
    <3>5. \A i \in 1..Len(q) : TreeAt(q[i]) = log[q[i]].tree
      BY <3>4, Facts DEF TreeAt
    <3>6. Last(log, begun.base, q, 0) = TreeAt(begun.tip)
      BY <3>4, <3>5 DEF Last
    <3>7. \A c : TreeIn(log, c) = TreeAt(c)
      BY DEF TreeIn, TreeAt
    <3> SUFFICES ASSUME NEW p \in Paths \ begun.touched
                 PROVE  /\ TreeAt(begun.theirs)[p] = TreeAt(begun.base)[p] => TreeAt(HeadSha)[p] = TreeAt(begun.tip)[p]
                        /\ (\A i \in DOMAIN q : TreeAt(q[i])[p] = TreeAt(begun.base)[p]) =>
                               TreeAt(HeadSha)[p] = TreeAt(begun.theirs)[p]
      BY <3>3 DEF BothSidesTaken
    <3>8. Right(log, begun, q, 0, p, TreeAt(HeadSha)[p])
      BY <3>2, <3>7
    <3>9. /\ TreeAt(begun.theirs)[p] = TreeAt(begun.base)[p] => TreeAt(HeadSha)[p] = Last(log, begun.base, q, 0)[p]
          /\ (\A i \in 1..Len(q) : log[q[i]].tree[p] = TreeAt(begun.base)[p]) =>
                 TreeAt(HeadSha)[p] = TreeAt(begun.theirs)[p]
      BY <3>7, <3>8 DEF Right
    <3> QED BY <3>4, <3>5, <3>6, <3>9
  <2> QED BY <2>3, <2>4
<1> QED BY <1>1, <1>2, <1>3, PTL DEF Spec
=============================================================================

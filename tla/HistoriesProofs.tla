--------------------------- MODULE HistoriesProofs ---------------------------
(***************************************************************************)
(* What merge-base computes in each of its modes, and what the rev-list    *)
(* functions list - orders, filters, pages, children, boundaries, objects  *)
(* - for every history, shallow or not. Recursive functions are shown to   *)
(* be defined by one lemma (RecursionDefines), and reasoned about through  *)
(* the least commit or place at which they are not as claimed.             *)
(***************************************************************************)
EXTENDS Histories, WellFoundedInduction, FiniteSetTheorems, TLAPS

-----------------------------------------------------------------------------
(***************************************************************************)
(* Numbers.                                                                *)
(***************************************************************************)
\* A nonempty set of naturals has a least member.
LEMMA LeastOf == ASSUME NEW T \in SUBSET Nat, T # {} PROVE \E n \in T : \A m \in T : n <= m
<1> DEFINE R == OpToRel(<, Nat)
<1>1. IsWellFoundedOn(R, Nat)
  BY NatLessThanWellFounded
<1> HIDE DEF R
<1>2. \E x \in T : \A y \in T : ~(<<y, x>> \in R)
  BY <1>1, WFMin
<1>3. \A x, y \in Nat : <<y, x>> \in R <=> y < x
  BY DEF R, OpToRel
<1>4. PICK x \in T : \A y \in T : ~(<<y, x>> \in R)
  BY <1>2
<1>5. ASSUME NEW y \in T PROVE x <= y
  <2>1. x \in Nat /\ y \in Nat
    OBVIOUS
  <2>2. ~(y < x)
    BY <1>3, <1>4, <2>1
  <2> QED BY <2>1, <2>2
<1> QED BY <1>5

\* A nonempty set of naturals under a bound has a greatest member.
LEMMA GreatestOf ==
    ASSUME NEW T \in SUBSET Nat, T # {}, NEW b \in Nat, \A n \in T : n <= b
    PROVE  \E n \in T : \A m \in T : n >= m
<1> DEFINE U == {n \in 0..b : b - n \in T}
<1>1. U \in SUBSET Nat
  OBVIOUS
<1>2. \A n \in T : b - n \in U
  OBVIOUS
<1>3. U # {}
  BY <1>2
<1>4. PICK n \in U : \A m \in U : n <= m
  <2> HIDE DEF U
  <2> QED BY <1>1, <1>3, LeastOf
<1>5. b - n \in T
  BY <1>4
<1>6. ASSUME NEW m \in T PROVE b - n >= m
  BY <1>1, <1>2, <1>4
<1> QED BY <1>5, <1>6

\* The operators Least and Greatest pick these members.
LEMMA LeastIs ==
    ASSUME NEW T \in SUBSET Nat, T # {}
    PROVE  Least(T) \in T /\ \A m \in T : Least(T) <= m
BY LeastOf DEF Least

LEMMA GreatestIs ==
    ASSUME NEW T \in SUBSET Nat, T # {}, NEW b \in Nat, \A n \in T : n <= b
    PROVE  Greatest(T) \in T /\ \A m \in T : Greatest(T) >= m
BY GreatestOf DEF Greatest

\* The numbers that finitely many members of a sequence are taken to have a bound.
LEMMA BoundOf ==
    ASSUME NEW n \in Nat, NEW v \in [1..n -> Nat]
    PROVE  \E b \in Nat : \A i \in 1..n : v[i] <= b
<1> DEFINE T == {m \in 0..n : \E b \in Nat : \A i \in 1..m : v[i] <= b}
           W == (0..n) \ T
<1>1. 0 \in T
  OBVIOUS
<1>2. ASSUME NEW m \in 0..(n - 1), m \in T PROVE m + 1 \in T
  <2>1. PICK b \in Nat : \A i \in 1..m : v[i] <= b
    BY <1>2
  <2> DEFINE d == IF v[m + 1] <= b THEN b ELSE v[m + 1]
  <2>2. m + 1 \in 1..n /\ v[m + 1] \in Nat
    OBVIOUS
  <2>3. d \in Nat /\ b <= d /\ v[m + 1] <= d
    BY <2>2
  <2> HIDE DEF d
  <2>4. ASSUME NEW i \in 1..(m + 1) PROVE v[i] <= d
    <3>1. CASE i = m + 1
      BY <3>1, <2>3
    <3>2. CASE i # m + 1
      BY <3>2, <2>1, <2>3
    <3> QED BY <3>1, <3>2
  <2>5. m + 1 \in 0..n
    OBVIOUS
  <2> QED BY <2>3, <2>4, <2>5
<1>3. SUFFICES ASSUME W # {} PROVE FALSE
  <2>1. n \in 0..n
    OBVIOUS
  <2> QED BY <2>1
<1>4. W \in SUBSET Nat
  OBVIOUS
<1>5. PICK m \in W : \A k \in W : m <= k
  <2> HIDE DEF W
  <2> QED BY <1>3, <1>4, LeastOf
<1> HIDE DEF T
<1>6. m # 0 /\ m - 1 \in 0..(n - 1) /\ m - 1 \in T
  BY <1>1, <1>5
<1>7. (m - 1) + 1 \in T
  BY <1>2, <1>6
<1> QED BY <1>5, <1>7

-----------------------------------------------------------------------------
(***************************************************************************)
(* Recursion over the numbers from lo to hi: the value at a number is made *)
(* from the values at the numbers below it. h[n][f] is that value.         *)
(***************************************************************************)
Recursion(lo, hi, X, h) ==
    /\ h \in [lo..hi -> [[lo..hi -> X] -> X]]
    /\ \A n \in lo..hi : \A f, g \in [lo..hi -> X] :
           (\A m \in lo..hi : m < n => f[m] = g[m]) => h[n][f] = h[n][g]

Satisfies(f, lo, hi, X, h) == f \in [lo..hi -> X] /\ \A n \in lo..hi : f[n] = h[n][f]

\* Such a function exists.
LEMMA RecursionDefines ==
    ASSUME NEW lo \in Nat, NEW hi \in Nat, NEW X, NEW a \in X, NEW h, Recursion(lo, hi, X, h)
    PROVE  \E f : Satisfies(f, lo, hi, X, h)
<1> DEFINE D == lo..hi
           Good(f, m) == f \in [D -> X] /\ \A n \in D : n < m => f[n] = h[n][f]
           T == {m \in 0..(hi + 1) : \E f : Good(f, m)}
           W == (0..(hi + 1)) \ T
<1>1. 0 \in T
  <2>1. Good([n \in D |-> a], 0)
    OBVIOUS
  <2>2. 0 \in 0..(hi + 1)
    OBVIOUS
  <2> HIDE DEF Good
  <2> QED BY <2>1, <2>2
<1>2. ASSUME NEW m \in 0..hi, m \in T PROVE m + 1 \in T
  <2>0. m + 1 \in 0..(hi + 1) /\ m \in Nat
    OBVIOUS
  <2>1. PICK f : Good(f, m)
    BY <1>2
  <2>2. CASE m \notin D
    <3>1. Good(f, m + 1)
      BY <2>2, <2>1
    <3> HIDE DEF Good
    <3> QED BY <2>0, <3>1
  <2>3. CASE m \in D
    <3> DEFINE v == h[m][f]
               g == [f EXCEPT ![m] = v]
    <3>1. f \in [D -> X] /\ v \in X
      BY <2>1, <2>3 DEF Recursion
    <3> HIDE DEF v
    <3>2. g \in [D -> X] /\ g[m] = v /\ \A n \in D : n # m => g[n] = f[n]
      BY <3>1, <2>3
    <3> HIDE DEF g
    <3>3. ASSUME NEW n \in D, n < m + 1 PROVE g[n] = h[n][g]
      <4>1. \A k \in D : k < n => f[k] = g[k]
        BY <3>2, <3>3
      <4>2. h[n][f] = h[n][g]
        BY <4>1, <3>1, <3>2 DEF Recursion
      <4>3. CASE n = m
        BY <4>2, <4>3, <3>2 DEF v
      <4>4. CASE n # m
        BY <4>4, <3>3, <4>2, <2>1, <3>2
      <4> QED BY <4>3, <4>4
    <3>4. Good(g, m + 1)
      BY <3>2, <3>3
    <3> HIDE DEF Good
    <3> QED BY <2>0, <3>4
  <2> QED BY <2>2, <2>3
<1>3. hi + 1 \in T
  <2> HIDE DEF T
  <2>1. SUFFICES ASSUME W # {} PROVE FALSE
    OBVIOUS
  <2>2. W \in SUBSET Nat
    OBVIOUS
  <2>3. PICK m \in W : \A k \in W : m <= k
    <3> HIDE DEF W
    <3> QED BY <2>1, <2>2, LeastOf
  <2>4. m # 0 /\ m - 1 \in 0..hi /\ m - 1 \in T
    BY <1>1, <2>3
  <2>5. (m - 1) + 1 \in T
    BY <1>2, <2>4
  <2> QED BY <2>3, <2>5
<1>4. PICK f : Good(f, hi + 1)
  BY <1>3
<1>5. Satisfies(f, lo, hi, X, h)
  BY <1>4 DEF Satisfies
<1> QED BY <1>5

-----------------------------------------------------------------------------
(***************************************************************************)
(* Histories: parents are made before their children.                      *)
(***************************************************************************)
HistoryOK ==
    /\ setting \in Settings
    /\ log \in Seq(Seq(Nat))
    /\ Len(log) <= setting.commits
    /\ \A c \in Commits : \A i \in DOMAIN log[c] : log[c][i] \in 1..(c - 1)

LEMMA CommitsAre == ASSUME HistoryOK PROVE Commits = 1..Len(log) /\ Len(log) \in Nat
BY DEF HistoryOK, Commits

\* The parents followed from a commit are commits below it.
LEMMA ParentsAreBelow ==
    ASSUME HistoryOK, NEW c \in Commits, NEW fp
    PROVE  /\ Visible(c) \in Seq(Nat) /\ Followed(c, fp) \in Seq(Nat)
           /\ ElementsOf(Followed(c, fp)) \subseteq ElementsOf(Visible(c))
           /\ \A p \in ElementsOf(Visible(c)) : p \in Commits /\ p < c
<1>1. c \in 1..Len(log) /\ Len(log) \in Nat /\ log[c] \in Seq(Nat)
  BY CommitsAre DEF HistoryOK
<1>2. \A i \in DOMAIN log[c] : log[c][i] \in 1..(c - 1)
  BY DEF HistoryOK
<1>3. Visible(c) \in Seq(Nat) /\ \A i \in DOMAIN Visible(c) : Visible(c)[i] \in 1..(c - 1)
  BY <1>1, <1>2 DEF Visible
<1>4. \A p \in ElementsOf(Visible(c)) : p \in Commits /\ p < c
  BY <1>1, <1>3, CommitsAre DEF ElementsOf
<1> HIDE DEF Visible
<1>5. FirstOf(Visible(c)) \in Seq(Nat) /\ ElementsOf(FirstOf(Visible(c))) \subseteq ElementsOf(Visible(c))
  <2>1. CASE Visible(c) = <<>>
    BY <2>1 DEF FirstOf
  <2>2. CASE Visible(c) # <<>>
    BY <2>2, <1>3 DEF FirstOf, ElementsOf
  <2> QED BY <2>1, <2>2
<1>6. Followed(c, fp) = FirstOf(Visible(c)) \/ Followed(c, fp) = Visible(c)
  BY DEF Followed
<1> QED BY <1>3, <1>4, <1>5, <1>6

-----------------------------------------------------------------------------
(***************************************************************************)
(* Walks.                                                                  *)
(***************************************************************************)
\* The function that Walk reads.
Walks(from, fp) ==
    from = [c \in Commits |-> {c} \cup UNION {from[p] : p \in ElementsOf(Followed(c, fp))}]

WalksFrom(fp) == CHOOSE from : Walks(from, fp)

LEMMA WalksDefined == ASSUME HistoryOK, NEW fp PROVE Walks(WalksFrom(fp), fp)
<1> DEFINE X == SUBSET Commits
           N == Len(log)
           Reach(c, f) == {c} \cup UNION {f[p] : p \in ElementsOf(Followed(c, fp))}
           h == [c \in 1..N |-> [f \in [1..N -> X] |-> Reach(c, f)]]
<1>0. Commits = 1..N /\ N \in Nat
  BY CommitsAre
<1>1. \A c \in Commits : \A p \in ElementsOf(Followed(c, fp)) : p \in Commits /\ p < c
  BY ParentsAreBelow
<1>2. ASSUME NEW c \in 1..N, NEW f \in [1..N -> X] PROVE Reach(c, f) \in X
  BY <1>0, <1>1
<1>3. ASSUME NEW c \in 1..N, NEW f \in [1..N -> X], NEW g \in [1..N -> X],
             \A m \in 1..N : m < c => f[m] = g[m]
      PROVE  Reach(c, f) = Reach(c, g)
  BY <1>0, <1>1, <1>3
<1> HIDE DEF Reach
<1>4. h \in [1..N -> [[1..N -> X] -> X]]
  BY <1>2
<1>5. \A c \in 1..N : \A f \in [1..N -> X] : h[c][f] = Reach(c, f)
  OBVIOUS
<1> HIDE DEF h, X
<1>6. Recursion(1, N, X, h)
  <2>1. ASSUME NEW c \in 1..N, NEW f \in [1..N -> X], NEW g \in [1..N -> X],
               \A m \in 1..N : m < c => f[m] = g[m]
        PROVE  h[c][f] = h[c][g]
    BY <1>3, <1>5, <2>1
  <2> QED BY <1>4, <2>1 DEF Recursion
<1>7. {} \in X
  BY DEF X
<1>8. PICK f : Satisfies(f, 1, N, X, h)
  BY <1>0, <1>6, <1>7, RecursionDefines
<1>9. f = [c \in Commits |-> Reach(c, f)]
  BY <1>0, <1>5, <1>8 DEF Satisfies
<1>10. Walks(f, fp)
  BY <1>9 DEF Walks, Reach
<1> QED BY <1>10 DEF WalksFrom

\* Everything below a commit.
LEMMA WalkIs ==
    ASSUME HistoryOK, NEW fp, NEW starts
    PROVE  Walk(starts, fp) = UNION {WalksFrom(fp)[c] : c \in starts}
BY DEF Walk, WalksFrom, Walks

LEMMA AncestorsRead == ASSUME HistoryOK, NEW c PROVE Ancestors(c) = WalksFrom(FALSE)[c]
<1>1. Ancestors(c) = UNION {WalksFrom(FALSE)[x] : x \in {c}}
  BY WalkIs DEF Ancestors
<1> DEFINE w == WalksFrom(FALSE)
<1> HIDE DEF w
<1>2. UNION {w[x] : x \in {c}} = w[c]
  OBVIOUS
<1> QED BY <1>1, <1>2 DEF w

LEMMA AncestorsAre ==
    ASSUME HistoryOK, NEW c \in Commits
    PROVE  Ancestors(c) = {c} \cup UNION {Ancestors(p) : p \in ElementsOf(Visible(c))}
<1>1. \A x : Ancestors(x) = WalksFrom(FALSE)[x]
  BY AncestorsRead
<1>2. Followed(c, FALSE) = Visible(c)
  BY DEF Followed
<1>3. WalksFrom(FALSE)[c] = {c} \cup UNION {WalksFrom(FALSE)[p] : p \in ElementsOf(Followed(c, FALSE))}
  BY WalksDefined DEF Walks
<1> QED BY <1>1, <1>2, <1>3

LEMMA ProperAncestorsAre ==
    ASSUME HistoryOK, NEW c \in Commits
    PROVE  ProperAncestors(c) = UNION {Ancestors(p) : p \in ElementsOf(Visible(c))}
<1>1. \A x : Ancestors(x) = WalksFrom(FALSE)[x]
  BY AncestorsRead
<1>2. ProperAncestors(c) = UNION {WalksFrom(FALSE)[p] : p \in ElementsOf(Visible(c))}
  BY WalkIs DEF ProperAncestors
<1> QED BY <1>1, <1>2

\* Descent is a partial order on the commits that their numbers extend.
LEMMA AncestorsBelow ==
    ASSUME HistoryOK, NEW c \in Commits
    PROVE  \A d \in Ancestors(c) : d \in Commits /\ d <= c
<1> DEFINE W == {x \in Commits : \E d \in Ancestors(x) : ~(d \in Commits /\ d <= x)}
<1>1. SUFFICES ASSUME W # {} PROVE FALSE
  OBVIOUS
<1>2. W \in SUBSET Nat /\ Commits \subseteq Nat
  BY CommitsAre
<1>3. PICK x \in W : \A y \in W : x <= y
  <2> HIDE DEF W
  <2> QED BY <1>1, <1>2, LeastOf
<1>4. PICK d \in Ancestors(x) : ~(d \in Commits /\ d <= x)
  BY <1>3
<1>5. d # x
  BY <1>2, <1>4
<1>6. PICK p \in ElementsOf(Visible(x)) : d \in Ancestors(p)
  BY <1>4, <1>5, AncestorsAre
<1>7. p \in Commits /\ p < x
  BY ParentsAreBelow
<1>8. p \notin W
  BY <1>2, <1>3, <1>7
<1>9. d \in Commits /\ d <= p
  BY <1>6, <1>7, <1>8
<1>10. d \in Nat /\ p \in Nat /\ x \in Nat
  BY <1>2, <1>7, <1>9
<1>11. d <= x
  BY <1>7, <1>9, <1>10
<1> QED BY <1>4, <1>9, <1>11

LEMMA AncestorOfItself == ASSUME HistoryOK, NEW c \in Commits PROVE c \in Ancestors(c)
BY AncestorsAre

LEMMA AncestorsDescend ==
    ASSUME HistoryOK, NEW c \in Commits, NEW d \in Ancestors(c)
    PROVE  Ancestors(d) \subseteq Ancestors(c)
<1> DEFINE W == {x \in Commits : \E y \in Ancestors(x) : ~(Ancestors(y) \subseteq Ancestors(x))}
<1>1. SUFFICES ASSUME W # {} PROVE FALSE
  OBVIOUS
<1>2. W \in SUBSET Nat /\ Commits \subseteq Nat
  BY CommitsAre
<1>3. PICK x \in W : \A y \in W : x <= y
  <2> HIDE DEF W
  <2> QED BY <1>1, <1>2, LeastOf
<1>4. PICK y \in Ancestors(x) : ~(Ancestors(y) \subseteq Ancestors(x))
  BY <1>3
<1>5. y # x
  BY <1>4
<1>6. PICK p \in ElementsOf(Visible(x)) : y \in Ancestors(p)
  BY <1>4, <1>5, AncestorsAre
<1>7. p \in Commits /\ p < x
  BY ParentsAreBelow
<1>8. p \notin W
  BY <1>2, <1>3, <1>7
<1>9. Ancestors(y) \subseteq Ancestors(p)
  BY <1>6, <1>7, <1>8
<1>10. Ancestors(p) \subseteq Ancestors(x)
  BY AncestorsAre
<1> QED BY <1>4, <1>9, <1>10

LEMMA ProperAncestorsBelow ==
    ASSUME HistoryOK, NEW c \in Commits
    PROVE  ProperAncestors(c) = Ancestors(c) \ {c}
<1>1. \A p \in ElementsOf(Visible(c)) : p \in Commits /\ p < c
  BY ParentsAreBelow
<1>2. \A d \in ProperAncestors(c) : d # c
  BY ProperAncestorsAre, <1>1, AncestorsBelow, CommitsAre
<1> QED BY <1>2, AncestorsAre, ProperAncestorsAre

-----------------------------------------------------------------------------
(***************************************************************************)
(* Distances.                                                              *)
(***************************************************************************)
\* The function that Distances reads: [commit -> pairs of an ancestor and the length of a way].
Measures(from) ==
    from = [c \in Commits |-> {<<c, 0>>} \cup {<<w[1], w[2] + 1>> : w \in UNION {from[p] : p \in ElementsOf(Visible(c))}}]

Measured == CHOOSE from : Measures(from)

LEMMA MeasuresDefined ==
    ASSUME HistoryOK
    PROVE  Measures(Measured) /\ \A c \in Commits : Measured[c] \subseteq Commits \X Nat
<1> DEFINE Y == Commits \X Nat
           X == SUBSET Y
           N == Len(log)
           Below(c, f) == UNION {f[p] : p \in ElementsOf(Visible(c))}
           Value(c, f) == {<<c, 0>>} \cup {<<w[1], w[2] + 1>> : w \in Below(c, f)}
           h == [c \in 1..N |-> [f \in [1..N -> X] |-> Value(c, f)]]
<1>0. Commits = 1..N /\ N \in Nat
  BY CommitsAre
<1>1. \A c \in Commits : \A p \in ElementsOf(Visible(c)) : p \in Commits /\ p < c
  BY ParentsAreBelow
<1>2. ASSUME NEW c \in 1..N, NEW f \in [1..N -> X] PROVE Value(c, f) \in X
  <2>1. Below(c, f) \subseteq Y
    <3> HIDE DEF Y
    <3> QED BY <1>0, <1>1
  <2> HIDE DEF Below
  <2>2. \A w \in Below(c, f) : <<w[1], w[2] + 1>> \in Y
    BY <2>1
  <2>3. <<c, 0>> \in Y
    BY <1>0
  <2> HIDE DEF Y
  <2> QED BY <2>2, <2>3
<1>3. ASSUME NEW c \in 1..N, NEW f \in [1..N -> X], NEW g \in [1..N -> X],
             \A m \in 1..N : m < c => f[m] = g[m]
      PROVE  Value(c, f) = Value(c, g)
  <2>1. \A p \in ElementsOf(Visible(c)) : f[p] = g[p]
    BY <1>0, <1>1, <1>3
  <2>2. Below(c, f) = Below(c, g)
    BY <2>1
  <2> HIDE DEF Below
  <2> QED BY <2>2
<1> HIDE DEF Value
<1>4. h \in [1..N -> [[1..N -> X] -> X]]
  <2> HIDE DEF X
  <2> QED BY <1>2
<1>5. \A c \in 1..N : \A f \in [1..N -> X] : h[c][f] = Value(c, f)
  OBVIOUS
<1>7. {} \in X
  OBVIOUS
<1> HIDE DEF h, X
<1>6. Recursion(1, N, X, h)
  <2>1. ASSUME NEW c \in 1..N, NEW f \in [1..N -> X], NEW g \in [1..N -> X],
               \A m \in 1..N : m < c => f[m] = g[m]
        PROVE  h[c][f] = h[c][g]
    BY <1>3, <1>5, <2>1
  <2> QED BY <1>4, <2>1 DEF Recursion
<1>8. PICK f : Satisfies(f, 1, N, X, h)
  BY <1>0, <1>6, <1>7, RecursionDefines
<1>9. f = [c \in Commits |-> Value(c, f)]
  BY <1>0, <1>5, <1>8 DEF Satisfies
<1>10. Measures(f)
  BY <1>9 DEF Measures, Value
<1>11. Measures(Measured)
  BY <1>10 DEF Measured
<1>12. ASSUME NEW c \in Commits PROVE Measured[c] \subseteq Y
  <2> DEFINE B == {x \in Commits : ~(Measured[x] \subseteq Y)}
  <2>1. SUFFICES ASSUME B # {} PROVE FALSE
    OBVIOUS
  <2>2. B \in SUBSET Nat /\ Commits \subseteq Nat
    BY <1>0
  <2>3. PICK x \in B : \A y \in B : x <= y
    <3> HIDE DEF B
    <3> QED BY <2>1, <2>2, LeastOf
  <2>4. \A p \in ElementsOf(Visible(x)) : Measured[p] \subseteq Y
    BY <1>1, <2>2, <2>3
  <2>5. Measured[x] = {<<x, 0>>} \cup {<<w[1], w[2] + 1>> : w \in Below(x, Measured)}
    BY <1>11 DEF Measures
  <2>6. Below(x, Measured) \subseteq Y
    <3> HIDE DEF Y
    <3> QED BY <2>4
  <2> HIDE DEF Below
  <2>7. \A w \in Below(x, Measured) : <<w[1], w[2] + 1>> \in Y
    BY <2>6
  <2>8. <<x, 0>> \in Y
    BY <1>0
  <2>9. ~(Measured[x] \subseteq Y)
    OBVIOUS
  <2> HIDE DEF Y, B
  <2> QED BY <2>5, <2>7, <2>8, <2>9
<1> QED BY <1>11, <1>12

\* What is reached is what lies below.
LEMMA MeasuredAre ==
    ASSUME HistoryOK, NEW c \in Commits
    PROVE  {w[1] : w \in Measured[c]} = Ancestors(c)
<1> DEFINE Reached(x) == {w[1] : w \in Measured[x]}
           B == {x \in Commits : Reached(x) # Ancestors(x)}
<1>1. SUFFICES ASSUME B # {} PROVE FALSE
  OBVIOUS
<1>2. B \in SUBSET Nat /\ Commits \subseteq Nat
  BY CommitsAre
<1>3. PICK x \in B : \A y \in B : x <= y
  <2> HIDE DEF B
  <2> QED BY <1>1, <1>2, LeastOf
<1>4. \A p \in ElementsOf(Visible(x)) : Reached(p) = Ancestors(p)
  <2> TAKE p \in ElementsOf(Visible(x))
  <2>1. p \in Commits /\ p < x
    BY ParentsAreBelow
  <2>2. p \notin B
    BY <1>2, <1>3, <2>1
  <2> HIDE DEF Reached
  <2> QED BY <2>1, <2>2
<1> DEFINE All == UNION {Measured[p] : p \in ElementsOf(Visible(x))}
<1>5. Measured[x] = {<<x, 0>>} \cup {<<w[1], w[2] + 1>> : w \in All}
  BY MeasuresDefined DEF Measures
<1>6. {w[1] : w \in All} = UNION {Reached(p) : p \in ElementsOf(Visible(x))}
  OBVIOUS
<1> HIDE DEF All
<1>7. Reached(x) = {x} \cup {w[1] : w \in All}
  <2> DEFINE L == {<<w[1], w[2] + 1>> : w \in All}
  <2>1. {v[1] : v \in L} = {w[1] : w \in All}
    <3>1. \A w \in All : <<w[1], w[2] + 1>>[1] = w[1]
      OBVIOUS
    <3> QED BY <3>1
  <2> DEFINE M == {<<x, 0>>}
  <2>2. Reached(x) = {v[1] : v \in M \cup L}
    BY <1>5
  <2>3. {v[1] : v \in M} = {x}
    <3>1. <<x, 0>>[1] = x
      OBVIOUS
    <3> QED BY <3>1
  <2> HIDE DEF Reached, L, M
  <2>4. {v[1] : v \in M \cup L} = {v[1] : v \in M} \cup {v[1] : v \in L}
    OBVIOUS
  <2> QED BY <2>1, <2>2, <2>3, <2>4
<1>8. Reached(x) = {x} \cup UNION {Ancestors(p) : p \in ElementsOf(Visible(x))}
  <2> HIDE DEF Reached
  <2> QED BY <1>4, <1>6, <1>7
<1>9. Reached(x) = Ancestors(x)
  <2> HIDE DEF Reached
  <2> QED BY <1>8, AncestorsAre
<1> QED BY <1>9

\* Distances says which commits lie below one, and how far.
LEMMA DistancesAre ==
    ASSUME HistoryOK, NEW c \in Commits
    PROVE  Distances(c) \in [Ancestors(c) -> Nat]
<1> DEFINE ways == Measured[c]
           Lengths(d) == {w[2] : w \in {v \in ways : v[1] = d}}
<1>1. Distances(c) = [d \in {w[1] : w \in ways} |-> Least(Lengths(d))]
  BY DEF Distances, Measured, Measures
<1>2. {w[1] : w \in ways} = Ancestors(c) /\ ways \subseteq Commits \X Nat
  BY MeasuredAre, MeasuresDefined
<1> HIDE DEF ways
<1>3. ASSUME NEW d \in Ancestors(c) PROVE Least(Lengths(d)) \in Nat
  <2>1. PICK w \in ways : w[1] = d
    BY <1>2
  <2>2. w[2] \in Lengths(d)
    BY <2>1
  <2>3. Lengths(d) \in SUBSET Nat
    BY <1>2
  <2> HIDE DEF Lengths
  <2> QED BY <2>2, <2>3, LeastIs
<1> HIDE DEF Lengths
<1> QED BY <1>1, <1>2, <1>3

LEMMA DistancesDomain ==
    ASSUME HistoryOK, NEW c \in Commits
    PROVE  DOMAIN Distances(c) = Ancestors(c)
BY DistancesAre

-----------------------------------------------------------------------------
(***************************************************************************)
(* Generations.                                                            *)
(***************************************************************************)
\* One more than the greatest of numbers given to the members of a sequence.
LEMMA GreatestOfMembers ==
    ASSUME NEW s \in Seq(Nat), NEW f, \A p \in ElementsOf(s) : f[p] \in Nat
    PROVE  LET T == {0} \cup {f[p] : p \in ElementsOf(s)}
           IN  Greatest(T) \in Nat /\ \A m \in T : Greatest(T) >= m
<1> DEFINE T == {0} \cup {f[p] : p \in ElementsOf(s)}
           n == Len(s)
           v == [i \in 1..n |-> f[s[i]]]
<1>1. n \in Nat /\ DOMAIN s = 1..n
  OBVIOUS
<1>2. v \in [1..n -> Nat]
  BY <1>1 DEF ElementsOf
<1>3. PICK b \in Nat : \A i \in 1..n : v[i] <= b
  <2> HIDE DEF v, n
  <2> QED BY <1>1, <1>2, BoundOf
<1>4. \A p \in ElementsOf(s) : f[p] \in Nat /\ f[p] <= b
  BY <1>1, <1>3 DEF ElementsOf
<1>5. T \in SUBSET Nat /\ 0 \in T /\ \A m \in T : m <= b
  BY <1>4
<1> HIDE DEF T
<1>6. Greatest(T) \in T /\ \A m \in T : Greatest(T) >= m
  BY <1>3, <1>5, GreatestIs
<1> QED BY <1>5, <1>6 DEF T

\* The function that Generation reads.
Ages(gen) == gen = [x \in Commits |-> 1 + Greatest({0} \cup {gen[p] : p \in ElementsOf(Visible(x))})]

Aged == CHOOSE gen : Ages(gen)

LEMMA AgesDefined == ASSUME HistoryOK PROVE Ages(Aged)
<1> DEFINE X == Nat
           N == Len(log)
           Value(c, f) == 1 + Greatest({0} \cup {f[p] : p \in ElementsOf(Visible(c))})
           h == [c \in 1..N |-> [f \in [1..N -> X] |-> Value(c, f)]]
<1>0. Commits = 1..N /\ N \in Nat
  BY CommitsAre
<1>1. \A c \in Commits : \A p \in ElementsOf(Visible(c)) : p \in Commits /\ p < c
  BY ParentsAreBelow
<1>2. ASSUME NEW c \in 1..N, NEW f \in [1..N -> X] PROVE Value(c, f) \in X
  <2>1. \A p \in ElementsOf(Visible(c)) : f[p] \in Nat
    BY <1>0, <1>1
  <2>2. Visible(c) \in Seq(Nat)
    BY <1>0, ParentsAreBelow
  <2>3. Greatest({0} \cup {f[p] : p \in ElementsOf(Visible(c))}) \in Nat
    BY <2>1, <2>2, GreatestOfMembers
  <2> QED BY <2>3
<1>3. ASSUME NEW c \in 1..N, NEW f \in [1..N -> X], NEW g \in [1..N -> X],
             \A m \in 1..N : m < c => f[m] = g[m]
      PROVE  Value(c, f) = Value(c, g)
  BY <1>0, <1>1, <1>3
<1> HIDE DEF Value
<1>4. h \in [1..N -> [[1..N -> X] -> X]]
  <2> HIDE DEF X
  <2> QED BY <1>2
<1>5. \A c \in 1..N : \A f \in [1..N -> X] : h[c][f] = Value(c, f)
  OBVIOUS
<1>7. 0 \in X
  OBVIOUS
<1> HIDE DEF h, X
<1>6. Recursion(1, N, X, h)
  <2>1. ASSUME NEW c \in 1..N, NEW f \in [1..N -> X], NEW g \in [1..N -> X],
               \A m \in 1..N : m < c => f[m] = g[m]
        PROVE  h[c][f] = h[c][g]
    BY <1>3, <1>5, <2>1
  <2> QED BY <1>4, <2>1 DEF Recursion
<1>8. PICK f : Satisfies(f, 1, N, X, h)
  BY <1>0, <1>6, <1>7, RecursionDefines
<1>9. f = [c \in Commits |-> Value(c, f)]
  BY <1>0, <1>5, <1>8 DEF Satisfies
<1>10. Ages(f)
  BY <1>9 DEF Ages, Value
<1> QED BY <1>10 DEF Aged

LEMMA GenerationRead == ASSUME HistoryOK, NEW c PROVE Generation(c) = Aged[c]
BY DEF Generation, Aged, Ages

\* A commit is of a later generation than its parents.
LEMMA GenerationIs ==
    ASSUME HistoryOK, NEW c \in Commits
    PROVE  Generation(c) \in Nat /\ \A p \in ElementsOf(Visible(c)) : Generation(p) < Generation(c)
<1> DEFINE Fine(x) == Aged[x] \in Nat /\ \A p \in ElementsOf(Visible(x)) : Aged[p] < Aged[x]
           B == {x \in Commits : ~Fine(x)}
<1>1. SUFFICES ASSUME B # {} PROVE FALSE
  BY GenerationRead
<1>2. B \in SUBSET Nat /\ Commits \subseteq Nat
  BY CommitsAre
<1>3. PICK x \in B : \A y \in B : x <= y
  <2> HIDE DEF B
  <2> QED BY <1>1, <1>2, LeastOf
<1>4. \A p \in ElementsOf(Visible(x)) : Aged[p] \in Nat
  BY ParentsAreBelow, <1>2, <1>3
<1> DEFINE T == {0} \cup {Aged[p] : p \in ElementsOf(Visible(x))}
<1>5. Visible(x) \in Seq(Nat)
  BY ParentsAreBelow
<1>6. Greatest(T) \in Nat /\ \A m \in T : Greatest(T) >= m
  BY <1>4, <1>5, GreatestOfMembers
<1>7. Aged[x] = 1 + Greatest(T)
  BY AgesDefined DEF Ages
<1>8. \A p \in ElementsOf(Visible(x)) : Aged[p] \in T
  OBVIOUS
<1> HIDE DEF T
<1>9. Fine(x)
  BY <1>4, <1>6, <1>7, <1>8
<1> QED BY <1>9

LEMMA GenerationFalls ==
    ASSUME HistoryOK, NEW c \in Commits, NEW d \in ProperAncestors(c)
    PROVE  Generation(d) < Generation(c)
<1> DEFINE B == {x \in Commits : \E y \in ProperAncestors(x) : ~(Generation(y) < Generation(x))}
<1>1. SUFFICES ASSUME B # {} PROVE FALSE
  OBVIOUS
<1>2. B \in SUBSET Nat /\ Commits \subseteq Nat
  BY CommitsAre
<1>3. PICK x \in B : \A y \in B : x <= y
  <2> HIDE DEF B
  <2> QED BY <1>1, <1>2, LeastOf
<1>4. PICK y \in ProperAncestors(x) : ~(Generation(y) < Generation(x))
  BY <1>3
<1>5. PICK p \in ElementsOf(Visible(x)) : y \in Ancestors(p)
  BY ProperAncestorsAre
<1>6. p \in Commits /\ p < x /\ y \in Commits
  BY <1>5, ParentsAreBelow, AncestorsBelow
<1>7. Generation(p) < Generation(x) /\ Generation(p) \in Nat /\ Generation(x) \in Nat /\ Generation(y) \in Nat
  BY <1>6, GenerationIs
<1>8. y = p \/ Generation(y) < Generation(p)
  BY <1>2, <1>3, <1>6, <1>5, ProperAncestorsBelow
<1> QED BY <1>4, <1>7, <1>8

-----------------------------------------------------------------------------
(***************************************************************************)
(* Sorting. below[x] is the set of the elements that come before x.        *)
(***************************************************************************)
Order(S, below) ==
    /\ IsFiniteSet(S)
    /\ below \in [S -> SUBSET S]
    /\ \A x \in S : x \notin below[x]
    /\ \A x, y \in S : y \in below[x] => below[y] \subseteq below[x]
    /\ \A x, y \in S : x # y => y \in below[x] \/ x \in below[y]

\* An element has more before it than each of those has.
LEMMA PlacesRise ==
    ASSUME NEW S, NEW below, Order(S, below), NEW x \in S, NEW y \in below[x]
    PROVE  /\ Cardinality(below[x]) \in Nat /\ Cardinality(below[y]) \in Nat
           /\ Cardinality(below[y]) < Cardinality(below[x])
BY FS_Subset, FS_CardinalityType DEF Order

\* Every place in a finite order is taken by one element.
LEMMA Places ==
    ASSUME NEW S, NEW below, Order(S, below)
    PROVE  /\ Cardinality(S) \in Nat
           /\ \A x \in S : Cardinality(below[x]) \in 0..(Cardinality(S) - 1)
           /\ \A x, y \in S : Cardinality(below[x]) = Cardinality(below[y]) => x = y
           /\ \A i \in 1..Cardinality(S) : \E x \in S : Cardinality(below[x]) = i - 1
<1> DEFINE n == Cardinality(S)
           place == [x \in S |-> Cardinality(below[x]) + 1]
<1>1. n \in Nat
  BY FS_CardinalityType DEF Order
<1>2. ASSUME NEW x \in S PROVE Cardinality(below[x]) \in 0..(n - 1)
  BY FS_Subset, FS_CardinalityType, <1>1 DEF Order
<1>3. ASSUME NEW x \in S, NEW y \in S, Cardinality(below[x]) = Cardinality(below[y]) PROVE x = y
  BY <1>2, <1>3, PlacesRise DEF Order
<1>4. place \in Injection(S, 1..n)
  <2>1. place \in [S -> 1..n]
    BY <1>1, <1>2
  <2>2. ASSUME NEW x \in S, NEW y \in S, place[x] = place[y] PROVE x = y
    BY <1>2, <2>2, <1>3
  <2> HIDE DEF place
  <2> QED BY <2>1, <2>2 DEF Injection, IsInjective
<1>5. IsFiniteSet(1..n) /\ Cardinality(1..n) = n
  BY <1>1, FS_Interval
<1>6. place \in Surjection(S, 1..n)
  <2> HIDE DEF place
  <2> QED BY <1>4, <1>5, FS_Injection
<1>7. ASSUME NEW i \in 1..n PROVE \E x \in S : Cardinality(below[x]) = i - 1
  <2>1. PICK x \in S : place[x] = i
    <3> HIDE DEF place
    <3> QED BY <1>6 DEF Surjection
  <2> QED BY <1>2, <2>1
<1> QED BY <1>1, <1>2, <1>3, <1>7

\* A list of the elements by their places holds each of them once, in order.
IsSorted(s, S, below) ==
    /\ s \in [1..Cardinality(S) -> S]
    /\ \A i \in 1..Cardinality(S) : Cardinality(below[s[i]]) = i - 1

LEMMA SortedIs ==
    ASSUME NEW S, NEW below, Order(S, below), NEW s, IsSorted(s, S, below)
    PROVE  /\ s \in Seq(S) /\ Len(s) = Cardinality(S) /\ Cardinality(S) \in Nat
           /\ ElementsOf(s) = S
           /\ \A i, j \in DOMAIN s : s[j] \in below[s[i]] => j < i
<1> DEFINE n == Cardinality(S)
<1>1. n \in Nat
  BY Places
<1>2. s \in [1..n -> S] /\ \A i \in 1..n : s[i] \in S /\ Cardinality(below[s[i]]) = i - 1
  BY DEF IsSorted
<1>3. DOMAIN s = 1..n
  BY <1>2
<1>4. s \in Seq(S) /\ Len(s) = n
  BY <1>1, <1>2
<1>5. ASSUME NEW x \in S PROVE x \in ElementsOf(s)
  <2>1. Cardinality(below[x]) \in 0..(n - 1)
    BY Places
  <2> DEFINE i == Cardinality(below[x]) + 1
  <2>2. i \in 1..n /\ i - 1 = Cardinality(below[x])
    BY <1>1, <2>1
  <2>3. s[i] \in S /\ Cardinality(below[s[i]]) = Cardinality(below[x])
    BY <1>2, <2>2
  <2>4. s[i] = x
    BY <2>3, Places
  <2> QED BY <1>3, <2>2, <2>4 DEF ElementsOf
<1>6. ElementsOf(s) = S
  BY <1>2, <1>3, <1>5 DEF ElementsOf
<1>7. ASSUME NEW i \in DOMAIN s, NEW j \in DOMAIN s, s[j] \in below[s[i]] PROVE j < i
  BY <1>3, <1>2, <1>7, PlacesRise
<1> QED BY <1>1, <1>4, <1>6, <1>7

-----------------------------------------------------------------------------
(***************************************************************************)
(* The two orders of candidates.                                           *)
(***************************************************************************)
LEMMA OidsAre ==
    ASSUME HistoryOK
    PROVE  /\ \A c \in Commits : setting.oid[c] \in Nat
           /\ \A c, d \in Commits : setting.oid[c] = setting.oid[d] => c = d
<1>1. Commits = 1..Len(log) /\ Len(log) \in Nat
  BY CommitsAre
<1>2. setting.commits \in Nat /\ setting.oid \in [1..setting.commits -> Nat] /\ Len(log) <= setting.commits
      /\ \A c, d \in 1..setting.commits : setting.oid[c] = setting.oid[d] => c = d
  BY OidsAreDistinct DEF HistoryOK
<1>3. \A c \in Commits : c \in 1..setting.commits
  BY <1>1, <1>2
<1> QED BY <1>2, <1>3

LEMMA CommitsFinite == ASSUME HistoryOK, NEW S \in SUBSET Commits PROVE IsFiniteSet(S)
<1>1. IsFiniteSet(1..Len(log))
  BY CommitsAre, FS_Interval
<1> QED BY <1>1, CommitsAre, FS_Subset

\* Candidates are gone through with the later generations first.
Before1(S) == [x \in S |-> {y \in S : NewestFirst(y, x)}]

LEMMA NewestFirstOrders == ASSUME HistoryOK, NEW S \in SUBSET Commits PROVE Order(S, Before1(S))
BY GenerationIs, OidsAre, CommitsFinite DEF NewestFirst, Before1, Order

LEMMA NewestFirstSorts ==
    ASSUME HistoryOK, NEW S \in SUBSET Commits
    PROVE  IsSorted(SortedBy(S, NewestFirst), S, Before1(S))
<1> DEFINE s == SortedBy(S, NewestFirst)
<1>1. s = [i \in 1..Cardinality(S) |-> CHOOSE x \in S : Cardinality({y \in S : NewestFirst(y, x)}) = i - 1]
  BY DEF SortedBy
<1>2. \A x \in S : Before1(S)[x] = {y \in S : NewestFirst(y, x)}
  BY DEF Before1
<1>3. ASSUME NEW i \in 1..Cardinality(S) PROVE s[i] \in S /\ Cardinality(Before1(S)[s[i]]) = i - 1
  <2>1. PICK x \in S : Cardinality(Before1(S)[x]) = i - 1
    BY NewestFirstOrders, Places
  <2>2. Cardinality({y \in S : NewestFirst(y, x)}) = i - 1
    BY <1>2, <2>1
  <2>3. s[i] = CHOOSE z \in S : Cardinality({y \in S : NewestFirst(y, z)}) = i - 1
    BY <1>1
  <2> HIDE DEF s
  <2>4. s[i] \in S /\ Cardinality({y \in S : NewestFirst(y, s[i])}) = i - 1
    BY <2>2, <2>3
  <2> QED BY <1>2, <2>4
<1>4. s \in [1..Cardinality(S) -> S]
  <2>1. s = [i \in 1..Cardinality(S) |-> s[i]]
    BY <1>1
  <2> HIDE DEF s
  <2> QED BY <1>3, <2>1
<1>5. IsSorted(s, S, Before1(S))
  <2> HIDE DEF s
  <2> QED BY <1>3, <1>4 DEF IsSorted
<1> QED BY <1>5

\* The function that SumOf reads.
Sums(sum, s) == sum = [i \in 0..Len(s) |-> IF i = 0 THEN 0 ELSE sum[i - 1] + s[i]]

LEMMA SumIsNat == ASSUME NEW s \in Seq(Nat) PROVE SumOf(s) \in Nat
<1> DEFINE N == Len(s)
           X == Nat
           Value(i, f) == IF i = 0 THEN 0 ELSE f[i - 1] + s[i]
           h == [i \in 0..N |-> [f \in [0..N -> X] |-> Value(i, f)]]
<1>0. N \in Nat /\ \A i \in 1..N : s[i] \in Nat
  OBVIOUS
<1>1. ASSUME NEW i \in 0..N, NEW f \in [0..N -> X] PROVE Value(i, f) \in X
  <2>1. CASE i = 0
    BY <2>1
  <2>2. CASE i # 0
    <3>1. i \in 1..N /\ i - 1 \in 0..N
      BY <2>2, <1>0
    <3>2. f[i - 1] \in Nat /\ s[i] \in Nat
      BY <3>1, <1>0
    <3> QED BY <2>2, <3>2
  <2> QED BY <2>1, <2>2
<1>2. ASSUME NEW i \in 0..N, NEW f \in [0..N -> X], NEW g \in [0..N -> X],
             \A m \in 0..N : m < i => f[m] = g[m]
      PROVE  Value(i, f) = Value(i, g)
  <2>1. CASE i = 0
    BY <2>1
  <2>2. CASE i # 0
    BY <2>2, <1>0, <1>2
  <2> QED BY <2>1, <2>2
<1> HIDE DEF Value
<1>4. h \in [0..N -> [[0..N -> X] -> X]]
  <2> HIDE DEF X
  <2> QED BY <1>1
<1>5. \A c \in 0..N : \A f \in [0..N -> X] : h[c][f] = Value(c, f)
  OBVIOUS
<1>7. 0 \in X
  OBVIOUS
<1> HIDE DEF h, X
<1>6. Recursion(0, N, X, h)
  <2>1. ASSUME NEW c \in 0..N, NEW f \in [0..N -> X], NEW g \in [0..N -> X],
               \A m \in 0..N : m < c => f[m] = g[m]
        PROVE  h[c][f] = h[c][g]
    BY <1>2, <1>5, <2>1
  <2> QED BY <1>4, <2>1 DEF Recursion
<1>8. PICK f : Satisfies(f, 0, N, X, h)
  BY <1>0, <1>6, <1>7, RecursionDefines
<1>9. f = [c \in 0..N |-> Value(c, f)] /\ f \in [0..N -> X]
  BY <1>5, <1>8 DEF Satisfies
<1>10. Sums(f, s)
  BY <1>9 DEF Sums, Value, N
<1> DEFINE sum == CHOOSE g : Sums(g, s)
<1>11. Sums(sum, s)
  BY <1>10
<1>12. SumOf(s) = sum[N]
  BY DEF SumOf, Sums, N
<1> HIDE DEF sum
<1> DEFINE T == {i \in 0..N : sum[i] \in Nat}
           W == (0..N) \ T
<1>13. \A i \in 0..N : sum[i] = IF i = 0 THEN 0 ELSE sum[i - 1] + s[i]
  BY <1>11 DEF Sums, N
<1>14. SUFFICES ASSUME W # {} PROVE FALSE
  <2>1. N \in 0..N
    BY <1>0
  <2> QED BY <2>1, <1>12
<1>15. W \in SUBSET Nat
  BY <1>0
<1>16. PICK i \in W : \A k \in W : i <= k
  <2> HIDE DEF W
  <2> QED BY <1>14, <1>15, LeastOf
<1>17. i # 0
  BY <1>13, <1>16
<1>18. i \in 1..N /\ i - 1 \in 0..N /\ i - 1 \notin W
  BY <1>0, <1>16, <1>17
<1>19. sum[i - 1] \in Nat /\ s[i] \in Nat
  BY <1>0, <1>18
<1>20. sum[i] \in Nat
  BY <1>13, <1>17, <1>18, <1>19
<1> QED BY <1>16, <1>20

\* maps gives every commit of best n numbers, n > 0.
Measurable(best, maps, n) ==
    /\ best \in SUBSET Commits
    /\ n \in Nat \ {0}
    /\ DOMAIN maps = 1..n
    /\ \A i \in 1..n : \A c \in best : maps[i][c] \in Nat

\* Ranking lists each of the best bases once.
LEMMA RankedIs ==
    ASSUME HistoryOK, NEW best, NEW maps, NEW n, Measurable(best, maps, n)
    PROVE  /\ Ranked(best, maps) \in Seq(best) /\ ElementsOf(Ranked(best, maps)) = best
           /\ Len(Ranked(best, maps)) = Cardinality(best)
<1> DEFINE far(c) == Greatest({maps[i][c] : i \in DOMAIN maps})
           sum(c) == SumOf([i \in DOMAIN maps |-> maps[i][c]])
           Nearer(a, b) == \/ far(a) < far(b)
                           \/ far(a) = far(b) /\ sum(a) < sum(b)
                           \/ far(a) = far(b) /\ sum(a) = sum(b) /\ setting.oid[a] < setting.oid[b]
           s == SortedBy(best, Nearer)
           below == [x \in best |-> {y \in best : Nearer(y, x)}]
<1>0. best \in SUBSET Commits /\ n \in Nat /\ 1 \in 1..n /\ DOMAIN maps = 1..n
      /\ \A i \in 1..n : \A c \in best : maps[i][c] \in Nat
  BY DEF Measurable
<1>1. \A c \in best : far(c) \in Nat
  <2> TAKE c \in best
  <2> DEFINE v == [i \in 1..n |-> maps[i][c]]
             V == {maps[i][c] : i \in 1..n}
  <2>1. v \in [1..n -> Nat]
    BY <1>0
  <2>2. PICK b \in Nat : \A i \in 1..n : v[i] <= b
    <3> HIDE DEF v
    <3> QED BY <1>0, <2>1, BoundOf
  <2>3. V \in SUBSET Nat /\ maps[1][c] \in V /\ \A m \in V : m <= b
    BY <1>0, <2>2
  <2> HIDE DEF V
  <2>4. Greatest(V) \in Nat
    BY <2>2, <2>3, GreatestIs
  <2> QED BY <1>0, <2>4 DEF V
<1>2. \A c \in best : sum(c) \in Nat
  BY <1>0, SumIsNat
<1>3. Ranked(best, maps) = s
  BY DEF Ranked
<1>4. s = [i \in 1..Cardinality(best) |-> CHOOSE x \in best : Cardinality({y \in best : Nearer(y, x)}) = i - 1]
  BY DEF SortedBy
<1> HIDE DEF far, sum
<1>5. Order(best, below)
  <2>1. \A c \in best : far(c) \in Nat /\ sum(c) \in Nat /\ setting.oid[c] \in Nat
    BY <1>0, <1>1, <1>2, OidsAre
  <2>2. \A c, d \in best : setting.oid[c] = setting.oid[d] => c = d
    BY <1>0, OidsAre
  <2>3. \A x \in best : ~Nearer(x, x)
    BY <2>1
  <2>4. \A x, y, z \in best : Nearer(z, y) /\ Nearer(y, x) => Nearer(z, x)
    BY <2>1
  <2>5. \A x, y \in best : x # y => Nearer(y, x) \/ Nearer(x, y)
    BY <2>1, <2>2
  <2>6. IsFiniteSet(best)
    BY <1>0, CommitsFinite
  <2>7. below \in [best -> SUBSET best] /\ \A x, y \in best : y \in below[x] <=> Nearer(y, x)
    OBVIOUS
  <2> HIDE DEF below, Nearer
  <2> QED BY <2>3, <2>4, <2>5, <2>6, <2>7 DEF Order
<1>6. \A x \in best : below[x] = {y \in best : Nearer(y, x)}
  OBVIOUS
<1> HIDE DEF below, Nearer
<1>7. ASSUME NEW i \in 1..Cardinality(best) PROVE s[i] \in best /\ Cardinality(below[s[i]]) = i - 1
  <2>1. PICK x \in best : Cardinality(below[x]) = i - 1
    BY <1>5, Places
  <2>2. Cardinality({y \in best : Nearer(y, x)}) = i - 1
    BY <1>6, <2>1
  <2>3. s[i] = CHOOSE z \in best : Cardinality({y \in best : Nearer(y, z)}) = i - 1
    BY <1>4
  <2> HIDE DEF s
  <2>4. s[i] \in best /\ Cardinality({y \in best : Nearer(y, s[i])}) = i - 1
    BY <2>2, <2>3
  <2> QED BY <1>6, <2>4
<1>8. s \in [1..Cardinality(best) -> best]
  <2>1. s = [i \in 1..Cardinality(best) |-> s[i]]
    BY <1>4
  <2> HIDE DEF s
  <2> QED BY <1>7, <2>1
<1> HIDE DEF s
<1>9. IsSorted(s, best, below)
  BY <1>7, <1>8 DEF IsSorted
<1> QED BY <1>3, <1>5, <1>9, SortedIs

-----------------------------------------------------------------------------
(***************************************************************************)
(* The search for best common ancestors.                                   *)
(***************************************************************************)
\* Every commit of a set lies below a maximal one.
LEMMA MaximalAbove ==
    ASSUME HistoryOK, NEW S \in SUBSET Commits, NEW c \in S
    PROVE  \E d \in Maximal(S) : c \in Ancestors(d)
<1> DEFINE A == {d \in S : c \in Ancestors(d)}
<1>1. A \in SUBSET Nat /\ Commits \subseteq Nat /\ \A d \in A : d <= Len(log)
  BY CommitsAre
<1>2. c \in A
  BY AncestorOfItself
<1>3. PICK d \in A : \A e \in A : d >= e
  <2> HIDE DEF A
  <2> QED BY <1>1, <1>2, CommitsAre, GreatestOf
<1>4. ASSUME NEW e \in S \ {d}, d \in Ancestors(e) PROVE FALSE
  BY <1>3, <1>4, AncestorsDescend, AncestorsBelow, <1>1
<1> QED BY <1>3, <1>4 DEF Maximal

\* The function that BestCommon reads.
Bests(best, order) ==
    best = [i \in 0..Len(order) |->
               IF i = 0 THEN {}
               ELSE IF order[i] \in UNION {ProperAncestors(c) : c \in best[i - 1]} THEN best[i - 1]
               ELSE best[i - 1] \cup {order[i]}]

BestOf(order) == CHOOSE best : Bests(best, order)

LEMMA BestsDefined ==
    ASSUME NEW X, NEW order \in Seq(X)
    PROVE  Bests(BestOf(order), order)
<1> DEFINE N == Len(order)
           Y == SUBSET X
           Value(i, f) == IF i = 0 THEN {}
                          ELSE IF order[i] \in UNION {ProperAncestors(c) : c \in f[i - 1]} THEN f[i - 1]
                          ELSE f[i - 1] \cup {order[i]}
           h == [i \in 0..N |-> [f \in [0..N -> Y] |-> Value(i, f)]]
<1>0. N \in Nat /\ \A i \in 1..N : order[i] \in X
  OBVIOUS
<1>1. ASSUME NEW i \in 0..N, NEW f \in [0..N -> Y] PROVE Value(i, f) \in Y
  <2>1. CASE i = 0
    BY <2>1
  <2>2. CASE i # 0
    <3>1. i \in 1..N /\ i - 1 \in 0..N
      BY <2>2, <1>0
    <3>2. f[i - 1] \in Y /\ order[i] \in X
      BY <3>1, <1>0
    <3>3. Value(i, f) = f[i - 1] \/ Value(i, f) = f[i - 1] \cup {order[i]}
      BY <2>2
    <3> HIDE DEF Value
    <3> QED BY <3>2, <3>3
  <2> QED BY <2>1, <2>2
<1>2. ASSUME NEW i \in 0..N, NEW f \in [0..N -> Y], NEW g \in [0..N -> Y],
             \A m \in 0..N : m < i => f[m] = g[m]
      PROVE  Value(i, f) = Value(i, g)
  <2>1. CASE i = 0
    BY <2>1
  <2>2. CASE i # 0
    <3>1. i - 1 \in 0..N /\ i - 1 < i
      BY <2>2, <1>0
    <3>2. f[i - 1] = g[i - 1]
      BY <3>1, <1>2
    <3> QED BY <2>2, <3>2
  <2> QED BY <2>1, <2>2
<1> HIDE DEF Value
<1>4. h \in [0..N -> [[0..N -> Y] -> Y]]
  <2> HIDE DEF Y
  <2> QED BY <1>1
<1>5. \A c \in 0..N : \A f \in [0..N -> Y] : h[c][f] = Value(c, f)
  OBVIOUS
<1>7. {} \in Y
  OBVIOUS
<1> HIDE DEF h, Y
<1>6. Recursion(0, N, Y, h)
  <2>1. ASSUME NEW c \in 0..N, NEW f \in [0..N -> Y], NEW g \in [0..N -> Y],
               \A m \in 0..N : m < c => f[m] = g[m]
        PROVE  h[c][f] = h[c][g]
    BY <1>2, <1>5, <2>1
  <2> QED BY <1>4, <2>1 DEF Recursion
<1>8. PICK f : Satisfies(f, 0, N, Y, h)
  BY <1>0, <1>6, <1>7, RecursionDefines
<1>9. f = [c \in 0..N |-> Value(c, f)]
  BY <1>5, <1>8 DEF Satisfies
<1>10. Bests(f, order)
  BY <1>9 DEF Bests, Value
<1> QED BY <1>10 DEF BestOf

\* Among the first i candidates it keeps the maximal ones: a commit that is not maximal lies below
\* one of a later generation, which came before it.
LEMMA BestSoFar ==
    ASSUME HistoryOK, NEW S \in SUBSET Commits,
           NEW order, IsSorted(order, S, Before1(S))
    PROVE  BestOf(order)[Len(order)] = Maximal(S)
<1> DEFINE N == Len(order)
           best == BestOf(order)
           M == Maximal(S)
           Seen(i) == {order[j] : j \in 1..i}
           W == {i \in 0..N : best[i] # Seen(i) \cap M}
<1>1. /\ order \in Seq(S) /\ N \in Nat /\ ElementsOf(order) = S
      /\ \A i, j \in DOMAIN order : order[j] \in Before1(S)[order[i]] => j < i
  BY NewestFirstOrders, SortedIs
<1>2. DOMAIN order = 1..N /\ \A i \in 1..N : order[i] \in S
  BY <1>1
<1>3. Bests(best, order)
  BY <1>1, BestsDefined
<1> HIDE DEF best
<1>4. \A i \in 0..N : best[i] = IF i = 0 THEN {}
               ELSE IF order[i] \in UNION {ProperAncestors(c) : c \in best[i - 1]} THEN best[i - 1]
               ELSE best[i - 1] \cup {order[i]}
  BY <1>3 DEF Bests
<1>5. M \subseteq S
  BY DEF Maximal
<1>6. ASSUME NEW i \in 1..N, best[i - 1] = Seen(i - 1) \cap M PROVE best[i] = Seen(i) \cap M
  <2> DEFINE c == order[i]
             B == best[i - 1]
  <2>1. c \in S /\ i \in 0..N /\ i # 0
    BY <1>1, <1>2
  <2>2. best[i] = IF c \in UNION {ProperAncestors(d) : d \in B} THEN B ELSE B \cup {c}
    BY <1>4, <2>1
  <2>3. Seen(i) = Seen(i - 1) \cup {c}
    BY <2>1
  <2>4. CASE c \in M
    <3>1. ASSUME NEW d \in B PROVE c \notin ProperAncestors(d)
      <4>1. d \in M /\ d \in S /\ d \in Commits
        BY <1>5, <1>6
      <4>2. d = c \/ c \notin Ancestors(d)
        BY <2>4, <4>1 DEF Maximal
      <4> HIDE DEF c
      <4> QED BY <4>1, <4>2, ProperAncestorsBelow
    <3>2. best[i] = B \cup {c}
      BY <2>2, <3>1
    <3> HIDE DEF c, Seen, M
    <3> QED BY <1>6, <2>3, <2>4, <3>2
  <2>5. CASE c \notin M
    <3>1. PICK d \in M : c \in Ancestors(d)
      BY <2>1, MaximalAbove
    <3>2. d \in S /\ d \in Commits /\ c \in Commits /\ d # c
      BY <1>5, <2>1, <2>5
    <3>3. c \in ProperAncestors(d)
      <4> HIDE DEF c
      <4> QED BY <3>1, <3>2, ProperAncestorsBelow
    <3>4. Generation(c) < Generation(d) /\ Generation(c) \in Nat /\ Generation(d) \in Nat
      BY <3>2, <3>3, GenerationFalls, GenerationIs
    <3>5. NewestFirst(d, c)
      BY <3>4 DEF NewestFirst
    <3>6. d \in Before1(S)[c]
      BY <2>1, <3>2, <3>5 DEF Before1
    <3>7. PICK j \in 1..N : d = order[j]
      BY <1>1, <1>2, <3>2 DEF ElementsOf
    <3>8. j < i
      BY <1>1, <1>2, <3>6, <3>7
    <3>9. d \in Seen(i - 1)
      BY <3>7, <3>8
    <3>10. d \in B
      BY <1>6, <3>1, <3>9
    <3>11. best[i] = B
      BY <2>2, <3>3, <3>10
    <3> HIDE DEF c, Seen, M
    <3> QED BY <1>6, <2>3, <2>5, <3>11
  <2> QED BY <2>4, <2>5
<1>7. best[0] = Seen(0) \cap M
  <2>1. 0 \in 0..N /\ 1..0 = {}
    BY <1>1
  <2> QED BY <1>4, <2>1
<1>8. SUFFICES ASSUME W # {} PROVE FALSE
  <2>1. N \in 0..N
    BY <1>1
  <2>2. Seen(N) = S
    BY <1>1, <1>2 DEF ElementsOf
  <2>3. W = {}
    BY <1>8
  <2>4. best[N] = Seen(N) \cap M
    BY <2>1, <2>3
  <2>5. best[N] = M
    <3> HIDE DEF Seen, M
    <3> QED BY <1>5, <2>2, <2>4
  <2> QED BY <2>5 DEF best
<1>9. W \in SUBSET Nat
  BY <1>1
<1>10. PICK i \in W : \A k \in W : i <= k
  <2> HIDE DEF W
  <2> QED BY <1>8, <1>9, LeastOf
<1>11. i # 0
  BY <1>7, <1>10
<1>12. i \in 1..N /\ i - 1 \in 0..N /\ i - 1 \notin W
  BY <1>1, <1>10, <1>11
<1>13. best[i - 1] = Seen(i - 1) \cap M
  BY <1>12
<1>14. best[i] = Seen(i) \cap M
  <2> HIDE DEF Seen, M
  <2> QED BY <1>6, <1>12, <1>13
<1> QED BY <1>10, <1>14

LEMMA BestCommonIs ==
    ASSUME HistoryOK, NEW S, NEW maps, NEW n, Measurable(S, maps, n)
    PROVE  /\ BestCommon(S, maps) \in Seq(S) /\ ElementsOf(BestCommon(S, maps)) = Maximal(S)
           /\ Len(BestCommon(S, maps)) = Cardinality(Maximal(S))
<1> DEFINE order == SortedBy(S, NewestFirst)
<1>1. S \in SUBSET Commits /\ Maximal(S) \in SUBSET S
  BY DEF Measurable, Maximal
<1>2. IsSorted(order, S, Before1(S))
  BY <1>1, NewestFirstSorts
<1>3. BestCommon(S, maps) = Ranked(BestOf(order)[Len(order)], maps)
  BY DEF BestCommon, BestOf, Bests
<1> HIDE DEF order
<1>4. BestOf(order)[Len(order)] = Maximal(S)
  BY <1>1, <1>2, BestSoFar
<1>5. Measurable(Maximal(S), maps, n)
  BY <1>1 DEF Measurable
<1> DEFINE r == Ranked(Maximal(S), maps)
<1>6. r \in Seq(Maximal(S)) /\ ElementsOf(r) = Maximal(S) /\ Len(r) = Cardinality(Maximal(S))
  BY <1>5, RankedIs
<1> HIDE DEF r
<1>7. r \in Seq(S)
  BY <1>1, <1>6
<1> QED BY <1>3, <1>4, <1>6, <1>7 DEF r

-----------------------------------------------------------------------------
(***************************************************************************)
(* merge-base and its modes.                                               *)
(***************************************************************************)
\* The best common ancestors of two commits: no common ancestor dominates them.
LEMMA MergeBasesIs ==
    ASSUME HistoryOK, NEW a \in Commits, NEW b \in Commits
    PROVE  LET M == Maximal(Ancestors(a) \cap Ancestors(b))
           IN  /\ MergeBases(a, b) \in Seq(M) /\ ElementsOf(MergeBases(a, b)) = M
               /\ Len(MergeBases(a, b)) = Cardinality(M)
<1> DEFINE maps == <<Distances(a), Distances(b)>>
           common == Ancestors(a) \cap Ancestors(b)
           dominated == UNION {(common \cap Ancestors(c)) \ {c} : c \in common}
           M == Maximal(common)
<1>1. /\ maps[1] \in [Ancestors(a) -> Nat] /\ maps[2] \in [Ancestors(b) -> Nat]
      /\ DOMAIN maps = 1..2
  BY DistancesAre
<1>2. \A c \in common : c \in Commits
  BY AncestorsBelow
<1>3. \A c \in common : DOMAIN Distances(c) = Ancestors(c)
  BY <1>2, DistancesDomain
<1>4. DOMAIN maps[1] \cap DOMAIN maps[2] = common
  BY <1>1
<1>5. UNION {(common \cap DOMAIN Distances(c)) \ {c} : c \in common} = dominated
  <2> HIDE DEF common
  <2> QED BY <1>3
<1>6. MergeBases(a, b) = Ranked(common \ dominated, maps)
  <2>1. MergeBases(a, b) = Ranked((DOMAIN maps[1] \cap DOMAIN maps[2])
            \ UNION {((DOMAIN maps[1] \cap DOMAIN maps[2]) \cap DOMAIN Distances(c)) \ {c} : c \in DOMAIN maps[1] \cap DOMAIN maps[2]}, maps)
    BY DEF MergeBases
  <2> HIDE DEF common, maps, dominated
  <2> QED BY <1>4, <1>5, <2>1
<1>7. common \ dominated = M
  <2> HIDE DEF common
  <2>1. \A x \in common : x \in dominated <=> \E c \in common : x \in Ancestors(c) /\ x # c
    OBVIOUS
  <2> HIDE DEF dominated
  <2> QED BY <2>1 DEF Maximal
<1>8. Measurable(M, maps, 2)
  <2>1. M \subseteq common
    BY DEF Maximal
  <2> HIDE DEF M
  <2>2. M \subseteq Commits
    BY <1>2, <2>1
  <2>3. \A c \in M : maps[1][c] \in Nat /\ maps[2][c] \in Nat
    <3> HIDE DEF maps
    <3> QED BY <1>1, <2>1
  <2>4. \A i \in 1..2 : i = 1 \/ i = 2
    OBVIOUS
  <2> HIDE DEF maps, common
  <2> QED BY <1>1, <2>2, <2>3, <2>4 DEF Measurable
<1> HIDE DEF M, maps, common, dominated
<1>9. /\ MergeBases(a, b) \in Seq(M) /\ ElementsOf(MergeBases(a, b)) = M
      /\ Len(MergeBases(a, b)) = Cardinality(M)
  BY <1>6, <1>7, <1>8, RankedIs
<1> QED BY <1>9 DEF M, common

\* One commit lies below another just if it is their one best base.
LEMMA AncestorIsBase ==
    ASSUME HistoryOK, NEW b \in Commits, NEW c \in Commits
    PROVE  IsAncestor(b, c) <=> (MergeBases(b, c) = <<b>>)
<1> DEFINE common == Ancestors(b) \cap Ancestors(c)
           M == Maximal(common)
           s == MergeBases(b, c)
<1>1. s \in Seq(M) /\ ElementsOf(s) = M /\ Len(s) = Cardinality(M)
  BY MergeBasesIs
<1>2. IsAncestor(b, c) <=> b \in Ancestors(c)
  BY DistancesDomain DEF IsAncestor
<1> HIDE DEF s
<1>3. ASSUME b \in Ancestors(c) PROVE s = <<b>>
  <2>1. common = Ancestors(b)
    BY <1>3, AncestorsDescend
  <2>2. b \in Ancestors(b) /\ \A d \in Ancestors(b) : d \in Commits /\ d <= b
    BY AncestorOfItself, AncestorsBelow
  <2>3. \A d \in Ancestors(b) \ {b} : b \notin Ancestors(d)
    BY <2>2, CommitsAre, AncestorsBelow
  <2>4. M = {b}
    <3> HIDE DEF common
    <3> QED BY <2>1, <2>2, <2>3 DEF Maximal
  <2> HIDE DEF M
  <2>5. Len(s) = 1
    BY <1>1, <2>4, FS_Singleton
  <2>6. s \in Seq({b})
    BY <1>1, <2>4
  <2> QED BY <2>5, <2>6
<1>4. ASSUME s = <<b>> PROVE b \in Ancestors(c)
  BY <1>4, <1>1 DEF ElementsOf, Maximal
<1> QED BY <1>2, <1>3, <1>4 DEF s

\* The distances from a commit that nobody made.
LEMMA MergedIs ==
    ASSUME NEW f, NEW g, NEW F, NEW G, f \in [F -> Nat], g \in [G -> Nat]
    PROVE  Merged(<<f, g>>) \in [F \cup G -> Nat]
<1> DEFINE maps == <<f, g>>
           Of(c) == {maps[i][c] : i \in {j \in DOMAIN maps : c \in DOMAIN maps[j]}}
<1>1. maps[1] = f /\ maps[2] = g /\ DOMAIN maps = {1, 2}
  OBVIOUS
<1>2. UNION {DOMAIN maps[i] : i \in DOMAIN maps} = F \cup G
  <2> HIDE DEF maps
  <2> QED BY <1>1
<1>3. ASSUME NEW c \in F \cup G PROVE 1 + Least(Of(c)) \in Nat
  <2> HIDE DEF maps
  <2>1. Of(c) \in SUBSET Nat /\ Of(c) # {}
    BY <1>1
  <2> HIDE DEF Of
  <2>2. Least(Of(c)) \in Nat
    BY <2>1, LeastIs
  <2> QED BY <2>2
<1>4. Merged(maps) = [c \in UNION {DOMAIN maps[i] : i \in DOMAIN maps} |-> 1 + Least(Of(c))]
  BY DEF Merged
<1> HIDE DEF Of
<1>5. Merged(maps) \in [F \cup G -> Nat]
  <2> HIDE DEF maps
  <2> QED BY <1>2, <1>3, <1>4
<1> QED BY <1>5

\* The best common ancestors of a commit and a merge of two others.
LEMMA ManyIs ==
    ASSUME HistoryOK, NEW a \in Commits, NEW b \in Commits, NEW c \in Commits
    PROVE  /\ MergeBasesMany(<<a, b, c>>) \in Seq(Ancestors(a) \cap (Ancestors(b) \cup Ancestors(c)))
           /\ ElementsOf(MergeBasesMany(<<a, b, c>>)) = Maximal(Ancestors(a) \cap (Ancestors(b) \cup Ancestors(c)))
<1> DEFINE S == Ancestors(a) \cap (Ancestors(b) \cup Ancestors(c))
           rev == <<a, b, c>>
           left == Distances(a)
           rest == [i \in 1..(Len(rev) - 1) |-> Distances(rev[i + 1])]
           right == Merged(rest)
           maps == <<left, right>>
<1>1. rest = <<Distances(b), Distances(c)>>
  <2>1. Len(rev) - 1 = 2 /\ rev[2] = b /\ rev[3] = c /\ 1 + 1 = 2 /\ 2 + 1 = 3
    OBVIOUS
  <2> HIDE DEF rev
  <2>2. rest = [i \in 1..2 |-> Distances(rev[i + 1])]
    BY <2>1
  <2> HIDE DEF rest
  <2>3. rest[1] = Distances(b) /\ rest[2] = Distances(c) /\ DOMAIN rest = 1..2
    BY <2>1, <2>2
  <2>4. rest = [i \in 1..2 |-> rest[i]]
    BY <2>2
  <2>5. rest \in Seq({Distances(b), Distances(c)}) /\ Len(rest) = 2
    BY <2>3, <2>4
  <2> QED BY <2>3, <2>5
<1>2. Distances(b) \in [Ancestors(b) -> Nat] /\ Distances(c) \in [Ancestors(c) -> Nat] /\ left \in [Ancestors(a) -> Nat]
  BY DistancesAre
<1>3. right \in [Ancestors(b) \cup Ancestors(c) -> Nat]
  <2> HIDE DEF rest
  <2> QED BY <1>1, <1>2, MergedIs
<1>4. MergeBasesMany(rev) = BestCommon(DOMAIN left \cap DOMAIN right, maps)
  <2>1. Len(rev) # 2 /\ rev[1] = a
    OBVIOUS
  <2> HIDE DEF rev
  <2> QED BY <2>1 DEF MergeBasesMany
<1>5. DOMAIN left \cap DOMAIN right = S
  <2> HIDE DEF left, right
  <2> QED BY <1>2, <1>3
<1>6. Measurable(S, maps, 2)
  <2>1. \A x \in S : x \in Commits
    BY AncestorsBelow
  <2>2. \A x \in S : left[x] \in Nat /\ right[x] \in Nat
    <3> HIDE DEF left, right
    <3> QED BY <1>2, <1>3
  <2> HIDE DEF left, right, S
  <2>3. maps[1] = left /\ maps[2] = right /\ DOMAIN maps = 1..2
    OBVIOUS
  <2>4. \A i \in 1..2 : i = 1 \/ i = 2
    OBVIOUS
  <2> HIDE DEF maps
  <2> QED BY <2>1, <2>2, <2>3, <2>4 DEF Measurable
<1> HIDE DEF rev, left, right, maps, S
<1>7. MergeBasesMany(rev) \in Seq(S) /\ ElementsOf(MergeBasesMany(rev)) = Maximal(S)
  BY <1>4, <1>5, <1>6, BestCommonIs
<1> QED BY <1>7 DEF S, rev

\* The best ancestors that three commits share.
LEMMA OctopusIs ==
    ASSUME HistoryOK, NEW a \in Commits, NEW b \in Commits, NEW c \in Commits
    PROVE  ElementsOf(Octopus(<<a, b, c>>)) = Maximal(Ancestors(a) \cap Ancestors(b) \cap Ancestors(c))
<1> DEFINE S == Ancestors(a) \cap Ancestors(b) \cap Ancestors(c)
           rev == <<a, b, c>>
           maps == [i \in DOMAIN rev |-> Distances(rev[i])]
           T == {x \in Commits : \A i \in DOMAIN maps : x \in DOMAIN maps[i]}
<1>1. DOMAIN maps = 1..3 /\ maps[1] = Distances(a) /\ maps[2] = Distances(b) /\ maps[3] = Distances(c)
  <2>1. DOMAIN rev = 1..3 /\ rev[1] = a /\ rev[2] = b /\ rev[3] = c
    OBVIOUS
  <2> HIDE DEF rev
  <2> QED BY <2>1
<1>2. \A i \in 1..3 : i = 1 \/ i = 2 \/ i = 3
  OBVIOUS
<1>3. /\ Distances(a) \in [Ancestors(a) -> Nat] /\ Distances(b) \in [Ancestors(b) -> Nat]
      /\ Distances(c) \in [Ancestors(c) -> Nat]
  BY DistancesAre
<1>4. Octopus(rev) = BestCommon(T, maps)
  BY DEF Octopus
<1> HIDE DEF maps, rev
<1>5. \A x \in S : x \in Commits
  BY AncestorsBelow
<1>6. T = S
  <2>1. \A x : (\A i \in DOMAIN maps : x \in DOMAIN maps[i]) <=> x \in S
    BY <1>1, <1>2, <1>3
  <2> HIDE DEF S
  <2> QED BY <1>5, <2>1
<1>7. Measurable(S, maps, 3)
  <2>1. \A x \in S : maps[1][x] \in Nat /\ maps[2][x] \in Nat /\ maps[3][x] \in Nat
    BY <1>1, <1>3
  <2> HIDE DEF S
  <2> QED BY <1>1, <1>2, <1>5, <2>1 DEF Measurable
<1> HIDE DEF S, T
<1>8. ElementsOf(Octopus(rev)) = Maximal(S)
  BY <1>4, <1>6, <1>7, BestCommonIs
<1> QED BY <1>8 DEF S, rev

\* What no other of a set of commits reaches.
LEMMA IndependentIs ==
    ASSUME HistoryOK, NEW S \in SUBSET Commits
    PROVE  Independent(S) = Maximal(S)
BY DistancesDomain DEF Independent, Maximal

\* A fork point is above whatever tip of the ref the commit descends from.
LEMMA ForkPointIs ==
    ASSUME HistoryOK, NEW a \in Commits, NEW b \in Commits, NEW c \in Commits,
           ForkPoint(c, <<a, b>>) # None
    PROVE  LET point == ForkPoint(c, <<a, b>>)
           IN  point \in Ancestors(c) /\ \A t \in {a, b} : t \in Ancestors(c) => t \in Ancestors(point)
<1> DEFINE S == Ancestors(c) \cap (Ancestors(a) \cup Ancestors(b))
           bases == MergeBasesMany(<<c, a, b>>)
           point == ForkPoint(c, <<a, b>>)
<1>1. <<c>> \o <<a, b>> = <<c, a, b>>
  <2> DEFINE s == <<c>> \o <<a, b>>
  <2>1. <<c>> \in Seq(Commits) /\ <<a, b>> \in Seq(Commits) /\ Len(<<c>>) = 1 /\ Len(<<a, b>>) = 2
    OBVIOUS
  <2>2. s \in Seq(Commits) /\ Len(s) = 3 /\ s[1] = c /\ s[2] = a /\ s[3] = b
    BY <2>1
  <2> HIDE DEF s
  <2>3. s = <<s[1], s[2], s[3]>>
    BY <2>2
  <2> QED BY <2>2, <2>3 DEF s
<1>2. Len(bases) = 1 /\ point = bases[1]
  BY <1>1 DEF ForkPoint
<1>3. bases \in Seq(S) /\ ElementsOf(bases) = Maximal(S)
  BY ManyIs
<1> HIDE DEF bases, point
<1>4. \A x \in Maximal(S) : x = point
  <2>1. DOMAIN bases = {1}
    BY <1>2, <1>3
  <2> QED BY <1>2, <1>3, <2>1 DEF ElementsOf
<1>5. point \in Maximal(S)
  <2>1. 1 \in DOMAIN bases
    BY <1>2, <1>3
  <2> QED BY <1>2, <1>3, <2>1 DEF ElementsOf
<1>6. point \in Ancestors(c)
  BY <1>5 DEF Maximal
<1>7. ASSUME NEW t \in {a, b}, t \in Ancestors(c) PROVE t \in Ancestors(point)
  <2>1. t \in S
    BY <1>7, AncestorOfItself
  <2>2. S \in SUBSET Commits
    BY AncestorsBelow
  <2> HIDE DEF S
  <2>3. PICK d \in Maximal(S) : t \in Ancestors(d)
    BY <2>1, <2>2, MaximalAbove
  <2> QED BY <1>4, <2>3
<1> QED BY <1>6, <1>7 DEF point

-----------------------------------------------------------------------------
(***************************************************************************)
(* Histories stay such.                                                    *)
(***************************************************************************)
LEMMA CommitKeeps ==
    ASSUME HistoryOK, NEW parents \in Seq(Nat), \A i \in DOMAIN parents : parents[i] \in Commits, Commit(parents)
    PROVE  HistoryOK'
<1>1. Commits = 1..Len(log) /\ Len(log) \in Nat
  BY CommitsAre
<1>2. log' = Append(log, parents) /\ setting' = setting /\ Len(log) < setting.commits
  BY DEF Commit
<1>3. log \in Seq(Seq(Nat)) /\ setting \in Settings
      /\ \A c \in Commits : \A i \in DOMAIN log[c] : log[c][i] \in 1..(c - 1)
  BY DEF HistoryOK
<1>4. log' \in Seq(Seq(Nat)) /\ Len(log') = Len(log) + 1
      /\ log'[Len(log) + 1] = parents /\ \A c \in 1..Len(log) : log'[c] = log[c]
  BY <1>2, <1>3
<1>5. setting.commits \in Nat
  BY <1>3, OidsAreDistinct
<1>6. Len(log') <= setting.commits
  BY <1>1, <1>2, <1>4, <1>5
<1>7. Commits' = 1..(Len(log) + 1)
  BY <1>4 DEF Commits
<1>8. ASSUME NEW c \in Commits', NEW i \in DOMAIN log'[c] PROVE log'[c][i] \in 1..(c - 1)
  <2>1. CASE c = Len(log) + 1
    BY <1>1, <1>4, <2>1, <1>8
  <2>2. CASE c # Len(log) + 1
    <3>1. c \in 1..Len(log) /\ log'[c] = log[c]
      BY <1>1, <1>4, <1>7, <2>2
    <3>2. i \in DOMAIN log[c] /\ c \in Commits
      BY <1>1, <3>1
    <3> QED BY <1>3, <3>1, <3>2
  <2> QED BY <2>1, <2>2
<1> QED BY <1>2, <1>3, <1>4, <1>6, <1>8 DEF HistoryOK

LEMMA HistoryKept == HistoryOK /\ [Next]_vars => HistoryOK'
<1> SUFFICES ASSUME HistoryOK, [Next]_vars PROVE HistoryOK'
  OBVIOUS
<1>1. Commits \subseteq Nat
  BY CommitsAre
<1>2. CASE log' = log /\ setting' = setting
  BY <1>2 DEF HistoryOK, Commits
<1>3. CASE Commit(<<>>)
  <2>1. <<>> \in Seq(Nat) /\ \A i \in DOMAIN <<>> : <<>>[i] \in Commits
    OBVIOUS
  <2> QED BY <1>3, <2>1, CommitKeeps
<1>4. ASSUME NEW c \in Commits, Commit(<<c>>) PROVE HistoryOK'
  <2>1. <<c>> \in Seq(Nat) /\ \A i \in DOMAIN <<c>> : <<c>>[i] \in Commits
    BY <1>1
  <2> QED BY <1>4, <2>1, CommitKeeps
<1>5. ASSUME NEW c \in Commits, NEW d \in Commits, Commit(<<c, d>>) PROVE HistoryOK'
  <2>1. <<c, d>> \in Seq(Nat) /\ \A i \in DOMAIN <<c, d>> : <<c, d>>[i] \in Commits
    BY <1>1
  <2> QED BY <1>5, <2>1, CommitKeeps
<1>6. ASSUME NEW depth \in 1..Len(log), Clone(depth) PROVE HistoryOK'
  BY <1>2, <1>6 DEF Clone
<1>7. CASE Tag
  BY <1>2, <1>7 DEF Tag
<1>8. CASE WriteGraph
  BY <1>2, <1>8 DEF WriteGraph
<1>9. CASE UNCHANGED vars
  BY <1>2, <1>9 DEF vars
<1> QED BY <1>3, <1>4, <1>5, <1>6, <1>7, <1>8, <1>9 DEF Next

LEMMA HistoryInvariant == Spec => []HistoryOK
<1>1. Init => HistoryOK
  BY OidsAreDistinct DEF Init, HistoryOK, Commits
<1> QED BY <1>1, HistoryKept, PTL DEF Spec

\* merge_bases, merge_bases_many, octopus_merge_bases, independent_commits and fork_point give, each
\* in its own way, the maximal common ancestors: by elimination, or by a search that goes from
\* later generations to earlier ones and drops what the bases found so far reach.
THEOREM BasesBest == Spec => []BasesAreBest
<1>1. HistoryOK => BasesAreBest
  <2> SUFFICES ASSUME HistoryOK, Asked, NEW b \in Commits
               PROVE  LET c == Newest
                          B == Ancestors(b)
                          C == Ancestors(c)
                      IN  /\ ElementsOf(MergeBases(b, c)) = Maximal(B \cap C)
                          /\ IsAncestor(b, c) <=> (MergeBases(b, c) = <<b>>)
                          /\ \A a \in 1..(b - 1) :
                                LET A == Ancestors(a)
                                    point == ForkPoint(c, <<a, b>>)
                                IN  /\ ElementsOf(MergeBasesMany(<<c, a, b>>)) = Maximal(C \cap (A \cup B))
                                    /\ ElementsOf(MergeBasesMany(<<a, b, c>>)) = Maximal(A \cap (B \cup C))
                                    /\ ElementsOf(Octopus(<<a, b, c>>)) = Maximal(A \cap B \cap C)
                                    /\ Independent({a, b, c}) = Maximal({a, b, c})
                                    /\ point # None => point \in C /\ \A t \in {a, b} : t \in C => t \in Ancestors(point)
    BY DEF BasesAreBest
  <2> DEFINE c == Newest
  <2>1. c \in Commits /\ b \in 1..Len(log) /\ Commits = 1..Len(log) /\ Len(log) \in Nat
    BY CommitsAre DEF Newest
  <2> HIDE DEF c
  <2>2. ElementsOf(MergeBases(b, c)) = Maximal(Ancestors(b) \cap Ancestors(c))
    BY <2>1, MergeBasesIs
  <2>3. IsAncestor(b, c) <=> (MergeBases(b, c) = <<b>>)
    BY <2>1, AncestorIsBase
  <2>4. ASSUME NEW a \in 1..(b - 1)
        PROVE  /\ ElementsOf(MergeBasesMany(<<c, a, b>>)) = Maximal(Ancestors(c) \cap (Ancestors(a) \cup Ancestors(b)))
               /\ ElementsOf(MergeBasesMany(<<a, b, c>>)) = Maximal(Ancestors(a) \cap (Ancestors(b) \cup Ancestors(c)))
               /\ ElementsOf(Octopus(<<a, b, c>>)) = Maximal(Ancestors(a) \cap Ancestors(b) \cap Ancestors(c))
               /\ Independent({a, b, c}) = Maximal({a, b, c})
               /\ ForkPoint(c, <<a, b>>) # None =>
                      /\ ForkPoint(c, <<a, b>>) \in Ancestors(c)
                      /\ \A t \in {a, b} : t \in Ancestors(c) => t \in Ancestors(ForkPoint(c, <<a, b>>))
    <3>1. a \in Commits
      BY <2>1
    <3>2. ElementsOf(MergeBasesMany(<<c, a, b>>)) = Maximal(Ancestors(c) \cap (Ancestors(a) \cup Ancestors(b)))
      BY <2>1, <3>1, ManyIs
    <3>3. ElementsOf(MergeBasesMany(<<a, b, c>>)) = Maximal(Ancestors(a) \cap (Ancestors(b) \cup Ancestors(c)))
      BY <2>1, <3>1, ManyIs
    <3>4. ElementsOf(Octopus(<<a, b, c>>)) = Maximal(Ancestors(a) \cap Ancestors(b) \cap Ancestors(c))
      BY <2>1, <3>1, OctopusIs
    <3>5. Independent({a, b, c}) = Maximal({a, b, c})
      BY <2>1, <3>1, IndependentIs
    <3>6. ForkPoint(c, <<a, b>>) # None =>
              /\ ForkPoint(c, <<a, b>>) \in Ancestors(c)
              /\ \A t \in {a, b} : t \in Ancestors(c) => t \in Ancestors(ForkPoint(c, <<a, b>>))
      BY <2>1, <3>1, ForkPointIs
    <3> QED BY <3>2, <3>3, <3>4, <3>5, <3>6
  <2> QED BY <2>2, <2>3, <2>4 DEF c
<1> QED BY <1>1, HistoryInvariant, PTL

-----------------------------------------------------------------------------
(***************************************************************************)
(* Walks by all parents or by first parents: the least sets that hold the  *)
(* commits they start from and the parents followed from what they hold.   *)
(***************************************************************************)
LEMMA WalkStaysIn ==
    ASSUME HistoryOK, NEW fp, NEW X, \A x \in X \cap Commits : ElementsOf(Followed(x, fp)) \subseteq X,
           NEW S \in SUBSET (X \cap Commits)
    PROVE  Walk(S, fp) \subseteq X
<1> DEFINE from == WalksFrom(fp)
           W == {x \in X \cap Commits : ~(from[x] \subseteq X)}
<1>1. \A x \in Commits : from[x] = {x} \cup UNION {from[p] : p \in ElementsOf(Followed(x, fp))}
  BY WalksDefined DEF Walks
<1> HIDE DEF from
<1>2. W = {}
  <2> SUFFICES ASSUME W # {} PROVE FALSE
    OBVIOUS
  <2>1. W \in SUBSET Nat /\ Commits \subseteq Nat
    BY CommitsAre
  <2>2. PICK x \in W : \A y \in W : x <= y
    <3> HIDE DEF W
    <3> QED BY <2>1, LeastOf
  <2>3. ASSUME NEW p \in ElementsOf(Followed(x, fp)) PROVE from[p] \subseteq X
    BY <2>2, ParentsAreBelow, <2>1
  <2> QED BY <1>1, <2>2, <2>3
<1>3. Walk(S, fp) = UNION {from[c] : c \in S}
  BY WalkIs DEF from
<1> QED BY <1>2, <1>3

LEMMA WalkHolds ==
    ASSUME HistoryOK, NEW fp, NEW S \in SUBSET Commits
    PROVE  S \subseteq Walk(S, fp) /\ Walk(S, fp) \subseteq Commits
<1>1. Walk(S, fp) \subseteq Commits
  BY ParentsAreBelow, WalkStaysIn
<1>2. ASSUME NEW c \in S PROVE c \in Walk(S, fp)
  BY WalksDefined, WalkIs DEF Walks
<1> QED BY <1>1, <1>2

LEMMA WalkGoesOn ==
    ASSUME HistoryOK, NEW fp, NEW S \in SUBSET Commits, NEW x \in Walk(S, fp)
    PROVE  ElementsOf(Followed(x, fp)) \subseteq Walk(S, fp)
<1> DEFINE from == WalksFrom(fp)
           W == {c \in Commits : \E y \in from[c] : ~(ElementsOf(Followed(y, fp)) \subseteq from[c])}
<1>1. \A c \in Commits : from[c] = {c} \cup UNION {from[p] : p \in ElementsOf(Followed(c, fp))}
  BY WalksDefined DEF Walks
<1> HIDE DEF from
<1>2. W = {}
  <2> SUFFICES ASSUME W # {} PROVE FALSE
    OBVIOUS
  <2>1. W \in SUBSET Nat /\ Commits \subseteq Nat
    BY CommitsAre
  <2>2. PICK c \in W : \A d \in W : c <= d
    <3> HIDE DEF W
    <3> QED BY <2>1, LeastOf
  <2>3. PICK y \in from[c] : ~(ElementsOf(Followed(y, fp)) \subseteq from[c])
    BY <2>2
  <2>4. \A p \in ElementsOf(Followed(c, fp)) : p \in Commits /\ p < c
    BY <2>2, ParentsAreBelow
  <2>5. \A p \in ElementsOf(Followed(c, fp)) : p \in from[p]
    BY <1>1, <2>4
  <2>6. y # c
    BY <1>1, <2>2, <2>3, <2>5
  <2>7. PICK p \in ElementsOf(Followed(c, fp)) : y \in from[p]
    BY <1>1, <2>2, <2>6
  <2>8. p \notin W
    BY <2>1, <2>2, <2>4
  <2>9. ElementsOf(Followed(y, fp)) \subseteq from[p]
    BY <2>4, <2>7, <2>8
  <2>10. from[p] \subseteq from[c]
    BY <1>1, <2>2
  <2> QED BY <2>3, <2>9, <2>10
<1>3. Walk(S, fp) = UNION {from[c] : c \in S}
  BY WalkIs DEF from
<1>4. PICK c \in S : x \in from[c]
  BY <1>3
<1>5. ElementsOf(Followed(x, fp)) \subseteq from[c]
  BY <1>2, <1>4
<1> QED BY <1>3, <1>5

\* A walk holds the walks of what it holds.
LEMMA WalkHoldsWalks ==
    ASSUME HistoryOK, NEW fp, NEW S \in SUBSET Commits, NEW T \in SUBSET Walk(S, fp)
    PROVE  Walk(T, fp) \subseteq Walk(S, fp)
BY WalkHolds, WalkGoesOn, WalkStaysIn

LEMMA WalkOfUnion ==
    ASSUME HistoryOK, NEW fp, NEW S, NEW T
    PROVE  Walk(S \cup T, fp) = Walk(S, fp) \cup Walk(T, fp)
BY WalkIs
-----------------------------------------------------------------------------
(***************************************************************************)
(* Queries, and what of them a list depends on.                            *)
(***************************************************************************)
Fields == {"pos", "neg", "sym", "side", "firstParent", "topo", "reverse", "skip", "count",
           "oldest", "minParents", "maxParents", "maxAge", "minAge"}

QueryOK(q) ==
    /\ q = [x \in Fields |-> q[x]]
    /\ q.pos \in SUBSET Commits /\ q.neg \in SUBSET Commits
    /\ q.sym # <<>> => /\ q.sym[1] \in Commits /\ q.sym[2] \in Commits
                       /\ ElementsOf(q.sym) = {q.sym[1], q.sym[2]}
    /\ q.firstParent \in BOOLEAN /\ q.topo \in BOOLEAN
    /\ q.skip \in Nat /\ q.count \in Nat /\ q.oldest \in Nat \cup {None}

\* The queries asked have no limits yet, and one commit to list from if it is not two.
AskedOK(q) == /\ QueryOK(q) /\ q.skip = 0 /\ q.count = 0 /\ q.reverse = FALSE
              /\ q.sym = <<>> => \E c \in Commits : q.pos = {c}

LEMMA RangesAre ==
    ASSUME HistoryOK, NEW q \in Ranges
    PROVE  AskedOK(q) /\ q.oldest = None
<1>1. Commits = 1..Len(log) /\ Len(log) \in Nat
  BY CommitsAre
<1>2. Newest \in Commits /\ \A c \in 1..(Newest - 1) : c \in Commits
  BY <1>1 DEF Ranges, Asked, HistoryOK, Newest
<1>3. CASE q = Between({Newest}, {}, <<>>)
  BY <1>2, <1>3 DEF Between, AskedOK, QueryOK, Fields
<1>4. ASSUME NEW c \in 1..(Newest - 1), q = Between({Newest}, {c}, <<>>)
      PROVE  AskedOK(q) /\ q.oldest = None
  BY <1>2, <1>4 DEF Between, AskedOK, QueryOK, Fields
<1>5. ASSUME NEW c \in 1..(Newest - 1), q = Between({}, {}, <<Newest, c>>)
      PROVE  AskedOK(q) /\ q.oldest = None
  <2>1. ElementsOf(<<Newest, c>>) = {Newest, c}
    BY DEF ElementsOf
  <2>2. <<Newest, c>> # <<>> /\ <<Newest, c>>[1] = Newest /\ <<Newest, c>>[2] = c
    OBVIOUS
  <2>3. q.sym = <<Newest, c>>
    BY <1>5 DEF Between
  <2>4. q.sym # <<>> /\ q.sym[1] = Newest /\ q.sym[2] = c /\ ElementsOf(q.sym) = {Newest, c}
    BY <2>1, <2>2, <2>3
  <2>5. q.pos = {} /\ q.neg = {} /\ q.firstParent = FALSE /\ q.topo = FALSE /\ q.reverse = FALSE
        /\ q.skip = 0 /\ q.count = 0 /\ q.oldest = None /\ q = [x \in Fields |-> q[x]]
    BY <1>5 DEF Between, Fields
  <2>6. Newest \in Commits /\ c \in Commits /\ {} \in SUBSET Commits
    BY <1>2
  <2> HIDE DEF Newest
  <2>7. QueryOK(q)
    <3>1. q.pos \in SUBSET Commits /\ q.neg \in SUBSET Commits
      BY <2>5, <2>6
    <3>2. q.sym[1] \in Commits /\ q.sym[2] \in Commits /\ ElementsOf(q.sym) = {q.sym[1], q.sym[2]}
      BY <2>4, <2>6
    <3>3. q.firstParent \in BOOLEAN /\ q.topo \in BOOLEAN
      BY <2>5
    <3>4. q.skip \in Nat /\ q.count \in Nat /\ q.oldest \in Nat \cup {None}
      BY <2>5
    <3>5. q = [x \in Fields |-> q[x]]
      BY <2>5
    <3> QED BY <3>1, <3>2, <3>3, <3>4, <3>5 DEF QueryOK
  <2> QED BY <2>4, <2>5, <2>7 DEF AskedOK
<1> QED BY <1>3, <1>4, <1>5 DEF Ranges

LEMMA FilteredIs ==
    ASSUME HistoryOK, NEW q, AskedOK(q), NEW f \in Filters
    PROVE  AskedOK(WithFilter(q, f))
<1> DEFINE r == WithFilter(q, f)
<1>1. DOMAIN q = Fields
  BY DEF AskedOK, QueryOK
<1>2. r = [x \in Fields |-> IF x \in DOMAIN f THEN f[x] ELSE q[x]]
  BY <1>1 DEF WithFilter
<1>3. \A x \in {"pos", "neg", "sym", "skip", "count", "reverse"} : x \in Fields /\ x \notin DOMAIN f
  BY FiltersAreTyped DEF Fields
<1>4. \A x \in {"firstParent", "topo"} : x \in Fields /\ (x \in DOMAIN f => f[x] \in BOOLEAN)
  BY FiltersAreTyped DEF Fields
<1>5. "oldest" \in Fields /\ ("oldest" \in DOMAIN f => f["oldest"] \in Nat)
  BY FiltersAreTyped DEF Fields
<1> HIDE DEF r
<1>6. r = [x \in Fields |-> r[x]]
  BY <1>2
<1>7. r.pos = q.pos /\ r.neg = q.neg /\ r.sym = q.sym /\ r.skip = q.skip /\ r.count = q.count /\ r.reverse = q.reverse
  BY <1>2, <1>3
<1>8. r.firstParent \in BOOLEAN /\ r.topo \in BOOLEAN /\ r.oldest \in Nat \cup {None}
  BY <1>2, <1>4, <1>5 DEF AskedOK, QueryOK
<1>9. QueryOK(r)
  BY <1>6, <1>7, <1>8 DEF AskedOK, QueryOK
<1>10. AskedOK(r)
  BY <1>7, <1>9 DEF AskedOK
<1> QED BY <1>10 DEF r

LEMMA QueriesAre == ASSUME HistoryOK, NEW q \in Queries PROVE AskedOK(q)
BY RangesAre, FilteredIs DEF Queries

\* Two queries that differ in limits alone.
Same(q, r) ==
    /\ q.pos = r.pos /\ q.neg = r.neg /\ q.sym = r.sym /\ q.side = r.side
    /\ q.firstParent = r.firstParent /\ q.topo = r.topo
    /\ q.minParents = r.minParents /\ q.maxParents = r.maxParents
    /\ q.maxAge = r.maxAge /\ q.minAge = r.minAge

LEMMA SameSelect == ASSUME NEW q, NEW r, Same(q, r) PROVE Selected(q) = Selected(r)
BY DEF Same, Selected

LEMMA SameFilter ==
    ASSUME NEW q, NEW r, Same(q, r), NEW s
    PROVE  /\ OfSide(s, q) = OfSide(s, r) /\ OfParents(s, q) = OfParents(s, r) /\ OfAge(s, q) = OfAge(s, r)
           /\ FiltersParents(q) <=> FiltersParents(r)
           /\ FiltersAge(q) <=> FiltersAge(r)
BY DEF Same, Side, HasParents, HasAge, OfSide, OfParents, OfAge, FiltersParents, FiltersAge
-----------------------------------------------------------------------------
(***************************************************************************)
(* Lists. Clear(s, R): no element of s is in R of a later one.             *)
(***************************************************************************)
Clear(s, R) == \A i, j \in DOMAIN s : i < j => s[i] \notin R[s[j]]

Singletons(C) == [c \in C |-> {c}]

Distinct(s) == \A i, j \in DOMAIN s : i # j => s[i] # s[j]

\* A list without repetition is as long as it has elements.
LEMMA DistinctLength ==
    ASSUME NEW C, NEW s \in Seq(C), Distinct(s)
    PROVE  IsFiniteSet(ElementsOf(s)) /\ Cardinality(ElementsOf(s)) = Len(s)
<1>1. Len(s) \in Nat /\ DOMAIN s = 1..Len(s)
  OBVIOUS
<1>2. s \in [1..Len(s) -> ElementsOf(s)]
  BY <1>1 DEF ElementsOf
<1>3. s \in Injection(1..Len(s), ElementsOf(s))
  BY <1>1, <1>2 DEF Injection, IsInjective, Distinct
<1>4. s \in Surjection(1..Len(s), ElementsOf(s))
  BY <1>1, <1>2 DEF Surjection, ElementsOf
<1>5. s \in Bijection(1..Len(s), ElementsOf(s))
  BY <1>3, <1>4 DEF Bijection
<1>6. IsFiniteSet(1..Len(s)) /\ Cardinality(1..Len(s)) = Len(s)
  BY <1>1, FS_Interval
<1> QED BY <1>4, <1>3, <1>6, FS_Surjection

\* The function that Within reads.
Keeps(kept, s, S) ==
    kept = [i \in 0..Len(s) |-> IF i = 0 THEN <<>>
                                ELSE IF s[i] \in S THEN Append(kept[i - 1], s[i]) ELSE kept[i - 1]]

KeptOf(s, S) == CHOOSE kept : Keeps(kept, s, S)

LEMMA KeepsDefined == ASSUME NEW C, NEW s \in Seq(C), NEW S PROVE Keeps(KeptOf(s, S), s, S)
<1> DEFINE X == Seq(C)
           N == Len(s)
           Put(i, f) == IF i = 0 THEN <<>> ELSE IF s[i] \in S THEN Append(f[i - 1], s[i]) ELSE f[i - 1]
           h == [i \in 0..N |-> [f \in [0..N -> X] |-> Put(i, f)]]
<1>0. N \in Nat /\ 0 \in Nat
  OBVIOUS
<1>1. ASSUME NEW i \in 0..N, NEW f \in [0..N -> X] PROVE Put(i, f) \in X
  <2>1. CASE i = 0
    BY <2>1
  <2>2. CASE i # 0
    BY <1>0, <2>2
  <2> QED BY <2>1, <2>2
<1>2. ASSUME NEW i \in 0..N, NEW f \in [0..N -> X], NEW g \in [0..N -> X],
             \A m \in 0..N : m < i => f[m] = g[m]
      PROVE  Put(i, f) = Put(i, g)
  <2>1. CASE i = 0
    BY <2>1
  <2>2. CASE i # 0
    BY <1>0, <2>2, <1>2
  <2> QED BY <2>1, <2>2
<1> HIDE DEF Put
<1>3. h \in [0..N -> [[0..N -> X] -> X]]
  BY <1>1
<1>4. \A i \in 0..N : \A f \in [0..N -> X] : h[i][f] = Put(i, f)
  OBVIOUS
<1> HIDE DEF h, X
<1>5. Recursion(0, N, X, h)
  <2>1. ASSUME NEW i \in 0..N, NEW f \in [0..N -> X], NEW g \in [0..N -> X],
               \A m \in 0..N : m < i => f[m] = g[m]
        PROVE  h[i][f] = h[i][g]
    BY <1>2, <1>4, <2>1
  <2> QED BY <1>3, <2>1 DEF Recursion
<1>6. <<>> \in X
  BY DEF X
<1>7. PICK f : Satisfies(f, 0, N, X, h)
  <2> HIDE DEF N
  <2> QED BY <1>0, <1>5, <1>6, RecursionDefines
<1>8. f = [i \in 0..N |-> Put(i, f)]
  BY <1>4, <1>7 DEF Satisfies
<1>9. Keeps(f, s, S)
  BY <1>8 DEF Keeps, Put
<1> QED BY <1>9 DEF KeptOf

LEMMA WithinRead == ASSUME NEW s, NEW S PROVE Within(s, S) = KeptOf(s, S)[Len(s)]
BY DEF Within, KeptOf, Keeps

\* What is kept of the first i elements.
KeptWell(kept, s, S, C, R, i) ==
    /\ kept \in Seq(C)
    /\ \A x \in ElementsOf(kept) : x \in S /\ \E j \in 1..i : x = s[j]
    /\ \A j \in 1..i : s[j] \in S => s[j] \in ElementsOf(kept)
    /\ Clear(s, R) => Clear(kept, R)

LEMMA AppendKeeps ==
    ASSUME NEW C, NEW s \in Seq(C), NEW S, NEW R, NEW i \in 1..Len(s), NEW k,
           KeptWell(k, s, S, C, R, i - 1), s[i] \in S
    PROVE  KeptWell(Append(k, s[i]), s, S, C, R, i)
<1> DEFINE a == Append(k, s[i])
           n == Len(k)
<1>1. k \in Seq(C) /\ n \in Nat /\ s[i] \in C /\ DOMAIN k = 1..n
  BY DEF KeptWell
<1>2. a \in Seq(C) /\ DOMAIN a = 1..(n + 1) /\ a[n + 1] = s[i] /\ \A m \in 1..n : a[m] = k[m]
  BY <1>1
<1> HIDE DEF a, n
<1>3. ElementsOf(a) = ElementsOf(k) \cup {s[i]}
  BY <1>1, <1>2 DEF ElementsOf
<1>4. \A x \in ElementsOf(k) : x \in S /\ \E j \in 1..(i - 1) : x = s[j]
  BY DEF KeptWell
<1>5. \A x \in ElementsOf(a) : x \in S /\ \E j \in 1..i : x = s[j]
  BY <1>3, <1>4
<1>6. \A j \in 1..i : s[j] \in S => s[j] \in ElementsOf(a)
  <2> SUFFICES ASSUME NEW j \in 1..i, s[j] \in S PROVE s[j] \in ElementsOf(a)
    OBVIOUS
  <2>1. CASE j = i
    BY <1>3, <2>1
  <2>2. CASE j # i
    <3>1. j \in 1..(i - 1)
      BY <2>2
    <3> QED BY <1>3, <3>1 DEF KeptWell
  <2> QED BY <2>1, <2>2
<1>7. ASSUME Clear(s, R), NEW u \in DOMAIN a, NEW v \in DOMAIN a, u < v PROVE a[u] \notin R[a[v]]
  <2>1. u \in 1..n /\ v \in 1..(n + 1) /\ a[u] = k[u]
    BY <1>1, <1>2, <1>7
  <2>2. CASE v = n + 1
    <3>1. a[u] \in ElementsOf(k)
      BY <1>1, <2>1 DEF ElementsOf
    <3>2. PICK j \in 1..(i - 1) : a[u] = s[j]
      BY <1>4, <3>1
    <3>3. j \in DOMAIN s /\ i \in DOMAIN s /\ j < i
      OBVIOUS
    <3>4. s[j] \notin R[s[i]]
      BY <1>7, <3>3 DEF Clear
    <3> QED BY <1>2, <2>2, <3>2, <3>4
  <2>3. CASE v # n + 1
    BY <1>1, <1>2, <2>1, <2>3, <1>7 DEF KeptWell, Clear
  <2> QED BY <2>2, <2>3
<1>8. Clear(s, R) => Clear(a, R)
  BY <1>7 DEF Clear
<1>9. KeptWell(a, s, S, C, R, i)
  BY <1>2, <1>5, <1>6, <1>8 DEF KeptWell
<1> QED BY <1>9 DEF a

LEMMA WithinIs ==
    ASSUME NEW C, NEW s \in Seq(C), NEW S, NEW R
    PROVE  /\ Within(s, S) \in Seq(C)
           /\ ElementsOf(Within(s, S)) = ElementsOf(s) \cap S
           /\ Clear(s, R) => Clear(Within(s, S), R)
<1> DEFINE k == KeptOf(s, S)
           W == {i \in 0..Len(s) : ~KeptWell(k[i], s, S, C, R, i)}
<1>1. Len(s) \in Nat /\ DOMAIN s = 1..Len(s)
  OBVIOUS
<1>0. Keeps(k, s, S)
  BY KeepsDefined
<1> HIDE DEF k
<1>2. \A i \in 0..Len(s) : k[i] = IF i = 0 THEN <<>>
                                  ELSE IF s[i] \in S THEN Append(k[i - 1], s[i]) ELSE k[i - 1]
  BY <1>0 DEF Keeps
<1>3. W = {}
  <2> SUFFICES ASSUME W # {} PROVE FALSE
    OBVIOUS
  <2>1. W \in SUBSET Nat
    BY <1>1
  <2>2. PICK i \in W : \A j \in W : i <= j
    <3> HIDE DEF W
    <3> QED BY <2>1, LeastOf
  <2>3. CASE i = 0
    <3>1. k[0] = <<>>
      BY <1>1, <1>2
    <3>2. <<>> \in Seq(C) /\ ElementsOf(<<>>) = {} /\ DOMAIN <<>> = {} /\ 1..0 = {}
      BY DEF ElementsOf
    <3>3. KeptWell(<<>>, s, S, C, R, 0)
      BY <3>2 DEF KeptWell, Clear
    <3> QED BY <2>2, <2>3, <3>1, <3>3
  <2>4. CASE i # 0
    <3>1. i \in 1..Len(s) /\ i - 1 \in 0..Len(s) /\ i - 1 \in Nat /\ i \in Nat
      BY <1>1, <2>2, <2>4
    <3>2. i - 1 \notin W
      BY <2>1, <2>2, <3>1
    <3>3. KeptWell(k[i - 1], s, S, C, R, i - 1)
      BY <3>1, <3>2
    <3>4. k[i] = IF s[i] \in S THEN Append(k[i - 1], s[i]) ELSE k[i - 1]
      BY <1>2, <2>2, <2>4
    <3>5. CASE s[i] \in S
      BY <3>1, <3>3, <3>5, AppendKeeps, <2>2, <3>4
    <3>6. CASE s[i] \notin S
      BY <3>1, <3>6, <3>3, <2>2, <3>4 DEF KeptWell
    <3> QED BY <3>5, <3>6
  <2> QED BY <2>3, <2>4
<1>4. Within(s, S) = k[Len(s)]
  BY WithinRead DEF k
<1>5. KeptWell(Within(s, S), s, S, C, R, Len(s))
  BY <1>1, <1>3, <1>4
<1>6. ElementsOf(Within(s, S)) = ElementsOf(s) \cap S
  <2> DEFINE w == Within(s, S)
  <2>1. KeptWell(w, s, S, C, R, Len(s))
    BY <1>5
  <2> HIDE DEF w
  <2>2. ElementsOf(w) = ElementsOf(s) \cap S
    BY <1>1, <2>1 DEF KeptWell, ElementsOf
  <2> QED BY <2>2 DEF w
<1> QED BY <1>5, <1>6 DEF KeptWell

LEMMA DistinctIsClear ==
    ASSUME NEW C, NEW s \in Seq(C)
    PROVE  Distinct(s) <=> Clear(s, Singletons(C))
<1>1. DOMAIN s \in SUBSET Nat /\ \A i \in DOMAIN s : s[i] \in C
  OBVIOUS
<1>2. \A c \in C : Singletons(C)[c] = {c}
  BY DEF Singletons
<1>3. Clear(s, Singletons(C)) <=> \A i, j \in DOMAIN s : i < j => s[i] # s[j]
  BY <1>1, <1>2 DEF Clear
<1> QED BY <1>1, <1>3 DEF Distinct

LEMMA WithinDistinct ==
    ASSUME NEW C, NEW s \in Seq(C), NEW S, Distinct(s)
    PROVE  Distinct(Within(s, S))
BY WithinIs, DistinctIsClear

-----------------------------------------------------------------------------
(***************************************************************************)
(* Limits.                                                                 *)
(***************************************************************************)
LEMMA FromIs ==
    ASSUME NEW C, NEW s \in Seq(C), NEW m \in Nat
    PROVE  /\ From(s, m) \in Seq(C)
           /\ Len(From(s, m)) = IF m <= Len(s) THEN Len(s) - m ELSE 0
           /\ \A i \in DOMAIN From(s, m) : From(s, m)[i] = s[i + m] /\ i + m \in DOMAIN s
           /\ m = 0 => From(s, m) = s
BY DEF From

LEMMA UptoIs ==
    ASSUME NEW C, NEW s \in Seq(C), NEW n \in Nat
    PROVE  /\ Upto(s, n) \in Seq(C)
           /\ Len(Upto(s, n)) = IF n = 0 \/ n > Len(s) THEN Len(s) ELSE n
           /\ \A i \in DOMAIN Upto(s, n) : Upto(s, n)[i] = s[i] /\ i \in DOMAIN s
           /\ n = 0 => Upto(s, n) = s
BY DEF Upto

LEMMA ReversedIs ==
    ASSUME NEW C, NEW s \in Seq(C)
    PROVE  /\ Reversed(s) \in Seq(C)
           /\ Len(Reversed(s)) = Len(s)
           /\ ElementsOf(Reversed(s)) = ElementsOf(s)
<1>1. Len(s) \in Nat /\ DOMAIN s = 1..Len(s)
  OBVIOUS
<1>2. \A i \in 1..Len(s) : Len(s) + 1 - i \in 1..Len(s) /\ Reversed(s)[i] = s[Len(s) + 1 - i]
  BY <1>1 DEF Reversed
<1>3. Reversed(s) \in [1..Len(s) -> C]
  BY <1>1 DEF Reversed
<1>4. Reversed(s) \in Seq(C) /\ Len(Reversed(s)) = Len(s)
  BY <1>1, <1>3
<1>5. \A i \in 1..Len(s) : s[i] = Reversed(s)[Len(s) + 1 - i] /\ Len(s) + 1 - i \in 1..Len(s)
  BY <1>1, <1>2
<1>6. DOMAIN Reversed(s) = 1..Len(s)
  BY <1>3
<1>7. ElementsOf(Reversed(s)) = ElementsOf(s)
  BY <1>1, <1>2, <1>5, <1>6 DEF ElementsOf
<1> QED BY <1>4, <1>7

LEMMA JoinIs ==
    ASSUME NEW C, NEW f \in Seq(C), NEW u \in Seq(C), NEW g \in Seq(C), Len(f) = Len(u) + Len(g),
           \A i \in 1..Len(u) : f[i] = u[i], \A i \in 1..Len(g) : f[i + Len(u)] = g[i]
    PROVE  f = u \o g
<1>1. u \o g \in Seq(C) /\ Len(u \o g) = Len(f)
  OBVIOUS
<1>2. ASSUME NEW i \in 1..Len(f) PROVE f[i] = (u \o g)[i]
  <2>1. CASE i <= Len(u)
    BY <2>1
  <2>2. CASE ~(i <= Len(u))
    BY <2>2
  <2> QED BY <2>1, <2>2
<1> QED BY <1>1, <1>2

\* A list from a place on is so many of those elements and the rest.
LEMMA PagesJoin ==
    ASSUME NEW C, NEW s \in Seq(C), NEW m \in Nat, NEW n \in Nat, n > 0
    PROVE  From(s, m) = Upto(From(s, m), n) \o From(s, m + n)
<1>1. PICK f, u, g : f = From(s, m) /\ u = Upto(f, n) /\ g = From(s, m + n)
  OBVIOUS
<1>2. m + n \in Nat /\ Len(s) \in Nat
  OBVIOUS
<1>3. f \in Seq(C) /\ Len(f) = (IF m <= Len(s) THEN Len(s) - m ELSE 0) /\ \A i \in DOMAIN f : f[i] = s[i + m]
  BY <1>1, FromIs
<1>4. g \in Seq(C) /\ Len(g) = (IF m + n <= Len(s) THEN Len(s) - (m + n) ELSE 0)
      /\ \A i \in DOMAIN g : g[i] = s[i + (m + n)]
  BY <1>1, <1>2, FromIs
<1>5. u \in Seq(C) /\ Len(u) = (IF n = 0 \/ n > Len(f) THEN Len(f) ELSE n) /\ \A i \in DOMAIN u : u[i] = f[i]
  BY <1>1, <1>3, UptoIs
<1>6. Len(f) \in Nat /\ Len(u) \in Nat /\ Len(g) \in Nat
  BY <1>3, <1>4, <1>5
<1>7. Len(f) = Len(u) + Len(g)
  <2>1. Len(f) = (IF m <= Len(s) THEN Len(s) - m ELSE 0) /\ Len(g) = (IF m + n <= Len(s) THEN Len(s) - (m + n) ELSE 0)
        /\ Len(u) = (IF n = 0 \/ n > Len(f) THEN Len(f) ELSE n)
    BY <1>3, <1>4, <1>5
  <2>2. CASE m + n <= Len(s)
    BY <1>2, <2>1, <2>2
  <2>3. CASE ~(m + n <= Len(s))
    BY <1>2, <2>1, <2>3, <1>6
  <2> QED BY <2>2, <2>3
<1>8. ASSUME NEW i \in 1..Len(g) PROVE f[i + Len(u)] = g[i]
  <2>1. Len(u) = n
    BY <1>2, <1>3, <1>4, <1>5, <1>6
  <2>2. i + n \in DOMAIN f /\ i \in DOMAIN g
    BY <1>3, <1>4, <1>6, <1>7, <2>1
  <2>3. f[i + n] = s[(i + n) + m] /\ g[i] = s[i + (m + n)]
    BY <1>3, <1>4, <2>2
  <2>4. (i + n) + m = i + (m + n)
    BY <1>6
  <2> QED BY <2>1, <2>3, <2>4
<1>9. \A i \in 1..Len(u) : f[i] = u[i]
  BY <1>5
<1>10. f = u \o g
  BY <1>3, <1>4, <1>5, <1>7, <1>8, <1>9, JoinIs
<1> QED BY <1>1, <1>10
-----------------------------------------------------------------------------
(***************************************************************************)
(* The two orders of a listing: by date, or with children first.           *)
(***************************************************************************)
ListedBefore(S) == [x \in S |-> {y \in S : Before(y, x)}]

LEMMA TimesAre == ASSUME HistoryOK PROVE \A c \in Commits : setting.time[c] \in Nat
<1>1. Commits = 1..Len(log) /\ Len(log) \in Nat
  BY CommitsAre
<1>2. setting.commits \in Nat /\ setting.time \in [1..setting.commits -> Nat] /\ Len(log) <= setting.commits
  BY OidsAreDistinct, TimesAreNumbers DEF HistoryOK
<1>3. \A c \in Commits : c \in 1..setting.commits
  BY <1>1, <1>2
<1> QED BY <1>2, <1>3

LEMMA DatesOrder == ASSUME HistoryOK, NEW S \in SUBSET Commits PROVE Order(S, ListedBefore(S))
BY TimesAre, OidsAre, CommitsFinite DEF Before, ListedBefore, Order

LEMMA DatesSort ==
    ASSUME HistoryOK, NEW S \in SUBSET Commits
    PROVE  IsSorted(DateOrder(S), S, ListedBefore(S))
<1> DEFINE s == DateOrder(S)
<1>1. s = [i \in 1..Cardinality(S) |-> CHOOSE x \in S : Cardinality({y \in S : Before(y, x)}) = i - 1]
  BY DEF DateOrder, SortedBy
<1>2. \A x \in S : ListedBefore(S)[x] = {y \in S : Before(y, x)}
  BY DEF ListedBefore
<1>8. s = [i \in 1..Cardinality(S) |-> s[i]]
  BY <1>1
<1> HIDE DEF s
<1>3. ASSUME NEW i \in 1..Cardinality(S) PROVE s[i] \in S /\ Cardinality(ListedBefore(S)[s[i]]) = i - 1
  <2>1. PICK x \in S : Cardinality(ListedBefore(S)[x]) = i - 1
    BY DatesOrder, Places
  <2>2. Cardinality({y \in S : Before(y, x)}) = i - 1
    BY <1>2, <2>1
  <2>3. s[i] = CHOOSE z \in S : Cardinality({y \in S : Before(y, z)}) = i - 1
    BY <1>1
  <2>4. s[i] \in S /\ Cardinality({y \in S : Before(y, s[i])}) = i - 1
    BY <2>2, <2>3
  <2> QED BY <1>2, <2>4
<1>4. s \in [1..Cardinality(S) -> S]
  BY <1>3, <1>8
<1>5. IsSorted(s, S, ListedBefore(S))
  BY <1>3, <1>4 DEF IsSorted
<1> QED BY <1>5 DEF s

\* A listing of S has every commit of S, once.
Lists(s, S) == s \in Seq(S) /\ ElementsOf(s) = S /\ Distinct(s)

LEMMA DateOrderLists ==
    ASSUME HistoryOK, NEW S \in SUBSET Commits
    PROVE  Lists(DateOrder(S), S) /\ Len(DateOrder(S)) = Cardinality(S)
<1> DEFINE s == DateOrder(S)
<1>1. Order(S, ListedBefore(S)) /\ IsSorted(s, S, ListedBefore(S))
  BY DatesOrder, DatesSort
<1> HIDE DEF s
<1>2. s \in Seq(S) /\ Len(s) = Cardinality(S) /\ ElementsOf(s) = S
  BY <1>1, SortedIs
<1>3. ASSUME NEW i \in DOMAIN s, NEW j \in DOMAIN s, s[i] = s[j] PROVE i = j
  BY <1>2, <1>1, <1>3 DEF IsSorted
<1>4. Distinct(s)
  BY <1>3 DEF Distinct
<1>5. Lists(s, S) /\ Len(s) = Cardinality(S)
  BY <1>2, <1>4 DEF Lists
<1> QED BY <1>5 DEF s

LEMMA ForemostIs ==
    ASSUME HistoryOK, NEW S \in SUBSET Commits, S # {}
    PROVE  Foremost(S) \in S
<1> DEFINE s == DateOrder(S)
<1>1. s \in Seq(S) /\ Len(s) = Cardinality(S)
  BY DateOrderLists DEF Lists
<1>2. IsFiniteSet(S)
  BY CommitsFinite
<1>3. Cardinality(S) \in Nat /\ Cardinality(S) # 0
  BY <1>2, FS_CardinalityType, FS_EmptySet
<1> HIDE DEF s
<1>4. s[1] \in S
  BY <1>1, <1>3
<1> QED BY <1>4 DEF s, Foremost

\* The commits of S whose children in S are all out.
Ready(S, out) == {c \in S \ ElementsOf(out) : {d \in S : c \in ElementsOf(log[d])} \subseteq ElementsOf(out)}

\* The function that TopoOrder reads.
PutsOut(out, S) ==
    out = [i \in 0..Cardinality(S) |-> IF i = 0 THEN <<>> ELSE Append(out[i - 1], Foremost(Ready(S, out[i - 1])))]

OutOf(S) == CHOOSE out : PutsOut(out, S)

LEMMA OutDefined == ASSUME HistoryOK, NEW S \in SUBSET Commits PROVE PutsOut(OutOf(S), S)
<1> DEFINE C == S \cup {Foremost({})}
           X == Seq(C)
           N == Cardinality(S)
           Put(i, f) == IF i = 0 THEN <<>> ELSE Append(f[i - 1], Foremost(Ready(S, f[i - 1])))
           h == [i \in 0..N |-> [f \in [0..N -> X] |-> Put(i, f)]]
<1>0. N \in Nat /\ 0 \in Nat
  BY CommitsFinite, FS_CardinalityType
<1>10. \A s : Foremost(Ready(S, s)) \in C
  <2> TAKE s
  <2>1. Ready(S, s) \in SUBSET S
    BY DEF Ready
  <2> HIDE DEF Ready
  <2>2. CASE Ready(S, s) = {}
    BY <2>2
  <2>3. CASE Ready(S, s) # {}
    BY <2>1, <2>3, ForemostIs
  <2> QED BY <2>2, <2>3
<1> HIDE DEF C, N
<1>1. ASSUME NEW i \in 0..N, NEW f \in [0..N -> X] PROVE Put(i, f) \in X
  <2>1. CASE i = 0
    BY <2>1
  <2>2. CASE i # 0
    BY <1>0, <2>2, <1>10
  <2> QED BY <2>1, <2>2
<1>2. ASSUME NEW i \in 0..N, NEW f \in [0..N -> X], NEW g \in [0..N -> X],
             \A m \in 0..N : m < i => f[m] = g[m]
      PROVE  Put(i, f) = Put(i, g)
  <2>1. CASE i = 0
    BY <2>1
  <2>2. CASE i # 0
    BY <1>0, <2>2, <1>2
  <2> QED BY <2>1, <2>2
<1> HIDE DEF Put
<1>3. h \in [0..N -> [[0..N -> X] -> X]]
  BY <1>1
<1>4. \A i \in 0..N : \A f \in [0..N -> X] : h[i][f] = Put(i, f)
  OBVIOUS
<1> HIDE DEF h, X
<1>5. Recursion(0, N, X, h)
  <2>1. ASSUME NEW i \in 0..N, NEW f \in [0..N -> X], NEW g \in [0..N -> X],
               \A m \in 0..N : m < i => f[m] = g[m]
        PROVE  h[i][f] = h[i][g]
    <3>1. Put(i, f) = Put(i, g)
      BY <1>2, <2>1
    <3>2. h[i][f] = Put(i, f) /\ h[i][g] = Put(i, g)
      BY <1>4
    <3> QED BY <3>1, <3>2
  <2> QED BY <1>3, <2>1 DEF Recursion
<1>6. <<>> \in X
  BY DEF X
<1>7. PICK f : Satisfies(f, 0, N, X, h)
  BY <1>0, <1>5, <1>6, RecursionDefines
<1>8. f = [i \in 0..N |-> Put(i, f)]
  BY <1>4, <1>7 DEF Satisfies
<1>9. PutsOut(f, S)
  BY <1>8 DEF PutsOut, Put, N
<1> QED BY <1>9 DEF OutOf

LEMMA TopoOrderRead == ASSUME NEW S PROVE TopoOrder(S) = OutOf(S)[Cardinality(S)]
BY DEF TopoOrder, OutOf, PutsOut, Ready

\* Every child in S of an element is listed before it.
Led(s, S) ==
    \A j \in DOMAIN s : \A d \in S :
        s[j] \in ElementsOf(log[d]) => \E k \in DOMAIN s : k < j /\ s[k] = d

OutWell(s, S, i) == s \in Seq(S) /\ Len(s) = i /\ Distinct(s) /\ Led(s, S)

LEMMA ReadyIs ==
    ASSUME HistoryOK, NEW S \in SUBSET Commits, NEW i \in Nat, i < Cardinality(S), NEW s, OutWell(s, S, i)
    PROVE  Ready(S, s) # {}
<1> DEFINE T == S \ ElementsOf(s)
<1>1. T # {}
  <2> SUFFICES ASSUME T = {} PROVE FALSE
    OBVIOUS
  <2>1. s \in Seq(S) /\ Len(s) = i /\ Distinct(s)
    BY DEF OutWell
  <2>2. ElementsOf(s) \subseteq S
    BY <2>1 DEF ElementsOf
  <2>3. ElementsOf(s) = S
    BY <2>2
  <2>4. Cardinality(S) = i
    BY <2>1, <2>3, DistinctLength
  <2> QED BY <2>4
<1>2. Commits = 1..Len(log) /\ Len(log) \in Nat
  BY CommitsAre
<1>3. PICK g \in T : \A y \in T : y <= g
  <2>1. \A x \in Commits : x \in Nat /\ x <= Len(log)
    BY <1>2
  <2>2. T \in SUBSET Commits
    OBVIOUS
  <2> HIDE DEF T
  <2>3. T \in SUBSET Nat /\ \A x \in T : x <= Len(log)
    BY <2>1, <2>2
  <2>4. \E g \in T : \A y \in T : g >= y
    BY <1>1, <1>2, <2>3, GreatestOf
  <2>5. PICK g \in T : \A y \in T : g >= y
    BY <2>4
  <2>6. \A y \in T : y <= g
    BY <2>3, <2>5
  <2> QED BY <2>6
<1>4. ASSUME NEW d \in S, g \in ElementsOf(log[d]) PROVE d \in ElementsOf(s)
  BY <1>4, <1>2, <1>3 DEF HistoryOK, ElementsOf
<1> QED BY <1>3, <1>4 DEF Ready

LEMMA OutGoesOn ==
    ASSUME NEW S \in SUBSET Commits, NEW i \in Nat, NEW s, OutWell(s, S, i), NEW x \in Ready(S, s)
    PROVE  OutWell(Append(s, x), S, i + 1)
<1> DEFINE t == Append(s, x)
<1>3. x \in S /\ x \notin ElementsOf(s) /\ \A d \in S : x \in ElementsOf(log[d]) => d \in ElementsOf(s)
  BY DEF Ready
<1>4. s \in Seq(S) /\ Len(s) = i /\ Distinct(s) /\ Led(s, S) /\ DOMAIN s = 1..i
  BY DEF OutWell
<1>5. t \in Seq(S) /\ Len(t) = i + 1 /\ DOMAIN t = 1..(i + 1) /\ t[i + 1] = x /\ \A m \in 1..i : t[m] = s[m]
  BY <1>3, <1>4
<1> HIDE DEF t
<1>6. \A m \in 1..i : s[m] # x
  BY <1>3, <1>4 DEF ElementsOf
<1>7. Distinct(t)
  <2> SUFFICES ASSUME NEW u \in 1..(i + 1), NEW v \in 1..(i + 1), u # v PROVE t[u] # t[v]
    BY <1>5 DEF Distinct
  <2>1. CASE u = i + 1
    BY <1>5, <1>6, <2>1
  <2>2. CASE v = i + 1
    BY <1>5, <1>6, <2>2
  <2>3. CASE u # i + 1 /\ v # i + 1
    BY <2>3, <1>4, <1>5 DEF Distinct
  <2> QED BY <2>1, <2>2, <2>3
<1>8. ASSUME NEW j \in 1..(i + 1), NEW d \in S, t[j] \in ElementsOf(log[d])
      PROVE  \E k \in 1..(i + 1) : k < j /\ t[k] = d
  <2>1. CASE j = i + 1
    BY <1>3, <1>4, <1>5, <1>8, <2>1 DEF ElementsOf
  <2>2. CASE j # i + 1
    BY <1>5, <2>2, <1>4, <1>8 DEF Led
  <2> QED BY <2>1, <2>2
<1>9. Led(t, S)
  BY <1>5, <1>8 DEF Led
<1>10. OutWell(t, S, i + 1)
  BY <1>5, <1>7, <1>9 DEF OutWell
<1> QED BY <1>10 DEF t

\* When all are out, they are listed once, children first.
LEMMA OutIsAll ==
    ASSUME HistoryOK, NEW S \in SUBSET Commits, NEW s, OutWell(s, S, Cardinality(S))
    PROVE  Lists(s, S) /\ Clear(s, [c \in Commits |-> ElementsOf(log[c])])
<1>1. s \in Seq(S) /\ Len(s) = Cardinality(S) /\ Distinct(s) /\ Led(s, S)
  BY DEF OutWell
<1>2. ElementsOf(s) = S
  <2>1. ElementsOf(s) \subseteq S
    BY <1>1 DEF ElementsOf
  <2>2. Cardinality(ElementsOf(s)) = Cardinality(S)
    BY <1>1, DistinctLength
  <2>3. IsFiniteSet(S)
    BY CommitsFinite
  <2> QED BY <2>1, <2>2, <2>3, FS_Subset
<1>3. Lists(s, S)
  BY <1>1, <1>2 DEF Lists
<1>4. ASSUME NEW i \in DOMAIN s, NEW j \in DOMAIN s, i < j
      PROVE  s[i] \notin [c \in Commits |-> ElementsOf(log[c])][s[j]]
  BY <1>1, <1>4 DEF Led, Distinct
<1>5. Clear(s, [c \in Commits |-> ElementsOf(log[c])])
  BY <1>4 DEF Clear
<1> QED BY <1>3, <1>5

\* With --topo-order every commit is listed once, after its children.
LEMMA TopoOrderLists ==
    ASSUME HistoryOK, NEW S \in SUBSET Commits
    PROVE  /\ Lists(TopoOrder(S), S)
           /\ Clear(TopoOrder(S), [c \in Commits |-> ElementsOf(log[c])])
<1> DEFINE out == OutOf(S)
           N == Cardinality(S)
           W == {i \in 0..N : ~OutWell(out[i], S, i)}
<1>0. PutsOut(out, S) /\ N \in Nat
  BY OutDefined, CommitsFinite, FS_CardinalityType
<1> HIDE DEF out
<1>1. \A i \in 0..N : out[i] = IF i = 0 THEN <<>> ELSE Append(out[i - 1], Foremost(Ready(S, out[i - 1])))
  BY <1>0 DEF PutsOut
<1>2. W = {}
  <2> SUFFICES ASSUME W # {} PROVE FALSE
    OBVIOUS
  <2>1. W \in SUBSET Nat
    BY <1>0
  <2>2. PICK i \in W : \A j \in W : i <= j
    <3> HIDE DEF W
    <3> QED BY <2>1, LeastOf
  <2>3. CASE i = 0
    <3>1. out[0] = <<>>
      BY <1>0, <1>1
    <3>2. <<>> \in Seq(S) /\ Len(<<>>) = 0 /\ DOMAIN <<>> = {}
      OBVIOUS
    <3>3. OutWell(<<>>, S, 0)
      BY <3>2 DEF OutWell, Distinct, Led
    <3> QED BY <2>2, <2>3, <3>1, <3>3
  <2>4. CASE i # 0
    <3>1. i - 1 \in Nat /\ i - 1 \in 0..N /\ i - 1 < N /\ (i - 1) + 1 = i
      BY <1>0, <2>2, <2>4
    <3>2. i - 1 \notin W
      BY <1>0, <2>1, <2>2, <3>1
    <3>3. OutWell(out[i - 1], S, i - 1)
      BY <3>1, <3>2
    <3>4. out[i] = Append(out[i - 1], Foremost(Ready(S, out[i - 1])))
      BY <1>1, <2>2, <2>4
    <3> DEFINE o == out[i - 1]
               p == i - 1
    <3>5. OutWell(o, S, p) /\ p \in Nat /\ p < Cardinality(S)
      BY <3>1, <3>3
    <3> HIDE DEF o, p
    <3>6. Ready(S, o) # {} /\ Ready(S, o) \in SUBSET Commits
      BY <3>5, ReadyIs DEF Ready
    <3>7. OutWell(Append(o, Foremost(Ready(S, o))), S, p + 1)
      BY <3>5, <3>6, ForemostIs, OutGoesOn
    <3>8. OutWell(out[i], S, i)
      BY <3>1, <3>4, <3>7 DEF o, p
    <3> QED BY <2>2, <3>8
  <2> QED BY <2>3, <2>4
<1> DEFINE s == TopoOrder(S)
<1>3. OutWell(s, S, Cardinality(S))
  BY <1>0, <1>2, TopoOrderRead DEF out
<1> HIDE DEF s
<1> QED BY <1>3, OutIsAll DEF s

LEMMA OrderedLists ==
    ASSUME HistoryOK, NEW S \in SUBSET Commits, NEW topo
    PROVE  Lists(Ordered(S, topo), S)
BY DateOrderLists, TopoOrderLists DEF Ordered

-----------------------------------------------------------------------------
(***************************************************************************)
(* What a query selects: below a commit that it selects, a commit that it  *)
(* does not select has nothing more that it selects.                       *)
(***************************************************************************)
LEMMA SelectedIs ==
    ASSUME HistoryOK, NEW q, QueryOK(q)
    PROVE  Selected(q) \in SUBSET Commits
<1>1. CASE q.sym = <<>>
  BY WalkHolds, <1>1 DEF QueryOK, Selected
<1>2. CASE q.sym # <<>>
  BY <1>2, WalkHolds DEF QueryOK, Selected
<1> QED BY <1>1, <1>2

LEMMA SelectedEnds ==
    ASSUME HistoryOK, NEW q, QueryOK(q), NEW c \in Selected(q),
           NEW p \in ElementsOf(Followed(c, q.firstParent)), p \notin Selected(q)
    PROVE  p \in Commits /\ Walk({p}, q.firstParent) \cap Selected(q) = {}
<1> DEFINE fp == q.firstParent
<1>1. c \in Commits
  BY SelectedIs
<1>2. p \in Commits
  BY <1>1, ParentsAreBelow
<1>3. \A T \in SUBSET Commits : c \in Walk(T, fp) => p \in Walk(T, fp)
  BY WalkGoesOn
<1>4. \A T \in SUBSET Commits : p \in Walk(T, fp) => Walk({p}, fp) \subseteq Walk(T, fp)
  BY WalkHoldsWalks
<1>5. CASE q.sym = <<>>
  BY <1>5, <1>3, <1>4, <1>2 DEF Selected, QueryOK
<1>6. CASE q.sym # <<>>
  <2> DEFINE a == {q.sym[1]}
             b == {q.sym[2]}
  <2>1. Selected(q) = (Walk(a, fp) \ Walk(b, fp)) \cup (Walk(b, fp) \ Walk(a, fp))
        /\ a \in SUBSET Commits /\ b \in SUBSET Commits
    BY <1>6 DEF Selected, QueryOK
  <2> HIDE DEF a, b, fp
  <2>2. p \in Walk(a, fp) \/ p \in Walk(b, fp)
    BY <1>3, <2>1
  <2>3. p \in Walk(a, fp) /\ p \in Walk(b, fp)
    BY <2>1, <2>2
  <2>4. Walk({p}, fp) \subseteq Walk(a, fp) /\ Walk({p}, fp) \subseteq Walk(b, fp)
    BY <1>4, <2>1, <2>3
  <2>5. Walk({p}, fp) \cap Selected(q) = {}
    BY <2>1, <2>4
  <2> QED BY <1>2, <2>5 DEF fp
<1> QED BY <1>5, <1>6

\* With --topo-order no commit is listed before one that it descends from.
LEMMA TopoAncestors ==
    ASSUME HistoryOK, NEW S \in SUBSET Commits, NEW s, Lists(s, S),
           Clear(s, [c \in Commits |-> ElementsOf(log[c])]),
           \A c \in S : \A p \in ElementsOf(Visible(c)) : p \notin S => Ancestors(p) \cap S = {}
    PROVE  Clear(s, [c \in Commits |-> ProperAncestors(c)])
<1>1. s \in Seq(S) /\ ElementsOf(s) = S /\ Distinct(s) /\ DOMAIN s \in SUBSET Nat /\ \A i \in DOMAIN s : s[i] \in Commits
  BY DEF Lists
<1>2. \A i, j \in DOMAIN s : i < j => s[i] \notin ElementsOf(log[s[j]])
  BY <1>1 DEF Clear
<1>3. SUFFICES ASSUME NEW i \in DOMAIN s, NEW j \in DOMAIN s, i < j, s[i] \in ProperAncestors(s[j])
               PROVE  FALSE
  BY <1>1 DEF Clear
<1> DEFINE X == {y \in Commits : IF y \in S THEN \A k \in DOMAIN s : s[k] = y => k > j
                                 ELSE Ancestors(y) \cap S = {}}
<1>4. ASSUME NEW m \in DOMAIN s, m >= j, NEW p \in ElementsOf(Visible(s[m]))
      PROVE  p \in X
  <2>1. s[m] \in S /\ s[m] \in Commits /\ m \in Nat /\ j \in Nat
    BY <1>1
  <2>2. p \in Commits /\ p # s[m]
    BY <2>1, ParentsAreBelow, CommitsAre
  <2>3. CASE p \in S
    <3>1. ASSUME NEW k \in DOMAIN s, s[k] = p PROVE k > j
      BY <1>1, <1>2, <2>2, <3>1, <1>4, <2>1 DEF Visible, ElementsOf
    <3> QED BY <2>2, <2>3, <3>1
  <2>4. CASE p \notin S
    BY <2>1, <2>2, <2>4
  <2> QED BY <2>3, <2>4
<1>5. ASSUME NEW y \in X \cap Commits PROVE ElementsOf(Followed(y, FALSE)) \subseteq X
  <2>1. Followed(y, FALSE) = Visible(y)
    BY DEF Followed
  <2>2. CASE y \in S
    <3>1. PICK m \in DOMAIN s : s[m] = y
      BY <1>1, <2>2 DEF ElementsOf
    <3>2. m \in Nat /\ j \in Nat /\ m > j
      BY <1>1, <1>5, <2>2, <3>1
    <3>3. m >= j
      BY <3>2
    <3> QED BY <1>4, <2>1, <3>1, <3>3
  <2>3. CASE y \notin S
    <3> SUFFICES ASSUME NEW p \in ElementsOf(Visible(y)) PROVE p \in X
      BY <2>1
    <3>1. p \in Commits
      BY ParentsAreBelow
    <3>2. Ancestors(p) \subseteq Ancestors(y) /\ p \in Ancestors(p)
      BY <3>1, AncestorsAre
    <3>3. Ancestors(y) \cap S = {}
      BY <1>5, <2>3
    <3> QED BY <3>1, <3>2, <3>3
  <2> QED BY <2>2, <2>3
<1> DEFINE T == ElementsOf(Visible(s[j]))
<1>6. T \in SUBSET (X \cap Commits)
  <2>1. j >= j
    BY <1>1
  <2>2. T \subseteq X
    BY <1>4, <2>1
  <2>3. X \subseteq Commits
    OBVIOUS
  <2> HIDE DEF X, T
  <2> QED BY <2>2, <2>3
<1>7. Walk(T, FALSE) \subseteq X
  <2>1. \A y \in X \cap Commits : ElementsOf(Followed(y, FALSE)) \subseteq X
    BY <1>5
  <2> HIDE DEF X, T
  <2> QED BY <1>6, <2>1, WalkStaysIn
<1>8. s[i] \in X
  BY <1>3, <1>7 DEF ProperAncestors
<1>9. i > j /\ i \in Nat /\ j \in Nat
  BY <1>1, <1>8
<1> QED BY <1>3, <1>9

-----------------------------------------------------------------------------
(***************************************************************************)
(* The stream of a query: its listing filtered, and cut.                   *)
(***************************************************************************)
Full(q) == Ordered(Selected(q), q.topo)

Shown(q) == IF FiltersParents(q) THEN OfParents(OfSide(Full(q), q), q) ELSE OfSide(Full(q), q)

Listed(q) == IF FiltersAge(q) THEN OfAge(Shown(q), q) ELSE Shown(q)

Later(q) == [c \in Commits |-> IF q.firstParent THEN ElementsOf(Visible(c)) ELSE ProperAncestors(c)]

LEMMA FullIs ==
    ASSUME HistoryOK, NEW q, QueryOK(q)
    PROVE  /\ Lists(Full(q), Selected(q)) /\ Full(q) \in Seq(Commits)
           /\ q.topo => Clear(Full(q), Later(q))
<1> DEFINE S == Selected(q)
           s == Full(q)
<1>1. S \in SUBSET Commits
  BY SelectedIs
<1>2. Lists(s, S)
  BY <1>1, OrderedLists DEF Full
<1>3. s \in Seq(Commits)
  <2>1. s \in Seq(S)
    BY <1>2 DEF Lists
  <2> HIDE DEF s, S
  <2> QED BY <1>1, <2>1
<1>4. ASSUME q.topo PROVE Clear(s, Later(q))
  <2>1. Clear(s, [c \in Commits |-> ElementsOf(log[c])])
    <3>1. s = TopoOrder(S)
      BY <1>4 DEF Full, Ordered
    <3> QED BY <1>1, <3>1, TopoOrderLists
  <2>2. \A i \in DOMAIN s : s[i] \in Commits
    <3> HIDE DEF s
    <3> QED BY <1>3
  <2>3. CASE q.firstParent
    <3>1. \A c \in Commits : ElementsOf(Visible(c)) \subseteq ElementsOf(log[c])
      BY DEF Visible, ElementsOf
    <3>2. \A c \in Commits : Later(q)[c] = ElementsOf(Visible(c))
      BY <2>3 DEF Later
    <3> HIDE DEF s
    <3>3. \A c \in Commits : [d \in Commits |-> ElementsOf(log[d])][c] = ElementsOf(log[c])
      OBVIOUS
    <3> DEFINE R == [d \in Commits |-> ElementsOf(log[d])]
               L == Later(q)
    <3>4. \A c \in Commits : L[c] \subseteq R[c]
      BY <3>1, <3>2, <3>3
    <3>5. Clear(s, R)
      BY <2>1
    <3> HIDE DEF R, L
    <3>6. Clear(s, L)
      BY <2>2, <3>4, <3>5 DEF Clear
    <3> QED BY <3>6 DEF L
  <2>4. CASE ~q.firstParent
    <3>1. q.firstParent = FALSE
      BY <2>4 DEF QueryOK
    <3>2. ASSUME NEW c \in S, NEW p \in ElementsOf(Visible(c)), p \notin S PROVE Ancestors(p) \cap S = {}
      BY <3>1, <3>2, SelectedEnds DEF Followed, Ancestors
    <3>3. Clear(s, [c \in Commits |-> ProperAncestors(c)])
      <4> HIDE DEF s, S
      <4> QED BY <1>1, <1>2, <2>1, <3>2, TopoAncestors
    <3>4. Later(q) = [c \in Commits |-> ProperAncestors(c)]
      BY <2>4 DEF Later
    <3> QED BY <3>3, <3>4
  <2> QED BY <2>3, <2>4
<1> QED BY <1>2, <1>3, <1>4

\* What a list of commits that a query selects keeps when elements are left out.
Listing(s, q) ==
    /\ s \in Seq(Commits) /\ ElementsOf(s) \subseteq Selected(q) /\ Distinct(s)
    /\ q.topo => Clear(s, Later(q))

LEMMA WithinListing ==
    ASSUME NEW q, NEW s, Listing(s, q), NEW S
    PROVE  Listing(Within(s, S), q)
BY WithinIs, WithinDistinct DEF Listing

LEMMA ListedIs ==
    ASSUME HistoryOK, NEW q, QueryOK(q)
    PROVE  /\ Listing(Full(q), q) /\ Listing(OfSide(Full(q), q), q) /\ Listing(Shown(q), q) /\ Listing(Listed(q), q)
BY FullIs, WithinListing DEF Lists, Listing, OfSide, Shown, OfParents, Listed, OfAge

LEMMA ListedSame ==
    ASSUME NEW q, NEW r, Same(q, r)
    PROVE  /\ Full(q) = Full(r) /\ OfSide(Full(q), q) = OfSide(Full(r), r)
           /\ Shown(q) = Shown(r) /\ Listed(q) = Listed(r)
BY SameSelect, SameFilter DEF Full, Same, Shown, Listed

LEMMA Unlimited ==
    ASSUME NEW C, NEW s \in Seq(C), NEW q, q.skip = 0, q.count = 0, q.reverse = FALSE
    PROVE  Limited(s, q) = s
<1>1. From(s, 0) = s /\ Upto(s, 0) = s
  BY FromIs, UptoIs
<1> QED BY <1>1 DEF Limited, Turned

LEMMA LimitsChange ==
    ASSUME NEW q, QueryOK(q), NEW r, Same(q, r), r = [x \in Fields |-> r[x]],
           r.skip \in Nat, r.count \in Nat, r.oldest \in Nat \cup {None}
    PROVE  QueryOK(r)
<1>1. r.pos \in SUBSET Commits /\ r.neg \in SUBSET Commits
  BY DEF QueryOK, Same
<1>2. r.sym # <<>> => r.sym[1] \in Commits /\ r.sym[2] \in Commits /\ ElementsOf(r.sym) = {r.sym[1], r.sym[2]}
  BY DEF Same, QueryOK
<1>3. r.firstParent \in BOOLEAN /\ r.topo \in BOOLEAN
  BY DEF QueryOK, Same
<1> QED BY <1>1, <1>2, <1>3 DEF QueryOK

LEMMA WholeIs ==
    ASSUME NEW q, QueryOK(q)
    PROVE  /\ QueryOK(Whole(q)) /\ Same(q, Whole(q))
           /\ Whole(q).skip = 0 /\ Whole(q).count = 0 /\ Whole(q).reverse = FALSE
           /\ Whole(q).side = q.side
<1> DEFINE w == Whole(q)
<1>1. DOMAIN q = Fields
  BY DEF QueryOK
<1>2. w = [x \in Fields |-> IF x \in {"skip", "count"} THEN 0 ELSE IF x = "reverse" THEN FALSE ELSE q[x]]
  BY <1>1 DEF Whole, Fields, QueryOK
<1> HIDE DEF w
<1>3. w = [x \in Fields |-> w[x]]
  BY <1>2
<1>4. w.skip = 0 /\ w.count = 0 /\ w.reverse = FALSE
  BY <1>2 DEF Fields
<1>5. Same(q, w) /\ w.oldest = q.oldest
  BY <1>2 DEF Fields, Same
<1>6. QueryOK(w)
  <2>1. w.skip \in Nat /\ w.count \in Nat
    BY <1>4
  <2>2. w.oldest \in Nat \cup {None}
    BY <1>5 DEF QueryOK
  <2> QED BY <1>3, <1>5, <2>1, <2>2, LimitsChange
<1> QED BY <1>4, <1>5, <1>6 DEF w, Same

LEMMA WholeList == ASSUME HistoryOK, NEW q, QueryOK(q) PROVE RevList(Whole(q)) = Full(q)
BY WholeIs, ListedSame, FullIs, Unlimited DEF RevList, Full

LEMMA SidesAre ==
    ASSUME HistoryOK, NEW q, QueryOK(q)
    PROVE  RevListSides(q) = Limited(OfSide(Full(q), q), q)
BY WholeList DEF RevListSides

LEMMA WholeSides ==
    ASSUME HistoryOK, NEW q, QueryOK(q)
    PROVE  RevListSides(Whole(q)) = OfSide(Full(q), q)
<1> DEFINE w == Whole(q)
<1>1. QueryOK(w) /\ Same(q, w) /\ w.skip = 0 /\ w.count = 0 /\ w.reverse = FALSE
  BY WholeIs
<1> HIDE DEF w
<1>2. OfSide(Full(w), w) = OfSide(Full(q), q)
  BY <1>1, ListedSame
<1>3. RevListSides(w) = Limited(OfSide(Full(q), q), w)
  BY <1>1, <1>2, SidesAre
<1>4. OfSide(Full(q), q) \in Seq(Commits)
  BY ListedIs DEF Listing
<1>5. RevListSides(w) = OfSide(Full(q), q)
  BY <1>1, <1>3, <1>4, Unlimited
<1> QED BY <1>5 DEF w

LEMMA BaseIs == ASSUME HistoryOK, NEW q, QueryOK(q) PROVE Base(q) = OfSide(Full(q), q)
BY WholeList, WholeSides DEF Base, OfSide

LEMMA ShownIs == ASSUME HistoryOK, NEW q, QueryOK(q) PROVE Filtered(q) = Shown(q)
<1>1. CASE ~FiltersParents(q)
  BY <1>1, BaseIs DEF Filtered, Shown
<1>2. CASE FiltersParents(q)
  <2> DEFINE w == Whole(q)
  <2>1. QueryOK(w) /\ Same(q, w) /\ w.skip = 0 /\ w.count = 0 /\ w.reverse = FALSE
    BY WholeIs
  <2> HIDE DEF w
  <2>2. OfParents(Base(w), w) = OfParents(OfSide(Full(q), q), q)
    BY <2>1, BaseIs, ListedSame, SameFilter
  <2>3. Shown(q) = OfParents(OfSide(Full(q), q), q)
    BY <1>2 DEF Shown
  <2>4. Shown(q) \in Seq(Commits)
    BY ListedIs DEF Listing
  <2>5. ParentFilter(w) = Limited(Shown(q), w)
    BY <2>2, <2>3 DEF ParentFilter
  <2>6. ParentFilter(w) = Shown(q)
    BY <2>1, <2>4, <2>5, Unlimited
  <2> QED BY <1>2, <2>6 DEF Filtered, w
<1> QED BY <1>1, <1>2

LEMMA PlainIs ==
    ASSUME HistoryOK, NEW q, QueryOK(q)
    PROVE  PlainOrSided(q) = Limited(OfSide(Full(q), q), q)
BY SidesAre DEF PlainOrSided, RevList, Full, OfSide

\* Whichever function answers, the stream is the filtered listing, cut.
LEMMA StreamIs == ASSUME HistoryOK, NEW q, QueryOK(q) PROVE Stream(q) = Cut(Listed(q), q)
<1>1. CASE FiltersAge(q)
  BY <1>1, ShownIs DEF Mode, Stream, AgeFilter, Listed
<1>2. CASE ~FiltersAge(q) /\ q.oldest # None
  BY <1>2, ShownIs DEF Mode, Stream, Oldest, Listed, Cut
<1>3. CASE ~FiltersAge(q) /\ q.oldest = None /\ FiltersParents(q)
  BY <1>3, BaseIs DEF Mode, Listed, Shown, Stream, ParentFilter, Cut
<1>4. CASE ~FiltersAge(q) /\ q.oldest = None /\ ~FiltersParents(q)
  BY <1>4, PlainIs DEF Mode, Listed, Shown, Stream, Cut
<1> QED BY <1>1, <1>2, <1>3, <1>4

\* Cutting leaves commits of the list, each once.
LEMMA CutIs ==
    ASSUME NEW q, QueryOK(q), NEW s \in Seq(Commits)
    PROVE  /\ Cut(s, q) \in Seq(Commits)
           /\ ElementsOf(Cut(s, q)) \subseteq ElementsOf(s)
           /\ Distinct(s) => Distinct(Cut(s, q))
<1> DEFINE Part(t) == t \in Seq(Commits) /\ ElementsOf(t) \subseteq ElementsOf(s) /\ (Distinct(s) => Distinct(t))
<1>1. ASSUME NEW t, Part(t), NEW m \in Nat PROVE Part(From(t, m))
  <2>1. /\ t \in Seq(Commits) /\ From(t, m) \in Seq(Commits)
        /\ \A i \in DOMAIN From(t, m) : From(t, m)[i] = t[i + m] /\ i + m \in DOMAIN t
    BY <1>1, FromIs
  <2>2. DOMAIN From(t, m) \in SUBSET Nat
    BY <2>1
  <2>3. ElementsOf(From(t, m)) \subseteq ElementsOf(t)
    BY <2>1 DEF ElementsOf
  <2>4. Distinct(t) => Distinct(From(t, m))
    BY <2>1, <2>2 DEF Distinct
  <2> QED BY <1>1, <2>1, <2>3, <2>4
<1>2. ASSUME NEW t, Part(t), NEW n \in Nat PROVE Part(Upto(t, n))
  BY <1>2, UptoIs DEF ElementsOf, Distinct
<1>3. ASSUME NEW t, Part(t) PROVE Part(Turned(t, q))
  <2>1. t \in Seq(Commits) /\ Len(t) \in Nat /\ DOMAIN t = 1..Len(t)
    BY <1>3
  <2>2. Reversed(t) \in Seq(Commits) /\ ElementsOf(Reversed(t)) = ElementsOf(t)
    BY <2>1, ReversedIs
  <2>3. Distinct(t) => Distinct(Reversed(t))
    BY <2>1 DEF Reversed, Distinct
  <2>4. Part(Reversed(t))
    BY <1>3, <2>2, <2>3
  <2> QED BY <1>3, <2>4 DEF Turned
<1>4. Part(s)
  OBVIOUS
<1> HIDE DEF Part
<1>5. q.skip \in Nat /\ q.count \in Nat /\ Len(s) \in Nat
  BY DEF QueryOK
<1>6. Part(Limited(s, q))
  BY <1>1, <1>2, <1>4, <1>5, <1>3 DEF Limited
<1>7. ASSUME q.oldest # None PROVE Part(Tailed(s, q))
  <2>1. q.oldest \in Nat
    BY <1>7 DEF QueryOK
  <2> DEFINE m == IF q.oldest > Len(s) THEN 0 ELSE Len(s) - q.oldest
  <2>2. m \in Nat
    BY <1>5, <2>1
  <2>3. Tailed(s, q) = Turned(From(s, m), q)
    BY DEF Tailed
  <2> HIDE DEF m
  <2>4. Part(From(s, m))
    BY <1>1, <1>4, <2>2
  <2> QED BY <1>3, <2>3, <2>4
<1>8. Part(Cut(s, q))
  BY <1>6, <1>7 DEF Cut
<1> QED BY <1>8 DEF Part

\* The query with a limit.
Paged(q, m, n) == [q EXCEPT !.skip = m, !.count = n]

LEMMA PageIs ==
    ASSUME HistoryOK, NEW q, QueryOK(q), NEW m \in Nat, NEW n \in Nat, NEW r, r = Paged(q, m, n)
    PROVE  /\ QueryOK(r) /\ Same(q, r) /\ r.skip = m /\ r.count = n
           /\ r.oldest = q.oldest /\ r.side = q.side /\ r.reverse = q.reverse
<1>1. DOMAIN q = Fields
  BY DEF QueryOK
<1>2. r = [x \in Fields |-> IF x = "skip" THEN m ELSE IF x = "count" THEN n ELSE q[x]]
  BY <1>1 DEF Fields, QueryOK, Paged
<1>3. r = [x \in Fields |-> r[x]]
  BY <1>2
<1>4. r.skip = m /\ r.count = n
  BY <1>2 DEF Fields
<1>5. Same(q, r) /\ r.oldest = q.oldest /\ r.side = q.side /\ r.reverse = q.reverse
  BY <1>2 DEF Fields, Same
<1>6. QueryOK(r)
  BY <1>5, <1>3, <1>4, LimitsChange DEF QueryOK
<1> QED BY <1>4, <1>5, <1>6

PagedBack(q, m, n) == [q EXCEPT !.skip = m, !.count = n, !.reverse = TRUE]

LEMMA ReversePageIs ==
    ASSUME HistoryOK, NEW q, QueryOK(q), NEW m \in Nat, NEW n \in Nat, NEW r, r = PagedBack(q, m, n)
    PROVE  /\ QueryOK(r) /\ Same(q, r) /\ r.skip = m /\ r.count = n
           /\ r.oldest = q.oldest /\ r.side = q.side /\ r.reverse
<1>1. DOMAIN q = Fields
  BY DEF QueryOK
<1>2. r = [x \in Fields |-> IF x = "skip" THEN m ELSE IF x = "count" THEN n ELSE IF x = "reverse" THEN TRUE ELSE q[x]]
  BY <1>1 DEF Fields, QueryOK, PagedBack
<1>3. r = [x \in Fields |-> r[x]]
  BY <1>2
<1>4. r.skip = m /\ r.count = n /\ r.reverse
  BY <1>2 DEF Fields
<1>5. Same(q, r) /\ r.oldest = q.oldest /\ r.side = q.side
  BY <1>2 DEF Fields, Same
<1>6. QueryOK(r)
  BY <1>5, <1>3, <1>4, LimitsChange DEF QueryOK
<1> QED BY <1>4, <1>5, <1>6

LEMMA OldestIs ==
    ASSUME HistoryOK, NEW q, QueryOK(q), NEW n \in Nat, NEW r, r = [q EXCEPT !.oldest = n]
    PROVE  QueryOK(r) /\ Same(q, r) /\ r.oldest = n /\ r.reverse = q.reverse
<1>1. DOMAIN q = Fields
  BY DEF QueryOK
<1>2. r = [x \in Fields |-> IF x = "oldest" THEN n ELSE q[x]]
  BY <1>1 DEF Fields, QueryOK
<1>3. r = [x \in Fields |-> r[x]]
  BY <1>2
<1>4. r.oldest = n
  BY <1>2 DEF Fields
<1>5. Same(q, r) /\ r.skip = q.skip /\ r.count = q.count /\ r.reverse = q.reverse
  BY <1>2 DEF Fields, Same
<1>6. QueryOK(r)
  BY <1>4, <1>5, <1>3, LimitsChange DEF QueryOK
<1> QED BY <1>4, <1>5, <1>6

\* A page is so many elements of the listing from a place on; reversing turns the page.
LEMMA PageOfListed ==
    ASSUME HistoryOK, NEW q, AskedOK(q), q.oldest = None, NEW m \in Nat, NEW n \in Nat
    PROVE  /\ Stream([q EXCEPT !.skip = m, !.count = n]) = Upto(From(Listed(q), m), n)
           /\ Stream([q EXCEPT !.skip = m, !.count = n, !.reverse = TRUE]) = Reversed(Upto(From(Listed(q), m), n))
<1>1. QueryOK(q) /\ q.reverse = FALSE /\ None = q.oldest
  BY DEF AskedOK
<1>2. Stream([q EXCEPT !.skip = m, !.count = n]) = Upto(From(Listed(q), m), n)
  <2> DEFINE r == Paged(q, m, n)
  <2>1. QueryOK(r) /\ Same(q, r) /\ r.skip = m /\ r.count = n /\ r.oldest = None /\ r.reverse = q.reverse
    BY <1>1, PageIs
  <2> HIDE DEF r
  <2>2. Stream(r) = Limited(Listed(q), r)
    BY <2>1, StreamIs, ListedSame DEF Cut
  <2>3. Stream(r) = Upto(From(Listed(q), m), n)
    BY <1>1, <2>1, <2>2 DEF Limited, Turned
  <2> QED BY <2>3 DEF r, Paged
<1>3. Stream([q EXCEPT !.skip = m, !.count = n, !.reverse = TRUE]) = Reversed(Upto(From(Listed(q), m), n))
  <2> DEFINE r == PagedBack(q, m, n)
  <2>1. QueryOK(r) /\ Same(q, r) /\ r.skip = m /\ r.count = n /\ r.oldest = None /\ r.reverse
    BY <1>1, ReversePageIs
  <2> HIDE DEF r
  <2>2. Stream(r) = Limited(Listed(q), r)
    BY <2>1, StreamIs, ListedSame DEF Cut
  <2>3. Stream(r) = Reversed(Upto(From(Listed(q), m), n))
    BY <1>1, <2>1, <2>2 DEF Limited, Turned
  <2> QED BY <2>3 DEF r, PagedBack
<1> QED BY <1>2, <1>3

LEMMA WholeStream ==
    ASSUME HistoryOK, NEW q, AskedOK(q), q.oldest = None
    PROVE  Stream(q) = Listed(q)
BY StreamIs, ListedIs, Unlimited DEF AskedOK, Cut, Listing

LEMMA OldestOfListed ==
    ASSUME HistoryOK, NEW q, AskedOK(q), q.oldest = None, NEW n \in Nat
    PROVE  Stream([q EXCEPT !.oldest = n]) = From(Listed(q), IF Len(Listed(q)) > n THEN Len(Listed(q)) - n ELSE 0)
<1> DEFINE r == [q EXCEPT !.oldest = n]
           s == Listed(q)
<1>1. QueryOK(r) /\ Same(q, r) /\ r.oldest = n /\ r.reverse = FALSE
  <2>1. r = [q EXCEPT !.oldest = n]
    OBVIOUS
  <2> HIDE DEF r
  <2> QED BY <2>1, OldestIs DEF AskedOK
<1>2. s \in Seq(Commits)
  BY ListedIs DEF Listing, AskedOK
<1>3. Listed(r) = s
  BY <1>1, ListedSame
<1> HIDE DEF r, s
<1>4. n # None
  BY NoneIsNoCommit
<1>5. Stream(r) = Tailed(s, r)
  BY <1>1, <1>3, <1>4, StreamIs DEF Cut
<1>6. Tailed(s, r) = From(s, IF n > Len(s) THEN 0 ELSE Len(s) - n)
  BY <1>1 DEF Tailed, Turned
<1>7. (IF n > Len(s) THEN 0 ELSE Len(s) - n) = (IF Len(s) > n THEN Len(s) - n ELSE 0)
  BY <1>2
<1> QED BY <1>5, <1>6, <1>7 DEF r, s

\* Whichever of the functions answers - rev_list, rev_list_sides, rev_list_parent_filter,
\* rev_list_oldest, rev_list_age_filter - its pages join to its whole list, which lists no commit
\* before one that descends from it if --topo-order is given.
THEOREM StreamsPaged == Spec => []StreamsArePaged
<1>1. HistoryOK => StreamsArePaged
  <2> SUFFICES ASSUME HistoryOK, NEW q \in Queries, q.oldest = None
               PROVE  LET whole == Stream(q)
                          Page(m, n) == Stream([q EXCEPT !.skip = m, !.count = n])
                      IN  /\ \A m \in 0..Len(log), n \in 1..2 :
                                /\ Page(m, 0) = Page(m, n) \o Page(m + n, 0) /\ Len(Page(m, n)) <= n
                                /\ Stream([q EXCEPT !.skip = m, !.count = n, !.reverse = TRUE]) = Reversed(Page(m, n))
                          /\ \A n \in 0..2 :
                                Stream([q EXCEPT !.oldest = n]) = From(whole, IF Len(whole) > n THEN Len(whole) - n ELSE 0)
                          /\ q.topo => \A i, j \in DOMAIN whole :
                                           i < j => whole[i] \notin IF q.firstParent THEN ElementsOf(Visible(whole[j]))
                                                                                     ELSE ProperAncestors(whole[j])
    BY DEF StreamsArePaged
  <2> DEFINE s == Listed(q)
             Page(m, n) == Stream([q EXCEPT !.skip = m, !.count = n])
  <2>1. AskedOK(q) /\ QueryOK(q)
    BY QueriesAre DEF AskedOK
  <2>2. s \in Seq(Commits) /\ (q.topo => Clear(s, Later(q)))
    BY <2>1, ListedIs DEF Listing
  <2>3. Stream(q) = s
    BY <2>1, WholeStream
  <2>4. \A m, n \in Nat : /\ Page(m, n) = Upto(From(s, m), n)
                          /\ Stream([q EXCEPT !.skip = m, !.count = n, !.reverse = TRUE]) = Reversed(Upto(From(s, m), n))
    BY <2>1, PageOfListed
  <2>5. \A n \in Nat : Stream([q EXCEPT !.oldest = n]) = From(s, IF Len(s) > n THEN Len(s) - n ELSE 0)
    BY <2>1, OldestOfListed
  <2> HIDE DEF s, Page
  <2>6. ASSUME NEW m \in Nat, NEW n \in Nat, n > 0
        PROVE  /\ Page(m, 0) = Page(m, n) \o Page(m + n, 0) /\ Len(Page(m, n)) <= n
               /\ Stream([q EXCEPT !.skip = m, !.count = n, !.reverse = TRUE]) = Reversed(Page(m, n))
    <3>1. m + n \in Nat /\ 0 \in Nat
      OBVIOUS
    <3>2. From(s, m) \in Seq(Commits) /\ From(s, m + n) \in Seq(Commits)
      BY <2>2, <3>1, FromIs
    <3>3. Page(m, 0) = From(s, m) /\ Page(m + n, 0) = From(s, m + n) /\ Page(m, n) = Upto(From(s, m), n)
      BY <3>1, <3>2, UptoIs, <2>4
    <3>4. Len(Page(m, n)) <= n
      BY <3>2, UptoIs, <2>6, <3>3
    <3>5. From(s, m) = Upto(From(s, m), n) \o From(s, m + n)
      BY <2>2, <2>6, PagesJoin
    <3> QED BY <2>4, <3>3, <3>4, <3>5
  <2>7. Len(log) \in Nat
    BY CommitsAre
  <2>8. \A m \in 0..Len(log), n \in 1..2 :
            /\ Page(m, 0) = Page(m, n) \o Page(m + n, 0) /\ Len(Page(m, n)) <= n
            /\ Stream([q EXCEPT !.skip = m, !.count = n, !.reverse = TRUE]) = Reversed(Page(m, n))
    <3> TAKE m \in 0..Len(log), n \in 1..2
    <3>1. m \in Nat /\ n \in Nat /\ n > 0
      BY <2>7
    <3> QED BY <2>6, <3>1
  <2>9. \A n \in 0..2 : Stream([q EXCEPT !.oldest = n]) = From(s, IF Len(s) > n THEN Len(s) - n ELSE 0)
    <3> TAKE n \in 0..2
    <3>1. n \in Nat
      OBVIOUS
    <3> QED BY <2>5, <3>1
  <2>10. ASSUME q.topo, NEW i \in DOMAIN s, NEW j \in DOMAIN s, i < j
         PROVE  s[i] \notin IF q.firstParent THEN ElementsOf(Visible(s[j])) ELSE ProperAncestors(s[j])
    <3>1. s[i] \notin Later(q)[s[j]] /\ s[j] \in Commits
      BY <2>2, <2>10 DEF Clear
    <3> QED BY <3>1 DEF Later
  <2> QED BY <2>3, <2>8, <2>9, <2>10 DEF Page
<1> QED BY <1>1, HistoryInvariant, PTL

\* The functions that annotate with children list what the plain ones list.
LEMMA SidedIs == ASSUME HistoryOK, NEW q, QueryOK(q) PROVE SidedChildren(q) = Base(q)
BY WholeList, BaseIs DEF SidedChildren, ListChildren

LEMMA ShownChildrenIs == ASSUME HistoryOK, NEW q, QueryOK(q) PROVE ShownChildren(q) = Filtered(q)
<1> DEFINE w == Whole(q)
<1>1. QueryOK(w)
  BY WholeIs
<1>2. SidedChildren(q) = Base(q)
  BY SidedIs
<1> HIDE DEF w
<1>3. ParentFilterChildren(w) = ParentFilter(w)
  BY <1>1, SidedIs DEF ParentFilterChildren, ParentFilter
<1> QED BY <1>2, <1>3 DEF ShownChildren, Filtered, w

LEMMA ChildStreamIs ==
    ASSUME HistoryOK, NEW q, QueryOK(q), q.side \in {"none", "both"}
    PROVE  ChildStream(q) = Stream(q)
<1>1. CASE FiltersAge(q)
  BY <1>1, ShownChildrenIs DEF Mode, AgeFilterChildren, AgeFilter, Stream, ChildStream
<1>2. CASE ~FiltersAge(q) /\ q.oldest # None
  BY <1>2, ShownChildrenIs DEF Mode, OldestChildren, Oldest, Stream, ChildStream
<1>3. CASE ~FiltersAge(q) /\ q.oldest = None /\ FiltersParents(q)
  BY <1>3, SidedIs DEF Mode, ParentFilterChildren, ParentFilter, Stream, ChildStream
<1>4. CASE ~FiltersAge(q) /\ q.oldest = None /\ ~FiltersParents(q)
  BY <1>4, PlainIs DEF Mode, OfSide, ListChildren, RevList, Full, Stream, ChildStream
<1> QED BY <1>1, <1>2, <1>3, <1>4

LEMMA ChildrenAre ==
    ASSUME HistoryOK, NEW q, QueryOK(q), NEW c
    PROVE  ElementsOf(Children(c, q)) = {d \in Selected(q) : c \in ElementsOf(Followed(d, q.firstParent))}
<1>1. RevList(Whole(q)) = Full(q) /\ Full(q) \in Seq(Commits) /\ ElementsOf(Full(q)) = Selected(q)
  BY WholeList, FullIs DEF Lists
<1>2. ElementsOf(Children(c, q)) = Selected(q) \cap ChildrenOf(c, q)
  BY <1>1, WithinIs DEF Children
<1>3. Selected(q) \in SUBSET Commits
  BY SelectedIs
<1> QED BY <1>2, <1>3 DEF ChildrenOf

\* rev_list_children and its filtered forms list what the plain ones list; and a commit's children
\* are those of the whole walk, whatever the filters and limits.
THEOREM ChildrenAlike == Spec => []ChildrenAgree
<1>1. HistoryOK => ChildrenAgree
  <2> SUFFICES ASSUME HistoryOK, NEW q \in Queries
               PROVE  LET page == [q EXCEPT !.skip = 1, !.count = 2, !.reverse = TRUE]
                      IN  /\ q.side \in {"none", "both"} => ChildStream(page) = Stream(page)
                          /\ \A c \in ElementsOf(Stream(page)) :
                                 ElementsOf(Children(c, page)) = {d \in Selected(q) : c \in ElementsOf(Followed(d, q.firstParent))}
    BY DEF ChildrenAgree
  <2> DEFINE page == PagedBack(q, 1, 2)
  <2>1. QueryOK(q)
    BY QueriesAre DEF AskedOK
  <2>2. QueryOK(page) /\ Same(q, page) /\ page.side = q.side
    BY <2>1, ReversePageIs
  <2> HIDE DEF page
  <2>3. q.side \in {"none", "both"} => ChildStream(page) = Stream(page)
    BY <2>2, ChildStreamIs
  <2>4. ASSUME NEW c
        PROVE  ElementsOf(Children(c, page)) = {d \in Selected(q) : c \in ElementsOf(Followed(d, q.firstParent))}
    BY <2>2, SameSelect, ChildrenAre DEF Same
  <2> QED BY <2>3, <2>4 DEF page, PagedBack
<1> QED BY <1>1, HistoryInvariant, PTL

-----------------------------------------------------------------------------
(***************************************************************************)
(* Boundaries.                                                             *)
(***************************************************************************)
LEMMA ElementsJoin ==
    ASSUME NEW C, NEW s \in Seq(C), NEW t \in Seq(C)
    PROVE  ElementsOf(s \o t) = ElementsOf(s) \cup ElementsOf(t)
<1> DEFINE u == s \o t
<1>1. Len(s) \in Nat /\ Len(t) \in Nat /\ Len(u) = Len(s) + Len(t) /\ DOMAIN u = 1..Len(u)
      /\ DOMAIN s = 1..Len(s) /\ DOMAIN t = 1..Len(t)
  OBVIOUS
<1>2. \A i \in 1..Len(s) : u[i] = s[i] /\ i \in DOMAIN u
  BY <1>1
<1>3. \A i \in 1..Len(t) : u[Len(s) + i] = t[i] /\ Len(s) + i \in DOMAIN u
  BY <1>1
<1> HIDE DEF u
<1>4. ASSUME NEW i \in DOMAIN u PROVE u[i] \in ElementsOf(s) \cup ElementsOf(t)
  <2>1. CASE i \in 1..Len(s)
    BY <1>1, <1>2, <2>1 DEF ElementsOf
  <2>2. CASE ~(i \in 1..Len(s))
    <3>1. i - Len(s) \in 1..Len(t) /\ Len(s) + (i - Len(s)) = i
      BY <1>1, <2>2
    <3>2. u[i] = t[i - Len(s)]
      BY <1>3, <3>1
    <3> QED BY <1>1, <3>1, <3>2 DEF ElementsOf
  <2> QED BY <2>1, <2>2
<1>5. ElementsOf(s) \subseteq ElementsOf(u)
  BY <1>1, <1>2 DEF ElementsOf
<1>6. ElementsOf(t) \subseteq ElementsOf(u)
  BY <1>1, <1>3 DEF ElementsOf
<1>7. ElementsOf(u) \subseteq ElementsOf(s) \cup ElementsOf(t)
  BY <1>4 DEF ElementsOf
<1> QED BY <1>5, <1>6, <1>7 DEF u

LEMMA LengthJoin ==
    ASSUME NEW C, NEW s \in Seq(C), NEW t \in Seq(C), Distinct(s), Distinct(t),
           ElementsOf(s) \cap ElementsOf(t) = {}
    PROVE  Len(s \o t) = Cardinality(ElementsOf(s) \cup ElementsOf(t))
<1>1. IsFiniteSet(ElementsOf(s)) /\ Cardinality(ElementsOf(s)) = Len(s)
  BY DistinctLength
<1>2. IsFiniteSet(ElementsOf(t)) /\ Cardinality(ElementsOf(t)) = Len(t)
  BY DistinctLength
<1>3. Cardinality(ElementsOf(s) \cup ElementsOf(t))
          = Cardinality(ElementsOf(s)) + Cardinality(ElementsOf(t)) - Cardinality(ElementsOf(s) \cap ElementsOf(t))
  BY <1>1, <1>2, FS_Union
<1>4. Cardinality({}) = 0
  BY FS_EmptySet
<1>5. Len(s \o t) = Len(s) + Len(t) /\ Len(s) \in Nat /\ Len(t) \in Nat
  OBVIOUS
<1>6. Cardinality(ElementsOf(s) \cup ElementsOf(t)) = Len(s) + Len(t) - Cardinality({})
  BY <1>1, <1>2, <1>3
<1> QED BY <1>4, <1>5, <1>6

Edge(q, shown) == (UNION {ElementsOf(Followed(c, q.firstParent)) : c \in shown}) \ shown

\* What is shown of a query that goes forward, and its boundary.
LEMMA BoundaryIs ==
    ASSUME HistoryOK, NEW q, QueryOK(q), q.reverse = FALSE
    PROVE  LET shown == ElementsOf(Stream(q))
           IN  /\ Stream(q) \in Seq(Commits) /\ Distinct(Stream(q)) /\ shown \subseteq Selected(q)
               /\ BoundaryStream(q) \in Seq(Commits)
               /\ ElementsOf(BoundaryStream(q)) = shown \cup Edge(q, shown)
               /\ Len(BoundaryStream(q)) = Cardinality(shown \cup Edge(q, shown))
<1> DEFINE s == Stream(q)
           shown == ElementsOf(s)
           b == BoundaryOf(shown, q)
<1>1. s \in Seq(Commits) /\ Distinct(s) /\ shown \subseteq Selected(q)
  <2>1. Listed(q) \in Seq(Commits) /\ Distinct(Listed(q)) /\ ElementsOf(Listed(q)) \subseteq Selected(q)
    BY ListedIs DEF Listing
  <2>2. s = Cut(Listed(q), q)
    BY StreamIs
  <2> HIDE DEF s
  <2> QED BY <2>1, <2>2, CutIs
<1>2. Forward(q) = q
  BY DEF Forward, QueryOK, Fields
<1>3. BoundaryStream(q) = s \o b
  <2>1. BoundaryStream(q) = WithBoundary(s, q)
    BY <1>2 DEF Mode, BoundaryStream, AgeFilterBoundary, Stream, OldestBoundary, ParentFilterBoundary,
       ListBoundary
  <2> QED BY <2>1 DEF WithBoundary, Turned
<1> HIDE DEF s
<1>4. Edge(q, shown) \in SUBSET Commits
  <2>1. shown \subseteq Commits
    BY <1>1, SelectedIs
  <2>2. \A c \in Commits : ElementsOf(Followed(c, q.firstParent)) \subseteq Commits
    BY ParentsAreBelow
  <2> HIDE DEF shown
  <2> QED BY <2>1, <2>2 DEF Edge
<1>5. Lists(b, Edge(q, shown))
  BY <1>4, OrderedLists DEF BoundaryOf, Edge
<1> HIDE DEF shown, b
<1>6. b \in Seq(Commits) /\ Distinct(b) /\ ElementsOf(b) = Edge(q, shown)
  <2>1. b \in Seq(Edge(q, shown)) /\ Distinct(b) /\ ElementsOf(b) = Edge(q, shown)
    BY <1>5 DEF Lists
  <2> DEFINE E == Edge(q, shown)
  <2>2. b \in Seq(E) /\ E \in SUBSET Commits
    BY <1>4, <2>1
  <2> HIDE DEF E
  <2>3. b \in Seq(Commits)
    BY <2>2
  <2> QED BY <2>1, <2>3
<1>7. shown = ElementsOf(s)
  BY DEF shown
<1>8. ElementsOf(s \o b) = shown \cup Edge(q, shown)
  BY <1>1, <1>6, <1>7, ElementsJoin
<1>9. Len(s \o b) = Cardinality(shown \cup Edge(q, shown))
  BY <1>6, <1>7, <1>1, LengthJoin DEF Edge
<1>10. s \o b \in Seq(Commits)
  BY <1>1, <1>6
<1> QED BY <1>1, <1>3, <1>8, <1>9, <1>10 DEF s, shown

CountedTo(q, n) == [q EXCEPT !.count = n]

LEMMA CountIs ==
    ASSUME HistoryOK, NEW q, QueryOK(q), NEW n \in Nat, NEW r, r = CountedTo(q, n)
    PROVE  QueryOK(r) /\ Same(q, r) /\ r.side = q.side /\ r.reverse = q.reverse
<1>1. DOMAIN q = Fields
  BY DEF QueryOK
<1>2. r = [x \in Fields |-> IF x = "count" THEN n ELSE q[x]]
  BY <1>1 DEF Fields, QueryOK, CountedTo
<1>3. r = [x \in Fields |-> r[x]]
  BY <1>2
<1>4. r.count = n
  BY <1>2 DEF Fields
<1>5. Same(q, r) /\ r.oldest = q.oldest /\ r.side = q.side /\ r.reverse = q.reverse /\ r.skip = q.skip
  BY <1>2 DEF Fields, Same
<1>6. QueryOK(r)
  BY <1>4, <1>5, <1>3, LimitsChange DEF QueryOK
<1> QED BY <1>5, <1>6

LEMMA BoundaryStreamIs ==
    ASSUME HistoryOK, NEW q, QueryOK(q), q.reverse = FALSE, NEW shown, shown = ElementsOf(Stream(q)),
           NEW edge, edge = ElementsOf(BoundaryStream(q)) \ shown
    PROVE  /\ shown \subseteq Selected(q)
           /\ edge = Edge(q, shown)
           /\ Len(BoundaryStream(q)) = Cardinality(shown \cup edge)
           /\ \A c \in shown : ElementsOf(Followed(c, q.firstParent)) \subseteq shown \cup edge
           /\ \A c \in edge : BoundaryChildren(c, q) # <<>>
<1> DEFINE b == BoundaryStream(q)
<1>1. /\ shown \subseteq Selected(q) /\ b \in Seq(Commits)
      /\ ElementsOf(b) = shown \cup Edge(q, shown)
      /\ Len(b) = Cardinality(shown \cup Edge(q, shown))
  BY BoundaryIs
<1> HIDE DEF b
<1>2. edge = Edge(q, shown)
  BY <1>1 DEF Edge, b
<1>3. \A c \in shown : ElementsOf(Followed(c, q.firstParent)) \subseteq shown \cup edge
  BY <1>2 DEF Edge
<1>4. ASSUME NEW c \in edge PROVE BoundaryChildren(c, q) # <<>>
  <2>1. PICK d \in shown : c \in ElementsOf(Followed(d, q.firstParent))
    BY <1>2 DEF Edge
  <2>2. d \in Commits
    BY <1>1, <2>1, SelectedIs
  <2>3. BoundaryChildren(c, q) = Within(b, shown \cap ChildrenOf(c, q))
    BY DEF BoundaryChildren, b
  <2> DEFINE W == shown \cap ChildrenOf(c, q)
  <2> HIDE DEF W
  <2>4. ElementsOf(BoundaryChildren(c, q)) = ElementsOf(b) \cap W
    <3>1. b \in Seq(Commits)
      BY <1>1
    <3>2. ElementsOf(Within(b, W)) = ElementsOf(b) \cap W
      BY ONLY <3>1, WithinIs
    <3> QED BY <2>3, <3>2 DEF W
  <2>5. d \in ElementsOf(BoundaryChildren(c, q))
    BY <1>1, <2>1, <2>2, <2>4 DEF ChildrenOf, W
  <2>6. ElementsOf(<<>>) = {}
    BY DEF ElementsOf
  <2> QED BY <2>5, <2>6
<1> QED BY <1>1, <1>2, <1>3, <1>4 DEF b

\* Without limits the selected commits and what lies below their boundary are all that the positive
\* revision reaches.
LEMMA BoundaryStandsFor ==
    ASSUME HistoryOK, NEW q, AskedOK(q), q.sym = <<>>, Selected(q) # {}
    PROVE  Selected(q) \cup Walk(Edge(q, Selected(q)), q.firstParent) = Walk(q.pos, q.firstParent)
<1> DEFINE fp == q.firstParent
           S == Selected(q)
           E == Edge(q, S)
           P == Walk(q.pos, fp)
           X == S \cup Walk(E, fp)
<1>1. QueryOK(q)
  BY DEF AskedOK
<1>2. PICK p \in Commits : q.pos = {p}
  BY DEF AskedOK
<1>3. S = P \ Walk(q.neg, fp) /\ q.pos \in SUBSET Commits /\ q.neg \in SUBSET Commits
  BY <1>1 DEF Selected, QueryOK
<1>4. S \in SUBSET Commits
  BY <1>1, SelectedIs
<1>5. \A c \in P : ElementsOf(Followed(c, fp)) \subseteq P
  BY <1>3, WalkGoesOn
<1>6. \A c \in S : ElementsOf(Followed(c, fp)) \subseteq S \cup E
  BY DEF Edge
<1>7. E \subseteq P
  <2> HIDE DEF P, fp
  <2>1. S \subseteq P
    BY <1>3
  <2> HIDE DEF S
  <2> QED BY <1>5, <2>1 DEF Edge, fp
<1>8. P \subseteq Commits /\ q.pos \subseteq P
  BY <1>3, WalkHolds
<1>9. p \in S
  BY <1>2, <1>3, <1>8, WalkHoldsWalks
<1>10. E \in SUBSET Commits
  BY <1>7, <1>8
<1>11. Walk(E, fp) \subseteq P
  BY <1>3, <1>7, WalkHoldsWalks
<1>12. E \subseteq Walk(E, fp) /\ \A c \in Walk(E, fp) : ElementsOf(Followed(c, fp)) \subseteq Walk(E, fp)
  BY <1>10, WalkHolds, WalkGoesOn
<1> HIDE DEF E, S, fp
<1>13. \A c \in X \cap Commits : ElementsOf(Followed(c, fp)) \subseteq X
  BY <1>6, <1>12
<1>14. q.pos \in SUBSET (X \cap Commits)
  BY <1>2, <1>9
<1>15. P \subseteq X
  <2> HIDE DEF X
  <2> QED BY <1>13, <1>14, WalkStaysIn
<1>16. S \subseteq P
  BY <1>3
<1> QED BY <1>11, <1>15, <1>16 DEF E, S, fp

\* Every parent of a shown commit is shown or boundary, the boundary is no more than that, and
\* without limits it stands for the rest of the history. (rev_list_boundary and its filtered forms)
THEOREM BoundariesClose == Spec => []BoundaryCloses
<1>1. HistoryOK => BoundaryCloses
  <2> SUFFICES ASSUME HistoryOK, NEW q \in Queries
               PROVE  LET page == [q EXCEPT !.count = 2]
                          shown == ElementsOf(Stream(page))
                          edge == ElementsOf(BoundaryStream(page)) \ shown
                      IN  /\ \A c \in shown : ElementsOf(Followed(c, q.firstParent)) \subseteq shown \cup edge
                          /\ \A c \in edge : BoundaryChildren(c, page) # <<>>
                          /\ Len(BoundaryStream(page)) = Cardinality(shown \cup edge)
                          /\ q.sym = <<>> /\ Stream(q) # <<>> /\ ElementsOf(Stream(q)) = Selected(q) =>
                                 Selected(q) \cup Walk(ElementsOf(BoundaryStream(q)) \ Selected(q), q.firstParent)
                                     = Walk(q.pos, q.firstParent)
    BY DEF BoundaryCloses
  <2> DEFINE page == CountedTo(q, 2)
             shown == ElementsOf(Stream(page))
             edge == ElementsOf(BoundaryStream(page)) \ shown
  <2>1. AskedOK(q) /\ QueryOK(q) /\ q.reverse = FALSE
    BY QueriesAre DEF AskedOK
  <2>2. QueryOK(page) /\ Same(q, page) /\ page.reverse = q.reverse
    BY <2>1, CountIs
  <2> HIDE DEF page
  <2>3. page.reverse = FALSE /\ page.firstParent = q.firstParent
    BY <2>1, <2>2 DEF Same
  <2> HIDE DEF shown, edge
  <2>4. shown = ElementsOf(Stream(page)) /\ edge = ElementsOf(BoundaryStream(page)) \ shown
    BY DEF shown, edge
  <2>5. /\ Len(BoundaryStream(page)) = Cardinality(shown \cup edge)
        /\ \A c \in shown : ElementsOf(Followed(c, page.firstParent)) \subseteq shown \cup edge
        /\ \A c \in edge : BoundaryChildren(c, page) # <<>>
    BY <2>2, <2>3, <2>4, BoundaryStreamIs
  <2>6. ASSUME q.sym = <<>>, Stream(q) # <<>>, ElementsOf(Stream(q)) = Selected(q)
        PROVE  Selected(q) \cup Walk(ElementsOf(BoundaryStream(q)) \ Selected(q), q.firstParent)
                   = Walk(q.pos, q.firstParent)
    <3>1. PICK S, e : S = ElementsOf(Stream(q)) /\ e = ElementsOf(BoundaryStream(q)) \ S
      OBVIOUS
    <3>2. e = Edge(q, S) /\ S = Selected(q)
      BY <2>1, <2>6, <3>1, BoundaryStreamIs
    <3>3. Selected(q) # {}
      <4>1. Stream(q) \in Seq(Commits)
        BY <2>1, BoundaryIs
      <4> DEFINE s == Stream(q)
      <4>2. s \in Seq(Commits) /\ s # <<>>
        BY <2>6, <4>1
      <4> HIDE DEF s
      <4>3. 1 \in DOMAIN s
        BY <4>2
      <4>4. s[1] \in ElementsOf(s)
        BY <4>3 DEF ElementsOf
      <4> QED BY <2>6, <4>4 DEF s
    <3> QED BY <2>1, <2>6, <3>1, <3>2, <3>3, BoundaryStandsFor
  <2> QED BY <2>3, <2>5, <2>6 DEF page, shown, edge, CountedTo
<1> QED BY <1>1, HistoryInvariant, PTL

-----------------------------------------------------------------------------
(***************************************************************************)
(* Objects.                                                                *)
(***************************************************************************)
LEMMA CommitOf == \A c, d : <<"commit", c>> \in Content(d) <=> c = d
BY DEF Content

\* The commits excluded and the commits selected make up all that is asked for.
Wanted(q) == IF q.sym = <<>> THEN q.pos ELSE ElementsOf(q.sym)

LEMMA ExcludedIs ==
    ASSUME HistoryOK, NEW q, QueryOK(q)
    PROVE  LET H == Walk(ExclusionRoots(q), q.firstParent)
               W == Walk(Wanted(q), q.firstParent)
           IN  Selected(q) \cap H = {} /\ Selected(q) \cup H = W \cup H
<1> DEFINE fp == q.firstParent
<1>1. CASE q.sym = <<>>
  BY <1>1 DEF ExclusionRoots, Wanted, Selected
<1>2. CASE q.sym # <<>>
  <2> DEFINE a == {q.sym[1]}
             b == {q.sym[2]}
             L == Walk(a, fp)
             R == Walk(b, fp)
  <2>1. a \in SUBSET Commits /\ b \in SUBSET Commits /\ ElementsOf(q.sym) = a \cup b
    BY <1>2 DEF QueryOK
  <2>2. ExclusionRoots(q) = L \cap R /\ Selected(q) = (L \ R) \cup (R \ L) /\ Wanted(q) = a \cup b
    BY <1>2, <2>1 DEF ExclusionRoots, Selected, Wanted
  <2> HIDE DEF a, b
  <2>3. Walk(a \cup b, fp) = L \cup R
    BY WalkOfUnion
  <2>4. Walk(L \cap R, fp) = L \cap R
    BY <2>1, WalkHolds, WalkHoldsWalks
  <2> HIDE DEF L, R
  <2> QED BY <2>2, <2>3, <2>4
<1> QED BY <1>1, <1>2

LEMMA ObjectsAre ==
    ASSUME HistoryOK, NEW q, QueryOK(q), q.side \in {"none", "both"}
    PROVE  Objects(q) = ObjectsOf(Stream(q), q)
<1>1. Mode(q) \in {"age", "oldest", "parents", "plain"}
  BY DEF Mode
<1>2. CASE Mode(q) = "age"
  BY <1>2 DEF Objects, AgeFilterObjects, Stream
<1>3. CASE Mode(q) = "oldest"
  BY <1>3 DEF Objects, OldestObjects, Stream
<1>4. CASE Mode(q) = "parents"
  BY <1>4 DEF Objects, ParentFilterObjects, Stream
<1>5. CASE Mode(q) = "plain"
  BY PlainIs, <1>5 DEF OfSide, RevList, Full, Objects, ListObjects, Stream
<1> QED BY <1>1, <1>2, <1>3, <1>4, <1>5

\* Contents of commits.
LEMMA Contents ==
    ASSUME NEW S, NEW H, NEW W, S \cup H = W \cup H
    PROVE  (UNION {Content(c) : c \in S}) \ (UNION {Content(c) : c \in H})
               = (UNION {Content(c) : c \in W}) \ (UNION {Content(c) : c \in H})
OBVIOUS

LEMMA ObjectsComplete ==
    ASSUME HistoryOK, NEW q, QueryOK(q), q.side \in {"none", "both"}, NEW had,
           had = ReachableObjects(ExclusionRoots(q), q.firstParent)
    PROVE  /\ ElementsOf(Stream(q)) = Selected(q) =>
                  /\ had \cup Objects(q) = had \cup ReachableObjects(Wanted(q), q.firstParent)
                  /\ Objects(q) = ReachableObjects(Wanted(q), q.firstParent) \ had
           /\ had \cap Objects(q) = {}
           /\ {c \in Commits : <<"commit", c>> \in Objects(q)} = ElementsOf(Stream(q))
<1> DEFINE H == Walk(ExclusionRoots(q), q.firstParent)
           W == Walk(Wanted(q), q.firstParent)
           shown == ElementsOf(Stream(q))
           sent == UNION {Content(c) : c \in shown}
<1>1. Selected(q) \cap H = {} /\ Selected(q) \cup H = W \cup H
  BY ExcludedIs
<1>2. Objects(q) = sent \ had
  BY ObjectsAre DEF ObjectsOf
<1>3. had = UNION {Content(c) : c \in H}
  BY DEF ReachableObjects
<1>4. ReachableObjects(Wanted(q), q.firstParent) = UNION {Content(c) : c \in W}
  BY DEF ReachableObjects
<1>5. shown \subseteq Selected(q) /\ Selected(q) \in SUBSET Commits
  BY ListedIs, CutIs, StreamIs, SelectedIs DEF Listing
<1> HIDE DEF H, W, shown
<1>6. ASSUME shown = Selected(q)
      PROVE  had \cup Objects(q) = had \cup ReachableObjects(Wanted(q), q.firstParent)
             /\ Objects(q) = ReachableObjects(Wanted(q), q.firstParent) \ had
  <2>1. shown \cup H = W \cup H
    BY <1>1, <1>6
  <2>2. sent \ had = ReachableObjects(Wanted(q), q.firstParent) \ had
    BY <1>3, <1>4, <2>1, Contents
  <2> HIDE DEF sent
  <2> QED BY <1>2, <2>2
<1>7. ASSUME NEW c \in Commits PROVE <<"commit", c>> \in Objects(q) <=> c \in shown
  BY CommitOf, <1>3, <1>1, <1>2, <1>5
<1>8. {c \in Commits : <<"commit", c>> \in Objects(q)} = shown
  BY <1>5, <1>7
<1> QED BY <1>2, <1>6, <1>8 DEF shown

\* Whoever has what is excluded and gets the objects listed has all that was asked for, and gets
\* nothing twice; a page brings no commit but its own. (rev_list_objects, its filtered forms,
\* select_pack_objects)
THEOREM ObjectsEnough == Spec => []ObjectsSuffice
<1>1. HistoryOK => ObjectsSuffice
  <2> SUFFICES ASSUME HistoryOK, NEW q \in Queries, q.side \in {"none", "both"}
               PROVE  LET had == ReachableObjects(ExclusionRoots(q), q.firstParent)
                          page == [q EXCEPT !.count = 2]
                          wanted == IF q.sym = <<>> THEN q.pos ELSE ElementsOf(q.sym)
                      IN  /\ ElementsOf(Stream(q)) = Selected(q) =>
                                 /\ had \cup Objects(q) = had \cup ReachableObjects(wanted, q.firstParent)
                                 /\ ~q.firstParent /\ q.sym = <<>> => Objects(q) = PackObjects(q.pos, q.neg)
                          /\ had \cap Objects(q) = {}
                          /\ {c \in Commits : <<"commit", c>> \in Objects(page)} = ElementsOf(Stream(page))
    BY DEF ObjectsSuffice
  <2> DEFINE had == ReachableObjects(ExclusionRoots(q), q.firstParent)
             page == CountedTo(q, 2)
  <2>1. QueryOK(q)
    BY QueriesAre DEF AskedOK
  <2>2. QueryOK(page) /\ page.side \in {"none", "both"}
    BY <2>1, CountIs
  <2> HIDE DEF page
  <2>3. {c \in Commits : <<"commit", c>> \in Objects(page)} = ElementsOf(Stream(page))
    BY <2>2, ObjectsComplete
  <2>4. had = ReachableObjects(ExclusionRoots(q), q.firstParent)
    OBVIOUS
  <2> HIDE DEF had
  <2>5. had \cap Objects(q) = {}
    BY <2>1, <2>4, ObjectsComplete
  <2>6. ASSUME ElementsOf(Stream(q)) = Selected(q)
        PROVE  /\ had \cup Objects(q) = had \cup ReachableObjects(Wanted(q), q.firstParent)
               /\ Objects(q) = ReachableObjects(Wanted(q), q.firstParent) \ had
    BY <2>1, <2>4, <2>6, ObjectsComplete
  <2>7. ASSUME ElementsOf(Stream(q)) = Selected(q), ~q.firstParent, q.sym = <<>>
        PROVE  Objects(q) = PackObjects(q.pos, q.neg)
    BY <2>1, <2>7, <2>4, <2>6 DEF QueryOK, Wanted, ExclusionRoots, PackObjects
  <2> QED BY <2>3, <2>5, <2>6, <2>7 DEF page, CountedTo, had, Wanted
<1> QED BY <1>1, HistoryInvariant, PTL

-----------------------------------------------------------------------------
(***************************************************************************)
(* Names. First, functions of which each value is made from the one before.*)
(***************************************************************************)
Iterates(f, n, a, h) == f[0] = a /\ \A i \in 1..n : f[i] = h[i][f[i - 1]]

LEMMA IterationDefines ==
    ASSUME NEW n \in Nat, NEW X, NEW a \in X, NEW h \in [1..n -> [X -> X]]
    PROVE  \E f \in [0..n -> X] : Iterates(f, n, a, h)
<1> DEFINE Value(i, f) == IF i = 0 THEN a ELSE h[i][f[i - 1]]
           H == [i \in 0..n |-> [f \in [0..n -> X] |-> Value(i, f)]]
<1>1. ASSUME NEW i \in 0..n, NEW f \in [0..n -> X] PROVE Value(i, f) \in X
  <2>1. CASE i = 0
    BY <2>1
  <2>2. CASE i # 0
    BY <2>2
  <2> QED BY <2>1, <2>2
<1>2. ASSUME NEW i \in 0..n, NEW f \in [0..n -> X], NEW g \in [0..n -> X],
             \A m \in 0..n : m < i => f[m] = g[m]
      PROVE  Value(i, f) = Value(i, g)
  BY <1>2
<1> HIDE DEF Value
<1>3. H \in [0..n -> [[0..n -> X] -> X]]
  BY <1>1
<1>4. \A i \in 0..n : \A f \in [0..n -> X] : H[i][f] = Value(i, f)
  OBVIOUS
<1> HIDE DEF H
<1>5. Recursion(0, n, X, H)
  <2>1. ASSUME NEW i \in 0..n, NEW f \in [0..n -> X], NEW g \in [0..n -> X],
               \A m \in 0..n : m < i => f[m] = g[m]
        PROVE  H[i][f] = H[i][g]
    BY <1>2, <1>4, <2>1
  <2> QED BY <1>3, <2>1 DEF Recursion
<1>6. PICK f : Satisfies(f, 0, n, X, H)
  <2>1. 0 \in Nat
    OBVIOUS
  <2> QED BY <1>5, <2>1, RecursionDefines
<1>7. f \in [0..n -> X] /\ f = [i \in 0..n |-> Value(i, f)]
  BY <1>4, <1>6 DEF Satisfies
<1>8. Iterates(f, n, a, h)
  BY <1>7 DEF Iterates, Value
<1> QED BY <1>7, <1>8

\* What holds of 0 and goes on to the next holds up to n.
LEMMA Onwards ==
    ASSUME NEW n \in Nat, NEW G \in SUBSET (0..n), 0 \in G, \A i \in 1..n : i - 1 \in G => i \in G
    PROVE  G = 0..n
<1> DEFINE B == (0..n) \ G
<1>1. SUFFICES ASSUME B # {} PROVE FALSE
  OBVIOUS
<1>2. B \in SUBSET Nat
  OBVIOUS
<1>3. PICK i \in B : \A y \in B : i <= y
  <2> HIDE DEF B
  <2> QED BY <1>1, <1>2, LeastOf
<1>4. i \in 1..n /\ i - 1 \in 0..n /\ i - 1 \notin B
  BY <1>3
<1> QED BY <1>3, <1>4

-----------------------------------------------------------------------------
(***************************************************************************)
(* Ways: the parents taken, one after another.                             *)
(***************************************************************************)
\* The function that Ways reads.
Leads(from) ==
    from = [c \in Commits |->
               {<<c, <<>>>>} \cup UNION {{<<w[1], <<i - 1>> \o w[2]>> : w \in from[Visible(c)[i]]} :
                                         i \in DOMAIN Visible(c)}]

WaysFrom == CHOOSE from : Leads(from)

LEMMA WaysDefined == ASSUME HistoryOK PROVE Leads(WaysFrom)
<1> DEFINE Y == Commits \X Seq(Nat)
           X == SUBSET Y
           N == Len(log)
           One(c, i, f) == {<<w[1], <<i - 1>> \o w[2]>> : w \in f[Visible(c)[i]]}
           Value(c, f) == {<<c, <<>>>>} \cup UNION {One(c, i, f) : i \in DOMAIN Visible(c)}
           h == [c \in 1..N |-> [f \in [1..N -> X] |-> Value(c, f)]]
<1>0. Commits = 1..N /\ N \in Nat
  BY CommitsAre
<1>1. ASSUME NEW c \in Commits, NEW i \in DOMAIN Visible(c)
      PROVE  i \in Nat /\ i > 0 /\ Visible(c)[i] \in Commits /\ Visible(c)[i] < c
  BY ParentsAreBelow DEF ElementsOf
<1>2. ASSUME NEW c \in 1..N, NEW f \in [1..N -> X] PROVE Value(c, f) \in X
  <2>1. ASSUME NEW i \in DOMAIN Visible(c) PROVE One(c, i, f) \subseteq Y
    <3>1. f[Visible(c)[i]] \subseteq Y /\ i - 1 \in Nat
      BY <1>0, <1>1
    <3>2. ASSUME NEW w \in f[Visible(c)[i]] PROVE <<w[1], <<i - 1>> \o w[2]>> \in Y
      <4>1. w[1] \in Commits /\ w[2] \in Seq(Nat)
        BY <3>1
      <4>2. <<i - 1>> \o w[2] \in Seq(Nat)
        BY <3>1, <4>1
      <4> QED BY <4>1, <4>2
    <3> HIDE DEF Y
    <3> QED BY <3>2
  <2>2. <<c, <<>>>> \in Y
    <3>1. <<>> \in Seq(Nat)
      OBVIOUS
    <3> QED BY <1>0, <3>1
  <2> HIDE DEF One, Y
  <2> QED BY <2>1, <2>2
<1>3. ASSUME NEW c \in 1..N, NEW f \in [1..N -> X], NEW g \in [1..N -> X],
             \A m \in 1..N : m < c => f[m] = g[m]
      PROVE  Value(c, f) = Value(c, g)
  <2>1. ASSUME NEW i \in DOMAIN Visible(c) PROVE One(c, i, f) = One(c, i, g)
    BY <1>0, <1>1, <1>3
  <2> HIDE DEF One
  <2> QED BY <2>1
<1> HIDE DEF Value
<1>4. h \in [1..N -> [[1..N -> X] -> X]]
  <2> HIDE DEF X
  <2> QED BY <1>2
<1>5. \A c \in 1..N : \A f \in [1..N -> X] : h[c][f] = Value(c, f)
  OBVIOUS
<1>6. {} \in X
  OBVIOUS
<1> HIDE DEF h, X
<1>7. Recursion(1, N, X, h)
  <2>1. ASSUME NEW c \in 1..N, NEW f \in [1..N -> X], NEW g \in [1..N -> X],
               \A m \in 1..N : m < c => f[m] = g[m]
        PROVE  h[c][f] = h[c][g]
    BY <1>3, <1>5, <2>1
  <2> QED BY <1>4, <2>1 DEF Recursion
<1>8. PICK f : Satisfies(f, 1, N, X, h)
  BY <1>0, <1>6, <1>7, RecursionDefines
<1>9. f = [c \in Commits |-> Value(c, f)]
  BY <1>0, <1>5, <1>8 DEF Satisfies
<1>10. Leads(f)
  BY <1>9 DEF Leads, Value
<1> QED BY <1>10 DEF WaysFrom

LEMMA WaysRead == \A tip : Ways(tip) = WaysFrom[tip]
BY DEF Ways, WaysFrom, Leads

\* A way leads to where its steps go on from there, or it has no step.
LEMMA WayCases ==
    ASSUME HistoryOK, NEW c \in Commits, NEW w
    PROVE  w \in Ways(c) <=> \/ w = <<c, <<>>>>
                             \/ \E i \in DOMAIN Visible(c) : \E v \in Ways(Visible(c)[i]) :
                                    w = <<v[1], <<i - 1>> \o v[2]>>
<1>1. Ways(c) = WaysFrom[c] /\ \A i \in DOMAIN Visible(c) : Ways(Visible(c)[i]) = WaysFrom[Visible(c)[i]]
  BY WaysRead
<1>2. WaysFrom[c] = {<<c, <<>>>>} \cup UNION {{<<w_1[1], <<i - 1>> \o w_1[2]>> : w_1 \in WaysFrom[Visible(c)[i]]} :
                                         i \in DOMAIN Visible(c)}
  BY WaysDefined DEF Leads
<1> DEFINE One(i) == {<<v[1], <<i - 1>> \o v[2]>> : v \in Ways(Visible(c)[i])}
<1>3. Ways(c) = {<<c, <<>>>>} \cup UNION {One(i) : i \in DOMAIN Visible(c)}
  <2> DEFINE Was(i) == {<<v[1], <<i - 1>> \o v[2]>> : v \in WaysFrom[Visible(c)[i]]}
  <2>1. WaysFrom[c] = {<<c, <<>>>>} \cup UNION {Was(i) : i \in DOMAIN Visible(c)}
    BY <1>2
  <2>2. \A i \in DOMAIN Visible(c) : Was(i) = One(i)
    BY <1>1
  <2> HIDE DEF Was, One
  <2> QED BY <1>1, <2>1, <2>2
<1>4. \A i \in DOMAIN Visible(c) : w \in One(i) <=> \E v \in Ways(Visible(c)[i]) : w = <<v[1], <<i - 1>> \o v[2]>>
  OBVIOUS
<1> HIDE DEF One
<1> QED BY <1>3, <1>4

\* The commits that a way passes.
Passes(at, tip, way) ==
    /\ at \in [0..Len(way) -> Commits]
    /\ at[0] = tip
    /\ \A k \in 1..Len(way) : /\ way[k] + 1 \in DOMAIN Visible(at[k - 1])
                              /\ at[k] = Visible(at[k - 1])[way[k] + 1]

LEMMA WaysLead ==
    ASSUME HistoryOK, NEW c \in Commits, NEW w \in Ways(c)
    PROVE  /\ w \in Commits \X Seq(Nat)
           /\ \E at : Passes(at, c, w[2]) /\ at[Len(w[2])] = w[1]
<1> DEFINE Good(x) == \A v \in Ways(x) : /\ v \in Commits \X Seq(Nat)
                                         /\ \E at : Passes(at, x, v[2]) /\ at[Len(v[2])] = v[1]
           B == {x \in Commits : ~Good(x)}
<1>1. SUFFICES ASSUME B # {} PROVE FALSE
  OBVIOUS
<1>2. B \in SUBSET Nat /\ Commits \subseteq Nat
  BY CommitsAre
<1>3. PICK x \in B : \A y \in B : x <= y
  <2> HIDE DEF B
  <2> QED BY <1>1, <1>2, LeastOf
<1>4. ASSUME NEW i \in DOMAIN Visible(x)
      PROVE  i \in Nat /\ i > 0 /\ Visible(x)[i] \in Commits /\ Good(Visible(x)[i])
  <2>1. Visible(x) \in Seq(Nat) /\ \A p \in ElementsOf(Visible(x)) : p \in Commits /\ p < x
    BY ParentsAreBelow
  <2>2. Visible(x)[i] \in Commits /\ Visible(x)[i] < x /\ i \in Nat /\ i > 0
    BY <2>1 DEF ElementsOf
  <2>3. Visible(x)[i] \notin B
    BY <1>2, <1>3, <2>2
  <2> HIDE DEF Good
  <2> QED BY <2>2, <2>3
<1>5. ASSUME NEW v \in Ways(x)
      PROVE  v \in Commits \X Seq(Nat) /\ \E at : Passes(at, x, v[2]) /\ at[Len(v[2])] = v[1]
  <2>1. CASE v = <<x, <<>>>>
    <3> DEFINE at == [k \in 0..0 |-> x]
    <3>1. v[2] = <<>> /\ v[1] = x /\ Len(<<>>) = 0 /\ v \in Commits \X Seq(Nat)
      <4>1. <<>> \in Seq(Nat) /\ Len(<<>>) = 0
        OBVIOUS
      <4> QED BY <1>3, <2>1, <4>1
    <3>2. Passes(at, x, <<>>) /\ at[0] = x
      BY <3>1 DEF Passes
    <3> QED BY <3>1, <3>2
  <2>2. ASSUME NEW i \in DOMAIN Visible(x), NEW u \in Ways(Visible(x)[i]), v = <<u[1], <<i - 1>> \o u[2]>>
        PROVE  v \in Commits \X Seq(Nat) /\ \E at : Passes(at, x, v[2]) /\ at[Len(v[2])] = v[1]
    <3> DEFINE p == Visible(x)[i]
               s == u[2]
    <3>1. i \in Nat /\ i > 0 /\ p \in Commits /\ Good(p)
      BY <1>4
    <3>2. u \in Commits \X Seq(Nat)
      BY <3>1
    <3>3. PICK at : Passes(at, p, s) /\ at[Len(s)] = u[1]
      BY <3>1
    <3> DEFINE new == [k \in 0..(Len(s) + 1) |-> IF k = 0 THEN x ELSE at[k - 1]]
    <3> HIDE DEF p, Good
    <3>4. s \in Seq(Nat) /\ i - 1 \in Nat /\ v[1] = u[1] /\ v[2] = <<i - 1>> \o s /\ u[1] \in Commits
      BY <2>2, <3>1, <3>2
    <3> HIDE DEF s
    <3>5. v[2] \in Seq(Nat) /\ Len(v[2]) = Len(s) + 1 /\ Len(s) \in Nat
          /\ v[2][1] = i - 1 /\ \A k \in 2..(Len(s) + 1) : v[2][k] = s[k - 1]
      BY <3>4
    <3>6. at \in [0..Len(s) -> Commits] /\ at[0] = p
          /\ \A k \in 1..Len(s) : s[k] + 1 \in DOMAIN Visible(at[k - 1]) /\ at[k] = Visible(at[k - 1])[s[k] + 1]
      BY <3>3 DEF Passes
    <3>7. new \in [0..Len(v[2]) -> Commits] /\ new[0] = x /\ new[Len(v[2])] = v[1]
      BY <3>3, <3>4, <3>5, <3>6
    <3>8. ASSUME NEW k \in 1..Len(v[2])
          PROVE  v[2][k] + 1 \in DOMAIN Visible(new[k - 1]) /\ new[k] = Visible(new[k - 1])[v[2][k] + 1]
      <4>1. CASE k = 1
        BY <3>1, <3>4, <3>5, <3>6, <4>1 DEF p
      <4>2. CASE k # 1
        <5> DEFINE j == k - 1
        <5>1. j \in 1..Len(s) /\ k \in 2..(Len(s) + 1) /\ k - 1 \in 0..(Len(s) + 1) /\ k - 1 # 0
          BY <3>5, <4>2
        <5>2. v[2][k] = s[j] /\ new[k] = at[j] /\ new[k - 1] = at[j - 1]
          BY <3>5, <5>1
        <5> QED BY <3>6, <5>1, <5>2
      <4> QED BY <4>1, <4>2
    <3>9. Passes(new, x, v[2])
      BY <3>7, <3>8 DEF Passes
    <3>10. v \in Commits \X Seq(Nat)
      BY <2>2, <3>4, <3>5
    <3> QED BY <3>7, <3>9, <3>10
  <2> HIDE DEF Good
  <2>3. x \in Commits
    BY <1>3
  <2>4. v = <<x, <<>>>> \/ \E i \in DOMAIN Visible(x) : \E u \in Ways(Visible(x)[i]) : v = <<u[1], <<i - 1>> \o u[2]>>
    BY <2>3, WayCases
  <2> QED BY <2>1, <2>2, <2>4
<1>6. Good(x)
  BY <1>5
<1> QED BY <1>3, <1>6

\* There is a way to whatever lies below.
LEMMA WaysReach ==
    ASSUME HistoryOK, NEW c \in Commits, NEW d \in Ancestors(c)
    PROVE  \E w \in Ways(c) : w[1] = d
<1> DEFINE Good(x) == \A y \in Ancestors(x) : \E w \in Ways(x) : w[1] = y
           B == {x \in Commits : ~Good(x)}
<1>1. SUFFICES ASSUME B # {} PROVE FALSE
  OBVIOUS
<1>2. B \in SUBSET Nat /\ Commits \subseteq Nat
  BY CommitsAre
<1>3. PICK x \in B : \A y \in B : x <= y
  <2> HIDE DEF B
  <2> QED BY <1>1, <1>2, LeastOf
<1>4. ASSUME NEW y \in Ancestors(x) PROVE \E w \in Ways(x) : w[1] = y
  <2>1. CASE y = x
    <3>1. <<x, <<>>>> \in Ways(x)
      BY <1>3, WayCases
    <3> QED BY <2>1, <3>1
  <2>2. CASE y # x
    <3>1. PICK p \in ElementsOf(Visible(x)) : y \in Ancestors(p)
      BY <1>3, <2>2, AncestorsAre
    <3>2. p \in Commits /\ p < x
      BY <1>3, ParentsAreBelow
    <3>3. p \notin B
      BY <1>2, <1>3, <3>2
    <3>4. PICK v \in Ways(p) : v[1] = y
      BY <3>1, <3>2, <3>3
    <3>5. PICK i \in DOMAIN Visible(x) : p = Visible(x)[i]
      BY <3>1 DEF ElementsOf
    <3>6. <<v[1], <<i - 1>> \o v[2]>> \in Ways(x)
      BY <1>3, <3>4, <3>5, WayCases
    <3> QED BY <3>4, <3>6
  <2> QED BY <2>1, <2>2
<1>5. Good(x)
  BY <1>4
<1> QED BY <1>3, <1>5

\* Of ways as long as each other there is a first, and so there is a first of the shortest.
LEMMA FirstOfWays ==
    ASSUME NEW n \in Nat, NEW W \in SUBSET Seq(Nat), W # {}, \A w \in W : Len(w) = n
    PROVE  \E w \in W : \A v \in W : ~Precedes(v, w)
<1> DEFINE Sooner(v, w, k) == \E i \in 1..k : v[i] < w[i] /\ \A j \in 1..(i - 1) : v[j] = w[j]
           Good(k) == \E w \in W : \A v \in W : ~Sooner(v, w, k)
           B == {k \in 0..n : ~Good(k)}
<1>1. Good(0)
  OBVIOUS
<1>2. ASSUME NEW k \in 0..n, k < n, Good(k) PROVE Good(k + 1)
  <2>1. PICK w \in W : \A v \in W : ~Sooner(v, w, k)
    BY <1>2
  <2> DEFINE U == {v \in W : \A j \in 1..k : v[j] = w[j]}
             V == {u[k + 1] : u \in U}
  <2>2. \A v \in W : \A j \in 1..n : v[j] \in Nat
    OBVIOUS
  <2>3. w \in U /\ k \in Nat /\ k + 1 \in 1..n
    BY <1>2
  <2>4. V \in SUBSET Nat /\ V # {}
    BY <2>2, <2>3
  <2>5. PICK m \in V : \A x \in V : m <= x
    <3> HIDE DEF V
    <3> QED BY <2>4, LeastOf
  <2>6. PICK u \in U : u[k + 1] = m
    BY <2>5
  <2>7. ASSUME NEW v \in W, NEW i \in 1..(k + 1), v[i] < u[i], \A j \in 1..(i - 1) : v[j] = u[j]
        PROVE  FALSE
    <3>1. CASE i = k + 1
      <4>1. \A j \in 1..k : v[j] = w[j]
        BY <2>3, <3>1, <2>6, <2>7
      <4>2. v[k + 1] \in V
        BY <4>1
      <4>3. m <= v[k + 1] /\ v[k + 1] < m /\ m \in Nat /\ v[k + 1] \in Nat
        BY <2>2, <2>3, <2>4, <2>5, <2>6, <2>7, <3>1, <4>2
      <4> QED BY <4>3
    <3>2. CASE i # k + 1
      <4>1. i \in 1..k /\ \A j \in 1..(i - 1) : j \in 1..k
        BY <2>3, <3>2
      <4>2. u[i] = w[i] /\ \A j \in 1..(i - 1) : u[j] = w[j]
        BY <2>6, <4>1
      <4>3. v[i] < w[i] /\ \A j \in 1..(i - 1) : v[j] = w[j]
        BY <2>7, <4>2
      <4> QED BY <2>1, <4>1, <4>3
    <3> QED BY <3>1, <3>2
  <2>8. \A v \in W : ~Sooner(v, u, k + 1)
    BY <2>7
  <2> QED BY <2>6, <2>8
<1>3. Good(n)
  <2>1. SUFFICES ASSUME ~Good(n) PROVE FALSE
    OBVIOUS
  <2>2. B \in SUBSET Nat /\ B # {}
    <3> HIDE DEF Good
    <3>1. n \in 0..n
      OBVIOUS
    <3> QED BY <2>1, <3>1
  <2>3. PICK k \in B : \A y \in B : k <= y
    <3> HIDE DEF B
    <3> QED BY <2>2, LeastOf
  <2> HIDE DEF Good
  <2>4. k # 0 /\ k - 1 \in 0..n /\ k - 1 < n /\ k - 1 \notin B /\ k \in Nat
    BY <1>1, <2>3
  <2>5. Good((k - 1) + 1)
    BY <1>2, <2>4
  <2> QED BY <2>3, <2>4, <2>5
<1>4. PICK w \in W : \A v \in W : ~Sooner(v, w, n)
  BY <1>3
<1>5. ASSUME NEW v \in W PROVE ~Precedes(v, w)
  <2>1. DOMAIN v = 1..n
    OBVIOUS
  <2> QED BY <1>4, <2>1 DEF Precedes
<1> QED BY <1>5

LEMMA ShortestFirst ==
    ASSUME NEW W \in SUBSET Seq(Nat), W # {}
    PROVE  \E w \in W : \A v \in W : Len(w) < Len(v) \/ (Len(w) = Len(v) /\ ~Precedes(v, w))
<1> DEFINE L == {Len(w) : w \in W}
<1>1. L \in SUBSET Nat /\ L # {}
  <2>1. \A w \in W : Len(w) \in Nat
    OBVIOUS
  <2> QED BY <2>1
<1>2. PICK n \in L : \A m \in L : n <= m
  <2> HIDE DEF L
  <2> QED BY <1>1, LeastOf
<1> DEFINE U == {w \in W : Len(w) = n}
<1>3. U \in SUBSET Seq(Nat) /\ U # {} /\ n \in Nat /\ \A w \in U : Len(w) = n
  BY <1>1, <1>2
<1>4. PICK w \in U : \A v \in U : ~Precedes(v, w)
  <2> HIDE DEF U
  <2> QED BY <1>3, FirstOfWays
<1>5. ASSUME NEW v \in W PROVE Len(w) < Len(v) \/ (Len(w) = Len(v) /\ ~Precedes(v, w))
  <2>1. Len(v) \in L /\ Len(v) \in Nat /\ n <= Len(v) /\ Len(w) = n
    BY <1>2, <1>3, <1>4
  <2>2. CASE Len(v) = n
    <3>1. v \in U
      BY <2>2
    <3> QED BY <1>4, <2>1, <2>2, <3>1
  <2>3. CASE Len(v) # n
    BY <1>3, <2>1, <2>3
  <2> QED BY <2>2, <2>3
<1> QED BY <1>4, <1>5

\* The way that name-rev takes leads to the commit.
LEMMA WayToLeads ==
    ASSUME HistoryOK, NEW tip \in Commits, NEW c \in Ancestors(tip)
    PROVE  /\ WayTo(tip, c) \in Seq(Nat)
           /\ \E at : Passes(at, tip, WayTo(tip, c)) /\ at[Len(WayTo(tip, c))] = c
<1> DEFINE ways == {w[2] : w \in {v \in Ways(tip) : v[1] = c}}
<1>1. \A w \in Ways(tip) : w \in Commits \X Seq(Nat) /\ \E at : Passes(at, tip, w[2]) /\ at[Len(w[2])] = w[1]
  BY WaysLead
<1>2. ways \in SUBSET Seq(Nat) /\ ways # {}
  BY <1>1, WaysReach
<1>3. WayTo(tip, c) = CHOOSE w \in ways : \A v \in ways : Len(w) < Len(v) \/ (Len(w) = Len(v) /\ ~Precedes(v, w))
  BY DEF WayTo
<1>4. WayTo(tip, c) \in ways
  <2> HIDE DEF ways
  <2> QED BY <1>2, <1>3, ShortestFirst
<1>5. PICK w \in Ways(tip) : w[1] = c /\ w[2] = WayTo(tip, c)
  BY <1>4
<1> QED BY <1>1, <1>5

-----------------------------------------------------------------------------
(***************************************************************************)
(* Suffixes: the commits they lead along, whatever grammar reads them.     *)
(***************************************************************************)
Item == [op : {"^", "~"}, n : Nat]

\* n first parents lead from c to d.
FirstsLead(c, n, d) ==
    \E f \in [0..n -> Commits] :
        /\ f[0] = c /\ f[n] = d
        /\ \A k \in 1..n : Visible(f[k - 1]) # <<>> /\ f[k] = Visible(f[k - 1])[1]

ItemLeads(x, c, d) ==
    IF x.op = "~" THEN FirstsLead(c, x.n, d)
    ELSE IF x.n = 0 THEN d = c
    ELSE x.n \in DOMAIN Visible(c) /\ d = Visible(c)[x.n]

Reading(r, tip, s) ==
    /\ r \in [0..Len(s) -> Commits]
    /\ r[0] = tip
    /\ \A k \in 1..Len(s) : ItemLeads(s[k], r[k - 1], r[k])

ReadsTo(tip, s, d) == \E r : Reading(r, tip, s) /\ r[Len(s)] = d

LEMMA OneMoreFirst ==
    ASSUME NEW c \in Commits, NEW e \in Commits, NEW d \in Commits, NEW n \in Nat, FirstsLead(c, n, e),
           Visible(e) # <<>>, d = Visible(e)[1]
    PROVE  FirstsLead(c, n + 1, d)
<1>1. PICK f \in [0..n -> Commits] :
        /\ f[0] = c /\ f[n] = e
        /\ \A k \in 1..n : Visible(f[k - 1]) # <<>> /\ f[k] = Visible(f[k - 1])[1]
  BY DEF FirstsLead
<1> DEFINE g == [k \in 0..(n + 1) |-> IF k = n + 1 THEN d ELSE f[k]]
<1>2. g \in [0..(n + 1) -> Commits] /\ g[0] = c /\ g[n + 1] = d /\ \A k \in 0..n : g[k] = f[k]
  BY <1>1
<1> HIDE DEF g
<1>3. ASSUME NEW k \in 1..(n + 1) PROVE Visible(g[k - 1]) # <<>> /\ g[k] = Visible(g[k - 1])[1]
  <2>1. CASE k = n + 1
    BY <1>1, <1>2, <2>1
  <2>2. CASE k # n + 1
    BY <2>2, <1>1, <1>2
  <2> QED BY <2>1, <2>2
<1> QED BY <1>2, <1>3 DEF FirstsLead

\* A step more.
LEMMA AppendReads ==
    ASSUME HistoryOK, NEW tip, NEW s \in Seq(Item), NEW c, ReadsTo(tip, s, c),
           NEW x \in Item, NEW d \in Commits, ItemLeads(x, c, d)
    PROVE  Append(s, x) \in Seq(Item) /\ ReadsTo(tip, Append(s, x), d)
<1>1. PICK r : Reading(r, tip, s) /\ r[Len(s)] = c
  BY DEF ReadsTo
<1> DEFINE t == Append(s, x)
           n == Len(s)
           q == [k \in 0..(n + 1) |-> IF k = n + 1 THEN d ELSE r[k]]
<1>2. t \in Seq(Item) /\ n \in Nat /\ Len(t) = n + 1 /\ t[n + 1] = x /\ \A k \in 1..n : t[k] = s[k]
  OBVIOUS
<1>3. r \in [0..n -> Commits] /\ r[0] = tip /\ \A k \in 1..n : ItemLeads(s[k], r[k - 1], r[k])
  BY <1>1 DEF Reading
<1>4. q \in [0..(n + 1) -> Commits] /\ q[0] = tip /\ q[n + 1] = d /\ \A k \in 0..n : q[k] = r[k]
  BY <1>2, <1>3
<1> HIDE DEF q, t
<1>5. ASSUME NEW k \in 1..(n + 1) PROVE ItemLeads(t[k], q[k - 1], q[k])
  <2>1. CASE k = n + 1
    BY <1>1, <1>2, <1>4, <2>1
  <2>2. CASE k # n + 1
    BY <1>2, <2>2, <1>3, <1>4
  <2> QED BY <2>1, <2>2
<1>6. Reading(q, tip, t) /\ q[Len(t)] = d
  BY <1>2, <1>4, <1>5 DEF Reading
<1> QED BY <1>2, <1>6 DEF ReadsTo, t

\* A run of first parents that goes on.
Longer(s) == [s EXCEPT ![Len(s)].n = @ + 1]

LEMMA LongerIs ==
    ASSUME NEW s \in Seq(Item)
    PROVE  /\ Longer(s) \in Seq(Item) /\ Len(Longer(s)) = Len(s)
           /\ \A k \in DOMAIN s : k # Len(s) => Longer(s)[k] = s[k]
           /\ s # <<>> => Longer(s)[Len(s)] = [op |-> s[Len(s)].op, n |-> s[Len(s)].n + 1]
<1> DEFINE n == Len(s)
           y == [s[n] EXCEPT !.n = @ + 1]
<1>1. Longer(s) = [s EXCEPT ![n] = y]
  BY DEF Longer
<1>2. CASE s = <<>>
  BY <1>2, <1>1
<1>3. CASE s # <<>>
  <2>1. n \in DOMAIN s /\ s[n] \in Item
    BY <1>3
  <2>2. y = [op |-> s[n].op, n |-> s[n].n + 1] /\ y \in Item
    BY <2>1 DEF Item
  <2> HIDE DEF y
  <2> QED BY <1>1, <2>1, <2>2
<1> QED BY <1>2, <1>3

LEMMA LongerReads ==
    ASSUME HistoryOK, NEW tip, NEW s \in Seq(Item), NEW c, ReadsTo(tip, s, c), s # <<>>, s[Len(s)].op = "~",
           NEW d \in Commits, Visible(c) # <<>>, d = Visible(c)[1]
    PROVE  ReadsTo(tip, Longer(s), d)
<1>1. PICK r : Reading(r, tip, s) /\ r[Len(s)] = c
  BY DEF ReadsTo
<1> DEFINE t == Longer(s)
           n == Len(s)
           q == [r EXCEPT ![n] = d]
<1>2. t \in Seq(Item) /\ n \in Nat /\ n > 0 /\ Len(t) = n
      /\ t[n] = [op |-> s[n].op, n |-> s[n].n + 1] /\ \A k \in 1..n : k # n => t[k] = s[k]
  BY LongerIs
<1>3. r \in [0..n -> Commits] /\ r[0] = tip /\ \A k \in 1..n : ItemLeads(s[k], r[k - 1], r[k])
  BY <1>1 DEF Reading
<1>4. q \in [0..n -> Commits] /\ q[0] = tip /\ q[n] = d /\ \A k \in 0..n : k # n => q[k] = r[k]
  BY <1>2, <1>3
<1> HIDE DEF q, t
<1>5. ASSUME NEW k \in 1..n PROVE ItemLeads(t[k], q[k - 1], q[k])
  <2>1. CASE k = n
    <3>1. s[n] \in Item /\ s[n].n \in Nat
      <4>1. s[n] \in Item
        BY <1>2
      <4> QED BY <4>1 DEF Item
    <3>2. q[k] = d /\ q[k - 1] = r[n - 1] /\ r[n - 1] \in Commits /\ t[k].op = "~" /\ t[k].n = s[n].n + 1
      BY <1>2, <1>3, <1>4, <2>1
    <3>3. FirstsLead(r[n - 1], s[n].n, c) /\ c \in Commits
      BY <1>1, <1>2, <1>3 DEF ItemLeads
    <3>4. FirstsLead(r[n - 1], s[n].n + 1, d)
      BY <3>1, <3>2, <3>3, OneMoreFirst
    <3> QED BY <3>2, <3>4 DEF ItemLeads
  <2>2. CASE k # n
    <3>1. k \in 0..n /\ k - 1 \in 0..n /\ k - 1 # n
      BY <1>2, <2>2
    <3> QED BY <1>2, <1>3, <1>4, <2>2, <3>1
  <2> QED BY <2>1, <2>2
<1>6. Reading(q, tip, t) /\ q[Len(t)] = d
  BY <1>2, <1>4, <1>5 DEF Reading
<1> QED BY <1>6 DEF ReadsTo, t

\* What Suffix builds, one step of the way after another.
Texts(text, name) ==
    text = [i \in 0..Len(name.way) |->
               IF i = 0 THEN IF name.ref.annotated THEN <<Plain(0)>> ELSE <<>>
               ELSE LET before == text[i - 1]
                    IN  CASE name.way[i] # 0 -> Append(before, Parent(name.way[i]))
                          [] name.way[i] = 0 /\ i > 1 /\ name.way[i - 1] = 0 ->
                                 [before EXCEPT ![Len(before)].n = @ + 1]
                          [] OTHER -> Append(before, [op |-> "~", n |-> 1])]

TextOf(name) == CHOOSE text : Texts(text, name)

LEMMA SuffixRead == ASSUME NEW name PROVE Suffix(name) = TextOf(name)[Len(name.way)]
BY DEF Suffix, TextOf, Texts

\* The text after one more step.
Further(way, i, before) ==
    IF way[i] # 0 THEN Append(before, Parent(way[i]))
    ELSE IF i > 1 /\ way[i - 1] = 0 THEN Longer(before)
    ELSE Append(before, [op |-> "~", n |-> 1])

LEMMA FurtherIs ==
    ASSUME NEW way \in Seq(Nat), NEW i \in 1..Len(way), NEW before \in Seq(Item)
    PROVE  Further(way, i, before) \in Seq(Item)
<1>1. way[i] \in Nat /\ Parent(way[i]) \in Item /\ [op |-> "~", n |-> 1] \in Item
  BY DEF Parent, Plain, Item
<1>2. Longer(before) \in Seq(Item)
  BY LongerIs
<1> QED BY <1>1, <1>2 DEF Further

LEMMA TextsDefined ==
    ASSUME NEW name, name.way \in Seq(Nat)
    PROVE  /\ TextOf(name)[0] = IF name.ref.annotated THEN <<Plain(0)>> ELSE <<>>
           /\ \A i \in 1..Len(name.way) : TextOf(name)[i] = Further(name.way, i, TextOf(name)[i - 1])
<1> DEFINE n == Len(name.way)
           X == Seq(Item)
           a == IF name.ref.annotated THEN <<Plain(0)>> ELSE <<>>
           h == [i \in 1..n |-> [before \in X |-> Further(name.way, i, before)]]
<1>1. a \in X
  <2>1. Plain(0) \in Item
    BY DEF Plain, Item
  <2> QED BY <2>1
<1>2. n \in Nat /\ h \in [1..n -> [X -> X]]
  <2> HIDE DEF X
  <2>1. \A i \in 1..n : \A before \in X : Further(name.way, i, before) \in X
    BY FurtherIs DEF X
  <2> QED BY <2>1
<1>3. \A i \in 1..n : \A before \in X : h[i][before] = Further(name.way, i, before)
  OBVIOUS
<1> HIDE DEF h, X, a
<1>4. PICK f \in [0..n -> X] : Iterates(f, n, a, h)
  <2> HIDE DEF n
  <2> QED BY <1>1, <1>2, IterationDefines
<1>5. f = [i \in 0..n |-> IF i = 0 THEN a ELSE Further(name.way, i, f[i - 1])]
  <2>1. ASSUME NEW i \in 0..n PROVE f[i] = IF i = 0 THEN a ELSE Further(name.way, i, f[i - 1])
    <3>1. CASE i = 0
      BY <1>4, <3>1 DEF Iterates
    <3>2. CASE i # 0
      <4>1. i \in 1..n /\ i - 1 \in 0..n /\ f[i - 1] \in X
        <5> HIDE DEF n
        <5>1. i \in 1..n /\ i - 1 \in 0..n
          BY <1>2, <3>2
        <5> QED BY <1>4, <5>1
      <4>2. f[i] = h[i][f[i - 1]]
        BY <1>4, <4>1 DEF Iterates
      <4> QED BY <1>3, <3>2, <4>1, <4>2
    <3> QED BY <3>1, <3>2
  <2> QED BY <1>4, <2>1
<1>6. ASSUME NEW g PROVE Texts(g, name) <=> g = [i \in 0..n |-> IF i = 0 THEN a ELSE Further(name.way, i, g[i - 1])]
  <2> DEFINE Was(i) == IF i = 0 THEN a
                       ELSE LET before == g[i - 1]
                            IN  CASE name.way[i] # 0 -> Append(before, Parent(name.way[i]))
                                  [] name.way[i] = 0 /\ i > 1 /\ name.way[i - 1] = 0 ->
                                         [before EXCEPT ![Len(before)].n = @ + 1]
                                  [] OTHER -> Append(before, [op |-> "~", n |-> 1])
             Is(i) == IF i = 0 THEN a ELSE Further(name.way, i, g[i - 1])
  <2>1. ASSUME NEW i \in 0..n PROVE Was(i) = Is(i)
    BY DEF Further, Longer
  <2>2. Texts(g, name) <=> g = [i \in 0..n |-> Was(i)]
    BY DEF Texts, a
  <2> HIDE DEF Was, Is
  <2>3. [i \in 0..n |-> Was(i)] = [i \in 0..n |-> Is(i)]
    BY <2>1
  <2> QED BY <2>2, <2>3 DEF Is
<1>7. Texts(TextOf(name), name)
  BY <1>5, <1>6 DEF TextOf
<1> DEFINE g == TextOf(name)
<1>8. g = [i \in 0..n |-> IF i = 0 THEN a ELSE Further(name.way, i, g[i - 1])]
  BY <1>6, <1>7
<1> HIDE DEF g
<1>9. g[0] = a /\ \A i \in 1..n : g[i] = Further(name.way, i, g[i - 1])
  <2>1. 0 \in 0..n /\ \A i \in 1..n : i \in 0..n /\ i # 0
    BY <1>2
  <2> QED BY <1>8, <2>1
<1> QED BY <1>9 DEF g, a

\* The suffix of a way leads along it.
LEMMA SuffixLeads ==
    ASSUME HistoryOK, NEW name, name.way \in Seq(Nat), NEW tip \in Commits, NEW at, Passes(at, tip, name.way)
    PROVE  /\ Suffix(name) \in Seq(Item)
           /\ ReadsTo(tip, Suffix(name), at[Len(name.way)])
           /\ ~name.ref.annotated => \A k \in DOMAIN Suffix(name) : Suffix(name)[k] # Plain(0)
<1> DEFINE way == name.way
           n == Len(way)
           text == TextOf(name)
           Clean(s) == ~name.ref.annotated => \A k \in DOMAIN s : s[k] # Plain(0)
           Runs(s, i) == i > 0 /\ way[i] = 0 => s # <<>> /\ s[Len(s)].op = "~"
           Good(i) == text[i] \in Seq(Item) /\ ReadsTo(tip, text[i], at[i]) /\ Clean(text[i]) /\ Runs(text[i], i)
           B == {i \in 0..n : ~Good(i)}
<1>1. n \in Nat /\ text[0] = (IF name.ref.annotated THEN <<Plain(0)>> ELSE <<>>)
      /\ \A i \in 1..n : text[i] = Further(way, i, text[i - 1])
  BY TextsDefined
<1>2. at \in [0..n -> Commits] /\ at[0] = tip
      /\ \A k \in 1..n : way[k] + 1 \in DOMAIN Visible(at[k - 1]) /\ at[k] = Visible(at[k - 1])[way[k] + 1]
  BY DEF Passes
<1> HIDE DEF text
<1>3. Good(0)
  <2> DEFINE r == [k \in 0..Len(text[0]) |-> tip]
  <2>1. Plain(0) \in Item /\ Plain(0).op = "^" /\ Plain(0).n = 0
    BY DEF Plain, Item
  <2>2. CASE name.ref.annotated
    <3>1. text[0] = <<Plain(0)>> /\ text[0] \in Seq(Item) /\ Len(text[0]) = 1 /\ text[0][1] = Plain(0)
      BY <1>1, <2>1, <2>2
    <3>2. ItemLeads(Plain(0), tip, tip)
      BY <2>1 DEF ItemLeads
    <3>3. Reading(r, tip, text[0]) /\ r[Len(text[0])] = tip
      BY <3>1, <3>2 DEF Reading
    <3>4. ReadsTo(tip, text[0], tip)
      BY <3>3 DEF ReadsTo
    <3> QED BY <1>2, <2>2, <3>1, <3>4
  <2>3. CASE ~name.ref.annotated
    <3>1. text[0] = <<>> /\ text[0] \in Seq(Item) /\ Len(text[0]) = 0 /\ DOMAIN text[0] = {}
      BY <1>1, <2>3
    <3>3. Reading(r, tip, text[0]) /\ r[Len(text[0])] = tip
      BY <3>1 DEF Reading
    <3>4. ReadsTo(tip, text[0], tip)
      BY <3>3 DEF ReadsTo
    <3> QED BY <1>2, <2>3, <3>1, <3>4
  <2> QED BY <2>2, <2>3
<1>4. ASSUME NEW i \in 1..n, Good(i - 1) PROVE Good(i)
  <2> DEFINE s == text[i - 1]
             c == at[i - 1]
             d == at[i]
  <2>1. /\ s \in Seq(Item) /\ ReadsTo(tip, s, c) /\ Clean(s) /\ Runs(s, i - 1)
        /\ text[i] = Further(way, i, s)
    BY <1>1, <1>4
  <2>2. /\ way[i] \in Nat /\ c \in Commits /\ d \in Commits
        /\ way[i] + 1 \in DOMAIN Visible(c) /\ d = Visible(c)[way[i] + 1]
    <3>1. i - 1 \in 0..n /\ i \in 0..n /\ way[i] \in Nat
      BY <1>1
    <3> HIDE DEF way, n
    <3> QED BY <1>2, <3>1
  <2> HIDE DEF s, c, d, Good
  <2>3. ASSUME NEW x \in Item, ItemLeads(x, c, d), x # Plain(0), text[i] = Append(s, x), way[i] = 0 => x.op = "~"
        PROVE  Good(i)
    <3>1. text[i] \in Seq(Item) /\ ReadsTo(tip, text[i], d)
      BY <2>1, <2>2, <2>3, AppendReads
    <3>2. Len(text[i]) = Len(s) + 1 /\ Len(s) \in Nat /\ text[i][Len(s) + 1] = x
          /\ DOMAIN text[i] = 1..(Len(s) + 1) /\ DOMAIN s = 1..Len(s) /\ \A k \in DOMAIN s : text[i][k] = s[k]
      BY <2>1, <2>3
    <3>3. Clean(text[i])
      BY <2>1, <2>3, <3>2
    <3>4. Runs(text[i], i)
      BY <2>3, <3>2
    <3> QED BY <3>1, <3>3, <3>4 DEF Good, d
  <2>4. CASE way[i] # 0
    <3> DEFINE x == Parent(way[i])
    <3>1. x \in Item /\ x.op = "^" /\ x.n = way[i] + 1 /\ x # Plain(0)
      BY <2>2, <2>4 DEF Parent, Plain, Item
    <3>2. ItemLeads(x, c, d)
      BY <2>2, <3>1 DEF ItemLeads
    <3>3. text[i] = Append(s, x)
      BY <2>1, <2>4 DEF Further
    <3> HIDE DEF x
    <3> QED BY <2>3, <2>4, <3>1, <3>2, <3>3
  <2>5. CASE way[i] = 0
    <3>1. Visible(c) # <<>> /\ d = Visible(c)[1]
      BY <2>2, <2>5
    <3>2. CASE i > 1 /\ way[i - 1] = 0
      <4>1. s # <<>> /\ s[Len(s)].op = "~" /\ text[i] = Longer(s)
        BY <2>1, <2>5, <3>2 DEF Further
      <4>2. ReadsTo(tip, text[i], d)
        BY <2>1, <2>2, <3>1, <4>1, LongerReads
      <4>3. /\ text[i] \in Seq(Item) /\ Len(text[i]) = Len(s) /\ text[i] # <<>>
            /\ \A k \in DOMAIN s : k # Len(s) => text[i][k] = s[k]
            /\ text[i][Len(s)] = [op |-> s[Len(s)].op, n |-> s[Len(s)].n + 1]
        BY <2>1, <4>1, LongerIs
      <4>4. text[i][Len(text[i])].op = "~" /\ DOMAIN text[i] = DOMAIN s
        BY <2>1, <4>1, <4>3
      <4>5. text[i][Len(s)] # Plain(0)
        BY <4>3, <4>4 DEF Plain
      <4>6. Clean(text[i])
        BY <2>1, <4>3, <4>4, <4>5
      <4>7. Runs(text[i], i)
        BY <4>3, <4>4
      <4> QED BY <4>2, <4>3, <4>6, <4>7 DEF Good, d
    <3>3. CASE ~(i > 1 /\ way[i - 1] = 0)
      <4> DEFINE x == [op |-> "~", n |-> 1]
      <4>1. x \in Item /\ x.op = "~" /\ x.n = 1 /\ x # Plain(0)
        BY DEF Item, Plain
      <4>2. text[i] = Append(s, x)
        BY <2>1, <2>5, <3>3 DEF Further
      <4> HIDE DEF x
      <4>3. FirstsLead(c, 0, c)
        <5> DEFINE f == [k \in 0..0 |-> c]
        <5>1. f \in [0..0 -> Commits] /\ f[0] = c /\ \A k \in 1..0 : FALSE
          BY <2>2
        <5> QED BY <5>1 DEF FirstsLead
      <4>4. FirstsLead(c, 0 + 1, d)
        BY <2>2, <3>1, <4>3, OneMoreFirst
      <4>5. ItemLeads(x, c, d)
        BY <4>1, <4>4 DEF ItemLeads
      <4> QED BY <2>3, <4>1, <4>2, <4>5
    <3> QED BY <3>2, <3>3
  <2> QED BY <2>4, <2>5
<1> HIDE DEF Good
<1>5. Good(n)
  <2>1. SUFFICES ASSUME ~Good(n) PROVE FALSE
    OBVIOUS
  <2>2. B \in SUBSET Nat /\ B # {}
    BY <1>1, <2>1
  <2>3. PICK i \in B : \A y \in B : i <= y
    <3> HIDE DEF B
    <3> QED BY <2>2, LeastOf
  <2>4. i \in 1..n /\ i - 1 \notin B /\ i - 1 \in 0..n
    BY <1>3, <2>3
  <2> QED BY <1>4, <2>3, <2>4
<1> QED BY <1>5, SuffixRead DEF Good, text

-----------------------------------------------------------------------------
(***************************************************************************)
(* The grammars.                                                           *)
(***************************************************************************)
Answers == Commits \cup {None}

\* The function that FirstParent reads.
Firsts(after, c, n) ==
    after = [i \in 0..n |->
                IF i = 0 THEN c
                ELSE IF after[i - 1] = None THEN None
                ELSE IF after[i - 1] \in shallow \/ log[after[i - 1]] = <<>> THEN None
                ELSE log[after[i - 1]][1]]

LEMMA NoneIsNone == ASSUME HistoryOK PROVE None \notin Commits
BY CommitsAre, NoneIsNoCommit

\* The parent to go on to.
NextFirst(x) == IF x = None THEN None ELSE IF x \in shallow \/ log[x] = <<>> THEN None ELSE log[x][1]

LEMMA ParentsStored ==
    ASSUME HistoryOK, NEW c \in Commits
    PROVE  log[c] \in Seq(Nat) /\ \A i \in DOMAIN log[c] : log[c][i] \in Commits
BY CommitsAre DEF HistoryOK

LEMMA NextFirstIs == ASSUME HistoryOK, NEW x \in Answers PROVE NextFirst(x) \in Answers
<1>1. CASE x = None
  BY <1>1 DEF NextFirst, Answers
<1>2. CASE x # None
  BY <1>2, ParentsStored DEF Answers, NextFirst
<1> QED BY <1>1, <1>2

LEMMA FirstParentIs ==
    ASSUME HistoryOK, NEW c \in Commits, NEW n \in Nat
    PROVE  /\ FirstParent(c, n) \in Answers
           /\ \A d : FirstsLead(c, n, d) => FirstParent(c, n) = d
<1> DEFINE X == Answers
           h == [i \in 1..n |-> [x \in X |-> NextFirst(x)]]
           A == CHOOSE after : Firsts(after, c, n)
<1>1. c \in X /\ h \in [1..n -> [X -> X]]
  BY NextFirstIs DEF Answers
<1>2. \A i \in 1..n : \A x \in X : h[i][x] = NextFirst(x)
  OBVIOUS
<1> HIDE DEF h, X
<1>3. PICK f \in [0..n -> X] : Iterates(f, n, c, h)
  BY <1>1, IterationDefines
<1>4. f = [i \in 0..n |-> IF i = 0 THEN c ELSE NextFirst(f[i - 1])]
  <2>1. ASSUME NEW i \in 0..n PROVE f[i] = IF i = 0 THEN c ELSE NextFirst(f[i - 1])
    BY <1>2, <1>3 DEF Iterates
  <2> QED BY <1>3, <2>1
<1>5. Firsts(f, c, n)
  BY <1>4 DEF Firsts, NextFirst
<1>6. Firsts(A, c, n)
  BY <1>5
<1> HIDE DEF A
<1>7. A = [i \in 0..n |-> IF i = 0 THEN c ELSE NextFirst(A[i - 1])]
  BY <1>6 DEF Firsts, NextFirst
<1>8. FirstParent(c, n) = A[n]
  BY DEF FirstParent, A, Firsts
<1>9. A[0] = c /\ \A i \in 1..n : A[i] = NextFirst(A[i - 1])
  BY <1>7
<1>10. A[n] \in X
  <2> DEFINE G == {i \in 0..n : A[i] \in X}
  <2>1. \A x \in X : NextFirst(x) \in X
    BY NextFirstIs DEF X
  <2>2. G \in SUBSET (0..n) /\ 0 \in G /\ \A i \in 1..n : i - 1 \in G => i \in G
    BY <1>1, <1>9, <2>1
  <2>3. G = 0..n
    <3> HIDE DEF G
    <3> QED BY <2>2, Onwards
  <2> QED BY <2>3
<1>11. ASSUME NEW d, FirstsLead(c, n, d) PROVE A[n] = d
  <2>1. PICK g \in [0..n -> Commits] :
          /\ g[0] = c /\ g[n] = d
          /\ \A k \in 1..n : Visible(g[k - 1]) # <<>> /\ g[k] = Visible(g[k - 1])[1]
    BY <1>11 DEF FirstsLead
  <2>2. ASSUME NEW i \in 1..n PROVE NextFirst(g[i - 1]) = g[i]
    BY <2>1, NoneIsNone DEF NextFirst, Visible
  <2> DEFINE G == {i \in 0..n : A[i] = g[i]}
  <2>3. G \in SUBSET (0..n) /\ 0 \in G /\ \A i \in 1..n : i - 1 \in G => i \in G
    BY <1>9, <2>1, <2>2
  <2>4. G = 0..n
    <3> HIDE DEF G
    <3> QED BY <2>3, Onwards
  <2> QED BY <2>1, <2>4
<1> QED BY <1>8, <1>10, <1>11 DEF X

LEMMA StoredParentIs ==
    ASSUME HistoryOK, NEW x \in Answers, NEW k \in Nat, k > 0
    PROVE  /\ StoredParent(x, k) \in Answers
           /\ x \in Commits /\ k \in DOMAIN Visible(x) => StoredParent(x, k) = Visible(x)[k]
<1>1. CASE x = None
  BY <1>1, NoneIsNone DEF StoredParent, Answers
<1>2. CASE x # None
  BY <1>2, ParentsStored DEF Answers, Visible, StoredParent
<1> QED BY <1>1, <1>2

\* The function that StoredFirst reads.
StoredFirsts(after, c, n) == after = [i \in 0..n |-> IF i = 0 THEN c ELSE StoredParent(after[i - 1], 1)]

LEMMA StoredFirstIs ==
    ASSUME HistoryOK, NEW c \in Answers, NEW n \in Nat
    PROVE  /\ StoredFirst(c, n) \in Answers
           /\ \A d : FirstsLead(c, n, d) => StoredFirst(c, n) = d
<1> DEFINE X == Answers
           h == [i \in 1..n |-> [x \in X |-> StoredParent(x, 1)]]
           A == CHOOSE after : StoredFirsts(after, c, n)
<1>1. c \in X /\ h \in [1..n -> [X -> X]]
  BY StoredParentIs
<1>2. \A i \in 1..n : \A x \in X : h[i][x] = StoredParent(x, 1)
  OBVIOUS
<1> HIDE DEF h, X
<1>3. PICK f \in [0..n -> X] : Iterates(f, n, c, h)
  BY <1>1, IterationDefines
<1>4. f = [i \in 0..n |-> IF i = 0 THEN c ELSE StoredParent(f[i - 1], 1)]
  <2>1. ASSUME NEW i \in 0..n PROVE f[i] = IF i = 0 THEN c ELSE StoredParent(f[i - 1], 1)
    BY <1>2, <1>3 DEF Iterates
  <2> QED BY <1>3, <2>1
<1>5. StoredFirsts(f, c, n)
  BY <1>4 DEF StoredFirsts
<1>6. StoredFirsts(A, c, n)
  BY <1>5
<1>7. StoredFirst(c, n) = A[n]
  BY DEF StoredFirst, StoredFirsts
<1> HIDE DEF A
<1>8. A[0] = c /\ \A i \in 1..n : A[i] = StoredParent(A[i - 1], 1)
  BY <1>6 DEF StoredFirsts
<1>9. A[n] \in X
  <2> DEFINE G == {i \in 0..n : A[i] \in X}
  <2>1. \A x \in X : StoredParent(x, 1) \in X
    BY StoredParentIs DEF X
  <2>2. G \in SUBSET (0..n) /\ 0 \in G /\ \A i \in 1..n : i - 1 \in G => i \in G
    BY <1>1, <1>8, <2>1
  <2>3. G = 0..n
    <3> HIDE DEF G
    <3> QED BY <2>2, Onwards
  <2> QED BY <2>3
<1>10. ASSUME NEW d, FirstsLead(c, n, d) PROVE A[n] = d
  <2>1. PICK g \in [0..n -> Commits] :
          /\ g[0] = c /\ g[n] = d
          /\ \A k \in 1..n : Visible(g[k - 1]) # <<>> /\ g[k] = Visible(g[k - 1])[1]
    BY <1>10 DEF FirstsLead
  <2>2. ASSUME NEW i \in 1..n PROVE StoredParent(g[i - 1], 1) = g[i]
    <3> DEFINE p == g[i - 1]
    <3>1. p \in Commits /\ p \in Answers /\ Visible(p) # <<>> /\ g[i] = Visible(p)[1]
      BY <2>1 DEF Answers
    <3> HIDE DEF p
    <3>2. Visible(p) \in Seq(Nat)
      BY <3>1, ParentsAreBelow
    <3>3. 1 \in DOMAIN Visible(p)
      BY <3>1, <3>2
    <3>4. StoredParent(p, 1) = g[i]
      BY <3>1, <3>3, StoredParentIs
    <3> QED BY <3>4 DEF p
  <2> DEFINE G == {i \in 0..n : A[i] = g[i]}
  <2>3. G \in SUBSET (0..n) /\ 0 \in G /\ \A i \in 1..n : i - 1 \in G => i \in G
    BY <1>8, <2>1, <2>2
  <2>4. G = 0..n
    <3> HIDE DEF G
    <3> QED BY <2>3, Onwards
  <2> QED BY <2>1, <2>4
<1> QED BY <1>7, <1>9, <1>10 DEF X

\* The functions that Resolve and ResolveCommit read.
ResolveItem(x, it) ==
    IF x = None THEN None
    ELSE IF it.op = "~" THEN FirstParent(x, it.n)
    ELSE NthParent(x, it.n)

StoredItem(x, it) ==
    IF it.op = "~" THEN StoredFirst(x, it.n)
    ELSE IF it.n = 0 THEN x ELSE StoredParent(x, it.n)

Resolves(at, tip, s) == at = [i \in 0..Len(s) |-> IF i = 0 THEN tip ELSE ResolveItem(at[i - 1], s[i])]

ResolvesStored(at, tip, s) == at = [i \in 0..Len(s) |-> IF i = 0 THEN tip ELSE StoredItem(at[i - 1], s[i])]

ResolvedAt(tip, s) == CHOOSE at : Resolves(at, tip, s)

StoredAt(tip, s) == CHOOSE at : ResolvesStored(at, tip, s)

LEMMA GrammarsRead ==
    ASSUME NEW tip, NEW s
    PROVE  Resolve(tip, s) = ResolvedAt(tip, s)[Len(s)] /\ ResolveCommit(tip, s) = StoredAt(tip, s)[Len(s)]
BY DEF Resolve, ResolvedAt, Resolves, ResolveItem, ResolveCommit, StoredAt, ResolvesStored, StoredItem

LEMMA ItemsAnswer ==
    ASSUME HistoryOK, NEW it \in Item, NEW x \in Answers
    PROVE  ResolveItem(x, it) \in Answers /\ StoredItem(x, it) \in Answers
<1>1. it.n \in Nat
  BY DEF Item
<1>2. StoredItem(x, it) \in Answers
  BY <1>1, StoredFirstIs, StoredParentIs DEF StoredItem
<1>3. CASE x = None
  BY <1>2, <1>3 DEF ResolveItem, Answers
<1>4. CASE x # None
  <2>1. x \in Commits
    BY <1>4 DEF Answers
  <2>2. FirstParent(x, it.n) \in Answers
    BY <1>1, <2>1, FirstParentIs
  <2>3. log[x] \in Seq(Nat) /\ \A i \in DOMAIN log[x] : log[x][i] \in Commits
    BY <2>1, ParentsStored
  <2>4. NthParent(x, it.n) \in Answers
    BY <1>1, <2>3, <2>1 DEF NthParent, Answers
  <2> QED BY <1>2, <1>4, <2>2, <2>4 DEF ResolveItem
<1> QED BY <1>3, <1>4

\* Both go where an item leads.
LEMMA ItemsFollow ==
    ASSUME HistoryOK, NEW it \in Item, NEW c \in Commits, NEW d \in Commits, ItemLeads(it, c, d)
    PROVE  ResolveItem(c, it) = d /\ StoredItem(c, it) = d
<1>1. it.n \in Nat /\ c # None /\ c \in Answers
  BY NoneIsNone DEF Item, Answers
<1>2. CASE it.op = "~"
  BY <1>2, <1>1, FirstParentIs, StoredFirstIs DEF ItemLeads, ResolveItem, StoredItem
<1>3. CASE it.op # "~" /\ it.n = 0
  <2>1. d = c
    BY <1>3 DEF ItemLeads
  <2> QED BY <1>1, <1>3, <2>1 DEF ResolveItem, StoredItem, NthParent
<1>4. CASE it.op # "~" /\ it.n # 0
  <2>1. it.n \in DOMAIN Visible(c) /\ d = Visible(c)[it.n]
    BY <1>4 DEF ItemLeads
  <2>2. StoredParent(c, it.n) = d
    BY <1>1, <1>4, <2>1, StoredParentIs
  <2>3. c \notin shallow /\ Visible(c) = log[c]
    BY <2>1 DEF Visible
  <2>4. ~(it.n > Len(log[c]))
    BY ParentsStored, <1>1, <2>1, <2>3
  <2>5. NthParent(c, it.n) = d
    BY <1>4, <2>1, <2>3, <2>4 DEF NthParent
  <2> QED BY <1>1, <1>4, <2>2, <2>5 DEF ResolveItem, StoredItem
<1> QED BY <1>2, <1>3, <1>4

LEMMA AnswersDefined ==
    ASSUME HistoryOK, NEW tip \in Commits, NEW s \in Seq(Item)
    PROVE  Resolves(ResolvedAt(tip, s), tip, s) /\ ResolvesStored(StoredAt(tip, s), tip, s)
<1> DEFINE X == Answers
           n == Len(s)
           h == [i \in 1..n |-> [x \in X |-> ResolveItem(x, s[i])]]
           k == [i \in 1..n |-> [x \in X |-> StoredItem(x, s[i])]]
<1>0. n \in Nat /\ tip \in X /\ \A i \in 1..n : s[i] \in Item
  BY DEF Answers
<1> HIDE DEF n
<1>1. h \in [1..n -> [X -> X]] /\ k \in [1..n -> [X -> X]]
  BY <1>0, ItemsAnswer
<1>2. \A i \in 1..n : \A x \in X : h[i][x] = ResolveItem(x, s[i]) /\ k[i][x] = StoredItem(x, s[i])
  OBVIOUS
<1> HIDE DEF h, k, X
<1>3. PICK f \in [0..n -> X] : Iterates(f, n, tip, h)
  BY <1>0, <1>1, IterationDefines
<1>4. PICK g \in [0..n -> X] : Iterates(g, n, tip, k)
  BY <1>0, <1>1, IterationDefines
<1>5. ASSUME NEW i \in 0..n
      PROVE  /\ f[i] = IF i = 0 THEN tip ELSE ResolveItem(f[i - 1], s[i])
             /\ g[i] = IF i = 0 THEN tip ELSE StoredItem(g[i - 1], s[i])
  BY <1>0, <1>2, <1>3, <1>4 DEF Iterates
<1>6. f = [i \in 0..n |-> IF i = 0 THEN tip ELSE ResolveItem(f[i - 1], s[i])]
  BY <1>3, <1>5
<1>7. g = [i \in 0..n |-> IF i = 0 THEN tip ELSE StoredItem(g[i - 1], s[i])]
  BY <1>4, <1>5
<1>8. Resolves(f, tip, s) /\ ResolvesStored(g, tip, s)
  BY <1>6, <1>7 DEF Resolves, ResolvesStored, n
<1> QED BY <1>8 DEF ResolvedAt, StoredAt

LEMMA ReadingsResolve ==
    ASSUME HistoryOK, NEW tip \in Commits, NEW s \in Seq(Item), NEW d, ReadsTo(tip, s, d)
    PROVE  Resolve(tip, s) = d /\ ResolveCommit(tip, s) = d
<1> DEFINE n == Len(s)
           f == ResolvedAt(tip, s)
           g == StoredAt(tip, s)
<1>0. n \in Nat /\ \A i \in 1..n : s[i] \in Item
  OBVIOUS
<1>1. PICK r : Reading(r, tip, s) /\ r[n] = d
  BY DEF ReadsTo
<1>2. r \in [0..n -> Commits] /\ r[0] = tip /\ \A k \in 1..n : ItemLeads(s[k], r[k - 1], r[k])
  BY <1>1 DEF Reading
<1>3. /\ f = [i \in 0..n |-> IF i = 0 THEN tip ELSE ResolveItem(f[i - 1], s[i])]
      /\ g = [i \in 0..n |-> IF i = 0 THEN tip ELSE StoredItem(g[i - 1], s[i])]
  BY AnswersDefined DEF Resolves, ResolvesStored
<1>4. Resolve(tip, s) = f[n] /\ ResolveCommit(tip, s) = g[n]
  BY GrammarsRead
<1> HIDE DEF n, f, g
<1>5. /\ f[0] = tip /\ \A i \in 1..n : f[i] = ResolveItem(f[i - 1], s[i])
      /\ g[0] = tip /\ \A i \in 1..n : g[i] = StoredItem(g[i - 1], s[i])
  BY <1>0, <1>3
<1>6. ASSUME NEW i \in 1..n PROVE ResolveItem(r[i - 1], s[i]) = r[i] /\ StoredItem(r[i - 1], s[i]) = r[i]
  BY <1>0, <1>2, ItemsFollow
<1> DEFINE G == {i \in 0..n : f[i] = r[i] /\ g[i] = r[i]}
<1>7. G \in SUBSET (0..n) /\ 0 \in G /\ \A i \in 1..n : i - 1 \in G => i \in G
  BY <1>0, <1>2, <1>5, <1>6
<1>8. G = 0..n
  <2> HIDE DEF G
  <2> QED BY <1>0, <1>7, Onwards
<1> QED BY <1>0, <1>1, <1>4, <1>8

-----------------------------------------------------------------------------
(***************************************************************************)
(* The names of a commit.                                                  *)
(***************************************************************************)
TagOK == tag \in Commits \cup {None}

LEMMA TagInvariant == Spec => []TagOK
<1>1. Init => TagOK
  BY DEF Init, TagOK
<1>2. HistoryOK /\ TagOK /\ [Next]_vars => TagOK'
  <2> SUFFICES ASSUME HistoryOK, TagOK, [Next]_vars PROVE TagOK'
    OBVIOUS
  <2>1. Commits = 1..Len(log) /\ Len(log) \in Nat /\ log \in Seq(Seq(Nat))
    BY CommitsAre DEF HistoryOK
  <2>2. CASE log' = log /\ tag' = tag
    BY <2>2 DEF TagOK, Commits
  <2>3. ASSUME NEW parents, parents \in Seq(Nat), Commit(parents) PROVE TagOK'
    BY <2>3, <2>1 DEF Commit, Commits, TagOK
  <2>4. CASE Commit(<<>>)
    <3>1. <<>> \in Seq(Nat)
      OBVIOUS
    <3> QED BY <2>3, <2>4, <3>1
  <2>5. ASSUME NEW c \in Commits, Commit(<<c>>) PROVE TagOK'
    <3>1. <<c>> \in Seq(Nat)
      BY <2>1
    <3> QED BY <2>3, <2>5, <3>1
  <2>6. ASSUME NEW c \in Commits, NEW d \in Commits, Commit(<<c, d>>) PROVE TagOK'
    <3>1. <<c, d>> \in Seq(Nat)
      BY <2>1
    <3> QED BY <2>3, <2>6, <3>1
  <2>7. ASSUME NEW depth \in 1..Len(log), Clone(depth) PROVE TagOK'
    BY <2>2, <2>7 DEF Clone
  <2>8. CASE Tag
    BY <2>8, <2>1 DEF Tag, Newest, Commits, TagOK
  <2>9. CASE WriteGraph
    BY <2>2, <2>9 DEF WriteGraph
  <2>10. CASE UNCHANGED vars
    BY <2>2, <2>10 DEF vars
  <2> QED BY <2>4, <2>5, <2>6, <2>7, <2>8, <2>9, <2>10 DEF Next
<1> QED BY <1>1, <1>2, HistoryInvariant, PTL DEF Spec

LEMMA TipsAre ==
    ASSUME HistoryOK, TagOK, log # <<>>
    PROVE  /\ Tips \in SUBSET Commits
           /\ Tips = {r.tip : r \in Refs}
           /\ \A r \in Refs : r.priority \in Nat
<1>1. Newest \in Commits
  BY CommitsAre DEF Newest, HistoryOK
<1>2. Tips \in SUBSET Commits
  BY <1>1 DEF Tips, TagOK
<1>3. CASE tag = None
  BY <1>2, <1>3 DEF Tips, Refs
<1>4. CASE tag # None
  BY <1>2, <1>4 DEF Tips, Refs
<1> QED BY <1>3, <1>4

\* A commit is named if a ref reaches it.
LEMMA NamedIfReached ==
    ASSUME HistoryOK, TagOK, log # <<>>, NEW c \in Commits
    PROVE  (BestNames(c, Refs) = {}) <=> (c \notin Walk(Tips, FALSE))
<1> DEFINE reaching == {r \in Refs : c \in Ancestors(r.tip)}
           Rank(r) == <<Len(WayTo(r.tip, c)), r.priority>>
           Better(r, s) == Rank(r)[1] < Rank(s)[1] \/ (Rank(r)[1] = Rank(s)[1] /\ Rank(r)[2] < Rank(s)[2])
           best == {s \in reaching : ~\E t \in reaching : Better(t, s)}
<1>1. BestNames(c, Refs) = {[ref |-> r, way |-> WayTo(r.tip, c)] : r \in best}
  BY DEF BestNames
<1>2. ASSUME NEW r \in reaching PROVE Rank(r)[1] \in Nat /\ Rank(r)[2] \in Nat
  BY TipsAre, WayToLeads
<1>3. ASSUME reaching # {} PROVE best # {}
  <2> DEFINE L == {Rank(r)[1] : r \in reaching}
  <2> HIDE DEF reaching, Rank
  <2>1. L \in SUBSET Nat /\ L # {}
    BY <1>2, <1>3
  <2>2. PICK n \in L : \A m \in L : n <= m
    <3> HIDE DEF L
    <3> QED BY <2>1, LeastOf
  <2> DEFINE near == {r \in reaching : Rank(r)[1] = n}
             P == {Rank(r)[2] : r \in near}
  <2>3. P \in SUBSET Nat /\ P # {}
    BY <1>2, <2>2
  <2>4. PICK p \in P : \A m \in P : p <= m
    <3> HIDE DEF P
    <3> QED BY <2>3, LeastOf
  <2>5. PICK s \in near : Rank(s)[2] = p
    BY <2>4
  <2>6. ASSUME NEW t \in reaching, Better(t, s) PROVE FALSE
    <3>1. Rank(t)[1] \in Nat /\ Rank(s)[1] = n /\ n \in Nat /\ n <= Rank(t)[1]
      BY <1>2, <2>1, <2>2, <2>5
    <3>2. Rank(t)[1] = n /\ Rank(t)[2] < p
      BY <2>5, <2>6, <3>1
    <3>3. p <= Rank(t)[2] /\ Rank(t)[2] \in Nat /\ p \in Nat
      BY <1>2, <2>3, <2>4, <3>2
    <3> QED BY <3>2, <3>3
  <2> QED BY <2>5, <2>6
<1>4. (BestNames(c, Refs) = {}) <=> (reaching = {})
  <2>1. best \subseteq reaching
    OBVIOUS
  <2> HIDE DEF best, reaching
  <2> QED BY <1>1, <1>3, <2>1
<1>5. Walk(Tips, FALSE) = UNION {Ancestors(r.tip) : r \in Refs}
  <2>1. Walk(Tips, FALSE) = UNION {WalksFrom(FALSE)[t] : t \in Tips}
    BY WalkIs
  <2>2. \A t : Ancestors(t) = WalksFrom(FALSE)[t]
    BY AncestorsRead
  <2>3. Tips = {r.tip : r \in Refs}
    BY TipsAre
  <2> QED BY <2>1, <2>2, <2>3
<1> QED BY <1>4, <1>5

\* A commit has a name if and only if a ref reaches it, and each of the grammars reads the name as
\* that commit, the commands' own all but the names from annotated tags. (_candidate_names,
\* _format_path, revision._resolve_commit_expression, resolve_commit, _resolve_revision)
THEOREM NamesLeadBack == Spec => []NamesResolve
<1>1. HistoryOK /\ TagOK => NamesResolve
  <2> SUFFICES ASSUME HistoryOK, TagOK, log # <<>>, NEW c \in Commits
               PROVE  /\ (BestNames(c, Refs) = {}) <=> (c \notin Walk(Tips, FALSE))
                      /\ \A n \in BestNames(c, Refs) :
                            /\ Resolve(n.ref.tip, Suffix(n)) = c
                            /\ ResolveCommit(n.ref.tip, Suffix(n)) = c
                            /\ ResolveRevision(n.ref, Suffix(n)) = IF n.ref.annotated THEN None ELSE c
    BY DEF NamesResolve
  <2>1. ASSUME NEW n \in BestNames(c, Refs)
        PROVE  /\ Resolve(n.ref.tip, Suffix(n)) = c
               /\ ResolveCommit(n.ref.tip, Suffix(n)) = c
               /\ ResolveRevision(n.ref, Suffix(n)) = IF n.ref.annotated THEN None ELSE c
    BY TipsAre, WayToLeads, SuffixLeads, ReadingsResolve DEF BestNames, ResolveRevision
  <2> QED BY <2>1, NamedIfReached
<1> QED BY <1>1, HistoryInvariant, TagInvariant, PTL

-----------------------------------------------------------------------------
(***************************************************************************)
(* The commit-graph: its generations, and that they hold as histories grow.*)
(***************************************************************************)
Over(e, f, s, S) == {e} \cup {f[p] : p \in ElementsOf(s) \cap S}

LEMMA GreatestOver ==
    ASSUME NEW s \in Seq(Nat), NEW S, NEW e \in Nat, NEW f, \A p \in ElementsOf(s) \cap S : f[p] \in Nat
    PROVE  Greatest(Over(e, f, s, S)) \in Nat /\ \A m \in Over(e, f, s, S) : Greatest(Over(e, f, s, S)) >= m
<1> DEFINE T == Over(e, f, s, S)
           n == Len(s)
           v == [i \in 1..n |-> IF s[i] \in S THEN f[s[i]] ELSE 0]
<1>1. n \in Nat /\ DOMAIN s = 1..n
  OBVIOUS
<1>2. v \in [1..n -> Nat]
  BY <1>1 DEF ElementsOf
<1>3. PICK b \in Nat : \A i \in 1..n : v[i] <= b
  <2> HIDE DEF v, n
  <2> QED BY <1>1, <1>2, BoundOf
<1>4. \A p \in ElementsOf(s) \cap S : f[p] \in Nat /\ f[p] <= b
  BY <1>1, <1>3 DEF ElementsOf
<1>5. b + e \in Nat /\ T \in SUBSET Nat /\ e \in T /\ \A m \in T : m <= b + e
  BY <1>3, <1>4 DEF Over
<1> HIDE DEF T
<1>6. Greatest(T) \in T /\ \A m \in T : Greatest(T) >= m
  BY <1>5, GreatestIs
<1> QED BY <1>5, <1>6 DEF T

\* The function that Generations is.
Outside(c) == IF log[c] = <<>> THEN 0 ELSE 1

Graded(gen, S) ==
    gen = [c \in S |-> 1 + Greatest(Over(Outside(c), gen, log[c], S))]

GradedOf(S) == CHOOSE gen : Graded(gen, S)

LEMMA GenerationsRead == ASSUME NEW S PROVE Generations(S) = GradedOf(S)
BY DEF Generations, GradedOf, Graded, Dependencies, Outside, Over

LEMMA GradesDefined == ASSUME HistoryOK, NEW S \in SUBSET Commits PROVE Graded(GradedOf(S), S)
<1> DEFINE X == Nat
           N == Len(log)
           Value(c, f) == 1 + Greatest(Over(Outside(c), f, log[c], S))
           h == [c \in 1..N |-> [f \in [1..N -> X] |-> Value(c, f)]]
<1>0. Commits = 1..N /\ N \in Nat
  BY CommitsAre
<1>1. \A c \in Commits : log[c] \in Seq(Nat) /\ \A p \in ElementsOf(log[c]) : p \in Commits /\ p < c
  BY <1>0 DEF HistoryOK, ElementsOf
<1>2. ASSUME NEW c \in 1..N, NEW f \in [1..N -> X] PROVE Value(c, f) \in X
  <2>1. \A p \in ElementsOf(log[c]) \cap S : f[p] \in Nat
    BY <1>0, <1>1
  <2>2. log[c] \in Seq(Nat) /\ Outside(c) \in Nat
    BY <1>0, <1>1 DEF Outside
  <2>3. Greatest(Over(Outside(c), f, log[c], S)) \in Nat
    BY <2>1, <2>2, GreatestOver
  <2> QED BY <2>3
<1>3. ASSUME NEW c \in 1..N, NEW f, NEW g, \A m \in 1..N : m < c => f[m] = g[m]
      PROVE  Value(c, f) = Value(c, g)
  BY <1>0, <1>1, <1>3 DEF Over
<1> HIDE DEF Value
<1>4. h \in [1..N -> [[1..N -> X] -> X]]
  <2> HIDE DEF X
  <2> QED BY <1>2
<1>5. \A c \in 1..N : \A f \in [1..N -> X] : h[c][f] = Value(c, f)
  OBVIOUS
<1>7. 0 \in X
  OBVIOUS
<1> HIDE DEF h, X
<1>6. Recursion(1, N, X, h)
  <2>1. ASSUME NEW c \in 1..N, NEW f \in [1..N -> X], NEW g \in [1..N -> X],
               \A m \in 1..N : m < c => f[m] = g[m]
        PROVE  h[c][f] = h[c][g]
    BY <1>3, <1>5, <2>1
  <2> QED BY <1>4, <2>1 DEF Recursion
<1>8. PICK f : Satisfies(f, 1, N, X, h)
  BY <1>0, <1>6, <1>7, RecursionDefines
<1> DEFINE g == [c \in S |-> f[c]]
<1>9. \A c \in S : g[c] = Value(c, g)
  <2> TAKE c \in S
  <2>1. c \in 1..N /\ f[c] = Value(c, f)
    BY <1>0, <1>5, <1>8 DEF Satisfies
  <2>2. Over(Outside(c), f, log[c], S) = Over(Outside(c), g, log[c], S)
    BY DEF Over
  <2> HIDE DEF g
  <2>3. Value(c, f) = Value(c, g)
    BY <2>2 DEF Value
  <2> QED BY <2>1, <2>3 DEF g
<1>10. g = [c \in S |-> g[c]]
  OBVIOUS
<1> HIDE DEF g
<1>11. g = [c \in S |-> Value(c, g)]
  BY <1>9, <1>10
<1>12. Graded(g, S)
  BY <1>11 DEF Graded, Value
<1> QED BY <1>12 DEF GradedOf

\* A commit in the graph is of a later generation than its parents there.
LEMMA GenerationsRise ==
    ASSUME HistoryOK, NEW S \in SUBSET Commits
    PROVE  /\ DOMAIN Generations(S) = S
           /\ \A c \in S : /\ Generations(S)[c] \in Nat
                           /\ \A p \in ElementsOf(log[c]) \cap S : Generations(S)[p] < Generations(S)[c]
<1> DEFINE gen == GradedOf(S)
           Fine(x) == gen[x] \in Nat /\ \A p \in ElementsOf(log[x]) \cap S : gen[p] < gen[x]
           B == {x \in S : ~Fine(x)}
<1>0. Generations(S) = gen /\ Graded(gen, S)
  BY GenerationsRead, GradesDefined
<1> HIDE DEF gen
<1>1. SUFFICES ASSUME B # {} PROVE FALSE
  BY <1>0 DEF Graded
<1>2. B \in SUBSET Nat /\ Commits \subseteq Nat /\ Commits = 1..Len(log)
  BY CommitsAre
<1>3. PICK x \in B : \A y \in B : x <= y
  <2> HIDE DEF B
  <2> QED BY <1>1, <1>2, LeastOf
<1>4. \A p \in ElementsOf(log[x]) \cap S : gen[p] \in Nat
  BY <1>2, <1>3 DEF HistoryOK, ElementsOf
<1>5. log[x] \in Seq(Nat) /\ Outside(x) \in Nat
  BY <1>2 DEF HistoryOK, Outside
<1> DEFINE T == Over(Outside(x), gen, log[x], S)
<1>7. gen[x] = 1 + Greatest(T)
  BY <1>0 DEF Graded
<1>6. Greatest(T) \in Nat /\ \A m \in T : Greatest(T) >= m
  BY <1>4, <1>5, GreatestOver
<1>8. \A p \in ElementsOf(log[x]) \cap S : gen[p] \in T
  BY DEF Over
<1> HIDE DEF T
<1>9. Fine(x)
  BY <1>4, <1>6, <1>7, <1>8
<1> QED BY <1>9

\* A commit has two parents at most, and they are not the same; what the commit-graph holds is
\* closed under parents and of rising generations.
ParentsOK == \A c \in Commits : Len(log[c]) <= 2 /\ Distinct(log[c])

GraphOK == \A c \in DOMAIN graph : /\ c \in Commits /\ graph[c] \in Nat
                                   /\ \A p \in ElementsOf(Visible(c)) : p \in DOMAIN graph /\ graph[p] < graph[c]

LEMMA CommitExtends ==
    ASSUME HistoryOK, ParentsOK, GraphOK, NEW parents \in Seq(Nat), Len(parents) <= 2, Distinct(parents), Commit(parents)
    PROVE  ParentsOK' /\ GraphOK'
<1>1. Commits = 1..Len(log) /\ Len(log) \in Nat /\ log \in Seq(Seq(Nat))
  BY CommitsAre DEF HistoryOK
<1>2. log' = Append(log, parents) /\ shallow' = shallow /\ graph' = graph
  BY DEF Commit
<1>3. /\ Commits' = Commits \cup {Len(log) + 1}
      /\ log'[Len(log) + 1] = parents /\ \A c \in Commits : log'[c] = log[c]
  BY <1>1, <1>2 DEF Commits
<1>4. ParentsOK'
  BY <1>3 DEF ParentsOK, Distinct
<1>5. \A c \in Commits : Visible(c)' = Visible(c)
  BY <1>2, <1>3 DEF Visible
<1>6. ASSUME NEW c \in DOMAIN graph
      PROVE  /\ c \in Commits' /\ graph'[c] \in Nat
             /\ \A p \in ElementsOf(Visible(c)') : p \in DOMAIN graph' /\ graph'[p] < graph'[c]
  BY <1>2, <1>3, <1>5 DEF GraphOK
<1>7. GraphOK'
  BY <1>2, <1>6 DEF GraphOK, ElementsOf
<1> QED BY <1>4, <1>7

LEMMA GraphInvariant == Spec => [](ParentsOK /\ GraphOK)
<1>1. Init => ParentsOK /\ GraphOK
  BY DEF Init, ParentsOK, GraphOK, Commits
<1>2. HistoryOK /\ TagOK /\ (ParentsOK /\ GraphOK) /\ [Next]_vars => (ParentsOK /\ GraphOK)'
  <2> SUFFICES ASSUME HistoryOK, TagOK, ParentsOK, GraphOK, [Next]_vars PROVE (ParentsOK /\ GraphOK)'
    OBVIOUS
  <2>1. Commits = 1..Len(log) /\ Len(log) \in Nat /\ log \in Seq(Seq(Nat))
    BY CommitsAre DEF HistoryOK
  <2>2. CASE log' = log /\ shallow' = shallow /\ graph' = graph
    BY <2>2 DEF ParentsOK, GraphOK, Commits, Visible, ElementsOf, Distinct
  <2>4. CASE Commit(<<>>)
    <3>1. <<>> \in Seq(Nat) /\ Len(<<>>) <= 2 /\ Distinct(<<>>)
      BY DEF Distinct
    <3> QED BY <2>4, <3>1, CommitExtends
  <2>5. ASSUME NEW c \in Commits, Commit(<<c>>) PROVE (ParentsOK /\ GraphOK)'
    <3>1. <<c>> \in Seq(Nat) /\ Len(<<c>>) <= 2
      BY <2>1
    <3>2. Distinct(<<c>>)
      BY DEF Distinct
    <3> QED BY <2>5, <3>1, <3>2, CommitExtends
  <2>6. ASSUME NEW c \in Commits, NEW d \in Commits, c # d, Commit(<<c, d>>) PROVE (ParentsOK /\ GraphOK)'
    <3>1. <<c, d>> \in Seq(Nat) /\ Len(<<c, d>>) <= 2
      BY <2>1
    <3>2. Distinct(<<c, d>>)
      BY <2>6 DEF Distinct
    <3> QED BY <2>6, <3>1, <3>2, CommitExtends
  <2>7. ASSUME NEW depth \in 1..Len(log), Clone(depth) PROVE (ParentsOK /\ GraphOK)'
    BY <2>7 DEF Clone, ParentsOK, GraphOK, Commits, Distinct
  <2>8. CASE Tag
    BY <2>2, <2>8 DEF Tag
  <2>9. CASE WriteGraph
    <3> DEFINE S == Walk(Tips, FALSE)
    <3>1. log' = log /\ shallow' = shallow /\ graph' = Generations(S) /\ log # <<>>
      BY <2>9 DEF WriteGraph
    <3>2. Tips \in SUBSET Commits
      BY <3>1, TipsAre
    <3>3. S \in SUBSET Commits /\ \A c \in S : ElementsOf(Visible(c)) \subseteq S
      BY <3>2, WalkHolds, WalkGoesOn DEF Followed
    <3> HIDE DEF S
    <3>4. DOMAIN graph' = S /\ \A c \in S : /\ graph'[c] \in Nat
                                            /\ \A p \in ElementsOf(log[c]) \cap S : graph'[p] < graph'[c]
      BY <3>1, <3>3, GenerationsRise
    <3>5. \A c \in S : ElementsOf(Visible(c)) \subseteq ElementsOf(log[c])
      BY DEF Visible, ElementsOf
    <3>6. \A c \in S : Visible(c)' = Visible(c) /\ Commits' = Commits
      BY <3>1 DEF Visible, Commits
    <3>7. GraphOK'
      BY <3>3, <3>4, <3>5, <3>6 DEF GraphOK, ElementsOf
    <3>8. ParentsOK'
      BY <3>1 DEF ParentsOK, Distinct, Commits
    <3> QED BY <3>7, <3>8
  <2>10. CASE UNCHANGED vars
    BY <2>2, <2>10 DEF vars
  <2> QED BY <2>4, <2>5, <2>6, <2>7, <2>8, <2>9, <2>10 DEF Next
<1> QED BY <1>1, <1>2, HistoryInvariant, TagInvariant, PTL DEF Spec

\* Every line of descent is in the graph, and ordered there.
LEMMA GraphOrders ==
    ASSUME HistoryOK, GraphOK, NEW c \in DOMAIN graph, NEW a \in ProperAncestors(c)
    PROVE  a \in DOMAIN graph /\ graph[a] < graph[c]
<1> DEFINE Fine(x) == \A y \in ProperAncestors(x) : y \in DOMAIN graph /\ graph[y] < graph[x]
           B == {x \in DOMAIN graph : ~Fine(x)}
<1>1. SUFFICES ASSUME B # {} PROVE FALSE
  OBVIOUS
<1>2. B \in SUBSET Nat /\ DOMAIN graph \subseteq Commits /\ Commits \subseteq Nat
  BY CommitsAre DEF GraphOK
<1>3. PICK x \in B : \A y \in B : x <= y
  <2> HIDE DEF B
  <2> QED BY <1>1, <1>2, LeastOf
<1>4. PICK y \in ProperAncestors(x) : ~(y \in DOMAIN graph /\ graph[y] < graph[x])
  BY <1>3
<1>5. PICK p \in ElementsOf(Visible(x)) : y \in Ancestors(p)
  BY <1>2, ProperAncestorsAre
<1>6. p \in Commits /\ p < x /\ p \in DOMAIN graph /\ graph[p] < graph[x] /\ graph[p] \in Nat /\ graph[x] \in Nat
  BY <1>2, <1>5, ParentsAreBelow DEF GraphOK
<1>7. p \notin B
  BY <1>2, <1>3, <1>6
<1>8. y = p \/ (y \in DOMAIN graph /\ graph[y] < graph[p])
  BY <1>5, <1>6, ProperAncestorsBelow, <1>7
<1>9. y \in DOMAIN graph => graph[y] \in Nat
  BY DEF GraphOK
<1> QED BY <1>4, <1>6, <1>8, <1>9

-----------------------------------------------------------------------------
(***************************************************************************)
(* The lengths of ways, first edge and last.                               *)
(***************************************************************************)
LEMMA MeasuredCases ==
    ASSUME HistoryOK, NEW c \in Commits, NEW x, NEW n
    PROVE  <<x, n>> \in Measured[c] <=>
               \/ x = c /\ n = 0
               \/ \E p \in ElementsOf(Visible(c)) : \E m \in Nat : n = m + 1 /\ <<x, m>> \in Measured[p]
<1> DEFINE All == UNION {Measured[p] : p \in ElementsOf(Visible(c))}
<1>1. Measured[c] = {<<c, 0>>} \cup {<<w[1], w[2] + 1>> : w \in All}
  BY MeasuresDefined DEF Measures
<1>2. \A p \in ElementsOf(Visible(c)) : Measured[p] \subseteq Commits \X Nat
  BY ParentsAreBelow, MeasuresDefined
<1>3. All \subseteq Commits \X Nat
  BY <1>2
<1>4. ASSUME NEW p \in ElementsOf(Visible(c)), NEW m \in Nat, n = m + 1, <<x, m>> \in Measured[p]
      PROVE  <<x, n>> \in Measured[c]
  <2>1. <<x, m>> \in All
    BY <1>4
  <2> HIDE DEF All
  <2>2. <<<<x, m>>[1], <<x, m>>[2] + 1>> \in Measured[c]
    BY <1>1, <2>1
  <2> QED BY <1>4, <2>2
<1>5. ASSUME <<x, n>> \in Measured[c], ~(x = c /\ n = 0)
      PROVE  \E p \in ElementsOf(Visible(c)) : \E m \in Nat : n = m + 1 /\ <<x, m>> \in Measured[p]
  <2> HIDE DEF All
  <2>1. PICK w \in All : <<x, n>> = <<w[1], w[2] + 1>>
    BY <1>1, <1>5
  <2>2. w \in Commits \X Nat /\ w = <<w[1], w[2]>> /\ x = w[1] /\ n = w[2] + 1
    BY <1>3, <2>1
  <2>3. PICK p \in ElementsOf(Visible(c)) : w \in Measured[p]
    BY DEF All
  <2>4. w[2] \in Nat /\ <<x, w[2]>> \in Measured[p]
    BY <2>2, <2>3
  <2> QED BY <2>2, <2>4
<1>6. <<c, 0>> \in Measured[c]
  BY <1>1
<1> HIDE DEF All
<1> QED BY <1>4, <1>5, <1>6

LEMMA MeasuredTyped ==
    ASSUME HistoryOK, NEW c \in Commits, NEW x, NEW n, <<x, n>> \in Measured[c]
    PROVE  x \in Commits /\ n \in Nat
BY MeasuresDefined

LEMMA MeasuredZero ==
    ASSUME HistoryOK, NEW c \in Commits, NEW x, <<x, 0>> \in Measured[c]
    PROVE  x = c
<1>1. \/ x = c /\ 0 = 0
      \/ \E p \in ElementsOf(Visible(c)) : \E m \in Nat : 0 = m + 1 /\ <<x, m>> \in Measured[p]
  BY MeasuredCases, Zenon
<1>2. \A m \in Nat : 0 # m + 1
  OBVIOUS
<1> QED BY <1>1, <1>2

\* A way goes on by one edge.
LEMMA MeasuredGoesOn ==
    ASSUME HistoryOK, NEW c \in Commits, NEW u, NEW n, <<u, n>> \in Measured[c], NEW v \in ElementsOf(Visible(u))
    PROVE  <<v, n + 1>> \in Measured[c]
<1> DEFINE Fine(x) == \A m : <<u, m>> \in Measured[x] => <<v, m + 1>> \in Measured[x]
           B == {x \in Commits : ~Fine(x)}
<1>1. SUFFICES ASSUME B # {} PROVE FALSE
  OBVIOUS
<1>2. B \in SUBSET Nat /\ Commits \subseteq Nat
  BY CommitsAre
<1>3. PICK x \in B : \A y \in B : x <= y
  <2> HIDE DEF B
  <2> QED BY <1>1, <1>2, LeastOf
<1>4. PICK m : <<u, m>> \in Measured[x] /\ <<v, m + 1>> \notin Measured[x]
  BY <1>3
<1>5. m \in Nat
  BY <1>4, MeasuredTyped
<1>6. CASE u = x /\ m = 0
  <2>1. v \in Commits /\ v \in ElementsOf(Visible(x))
    BY <1>6, ParentsAreBelow
  <2>2. <<v, 0>> \in Measured[v]
    BY <2>1, MeasuredCases
  <2>3. 0 \in Nat /\ m + 1 = 0 + 1
    BY <1>6
  <2> QED BY <1>4, <2>1, <2>2, <2>3, MeasuredCases
<1>7. CASE ~(u = x /\ m = 0)
  <2>1. PICK p \in ElementsOf(Visible(x)), k \in Nat : m = k + 1 /\ <<u, k>> \in Measured[p]
    BY <1>4, <1>7, MeasuredCases
  <2>2. p \in Commits /\ p < x
    BY ParentsAreBelow
  <2>3. p \notin B
    BY <1>2, <1>3, <2>2
  <2>4. <<v, k + 1>> \in Measured[p]
    BY <2>1, <2>2, <2>3
  <2>5. k + 1 \in Nat /\ m + 1 = (k + 1) + 1 /\ x \in Commits
    BY <2>1
  <2> HIDE DEF B
  <2> QED BY <1>4, <2>4, <2>5, MeasuredCases
<1> QED BY <1>6, <1>7

\* A way of one edge or more has a last one.
LEMMA MeasuredLast ==
    ASSUME HistoryOK, NEW c \in Commits, NEW v, NEW n \in Nat, <<v, n + 1>> \in Measured[c]
    PROVE  \E u \in Commits : <<u, n>> \in Measured[c] /\ v \in ElementsOf(Visible(u))
<1> DEFINE Fine(x) == \A m \in Nat : <<v, m + 1>> \in Measured[x] =>
                          \E u \in Commits : <<u, m>> \in Measured[x] /\ v \in ElementsOf(Visible(u))
           B == {x \in Commits : ~Fine(x)}
<1>1. SUFFICES ASSUME B # {} PROVE FALSE
  OBVIOUS
<1>2. B \in SUBSET Nat /\ Commits \subseteq Nat
  BY CommitsAre
<1>3. PICK x \in B : \A y \in B : x <= y
  <2> HIDE DEF B
  <2> QED BY <1>1, <1>2, LeastOf
<1>4. PICK m \in Nat : /\ <<v, m + 1>> \in Measured[x]
                       /\ ~\E u \in Commits : <<u, m>> \in Measured[x] /\ v \in ElementsOf(Visible(u))
  BY <1>3
<1>5. m + 1 # 0
  OBVIOUS
<1>6. PICK p \in ElementsOf(Visible(x)), k \in Nat : m + 1 = k + 1 /\ <<v, k>> \in Measured[p]
  BY <1>4, <1>5, MeasuredCases
<1>7. k = m /\ p \in Commits /\ p < x
  BY <1>6, ParentsAreBelow
<1>8. CASE m = 0
  <2>1. v = p
    BY <1>6, <1>7, <1>8, MeasuredZero
  <2>2. <<x, 0>> \in Measured[x]
    BY MeasuredCases
  <2> QED BY <1>4, <1>8, <2>1, <2>2
<1>9. CASE m # 0
  <2>1. m - 1 \in Nat /\ m = (m - 1) + 1 /\ x \in Commits
    BY <1>9
  <2>2. p \notin B
    BY <1>2, <1>3, <1>7
  <2>3. PICK u \in Commits : <<u, m - 1>> \in Measured[p] /\ v \in ElementsOf(Visible(u))
    BY <1>6, <1>7, <2>1, <2>2
  <2> HIDE DEF B
  <2>4. <<u, m>> \in Measured[x]
    BY <2>1, <2>3, MeasuredCases
  <2> QED BY <1>4, <2>3, <2>4
<1> QED BY <1>8, <1>9

\* The distance is the length of a shortest way.
LEMMA DistanceIs ==
    ASSUME HistoryOK, NEW c \in Commits, NEW d \in Ancestors(c)
    PROVE  /\ Distances(c)[d] \in Nat
           /\ <<d, Distances(c)[d]>> \in Measured[c]
           /\ \A n : <<d, n>> \in Measured[c] => Distances(c)[d] <= n
<1> DEFINE ways == Measured[c]
           L == {w[2] : w \in {v \in ways : v[1] = d}}
<1>1. Distances(c) = [e \in {w[1] : w \in ways} |-> Least({w[2] : w \in {v \in ways : v[1] = e}})]
  BY DEF Distances, Measured, Measures
<1>2. {w[1] : w \in ways} = Ancestors(c) /\ ways \subseteq Commits \X Nat
  BY MeasuredAre, MeasuresDefined
<1>3. Distances(c)[d] = Least(L)
  <2> HIDE DEF ways
  <2> QED BY <1>1, <1>2
<1>4. PICK z \in ways : z[1] = d
  BY <1>2
<1> HIDE DEF ways
<1>5. L \in SUBSET Nat /\ L # {}
  <2>1. z[2] \in L
    BY <1>4
  <2> QED BY <1>2, <2>1
<1>6. \A n : n \in L <=> <<d, n>> \in ways
  <2> TAKE n
  <2>1. ASSUME n \in L PROVE <<d, n>> \in ways
    BY <2>1, <1>2
  <2>2. ASSUME <<d, n>> \in ways PROVE n \in L
    BY <2>2
  <2> QED BY <2>1, <2>2
<1> HIDE DEF L
<1>7. Least(L) \in L /\ \A m \in L : Least(L) <= m
  BY <1>5, LeastIs
<1> QED BY <1>3, <1>5, <1>6, <1>7 DEF ways

-----------------------------------------------------------------------------
(***************************************************************************)
(* A search goes level by level. Frontier: the queue holds ends of ways,   *)
(* the shorter first and none longer than the first by more than an edge;  *)
(* what a commit searched leads to is searched or in the queue; and so is  *)
(* what a way reaches that is no longer than the first.                    *)
(***************************************************************************)
LEMMA JoinReads ==
    ASSUME NEW C, NEW s \in Seq(C), NEW t \in Seq(C)
    PROVE  /\ s \o t \in Seq(C) /\ Len(s \o t) = Len(s) + Len(t)
           /\ DOMAIN (s \o t) = 1..(Len(s) + Len(t)) /\ DOMAIN t = 1..Len(t) /\ Len(t) \in Nat
           /\ \A i \in 1..Len(s) : (s \o t)[i] = s[i]
           /\ \A i \in 1..Len(t) : (s \o t)[Len(s) + i] = t[i]
<1>1. s \o t \in Seq(C) /\ Len(s \o t) = Len(s) + Len(t)
  OBVIOUS
<1>2. DOMAIN (s \o t) = 1..(Len(s) + Len(t)) /\ DOMAIN t = 1..Len(t) /\ Len(t) \in Nat /\ Len(s) \in Nat
  OBVIOUS
<1>3. \A i \in 1..Len(s) : (s \o t)[i] = s[i]
  OBVIOUS
<1>4. ASSUME NEW i \in 1..Len(t) PROVE (s \o t)[Len(s) + i] = t[i]
  BY <1>2
<1> QED BY <1>1, <1>2, <1>3, <1>4

Entry == Commits \X Nat

Frontier(q, seen, start) ==
    /\ q \in Seq(Entry) /\ seen \in SUBSET Commits
    /\ \A i \in DOMAIN q : q[i] \in Measured[start]
    /\ \A u \in seen : \A v \in ElementsOf(Visible(u)) : v \in seen \/ \E i \in DOMAIN q : q[i][1] = v
    /\ \A i, j \in DOMAIN q : i <= j => q[i][2] <= q[j][2] /\ q[j][2] <= q[i][2] + 1
    /\ start \in seen \/ \E i \in DOMAIN q : q[i][1] = start
    /\ \A x : \A n \in Nat : <<x, n>> \in Measured[start] /\ q # <<>> /\ n <= q[1][2] =>
           x \in seen \/ \E i \in DOMAIN q : q[i][1] = x /\ q[i][2] <= n

LEMMA FrontierStarts ==
    ASSUME HistoryOK, NEW start \in Commits
    PROVE  Frontier(<<<<start, 0>>>>, {}, start)
<1> DEFINE q == <<<<start, 0>>>>
<1>1. <<start, 0>> \in Entry /\ <<start, 0>> \in Measured[start]
  BY MeasuredCases DEF Entry
<1>2. <<start, 0>>[1] = start /\ <<start, 0>>[2] = 0
  OBVIOUS
<1>3. q \in Seq(Entry) /\ DOMAIN q = {1} /\ q[1] = <<start, 0>>
  BY <1>1
<1> HIDE DEF q
<1>4. ASSUME NEW x, NEW n \in Nat, <<x, n>> \in Measured[start], n <= q[1][2]
      PROVE  q[1][1] = x /\ q[1][2] <= n
  BY <1>2, <1>3, <1>4, MeasuredZero
<1>5. Frontier(q, {}, start)
  BY <1>1, <1>2, <1>3, <1>4 DEF Frontier
<1> QED BY <1>5 DEF q

LEMMA FrontierGoesOn ==
    ASSUME HistoryOK, NEW start \in Commits, NEW q, NEW seen, Frontier(q, seen, start), q # <<>>,
           NEW b \in Seq(Entry), \A i \in DOMAIN b : b[i] \in Measured[start] /\ b[i][2] = q[1][2] + 1,
           q[1][1] \in seen \/ \A v \in ElementsOf(Visible(q[1][1])) : \E i \in DOMAIN b : b[i][1] = v
    PROVE  Frontier(Tail(q) \o b, seen \cup {q[1][1]}, start)
<1> DEFINE c == q[1][1]
           d == q[1][2]
           m == Len(q) - 1
           r == Tail(q) \o b
           now == seen \cup {c}
<1>1. /\ q \in Seq(Entry) /\ seen \in SUBSET Commits
      /\ \A i \in DOMAIN q : q[i] \in Measured[start]
      /\ \A u \in seen : \A v \in ElementsOf(Visible(u)) : v \in seen \/ \E i \in DOMAIN q : q[i][1] = v
      /\ \A i, j \in DOMAIN q : i <= j => q[i][2] <= q[j][2] /\ q[j][2] <= q[i][2] + 1
      /\ start \in seen \/ \E i \in DOMAIN q : q[i][1] = start
      /\ \A x : \A n \in Nat : <<x, n>> \in Measured[start] /\ n <= q[1][2] =>
             x \in seen \/ \E i \in DOMAIN q : q[i][1] = x /\ q[i][2] <= n
  BY DEF Frontier
<1>2. 1 \in DOMAIN q /\ q[1] \in Entry /\ m \in Nat /\ DOMAIN q = 1..(m + 1)
  BY <1>1
<1>3. c \in Commits /\ d \in Nat /\ now \in SUBSET Commits
  BY <1>1, <1>2 DEF Entry
<1>4. /\ r \in Seq(Entry) /\ Len(r) = m + Len(b) /\ DOMAIN r = 1..(m + Len(b)) /\ DOMAIN b = 1..Len(b) /\ Len(b) \in Nat
      /\ \A i \in 1..m : r[i] = q[i + 1] /\ i + 1 \in DOMAIN q
      /\ \A i \in 1..Len(b) : r[m + i] = b[i]
  <2>1. Tail(q) \in Seq(Entry) /\ Len(Tail(q)) = m /\ \A i \in 1..m : Tail(q)[i] = q[i + 1] /\ i + 1 \in DOMAIN q
    BY <1>1, <1>2
  <2> HIDE DEF m
  <2> DEFINE t == Tail(q)
  <2> HIDE DEF t
  <2>2. t \in Seq(Entry) /\ Len(t) = m /\ r = t \o b /\ \A i \in 1..m : t[i] = q[i + 1] /\ i + 1 \in DOMAIN q
    BY <2>1 DEF t
  <2>3. /\ t \o b \in Seq(Entry) /\ Len(t \o b) = Len(t) + Len(b)
        /\ DOMAIN (t \o b) = 1..(Len(t) + Len(b)) /\ DOMAIN b = 1..Len(b) /\ Len(b) \in Nat
        /\ \A i \in 1..Len(t) : (t \o b)[i] = t[i]
        /\ \A i \in 1..Len(b) : (t \o b)[Len(t) + i] = b[i]
    <3>1. t \in Seq(Entry) /\ b \in Seq(Entry)
      BY <2>2
    <3> HIDE DEF r
    <3> QED BY ONLY <3>1, JoinReads
  <2> HIDE DEF r
  <2> QED BY <2>2, <2>3
<1>5. \A i \in DOMAIN b : b[i] \in Measured[start] /\ b[i][2] = d + 1 /\ b[i][2] \in Nat
  BY <1>3
<1>6. \A i \in DOMAIN q : q[i][2] \in Nat /\ d <= q[i][2] /\ q[i][2] <= d + 1
  BY <1>1, <1>2 DEF Entry
<1>7. ASSUME NEW i \in DOMAIN q
      PROVE  q[i][1] \in now \/ \E j \in DOMAIN r : r[j] = q[i]
  <2>1. CASE i = 1
    BY <2>1
  <2>2. CASE i # 1
    <3>1. i - 1 \in 1..m /\ (i - 1) + 1 = i
      BY <1>2, <2>2
    <3>2. r[i - 1] = q[i] /\ i - 1 \in DOMAIN r
      BY <1>2, <1>4, <3>1
    <3> QED BY <3>2
  <2> QED BY <2>1, <2>2
<1>8. q[1][1] \in seen \/ \A v \in ElementsOf(Visible(c)) : \E i \in DOMAIN b : b[i][1] = v
  OBVIOUS
<1> HIDE DEF c, d, m, r, now
<1>9. ASSUME NEW j \in DOMAIN r
      PROVE  /\ r[j] \in Measured[start] /\ r[j][2] \in Nat
             /\ \/ j \in 1..m /\ r[j] = q[j + 1] /\ j + 1 \in DOMAIN q
                \/ j > m /\ r[j][2] = d + 1
  <2>1. CASE j \in 1..m
    BY <1>1, <1>4, <1>6, <2>1
  <2>2. CASE j \notin 1..m
    <3>1. j - m \in 1..Len(b) /\ m + (j - m) = j /\ j > m
      BY <1>2, <1>4, <2>2
    <3>2. r[j] = b[j - m] /\ j - m \in DOMAIN b
      BY <1>4, <3>1
    <3> QED BY <1>5, <3>1, <3>2
  <2> QED BY <2>1, <2>2
<1>10. ASSUME NEW i \in DOMAIN r, NEW j \in DOMAIN r, i <= j
       PROVE  r[i][2] <= r[j][2] /\ r[j][2] <= r[i][2] + 1
  <2>1. i \in Nat /\ j \in Nat /\ m \in Nat /\ d \in Nat
    BY <1>2, <1>3, <1>4
  <2>2. CASE j \in 1..m
    <3>1. i \in 1..m /\ r[i] = q[i + 1] /\ r[j] = q[j + 1] /\ i + 1 \in DOMAIN q /\ j + 1 \in DOMAIN q
      BY <1>4, <1>10, <2>1, <2>2
    <3>2. i + 1 <= j + 1
      BY <1>10, <2>1
    <3> QED BY <1>1, <3>1, <3>2
  <2>3. CASE j \notin 1..m
    <3>1. r[j][2] = d + 1
      BY <1>9, <2>3
    <3>2. d <= r[i][2] /\ r[i][2] <= d + 1 /\ r[i][2] \in Nat
      BY <1>4, <1>6, <1>9, <2>1
    <3> QED BY <2>1, <3>1, <3>2
  <2> QED BY <2>2, <2>3
<1>11. \A j \in DOMAIN r : r[j][2] \in Nat /\ d <= r[j][2] /\ r[j][2] <= d + 1
  BY <1>3, <1>6, <1>9
<1>12. ASSUME NEW u \in now, NEW v \in ElementsOf(Visible(u))
       PROVE  v \in now \/ \E i \in DOMAIN r : r[i][1] = v
  <2>1. CASE u \in seen
    BY <1>1, <2>1, <1>7 DEF now
  <2>2. CASE u \notin seen
    <3>1. u = c /\ c \notin seen
      BY <2>2 DEF now
    <3>2. PICK i \in DOMAIN b : b[i][1] = v
      BY <1>8, <3>1 DEF c
    <3>3. i \in 1..Len(b) /\ r[m + i] = b[i] /\ m + i \in DOMAIN r
      BY <1>2, <1>4 DEF m
    <3> QED BY <3>2, <3>3
  <2> QED BY <2>1, <2>2
<1>13. start \in now \/ \E i \in DOMAIN r : r[i][1] = start
  BY <1>1, <1>7 DEF now
<1>14. ASSUME NEW x, NEW n \in Nat, <<x, n>> \in Measured[start], n <= d
       PROVE  x \in now \/ \E i \in DOMAIN r : r[i][1] = x /\ r[i][2] <= n
  BY <1>1, <1>14, <1>7 DEF d, now
<1>15. ASSUME NEW x, NEW n \in Nat, <<x, n>> \in Measured[start], r # <<>>, n <= r[1][2]
       PROVE  x \in now \/ \E i \in DOMAIN r : r[i][1] = x /\ r[i][2] <= n
  <2>1. 1 \in DOMAIN r
    BY <1>4, <1>15
  <2>2. r[1][2] \in Nat /\ r[1][2] <= d + 1 /\ d \in Nat
    BY <1>3, <1>11, <2>1
  <2>3. CASE n <= d
    BY <1>14, <1>15, <2>3
  <2>4. CASE ~(n <= d)
    <3>1. n = d + 1 /\ r[1][2] = d + 1
      BY <1>15, <2>2, <2>4
    <3>2. PICK u \in Commits : <<u, d>> \in Measured[start] /\ x \in ElementsOf(Visible(u))
      BY <1>15, <2>2, <3>1, MeasuredLast
    <3>3. u \in now
      <4>1. u \in now \/ \E i \in DOMAIN r : r[i][1] = u /\ r[i][2] <= d
        BY <1>14, <2>2, <3>2
      <4>2. \A i \in DOMAIN r : r[1][2] <= r[i][2] /\ r[i][2] \in Nat
        BY <1>4, <1>10, <1>11, <2>1
      <4> QED BY <2>2, <3>1, <4>1, <4>2
    <3>4. x \in now \/ \E i \in DOMAIN r : r[i][1] = x
      BY <1>12, <3>2, <3>3
    <3> QED BY <1>11, <3>1, <3>4
  <2> QED BY <2>3, <2>4
<1>16. Frontier(r, now, start)
  BY <1>3, <1>4, <1>9, <1>10, <1>12, <1>13, <1>15 DEF Frontier
<1> QED BY <1>16 DEF r, now, c

\* The states that Search goes through, and the steps between them.
SearchState == [queue : Seq(Entry), seen : SUBSET Commits, found : Nat \cup {None}]

EntriesBelow(c, d) == [i \in DOMAIN log[c] |-> <<log[c][i], d + 1>>]

SearchStep(s, hits) ==
    IF s.found # None \/ s.queue = <<>> THEN s
    ELSE IF s.queue[1][1] \in hits THEN [s EXCEPT !.found = s.queue[1][2]]
    ELSE IF s.queue[1][1] \in s.seen THEN [s EXCEPT !.queue = Tail(@)]
    ELSE [s EXCEPT !.queue = Tail(@) \o EntriesBelow(s.queue[1][1], s.queue[1][2]),
                   !.seen = @ \cup {s.queue[1][1]}]

SearchFrom(start) == [queue |-> <<<<start, 0>>>>, seen |-> {}, found |-> None]

Searches(at, start, hits) ==
    at = [n \in 0..(2 * Len(log) + 1) |-> IF n = 0 THEN SearchFrom(start) ELSE SearchStep(at[n - 1], hits)]

SearchAt(start, hits) == CHOOSE at : Searches(at, start, hits)

LEMMA SearchRead ==
    ASSUME NEW start, NEW hits
    PROVE  Search(start, hits) = SearchAt(start, hits)[2 * Len(log) + 1].found
BY DEF Search, SearchAt, Searches, SearchFrom, SearchStep, EntriesBelow

LEMMA EntriesAre ==
    ASSUME HistoryOK, NEW c \in Commits, NEW d \in Nat
    PROVE  /\ EntriesBelow(c, d) \in Seq(Entry) /\ Len(EntriesBelow(c, d)) = Len(log[c])
           /\ DOMAIN EntriesBelow(c, d) = DOMAIN log[c]
           /\ \A i \in DOMAIN log[c] : EntriesBelow(c, d)[i][1] = log[c][i] /\ EntriesBelow(c, d)[i][2] = d + 1
                                       /\ EntriesBelow(c, d)[i] = <<log[c][i], d + 1>>
<1>1. log[c] \in Seq(Nat) /\ \A i \in DOMAIN log[c] : log[c][i] \in Commits
  BY ParentsStored
<1>2. DOMAIN log[c] = 1..Len(log[c]) /\ Len(log[c]) \in Nat
  BY <1>1
<1>3. \A i \in DOMAIN log[c] : <<log[c][i], d + 1>> \in Entry
  BY <1>1 DEF Entry
<1> DEFINE e == EntriesBelow(c, d)
<1>4. e = [i \in 1..Len(log[c]) |-> <<log[c][i], d + 1>>]
  BY <1>2 DEF EntriesBelow
<1> HIDE DEF e
<1>5. e \in [1..Len(log[c]) -> Entry]
  BY <1>2, <1>3, <1>4
<1>6. e \in Seq(Entry) /\ Len(e) = Len(log[c])
  BY <1>2, <1>5
<1>7. \A i \in DOMAIN log[c] : e[i] = <<log[c][i], d + 1>>
  BY <1>2, <1>4
<1> QED BY <1>2, <1>5, <1>6, <1>7 DEF e

LEMMA SearchStepIs ==
    ASSUME HistoryOK, NEW s \in SearchState, NEW hits
    PROVE  /\ SearchStep(s, hits) \in SearchState
           /\ s.found # None \/ s.queue = <<>> => SearchStep(s, hits) = s
           /\ s.found = None /\ s.queue # <<>> =>
                 /\ s.queue[1] \in Entry
                 /\ s.queue[1][1] \in hits =>
                       /\ SearchStep(s, hits).queue = s.queue /\ SearchStep(s, hits).seen = s.seen
                       /\ SearchStep(s, hits).found = s.queue[1][2]
                 /\ s.queue[1][1] \notin hits => SearchStep(s, hits).found = None
                 /\ s.queue[1][1] \notin hits /\ s.queue[1][1] \in s.seen =>
                       SearchStep(s, hits).queue = Tail(s.queue) /\ SearchStep(s, hits).seen = s.seen
                 /\ s.queue[1][1] \notin hits /\ s.queue[1][1] \notin s.seen =>
                       /\ SearchStep(s, hits).queue = Tail(s.queue) \o EntriesBelow(s.queue[1][1], s.queue[1][2])
                       /\ SearchStep(s, hits).seen = s.seen \cup {s.queue[1][1]}
<1> DEFINE r == SearchStep(s, hits)
           c == s.queue[1][1]
           d == s.queue[1][2]
<1>1. s.queue \in Seq(Entry) /\ s.seen \in SUBSET Commits /\ s.found \in Nat \cup {None}
      /\ s = [queue |-> s.queue, seen |-> s.seen, found |-> s.found]
  BY DEF SearchState
<1>2. CASE s.found # None \/ s.queue = <<>>
  BY <1>2 DEF SearchStep
<1>3. CASE s.found = None /\ s.queue # <<>>
  <2>1. s.queue[1] \in Entry /\ Tail(s.queue) \in Seq(Entry)
    BY <1>1, <1>3
  <2>2. c \in Commits /\ d \in Nat
    BY <2>1 DEF Entry
  <2>3. CASE c \in hits
    <3>1. r = [queue |-> s.queue, seen |-> s.seen, found |-> d]
      BY <1>1, <1>3, <2>3 DEF SearchStep
    <3> HIDE DEF r
    <3>2. r \in SearchState
      BY <1>1, <2>2, <3>1 DEF SearchState
    <3>3. r.queue = s.queue /\ r.seen = s.seen /\ r.found = d
      BY <3>1
    <3> QED BY <1>3, <2>1, <2>3, <3>2, <3>3 DEF r
  <2>4. CASE c \notin hits /\ c \in s.seen
    <3>1. r = [queue |-> Tail(s.queue), seen |-> s.seen, found |-> s.found]
      BY <1>1, <1>3, <2>4 DEF SearchStep
    <3> HIDE DEF r
    <3>2. r \in SearchState
      BY <1>1, <2>1, <3>1 DEF SearchState
    <3>3. r.queue = Tail(s.queue) /\ r.seen = s.seen /\ r.found = s.found
      BY <3>1
    <3> QED BY <1>3, <2>1, <2>4, <3>2, <3>3 DEF r
  <2>5. CASE c \notin hits /\ c \notin s.seen
    <3>1. r = [queue |-> Tail(s.queue) \o EntriesBelow(c, d), seen |-> s.seen \cup {c}, found |-> s.found]
      BY <1>1, <1>3, <2>5 DEF SearchStep
    <3>2. EntriesBelow(c, d) \in Seq(Entry)
      BY <2>2, EntriesAre
    <3>3. Tail(s.queue) \o EntriesBelow(c, d) \in Seq(Entry)
      BY <2>1, <3>2
    <3>4. s.seen \cup {c} \in SUBSET Commits
      BY <1>1, <2>2
    <3> HIDE DEF r, c, d
    <3>5. r \in SearchState
      BY <1>1, <3>1, <3>3, <3>4 DEF SearchState
    <3>6. r.queue = Tail(s.queue) \o EntriesBelow(c, d) /\ r.seen = s.seen \cup {c} /\ r.found = s.found
      BY <3>1
    <3> QED BY <1>3, <2>1, <2>5, <3>5, <3>6 DEF r, c, d
  <2> QED BY <2>3, <2>4, <2>5
<1> QED BY <1>1, <1>2, <1>3

LEMMA SearchDefined ==
    ASSUME HistoryOK, NEW start \in Commits, NEW hits
    PROVE  /\ SearchAt(start, hits) \in [0..(2 * Len(log) + 1) -> SearchState]
           /\ SearchAt(start, hits)[0] = SearchFrom(start)
           /\ \A n \in 1..(2 * Len(log) + 1) :
                  SearchAt(start, hits)[n] = SearchStep(SearchAt(start, hits)[n - 1], hits)
<1> DEFINE N == 2 * Len(log) + 1
           h == [n \in 1..N |-> [s \in SearchState |-> SearchStep(s, hits)]]
           at == SearchAt(start, hits)
<1>1. N \in Nat
  BY CommitsAre
<1>2. SearchFrom(start) \in SearchState
  BY DEF Entry, SearchFrom, SearchState
<1>3. \A s \in SearchState : SearchStep(s, hits) \in SearchState
  BY SearchStepIs
<1> HIDE DEF N
<1>4. h \in [1..N -> [SearchState -> SearchState]]
  BY <1>3
<1>5. \A n \in 1..N : \A s \in SearchState : h[n][s] = SearchStep(s, hits)
  OBVIOUS
<1> HIDE DEF h
<1>6. PICK f \in [0..N -> SearchState] : Iterates(f, N, SearchFrom(start), h)
  BY <1>1, <1>2, <1>4, IterationDefines
<1>7. f[0] = SearchFrom(start) /\ \A n \in 1..N : f[n] = SearchStep(f[n - 1], hits)
  <2>1. \A n \in 1..N : f[n] = h[n][f[n - 1]] /\ f[n - 1] \in SearchState
    BY <1>1, <1>6 DEF Iterates
  <2> QED BY <1>5, <1>6, <2>1 DEF Iterates
<1>8. \A n \in 0..N : f[n] = IF n = 0 THEN SearchFrom(start) ELSE SearchStep(f[n - 1], hits)
  BY <1>1, <1>7
<1>9. f = [n \in 0..N |-> f[n]]
  BY <1>6
<1>10. f = [n \in 0..N |-> IF n = 0 THEN SearchFrom(start) ELSE SearchStep(f[n - 1], hits)]
  BY <1>8, <1>9
<1>11. Searches(f, start, hits)
  BY <1>10 DEF Searches, N
<1>12. Searches(at, start, hits)
  BY <1>11 DEF SearchAt
<1> HIDE DEF at
<1>13. at = [n \in 0..N |-> at[n]]
       /\ \A n \in 0..N : at[n] = IF n = 0 THEN SearchFrom(start) ELSE SearchStep(at[n - 1], hits)
  BY <1>12 DEF Searches, N
<1>14. at[0] = SearchFrom(start) /\ \A n \in 1..N : at[n] = SearchStep(at[n - 1], hits)
  <2>1. 0 \in 0..N /\ \A n \in 1..N : n \in 0..N /\ n # 0
    BY <1>1
  <2> QED BY <1>13, <2>1
<1> DEFINE G == {n \in 0..N : at[n] \in SearchState}
<1>15. 0 \in G
  BY <1>1, <1>2, <1>14
<1>16. \A n \in 1..N : n - 1 \in G => n \in G
  BY <1>1, <1>3, <1>14
<1>17. G = 0..N
  <2>1. G \in SUBSET (0..N)
    OBVIOUS
  <2> HIDE DEF G
  <2> QED BY <1>1, <1>15, <1>16, <2>1, Onwards
<1>18. at \in [0..N -> SearchState]
  BY <1>13, <1>17
<1> QED BY <1>14, <1>18 DEF at, N

\* What a search has found is nearest; until then it has met no hit, and it has taken as many steps as
\* the commits searched and their parents in the queue account for.
Nearest(d, start, hits) ==
    /\ \E h \in hits : <<h, d>> \in Measured[start]
    /\ \A h \in hits : \A n : <<h, n>> \in Measured[start] => d <= n

Searched(s, n, start, hits) ==
    /\ s.found # None => Nearest(s.found, start, hits)
    /\ s.found = None => /\ hits \cap s.seen = {}
                         /\ Frontier(s.queue, s.seen, start)
                         /\ s.queue # <<>> => n + Len(s.queue) <= 1 + 2 * Cardinality(s.seen)

LEMMA SearchFinds ==
    ASSUME HistoryOK, NEW start \in Commits, NEW hits, NEW q, NEW seen, Frontier(q, seen, start), q # <<>>,
           hits \cap seen = {}, q[1][1] \in hits
    PROVE  Nearest(q[1][2], start, hits)
<1>1. /\ q \in Seq(Entry) /\ \A i \in DOMAIN q : q[i] \in Measured[start]
      /\ \A i, j \in DOMAIN q : i <= j => q[i][2] <= q[j][2]
      /\ \A x : \A n \in Nat : <<x, n>> \in Measured[start] /\ n <= q[1][2] =>
             x \in seen \/ \E i \in DOMAIN q : q[i][1] = x /\ q[i][2] <= n
  BY DEF Frontier
<1>2. 1 \in DOMAIN q /\ q[1] \in Entry /\ \A i \in DOMAIN q : q[i] \in Entry
  BY <1>1
<1>3. q[1] = <<q[1][1], q[1][2]>> /\ q[1][2] \in Nat /\ \A i \in DOMAIN q : q[i][2] \in Nat
  BY <1>2 DEF Entry
<1>4. ASSUME NEW h \in hits, NEW n, <<h, n>> \in Measured[start] PROVE q[1][2] <= n
  <2>1. n \in Nat
    BY <1>4, MeasuredTyped
  <2>2. SUFFICES ASSUME ~(q[1][2] <= n) PROVE FALSE
    OBVIOUS
  <2>3. n <= q[1][2]
    BY <1>3, <2>1, <2>2
  <2>4. PICK i \in DOMAIN q : q[i][2] <= n
    BY <1>1, <1>4, <2>1, <2>3
  <2>5. q[1][2] <= q[i][2]
    BY <1>1, <1>2
  <2> QED BY <1>3, <2>1, <2>2, <2>4, <2>5
<1>5. <<q[1][1], q[1][2]>> \in Measured[start]
  BY <1>1, <1>2, <1>3
<1> QED BY <1>4, <1>5 DEF Nearest

LEMMA SearchedStarts ==
    ASSUME HistoryOK, NEW start \in Commits, NEW hits
    PROVE  Searched(SearchFrom(start), 0, start, hits)
<1> DEFINE q == <<<<start, 0>>>>
<1>1. SearchFrom(start).found = None /\ SearchFrom(start).seen = {} /\ SearchFrom(start).queue = q
  BY DEF SearchFrom
<1>2. Len(q) = 1 /\ Cardinality({}) = 0
  BY FS_EmptySet
<1>3. Frontier(q, {}, start)
  BY FrontierStarts
<1> HIDE DEF q
<1> QED BY <1>1, <1>2, <1>3 DEF Searched

LEMMA SearchedGoesOn ==
    ASSUME HistoryOK, ParentsOK, shallow = {}, NEW start \in Commits, NEW hits, NEW n \in Nat,
           NEW s \in SearchState, Searched(s, n, start, hits)
    PROVE  Searched(SearchStep(s, hits), n + 1, start, hits)
<1> DEFINE r == SearchStep(s, hits)
           c == s.queue[1][1]
           d == s.queue[1][2]
<1>1. CASE s.found # None \/ s.queue = <<>>
  <2>1. r = s
    BY <1>1, SearchStepIs
  <2> HIDE DEF r
  <2> QED BY <1>1, <2>1 DEF Searched, r
<1>2. CASE s.found = None /\ s.queue # <<>>
  <2>1. hits \cap s.seen = {} /\ Frontier(s.queue, s.seen, start) /\ n + Len(s.queue) <= 1 + 2 * Cardinality(s.seen)
    BY <1>2 DEF Searched
  <2>2. s.queue[1] \in Entry /\ s.queue \in Seq(Entry) /\ s.seen \in SUBSET Commits
    BY <1>2, SearchStepIs DEF SearchState
  <2>3. c \in Commits /\ d \in Nat /\ s.queue[1] = <<c, d>>
    BY <2>2 DEF Entry
  <2>4. IsFiniteSet(s.seen) /\ Cardinality(s.seen) \in Nat /\ Len(s.queue) \in Nat /\ Len(s.queue) # 0
        /\ Tail(s.queue) \in Seq(Entry) /\ Len(Tail(s.queue)) = Len(s.queue) - 1
    BY <1>2, <2>2, CommitsFinite, FS_CardinalityType
  <2>5. CASE c \in hits
    <3>1. r.found = d
      BY <1>2, <2>5, SearchStepIs
    <3>2. d # None
      BY <2>3, NoneIsNoCommit
    <3>3. Nearest(d, start, hits)
      BY <1>2, <2>1, <2>5, SearchFinds
    <3> HIDE DEF r, d
    <3> QED BY <3>1, <3>2, <3>3 DEF Searched, r
  <2>6. CASE c \notin hits /\ c \in s.seen
    <3>1. r.found = None /\ r.queue = Tail(s.queue) /\ r.seen = s.seen
      BY <1>2, <2>6, SearchStepIs
    <3>2. <<>> \in Seq(Entry) /\ DOMAIN <<>> = {}
      OBVIOUS
    <3>3. Frontier(Tail(s.queue) \o <<>>, s.seen \cup {c}, start)
      BY <1>2, <2>1, <2>6, <3>2, FrontierGoesOn
    <3>4. Tail(s.queue) \o <<>> = Tail(s.queue) /\ s.seen \cup {c} = s.seen
      BY <2>4, <2>6
    <3>5. (n + 1) + Len(Tail(s.queue)) <= 1 + 2 * Cardinality(s.seen)
      <4> DEFINE k == Cardinality(s.seen)
                 l == Len(s.queue)
      <4>1. k \in Nat /\ l \in Nat /\ n + l <= 1 + 2 * k /\ Len(Tail(s.queue)) = l - 1
        BY <2>1, <2>4
      <4> HIDE DEF k, l
      <4>2. (n + 1) + (l - 1) <= 1 + 2 * k
        BY <4>1
      <4> QED BY <4>1, <4>2 DEF k
    <3> HIDE DEF r, c
    <3> QED BY <2>1, <3>1, <3>3, <3>4, <3>5 DEF Searched, r
  <2>7. CASE c \notin hits /\ c \notin s.seen
    <3> DEFINE b == EntriesBelow(c, d)
    <3>1. r.found = None /\ r.queue = Tail(s.queue) \o b /\ r.seen = s.seen \cup {c}
      BY <1>2, <2>7, SearchStepIs
    <3>2. /\ b \in Seq(Entry) /\ Len(b) = Len(log[c]) /\ DOMAIN b = DOMAIN log[c]
          /\ \A i \in DOMAIN log[c] : b[i][1] = log[c][i] /\ b[i][2] = d + 1 /\ b[i] = <<log[c][i], d + 1>>
      BY <2>3, EntriesAre
    <3>3. Visible(c) = log[c] /\ Len(log[c]) <= 2 /\ Len(log[c]) \in Nat
      BY <2>3, ParentsStored DEF Visible, ParentsOK
    <3>4. <<c, d>> \in Measured[start]
      <4>1. 1 \in DOMAIN s.queue
        BY <2>2, <2>4
      <4> QED BY <2>1, <2>3, <4>1 DEF Frontier
    <3> HIDE DEF b
    <3>5. \A i \in DOMAIN b : b[i] \in Measured[start] /\ b[i][2] = d + 1
      BY <3>2, <3>3, <3>4, MeasuredGoesOn DEF ElementsOf
    <3>6. \A v \in ElementsOf(Visible(c)) : \E i \in DOMAIN b : b[i][1] = v
      BY <3>2, <3>3 DEF ElementsOf
    <3>7. Frontier(Tail(s.queue) \o b, s.seen \cup {c}, start)
      BY <1>2, <2>1, <3>2, <3>5, <3>6, FrontierGoesOn
    <3>8. Cardinality(s.seen \cup {c}) = Cardinality(s.seen) + 1
      BY <2>4, <2>7, FS_AddElement
    <3>9. Len(Tail(s.queue) \o b) = Len(s.queue) - 1 + Len(log[c])
      <4>1. Len(Tail(s.queue) \o b) = Len(Tail(s.queue)) + Len(b)
        BY <2>4, <3>2, JoinReads
      <4> QED BY <2>4, <3>2, <4>1
    <3>10. (n + 1) + Len(Tail(s.queue) \o b) <= 1 + 2 * Cardinality(s.seen \cup {c})
      <4> DEFINE k == Cardinality(s.seen)
                 l == Len(s.queue)
                 e == Len(log[c])
      <4>1. k \in Nat /\ l \in Nat /\ e \in Nat /\ n + l <= 1 + 2 * k /\ e <= 2
        BY <2>1, <2>4, <3>3
      <4>2. Len(Tail(s.queue) \o b) = l - 1 + e /\ Cardinality(s.seen \cup {c}) = k + 1
        BY <3>8, <3>9
      <4> HIDE DEF k, l, e
      <4>3. (n + 1) + (l - 1 + e) <= 1 + 2 * (k + 1)
        BY <4>1
      <4> QED BY <4>2, <4>3
    <3>11. hits \cap (s.seen \cup {c}) = {}
      BY <2>1, <2>7
    <3> HIDE DEF r, c
    <3> QED BY <3>1, <3>7, <3>10, <3>11 DEF Searched, r
  <2> QED BY <2>5, <2>6, <2>7
<1> QED BY <1>1, <1>2

\* branch and describe: what a search finds is the nearest hit, and it finds one if one is below.
LEMMA SearchIs ==
    ASSUME HistoryOK, ParentsOK, shallow = {}, NEW start \in Commits, NEW hits
    PROVE  /\ Search(start, hits) # None => Nearest(Search(start, hits), start, hits)
           /\ Search(start, hits) = None => hits \cap Ancestors(start) = {}
<1> DEFINE N == 2 * Len(log) + 1
           at == SearchAt(start, hits)
           G == {n \in 0..N : Searched(at[n], n, start, hits)}
<1>1. N \in Nat /\ Commits = 1..Len(log) /\ Len(log) \in Nat
  BY CommitsAre
<1>2. /\ at \in [0..N -> SearchState] /\ at[0] = SearchFrom(start)
      /\ \A n \in 1..N : at[n] = SearchStep(at[n - 1], hits)
  BY SearchDefined
<1>3. Search(start, hits) = at[N].found
  BY SearchRead
<1> HIDE DEF N, at
<1>4. 0 \in G
  BY <1>1, <1>2, SearchedStarts
<1>5. ASSUME NEW n \in 1..N, n - 1 \in G PROVE n \in G
  <2> DEFINE m == n - 1
  <2>1. m \in Nat /\ m \in 0..N /\ m + 1 = n /\ n \in 0..N
    BY <1>1
  <2>2. at[m] \in SearchState /\ Searched(at[m], m, start, hits) /\ at[n] = SearchStep(at[m], hits)
    BY <1>2, <1>5, <2>1
  <2> HIDE DEF m
  <2>3. Searched(SearchStep(at[m], hits), m + 1, start, hits)
    BY <2>1, <2>2, SearchedGoesOn
  <2> QED BY <2>1, <2>2, <2>3
<1>6. G = 0..N
  <2>1. G \in SUBSET (0..N)
    OBVIOUS
  <2> HIDE DEF G
  <2> QED BY <1>1, <1>4, <1>5, <2>1, Onwards
<1> DEFINE s == at[N]
<1>7. s \in SearchState /\ Searched(s, N, start, hits)
  <2>1. N \in 0..N
    BY <1>1
  <2>2. N \in G
    BY <1>6, <2>1
  <2> QED BY <1>2, <2>1, <2>2
<1> HIDE DEF s
<1>8. ASSUME s.found = None PROVE hits \cap Ancestors(start) = {}
  <2>1. hits \cap s.seen = {} /\ Frontier(s.queue, s.seen, start)
        /\ (s.queue # <<>> => N + Len(s.queue) <= 1 + 2 * Cardinality(s.seen))
    BY <1>7, <1>8 DEF Searched
  <2>2. s.queue \in Seq(Entry) /\ s.seen \in SUBSET Commits
    BY <1>7 DEF SearchState
  <2>3. Cardinality(s.seen) \in Nat /\ Cardinality(s.seen) <= Len(log)
    <3> DEFINE g == Len(log)
    <3>1. g \in Nat
      BY <1>1
    <3> HIDE DEF g
    <3>2. IsFiniteSet(1..g) /\ Cardinality(1..g) = g
      BY <3>1, FS_Interval
    <3>3. IsFiniteSet(1..Len(log)) /\ Cardinality(1..Len(log)) = Len(log)
      BY <3>2 DEF g
    <3>4. IsFiniteSet(s.seen) /\ Cardinality(s.seen) <= Cardinality(1..Len(log))
      BY <1>1, <2>2, <3>3, FS_Subset
    <3> QED BY <3>3, <3>4, FS_CardinalityType
  <2>4. s.queue = <<>>
    <3>1. s.queue # <<>> => Len(s.queue) \in Nat /\ Len(s.queue) >= 1
      BY <2>2
    <3> DEFINE k == Cardinality(s.seen)
               l == Len(s.queue)
               g == Len(log)
    <3>2. k \in Nat /\ k <= g /\ g \in Nat /\ (s.queue # <<>> => l \in Nat /\ l >= 1 /\ (2 * g + 1) + l <= 1 + 2 * k)
      BY <1>1, <2>1, <2>3, <3>1 DEF N
    <3> HIDE DEF k, l, g
    <3> QED BY <3>2
  <2>5. DOMAIN s.queue = {}
    BY <2>4
  <2>6. start \in s.seen /\ \A u \in s.seen : ElementsOf(Visible(u)) \subseteq s.seen
    BY <2>1, <2>5 DEF Frontier
  <2>7. Walk({start}, FALSE) \subseteq s.seen
    BY <2>6, WalkStaysIn DEF Followed
  <2> QED BY <2>1, <2>7 DEF Ancestors
<1> QED BY <1>3, <1>7, <1>8 DEF Searched, s

\* A search finds its one target if it is an ancestor, and its distance.
LEMMA SearchForOne ==
    ASSUME HistoryOK, ParentsOK, shallow = {}, NEW start \in Commits, NEW target
    PROVE  /\ Search(start, {target}) # None <=> target \in Ancestors(start)
           /\ target \in Ancestors(start) => Search(start, {target}) = Distances(start)[target]
<1> DEFINE d == Search(start, {target})
<1>1. d # None => Nearest(d, start, {target})
  BY SearchIs
<1>2. d = None => {target} \cap Ancestors(start) = {}
  BY SearchIs
<1> HIDE DEF d
<1>3. ASSUME d # None PROVE target \in Ancestors(start) /\ d \in Nat
  BY <1>1, <1>3, MeasuredAre, MeasuredTyped DEF Nearest
<1>4. ASSUME target \in Ancestors(start) PROVE d = Distances(start)[target]
  <2> DEFINE e == Distances(start)[target]
  <2>1. e \in Nat /\ <<target, e>> \in Measured[start] /\ \A n : <<target, n>> \in Measured[start] => e <= n
    BY <1>4, DistanceIs
  <2>2. d # None
    BY <1>2, <1>4
  <2> HIDE DEF e
  <2>3. <<target, d>> \in Measured[start] /\ \A n : <<target, n>> \in Measured[start] => d <= n
    BY <1>1, <2>2 DEF Nearest
  <2>4. d <= e /\ e <= d /\ d \in Nat
    BY <1>3, <2>1, <2>2, <2>3
  <2> QED BY <2>1, <2>4 DEF e
<1> QED BY <1>2, <1>3, <1>4 DEF d

-----------------------------------------------------------------------------
(***************************************************************************)
(* Refs by the commits they reach, found by either walk.                   *)
(***************************************************************************)
Asks(f) ==
    /\ f.contains \in Answers /\ f.noContains \in Answers /\ f.merged \in Answers /\ f.noMerged \in Answers
    /\ f.pointsAt = None

Fits(r, f) ==
    /\ f.contains # None => f.contains \in Ancestors(r.tip)
    /\ f.noContains # None => f.noContains \notin Ancestors(r.tip)
    /\ f.merged # None => r.tip \in Ancestors(f.merged)
    /\ f.noMerged # None => r.tip \notin Ancestors(f.noMerged)

LEMMA RefsFit ==
    ASSUME HistoryOK, TagOK, ParentsOK, log # <<>>, NEW f, Asks(f)
    PROVE  /\ EachRef(Refs, f) = {r \in Refs : Fits(r, f)}
           /\ shallow = {} => ListedBranches(Refs, f) = {r \in Refs : Fits(r, f)}
<1>1. \A r \in Refs : r.tip \in Commits
  BY TipsAre
<1>2. \A c \in Commits : DOMAIN Distances(c) = Ancestors(c)
  BY DistancesDomain
<1>3. \A x \in Answers : x # None => x \in Commits
  BY DEF Answers
<1>4. ASSUME NEW r \in Refs
      PROVE  /\ f.contains # None => IsAncestor(f.contains, r.tip)
             /\ f.noContains # None => ~IsAncestor(f.noContains, r.tip)
             /\ f.merged # None => r.tip \in DOMAIN Distances(f.merged)
             /\ f.noMerged # None => r.tip \notin DOMAIN Distances(f.noMerged)
             /\ f.pointsAt # None => f.pointsAt \in PointsAt(r)
             <=> Fits(r, f)
  BY <1>1, <1>2, <1>3 DEF Fits, Asks, IsAncestor
<1>5. EachRef(Refs, f) = {r \in Refs : Fits(r, f)}
  <2> HIDE DEF Refs
  <2> QED BY <1>4 DEF EachRef
<1>6. ASSUME shallow = {} PROVE ListedBranches(Refs, f) = {r \in Refs : Fits(r, f)}
  BY <1>6, SearchForOne, <1>1, <1>3 DEF Reaches, Fits, Asks, ListedBranches
<1> QED BY <1>5, <1>6

\* What the filters of the properties ask, and what they find.
AskedOf(c) == {[NoFilter EXCEPT !.contains = c], [NoFilter EXCEPT !.noMerged = c],
               [NoFilter EXCEPT !.merged = Newest, !.noContains = c]}

FoundAs(f, c) ==
    /\ EachRef(Refs, f) = {r \in Refs : /\ (f.contains = c => c \in Ancestors(r.tip))
                                        /\ (f.merged = Newest => r.tip \in Ancestors(Newest))
                                        /\ (f.noMerged = c => r.tip \notin Ancestors(c))
                                        /\ (f.noContains = c => c \notin Ancestors(r.tip))}
    /\ shallow = {} => EachRef(Refs, f) = ListedBranches(Refs, f)

LEMMA RefsFound ==
    ASSUME HistoryOK, TagOK, ParentsOK, NEW c \in Commits, NEW f \in AskedOf(c)
    PROVE  FoundAs(f, c)
<1>1. log # <<>> /\ Newest \in Commits
  BY CommitsAre DEF Newest
<1>2. None \notin Commits
  BY NoneIsNone
<1>3. /\ f.contains \in {None, c} /\ f.noContains \in {None, c} /\ f.merged \in {None, Newest}
      /\ f.noMerged \in {None, c} /\ f.pointsAt = None
  BY DEF NoFilter, AskedOf
<1> HIDE DEF Newest
<1>4. Asks(f)
  BY <1>1, <1>3 DEF Asks, Answers
<1>5. \A r \in Refs : Fits(r, f) <=> /\ (f.contains = c => c \in Ancestors(r.tip))
                                     /\ (f.merged = Newest => r.tip \in Ancestors(Newest))
                                     /\ (f.noMerged = c => r.tip \notin Ancestors(c))
                                     /\ (f.noContains = c => c \notin Ancestors(r.tip))
  BY <1>1, <1>2, <1>3 DEF Fits
<1>6. /\ EachRef(Refs, f) = {r \in Refs : Fits(r, f)}
      /\ shallow = {} => ListedBranches(Refs, f) = {r \in Refs : Fits(r, f)}
  BY <1>1, <1>4, RefsFit
<1> QED BY <1>5, <1>6 DEF FoundAs

-----------------------------------------------------------------------------
(***************************************************************************)
(* Ahead and behind. Without a shallow file Repository's own distances are *)
(* those of merge-base.                                                    *)
(***************************************************************************)
StoredMeasures(from) ==
    from = [c \in Commits |-> {<<c, 0>>} \cup {<<w[1], w[2] + 1>> : w \in UNION {from[p] : p \in ElementsOf(log[c])}}]

StoredMeasured == CHOOSE from : StoredMeasures(from)

LEMMA StoredAreMeasured ==
    ASSUME HistoryOK, shallow = {}
    PROVE  StoredMeasured = Measured
BY DEF Visible, StoredMeasures, Measures, StoredMeasured, Measured

LEMMA StoredDistancesAre ==
    ASSUME HistoryOK, shallow = {}, NEW c
    PROVE  StoredDistances(c) = Distances(c)
<1>1. StoredDistances(c) = [d \in {w[1] : w \in StoredMeasured[c]} |->
                               Least({w[2] : w \in {v \in StoredMeasured[c] : v[1] = d}})]
  BY DEF StoredDistances, StoredMeasured, StoredMeasures
<1>2. Distances(c) = [d \in {w[1] : w \in Measured[c]} |-> Least({w[2] : w \in {v \in Measured[c] : v[1] = d}})]
  BY DEF Distances, Measured, Measures
<1> QED BY <1>1, <1>2, StoredAreMeasured

\* The function that CountedUntil reads.
Counts(from, stop) ==
    from = [c \in Commits |-> IF c = stop THEN {} ELSE {c} \cup UNION {from[p] : p \in ElementsOf(log[c])}]

CountedFrom(stop) == CHOOSE from : Counts(from, stop)

LEMMA StoredBelow ==
    ASSUME HistoryOK, NEW c \in Commits
    PROVE  \A p \in ElementsOf(log[c]) : p \in Commits /\ p < c /\ p \in Nat
BY CommitsAre DEF HistoryOK, ElementsOf

LEMMA CountsDefined == ASSUME HistoryOK, NEW stop PROVE Counts(CountedFrom(stop), stop)
<1> DEFINE X == SUBSET Commits
           N == Len(log)
           Value(c, f) == IF c = stop THEN {} ELSE {c} \cup UNION {f[p] : p \in ElementsOf(log[c])}
           h == [c \in 1..N |-> [f \in [1..N -> X] |-> Value(c, f)]]
<1>0. Commits = 1..N /\ N \in Nat
  BY CommitsAre
<1>1. \A c \in Commits : \A p \in ElementsOf(log[c]) : p \in Commits /\ p < c
  BY StoredBelow
<1>2. ASSUME NEW c \in 1..N, NEW f \in [1..N -> X] PROVE Value(c, f) \in X
  BY <1>0, <1>1
<1>3. ASSUME NEW c \in 1..N, NEW f \in [1..N -> X], NEW g \in [1..N -> X],
             \A m \in 1..N : m < c => f[m] = g[m]
      PROVE  Value(c, f) = Value(c, g)
  BY <1>0, <1>1, <1>3
<1> HIDE DEF Value
<1>4. h \in [1..N -> [[1..N -> X] -> X]]
  <2> HIDE DEF X
  <2> QED BY <1>2
<1>5. \A c \in 1..N : \A f \in [1..N -> X] : h[c][f] = Value(c, f)
  OBVIOUS
<1>7. {} \in X
  OBVIOUS
<1> HIDE DEF h, X
<1>6. Recursion(1, N, X, h)
  <2>1. ASSUME NEW c \in 1..N, NEW f \in [1..N -> X], NEW g \in [1..N -> X],
               \A m \in 1..N : m < c => f[m] = g[m]
        PROVE  h[c][f] = h[c][g]
    BY <1>3, <1>5, <2>1
  <2> QED BY <1>4, <2>1 DEF Recursion
<1>8. PICK f : Satisfies(f, 1, N, X, h)
  BY <1>0, <1>6, <1>7, RecursionDefines
<1>9. f = [c \in Commits |-> Value(c, f)]
  BY <1>0, <1>5, <1>8 DEF Satisfies
<1>10. Counts(f, stop)
  BY <1>9 DEF Counts, Value
<1> QED BY <1>10 DEF CountedFrom

LEMMA CountedAre ==
    ASSUME HistoryOK, NEW c \in Commits, NEW stop
    PROVE  CountedUntil(c, stop)
               = IF c = stop THEN {} ELSE {c} \cup UNION {CountedUntil(p, stop) : p \in ElementsOf(log[c])}
<1>1. \A d : CountedUntil(d, stop) = CountedFrom(stop)[d]
  BY DEF CountedUntil, CountedFrom, Counts
<1>2. CountedFrom(stop)[c] = IF c = stop THEN {} ELSE {c} \cup UNION {CountedFrom(stop)[p] : p \in ElementsOf(log[c])}
  BY CountsDefined DEF Counts
<1>3. {CountedUntil(p, stop) : p \in ElementsOf(log[c])} = {CountedFrom(stop)[p] : p \in ElementsOf(log[c])}
  BY <1>1
<1> QED BY <1>1, <1>2, <1>3

\* What is not counted is below the base; what is counted is below the start.
LEMMA CountedCover ==
    ASSUME HistoryOK, shallow = {}, NEW c \in Commits, NEW stop \in Commits
    PROVE  /\ Ancestors(c) \subseteq CountedUntil(c, stop) \cup Ancestors(stop)
           /\ CountedUntil(c, stop) \subseteq Ancestors(c)
<1> DEFINE Fine(x) == /\ Ancestors(x) \subseteq CountedUntil(x, stop) \cup Ancestors(stop)
                      /\ CountedUntil(x, stop) \subseteq Ancestors(x)
           B == {x \in Commits : ~Fine(x)}
<1>1. SUFFICES ASSUME B # {} PROVE FALSE
  OBVIOUS
<1>2. B \in SUBSET Nat /\ Commits \subseteq Nat
  BY CommitsAre
<1>3. PICK x \in B : \A y \in B : x <= y
  <2> HIDE DEF B
  <2> QED BY <1>1, <1>2, LeastOf
<1>4. \A p \in ElementsOf(log[x]) : Fine(p)
  BY StoredBelow, <1>2, <1>3
<1>5. Ancestors(x) = {x} \cup UNION {Ancestors(p) : p \in ElementsOf(log[x])}
  BY AncestorsAre DEF Visible
<1>6. CASE x = stop
  BY <1>6, CountedAre
<1>7. CASE x # stop
  BY <1>7, CountedAre, <1>4, <1>5
<1> QED BY <1>6, <1>7

\* Where nothing was merged, what is counted lies above the base, if the start does.
LEMMA CountedAbove ==
    ASSUME HistoryOK, shallow = {}, \A d \in Commits : Len(log[d]) < 2,
           NEW c \in Commits, NEW stop \in Ancestors(c), NEW y \in CountedUntil(c, stop)
    PROVE  stop \in ProperAncestors(y)
<1> DEFINE Fine(x) == stop \in Ancestors(x) => \A z \in CountedUntil(x, stop) : stop \in ProperAncestors(z)
           B == {x \in Commits : ~Fine(x)}
<1>1. SUFFICES ASSUME B # {} PROVE FALSE
  OBVIOUS
<1>2. B \in SUBSET Nat /\ Commits \subseteq Nat
  BY CommitsAre
<1>3. PICK x \in B : \A w \in B : x <= w
  <2> HIDE DEF B
  <2> QED BY <1>1, <1>2, LeastOf
<1>4. \A p \in ElementsOf(log[x]) : p \in Commits /\ Fine(p)
  BY StoredBelow, <1>2, <1>3
<1>5. PICK z \in CountedUntil(x, stop) : stop \in Ancestors(x) /\ stop \notin ProperAncestors(z)
  BY <1>3
<1>6. x # stop /\ CountedUntil(x, stop) = {x} \cup UNION {CountedUntil(p, stop) : p \in ElementsOf(log[x])}
  BY <1>5, CountedAre
<1>7. stop \in ProperAncestors(x)
  BY <1>5, <1>6, ProperAncestorsBelow
<1>8. PICK p \in ElementsOf(log[x]) : z \in CountedUntil(p, stop)
  BY <1>5, <1>6, <1>7
<1>9. PICK q \in ElementsOf(log[x]) : stop \in Ancestors(q)
  BY <1>7, ProperAncestorsAre DEF Visible
<1>10. p = q
  BY ParentsStored DEF ElementsOf
<1> QED BY <1>4, <1>5, <1>8, <1>9, <1>10

\* And a way gets longer as it goes down.
LEMMA LinesLengthen ==
    ASSUME HistoryOK, shallow = {}, \A d \in Commits : Len(log[d]) < 2, NEW c \in Commits,
           NEW x, NEW m, <<x, m>> \in Measured[c], NEW b \in ProperAncestors(x), NEW n, <<b, n>> \in Measured[c]
    PROVE  m < n
<1> DEFINE Fine(w) == \A i, j : <<x, i>> \in Measured[w] /\ <<b, j>> \in Measured[w] => i < j
           B == {w \in Commits : ~Fine(w)}
<1>1. SUFFICES ASSUME B # {} PROVE FALSE
  OBVIOUS
<1>2. B \in SUBSET Nat /\ Commits \subseteq Nat
  BY CommitsAre
<1>3. PICK w \in B : \A y \in B : w <= y
  <2> HIDE DEF B
  <2> QED BY <1>1, <1>2, LeastOf
<1>4. PICK i, j : <<x, i>> \in Measured[w] /\ <<b, j>> \in Measured[w] /\ ~(i < j)
  BY <1>3
<1>5. x \in Commits /\ i \in Nat /\ b \in Commits /\ j \in Nat /\ w \in Commits
  BY <1>4, MeasuredTyped
<1>6. b # x /\ b \in Ancestors(x)
  BY <1>5, ProperAncestorsBelow
<1>7. x \in Ancestors(w)
  BY <1>4, <1>5, MeasuredAre
<1>8. b # w /\ j # 0
  <2>1. b < x /\ x <= w
    BY <1>2, <1>5, <1>6, <1>7, AncestorsBelow
  <2>2. b # w
    BY <1>2, <1>5, <2>1
  <2> QED BY <1>4, <1>5, <2>2, MeasuredZero
<1>9. ~(x = w /\ i = 0) /\ ~(b = w /\ j = 0)
  BY <1>4, <1>5, <1>8
<1> HIDE DEF B
<1>10. PICK p \in ElementsOf(Visible(w)), k \in Nat : i = k + 1 /\ <<x, k>> \in Measured[p]
  BY <1>4, <1>5, <1>9, MeasuredCases
<1>11. PICK q \in ElementsOf(Visible(w)), l \in Nat : j = l + 1 /\ <<b, l>> \in Measured[q]
  BY <1>4, <1>5, <1>9, MeasuredCases
<1>12. p = q /\ p \in Commits /\ p < w
  <2>1. Len(log[w]) \in Nat /\ DOMAIN log[w] = 1..Len(log[w]) /\ Len(log[w]) < 2 /\ Visible(w) = log[w]
    BY <1>5, ParentsStored DEF Visible
  <2>2. \A g, h \in DOMAIN log[w] : g = h
    BY <2>1
  <2>3. p \in Commits /\ p < w
    BY <1>5, ParentsAreBelow
  <2> QED BY <2>1, <2>2, <2>3 DEF ElementsOf
<1>13. p \notin B
  BY <1>2, <1>3, <1>5, <1>12
<1>14. k < l
  BY <1>10, <1>11, <1>12, <1>13 DEF B
<1> QED BY <1>4, <1>10, <1>11, <1>14

\* ahead_behind counts all that is ahead; and no more, where nothing was merged.
LEMMA AheadIs ==
    ASSUME HistoryOK, shallow = {}, NEW c \in Commits, NEW b \in Commits, NEW base \in RepositoryBases(c, b)
    PROVE  /\ Ancestors(c) \ Ancestors(b) \subseteq CountedUntil(c, base)
           /\ (\A d \in Commits : Len(log[d]) < 2) => CountedUntil(c, base) = Ancestors(c) \ Ancestors(b)
<1> DEFINE da == Distances(c)
           db == Distances(b)
<1>1. DOMAIN da = Ancestors(c) /\ DOMAIN db = Ancestors(b)
  BY DistancesDomain
<1>2. StoredDistances(c) = da /\ StoredDistances(b) = db
  BY StoredDistancesAre
<1> HIDE DEF da, db
<1>3. base \in Ancestors(c) /\ base \in Ancestors(b)
      /\ \A d \in Ancestors(c) \cap Ancestors(b) : da[base] + db[base] < da[d] + db[d]
                                                   \/ da[base] + db[base] = da[d] + db[d]
  BY <1>1, <1>2 DEF RepositoryBases
<1>4. base \in Commits /\ Ancestors(base) \subseteq Ancestors(b)
  BY <1>3, AncestorsBelow, AncestorsDescend
<1>5. Ancestors(c) \ Ancestors(b) \subseteq CountedUntil(c, base) /\ CountedUntil(c, base) \subseteq Ancestors(c)
  BY <1>4, CountedCover
<1>6. ASSUME \A d \in Commits : Len(log[d]) < 2, NEW y \in CountedUntil(c, base)
      PROVE  y \notin Ancestors(b)
  <2> SUFFICES ASSUME y \in Ancestors(b) PROVE FALSE
    OBVIOUS
  <2>1. y \in Ancestors(c) /\ base \in ProperAncestors(y)
    BY <1>3, <1>5, <1>6, CountedAbove
  <2>2. \A e \in {y, base} : /\ da[e] \in Nat /\ <<e, da[e]>> \in Measured[c]
                             /\ db[e] \in Nat /\ <<e, db[e]>> \in Measured[b]
    BY <1>3, <2>1, DistanceIs DEF da, db
  <2>3. da[y] < da[base] /\ db[y] < db[base]
    BY <1>6, <2>1, <2>2, LinesLengthen
  <2> QED BY <1>3, <2>1, <2>2, <2>3
<1> QED BY <1>5, <1>6

\* The base is picked by sums and maxima, so the two sides have the same ones; and where there is
\* a common ancestor one of them is picked.
LEMMA BasesBothWays ==
    ASSUME HistoryOK, shallow = {}, NEW c \in Commits, NEW b \in Commits
    PROVE  /\ RepositoryBases(c, b) = RepositoryBases(b, c)
           /\ RepositoryBases(c, b) # {} <=> Ancestors(c) \cap Ancestors(b) # {}
<1> DEFINE da == Distances(c)
           db == Distances(b)
           common == Ancestors(c) \cap Ancestors(b)
           far(x) == Greatest({da[x], db[x]})
           Nearer(x, d) == \/ da[x] + db[x] < da[d] + db[d]
                           \/ da[x] + db[x] = da[d] + db[d] /\ far(x) <= far(d)
<1>1. DOMAIN da = Ancestors(c) /\ DOMAIN db = Ancestors(b)
  BY DistancesDomain
<1>2. StoredDistances(c) = da /\ StoredDistances(b) = db
  BY StoredDistancesAre
<1>3. ASSUME NEW x \in common
      PROVE  da[x] \in Nat /\ db[x] \in Nat /\ far(x) \in Nat /\ far(x) = Greatest({db[x], da[x]})
  <2>1. da[x] \in Nat /\ db[x] \in Nat
    BY <1>3, DistanceIs
  <2>2. Greatest({da[x], db[x]}) \in {da[x], db[x]}
    <3> DEFINE T == {da[x], db[x]}
               n == da[x] + db[x]
    <3>1. T \in SUBSET Nat /\ T # {} /\ n \in Nat /\ \A m \in T : m <= n
      BY <2>1
    <3> HIDE DEF T, n, da, db
    <3>2. Greatest(T) \in T
      BY <3>1, GreatestIs
    <3> QED BY <3>2 DEF T
  <2>3. {da[x], db[x]} = {db[x], da[x]}
    OBVIOUS
  <2> QED BY <2>1, <2>2, <2>3
<1> HIDE DEF da, db
<1>4. RepositoryBases(c, b) = {x \in common : \A d \in common : Nearer(x, d)}
  BY <1>1, <1>2 DEF RepositoryBases
<1>5. RepositoryBases(b, c) = {x \in common : \A d \in common : Nearer(x, d)}
  <2>1. RepositoryBases(b, c)
            = {x \in common : \A d \in common :
                  \/ db[x] + da[x] < db[d] + da[d]
                  \/ db[x] + da[x] = db[d] + da[d] /\ Greatest({db[x], da[x]}) <= Greatest({db[d], da[d]})}
    BY <1>1, <1>2 DEF RepositoryBases
  <2>2. ASSUME NEW x \in common, NEW d \in common
        PROVE  Nearer(x, d) <=> \/ db[x] + da[x] < db[d] + da[d]
                                \/ /\ db[x] + da[x] = db[d] + da[d]
                                   /\ Greatest({db[x], da[x]}) <= Greatest({db[d], da[d]})
    BY <1>3
  <2> HIDE DEF Nearer, common
  <2> QED BY <2>1, <2>2
<1>6. ASSUME common # {} PROVE RepositoryBases(c, b) # {}
  <2> DEFINE Totals == {da[x] + db[x] : x \in common}
             Shared(n) == {x \in common : da[x] + db[x] = n}
  <2>1. Totals \in SUBSET Nat /\ Totals # {}
    <3>1. \A x \in common : da[x] \in Nat /\ db[x] \in Nat
      BY <1>3
    <3> HIDE DEF common
    <3> QED BY <1>6, <3>1
  <2> HIDE DEF far
  <2>2. PICK n \in Totals : \A m \in Totals : n <= m
    <3> HIDE DEF Totals
    <3> QED BY <2>1, LeastOf
  <2>3. {far(x) : x \in Shared(n)} \in SUBSET Nat /\ {far(x) : x \in Shared(n)} # {}
    BY <1>3, <2>2
  <2>4. PICK k \in {far(x) : x \in Shared(n)} : \A l \in {far(x) : x \in Shared(n)} : k <= l
    <3> DEFINE F == {far(x) : x \in Shared(n)}
    <3> HIDE DEF F
    <3>1. F \in SUBSET Nat /\ F # {}
      BY <2>3 DEF F
    <3>2. \E k \in F : \A l \in F : k <= l
      BY <3>1, LeastOf
    <3> QED BY <3>2 DEF F
  <2>5. PICK x \in Shared(n) : far(x) = k
    BY <2>4
  <2>6. ASSUME NEW d \in common PROVE Nearer(x, d)
    <3>1. da[x] + db[x] = n /\ n \in Nat /\ da[d] + db[d] \in Nat /\ n <= da[d] + db[d]
      BY <1>3, <2>1, <2>2, <2>5
    <3>2. CASE da[d] + db[d] = n
      BY <2>4, <2>5, <3>1, <3>2
    <3>3. CASE da[d] + db[d] # n
      BY <3>1, <3>3
    <3> QED BY <3>2, <3>3
  <2> QED BY <1>4, <2>5, <2>6
<1>7. common = {} => RepositoryBases(c, b) = {}
  BY <1>4
<1> QED BY <1>4, <1>5, <1>6, <1>7

\* What ahead_behind may count on the two sides.
CountsFit(c, b, counted) ==
    IF Ancestors(c) \cap Ancestors(b) = {} THEN counted = <<{}, {}>>
    ELSE /\ Ancestors(c) \ Ancestors(b) \subseteq counted[1]
         /\ Ancestors(b) \ Ancestors(c) \subseteq counted[2]
         /\ (\A d \in Commits : Len(log[d]) < 2)
                => counted = <<Ancestors(c) \ Ancestors(b), Ancestors(b) \ Ancestors(c)>>

LEMMA BothSidesCounted ==
    ASSUME HistoryOK, shallow = {}, NEW c \in Commits, NEW b \in Commits, NEW counted \in AheadBehind(c, b)
    PROVE  CountsFit(c, b, counted)
<1>1. CASE RepositoryBases(c, b) = {}
  BY <1>1, BasesBothWays DEF AheadBehind, CountsFit
<1>2. CASE RepositoryBases(c, b) # {}
  BY <1>2, BasesBothWays, AheadIs DEF AheadBehind, CountsFit
<1> QED BY <1>1, <1>2

-----------------------------------------------------------------------------
(***************************************************************************)
(* The walk of log.                                                        *)
(***************************************************************************)
LEMMA TailIs ==
    ASSUME NEW C, NEW s \in Seq(C), s # <<>>
    PROVE  /\ Head(s) \in C /\ Tail(s) \in Seq(C) /\ Len(Tail(s)) = Len(s) - 1 /\ Len(s) \in Nat /\ Len(s) > 0
           /\ ElementsOf(s) = {Head(s)} \cup ElementsOf(Tail(s))
           /\ Distinct(s) => Distinct(Tail(s)) /\ Head(s) \notin ElementsOf(Tail(s))
<1>1. /\ Head(s) \in C /\ Tail(s) \in Seq(C) /\ Len(Tail(s)) = Len(s) - 1 /\ Len(s) \in Nat /\ Len(s) > 0
      /\ Head(s) = s[1] /\ \A i \in 1..(Len(s) - 1) : Tail(s)[i] = s[i + 1]
  OBVIOUS
<1> DEFINE t == Tail(s)
           n == Len(s)
<1>2. t \in Seq(C) /\ Len(t) = n - 1 /\ n \in Nat /\ n > 0 /\ Head(s) = s[1] /\ (\A i \in 1..(n - 1) : t[i] = s[i + 1])
      /\ DOMAIN t = 1..(n - 1) /\ DOMAIN s = 1..n
  BY <1>1
<1> HIDE DEF t, n
<1>3. \A i \in 1..n : i = 1 \/ (i - 1 \in 1..(n - 1) /\ (i - 1) + 1 = i)
  BY <1>2
<1>4. ElementsOf(s) = {s[1]} \cup ElementsOf(t)
  <2>1. ASSUME NEW x \in ElementsOf(s) PROVE x \in {s[1]} \cup ElementsOf(t)
    <3>1. PICK i \in 1..n : x = s[i]
      BY <1>2 DEF ElementsOf
    <3>2. CASE i = 1
      BY <3>1, <3>2
    <3>3. CASE i # 1
      <4>1. i - 1 \in 1..(n - 1) /\ t[i - 1] = s[i]
        BY <1>2, <1>3, <3>3
      <4> QED BY <1>2, <3>1, <4>1 DEF ElementsOf
    <3> QED BY <3>2, <3>3
  <2>2. ASSUME NEW x \in {s[1]} \cup ElementsOf(t) PROVE x \in ElementsOf(s)
    <3>1. CASE x = s[1]
      BY <1>2, <3>1 DEF ElementsOf
    <3>2. CASE x \in ElementsOf(t)
      BY <1>2, <3>2 DEF ElementsOf
    <3> QED BY <2>2, <3>1, <3>2
  <2> QED BY <2>1, <2>2
<1>5. ASSUME Distinct(s) PROVE Distinct(t) /\ s[1] \notin ElementsOf(t)
  <2>1. \A i \in 1..(n - 1) : i + 1 \in 1..n /\ i + 1 # 1
    BY <1>2
  <2>2. \A i, j \in 1..n : i # j => s[i] # s[j]
    BY <1>2, <1>5 DEF Distinct
  <2>3. ASSUME NEW i \in 1..(n - 1), NEW j \in 1..(n - 1), i # j PROVE t[i] # t[j]
    BY <1>2, <2>3, <2>1, <2>2
  <2>4. ASSUME NEW i \in 1..(n - 1) PROVE t[i] # s[1]
    BY <1>2, <2>1, <2>2
  <2> QED BY <1>2, <2>3, <2>4 DEF Distinct, ElementsOf
<1> QED BY <1>1, <1>2, <1>4, <1>5 DEF t, n

LEMMA AppendIs ==
    ASSUME NEW C, NEW s \in Seq(C), NEW x \in C
    PROVE  /\ Append(s, x) \in Seq(C) /\ Len(Append(s, x)) = Len(s) + 1
           /\ ElementsOf(Append(s, x)) = ElementsOf(s) \cup {x}
           /\ Distinct(s) /\ x \notin ElementsOf(s) => Distinct(Append(s, x))
<1> DEFINE t == Append(s, x)
           n == Len(s)
<1>1. t \in Seq(C) /\ Len(t) = n + 1 /\ n \in Nat /\ DOMAIN s = 1..n /\ DOMAIN t = 1..(n + 1)
      /\ t[n + 1] = x /\ \A i \in 1..n : t[i] = s[i]
  OBVIOUS
<1> HIDE DEF t, n
<1>2. \A i \in 1..(n + 1) : i = n + 1 \/ i \in 1..n
  BY <1>1
<1>3. n + 1 \in 1..(n + 1) /\ \A i \in 1..n : i \in 1..(n + 1) /\ i # n + 1
  BY <1>1
<1>4. ElementsOf(t) = ElementsOf(s) \cup {x}
  BY <1>1, <1>2, <1>3 DEF ElementsOf
<1>5. ASSUME Distinct(s), x \notin ElementsOf(s) PROVE Distinct(t)
  BY <1>1, <1>2, <1>3, <1>5 DEF ElementsOf, Distinct
<1> QED BY <1>1, <1>4, <1>5 DEF t, n

\* The states that the walk goes through, and the steps between them.
LogState == [queue : Seq(Commits), seen : Seq(Commits)]

LogStep(s, fp, kept) ==
    CASE s.queue = <<>> -> s
      [] s.queue # <<>> /\ Head(s.queue) \in ElementsOf(s.seen) -> [s EXCEPT !.queue = Tail(@)]
      [] OTHER -> [queue |-> Tail(s.queue) \o LogNext(Head(s.queue), fp, Head(s.queue) \in kept),
                   seen  |-> Append(s.seen, Head(s.queue))]

LogFrom(start) == [queue |-> <<start>>, seen |-> <<>>]

Logs(run, start, fp, kept) ==
    run = [i \in 0..(2 * Len(log) + 1) |-> IF i = 0 THEN LogFrom(start) ELSE LogStep(run[i - 1], fp, kept)]

LogsFrom(start, fp, kept) == CHOOSE run : Logs(run, start, fp, kept)

LEMMA LogRead ==
    ASSUME NEW start, NEW fp, NEW kept
    PROVE  LogWalk(start, fp, kept) = Within(LogsFrom(start, fp, kept)[2 * Len(log) + 1].seen, kept)
BY DEF LogWalk, LogsFrom, Logs, LogFrom, LogStep

\* Where log goes on to what a walk goes on to.
GoesAs(fp, kept) ==
    \A c \in Commits : /\ LogNext(c, fp, c \in kept) \in Seq(Commits)
                       /\ Len(LogNext(c, fp, c \in kept)) <= 2
                       /\ ElementsOf(LogNext(c, fp, c \in kept)) = ElementsOf(Followed(c, fp))

LEMMA LogStepIs ==
    ASSUME HistoryOK, NEW fp, NEW kept, GoesAs(fp, kept), NEW s \in LogState
    PROVE  /\ LogStep(s, fp, kept) \in LogState
           /\ s.queue = <<>> => LogStep(s, fp, kept) = s
           /\ s.queue # <<>> /\ Head(s.queue) \in ElementsOf(s.seen) =>
                 LogStep(s, fp, kept).queue = Tail(s.queue) /\ LogStep(s, fp, kept).seen = s.seen
           /\ s.queue # <<>> /\ Head(s.queue) \notin ElementsOf(s.seen) =>
                 /\ LogStep(s, fp, kept).queue = Tail(s.queue) \o LogNext(Head(s.queue), fp, Head(s.queue) \in kept)
                 /\ LogStep(s, fp, kept).seen = Append(s.seen, Head(s.queue))
<1> DEFINE r == LogStep(s, fp, kept)
           c == Head(s.queue)
           e == LogNext(c, fp, c \in kept)
<1>1. s.queue \in Seq(Commits) /\ s.seen \in Seq(Commits) /\ s = [queue |-> s.queue, seen |-> s.seen]
  BY DEF LogState
<1>2. CASE s.queue = <<>>
  BY <1>2 DEF LogStep
<1>3. CASE s.queue # <<>> /\ c \in ElementsOf(s.seen)
  <2>1. r = [queue |-> Tail(s.queue), seen |-> s.seen]
    BY <1>1, <1>3 DEF LogStep
  <2>2. Tail(s.queue) \in Seq(Commits)
    BY <1>1, <1>3, TailIs
  <2> HIDE DEF r
  <2>3. r \in LogState /\ r.queue = Tail(s.queue) /\ r.seen = s.seen
    BY <1>1, <2>1, <2>2 DEF LogState
  <2> QED BY <1>3, <2>3 DEF r
<1>4. CASE s.queue # <<>> /\ c \notin ElementsOf(s.seen)
  <2>1. r = [queue |-> Tail(s.queue) \o e, seen |-> Append(s.seen, c)]
    BY <1>1, <1>4 DEF LogStep
  <2>2. c \in Commits /\ Tail(s.queue) \in Seq(Commits)
    BY <1>1, <1>4, TailIs
  <2>3. e \in Seq(Commits)
    BY <2>2 DEF GoesAs
  <2>4. Append(s.seen, c) \in Seq(Commits)
    BY <1>1, <2>2
  <2> HIDE DEF r, c, e
  <2>5. Tail(s.queue) \o e \in Seq(Commits)
    BY <2>2, <2>3
  <2>6. r \in LogState /\ r.queue = Tail(s.queue) \o e /\ r.seen = Append(s.seen, c)
    BY <2>1, <2>4, <2>5 DEF LogState
  <2> QED BY <1>4, <2>6 DEF r, c, e
<1> QED BY <1>2, <1>3, <1>4

LEMMA LogsDefined ==
    ASSUME HistoryOK, NEW fp, NEW kept, GoesAs(fp, kept), NEW start \in Commits
    PROVE  /\ LogsFrom(start, fp, kept) \in [0..(2 * Len(log) + 1) -> LogState]
           /\ LogsFrom(start, fp, kept)[0] = LogFrom(start)
           /\ \A n \in 1..(2 * Len(log) + 1) :
                  LogsFrom(start, fp, kept)[n] = LogStep(LogsFrom(start, fp, kept)[n - 1], fp, kept)
<1> DEFINE N == 2 * Len(log) + 1
           h == [n \in 1..N |-> [s \in LogState |-> LogStep(s, fp, kept)]]
           at == LogsFrom(start, fp, kept)
<1>1. N \in Nat
  BY CommitsAre
<1>2. LogFrom(start) \in LogState
  BY DEF LogFrom, LogState
<1>3. \A s \in LogState : LogStep(s, fp, kept) \in LogState
  BY LogStepIs
<1> HIDE DEF N
<1>4. h \in [1..N -> [LogState -> LogState]]
  BY <1>3
<1>5. \A n \in 1..N : \A s \in LogState : h[n][s] = LogStep(s, fp, kept)
  OBVIOUS
<1> HIDE DEF h
<1>6. PICK f \in [0..N -> LogState] : Iterates(f, N, LogFrom(start), h)
  BY <1>1, <1>2, <1>4, IterationDefines
<1>7. f[0] = LogFrom(start) /\ \A n \in 1..N : f[n] = LogStep(f[n - 1], fp, kept)
  <2>1. \A n \in 1..N : f[n] = h[n][f[n - 1]] /\ f[n - 1] \in LogState
    BY <1>1, <1>6 DEF Iterates
  <2> QED BY <1>5, <1>6, <2>1 DEF Iterates
<1>8. \A n \in 0..N : f[n] = IF n = 0 THEN LogFrom(start) ELSE LogStep(f[n - 1], fp, kept)
  BY <1>1, <1>7
<1>9. f = [n \in 0..N |-> f[n]]
  BY <1>6
<1>10. f = [n \in 0..N |-> IF n = 0 THEN LogFrom(start) ELSE LogStep(f[n - 1], fp, kept)]
  BY <1>8, <1>9
<1>11. Logs(f, start, fp, kept)
  BY <1>10 DEF Logs, N
<1>12. Logs(at, start, fp, kept)
  BY <1>11 DEF LogsFrom
<1> HIDE DEF at
<1>13. at = [n \in 0..N |-> at[n]]
       /\ \A n \in 0..N : at[n] = IF n = 0 THEN LogFrom(start) ELSE LogStep(at[n - 1], fp, kept)
  BY <1>12 DEF Logs, N
<1>14. at[0] = LogFrom(start) /\ \A n \in 1..N : at[n] = LogStep(at[n - 1], fp, kept)
  <2>1. 0 \in 0..N /\ \A n \in 1..N : n \in 0..N /\ n # 0
    BY <1>1
  <2> QED BY <1>13, <2>1
<1> DEFINE G == {n \in 0..N : at[n] \in LogState}
<1>15. 0 \in G
  BY <1>1, <1>2, <1>14
<1>16. \A n \in 1..N : n - 1 \in G => n \in G
  BY <1>1, <1>3, <1>14
<1>17. G = 0..N
  <2>1. G \in SUBSET (0..N)
    OBVIOUS
  <2> HIDE DEF G
  <2> QED BY <1>1, <1>15, <1>16, <2>1, Onwards
<1>18. at \in [0..N -> LogState]
  BY <1>13, <1>17
<1> QED BY <1>14, <1>18 DEF at, N

\* What has been seen is a part of the walk, and nothing is lost between it and the queue.
LogWell(s, n, start, fp) ==
    /\ Distinct(s.seen)
    /\ ElementsOf(s.seen) \cup ElementsOf(s.queue) \subseteq Walk({start}, fp)
    /\ start \in ElementsOf(s.seen) \cup ElementsOf(s.queue)
    /\ \A u \in ElementsOf(s.seen) : ElementsOf(Followed(u, fp)) \subseteq ElementsOf(s.seen) \cup ElementsOf(s.queue)
    /\ s.queue # <<>> => n + Len(s.queue) <= 1 + 2 * Len(s.seen)

LEMMA LogWellStarts ==
    ASSUME HistoryOK, NEW fp, NEW start \in Commits
    PROVE  LogWell(LogFrom(start), 0, start, fp)
<1> DEFINE s == LogFrom(start)
<1>1. s.queue = <<start>> /\ s.seen = <<>>
  BY DEF LogFrom
<1> HIDE DEF s
<1>2. /\ ElementsOf(s.queue) = {start} /\ ElementsOf(s.seen) = {} /\ Distinct(s.seen)
      /\ Len(s.queue) = 1 /\ Len(s.seen) = 0
  BY <1>1 DEF ElementsOf, Distinct
<1>3. {start} \subseteq Walk({start}, fp)
  BY WalkHolds
<1>4. LogWell(s, 0, start, fp)
  BY <1>2, <1>3 DEF LogWell
<1> QED BY <1>4 DEF s

LEMMA LogWellGoesOn ==
    ASSUME HistoryOK, NEW fp, NEW kept, GoesAs(fp, kept), NEW start \in Commits,
           NEW s \in LogState, NEW n \in Nat, LogWell(s, n, start, fp)
    PROVE  LogWell(LogStep(s, fp, kept), n + 1, start, fp)
<1> DEFINE r == LogStep(s, fp, kept)
           q == s.queue
           v == s.seen
           W == Walk({start}, fp)
<1>1. q \in Seq(Commits) /\ v \in Seq(Commits)
  BY DEF LogState
<1>2. /\ Distinct(v) /\ ElementsOf(v) \cup ElementsOf(q) \subseteq W
      /\ start \in ElementsOf(v) \cup ElementsOf(q)
      /\ \A u \in ElementsOf(v) : ElementsOf(Followed(u, fp)) \subseteq ElementsOf(v) \cup ElementsOf(q)
      /\ q # <<>> => n + Len(q) <= 1 + 2 * Len(v)
  BY DEF LogWell
<1>3. CASE q = <<>>
  <2>1. r = s
    BY <1>3, LogStepIs
  <2> HIDE DEF r
  <2>2. LogWell(s, n + 1, start, fp)
    BY <1>2, <1>3 DEF LogWell
  <2> QED BY <2>1, <2>2 DEF r
<1>4. CASE q # <<>> /\ Head(q) \in ElementsOf(v)
  <2>1. r.queue = Tail(q) /\ r.seen = v
    BY <1>4, LogStepIs
  <2>2. /\ Len(Tail(q)) = Len(q) - 1 /\ Len(q) \in Nat /\ Len(v) \in Nat
        /\ ElementsOf(q) = {Head(q)} \cup ElementsOf(Tail(q))
    BY <1>1, <1>4, TailIs
  <2>3. ElementsOf(v) \cup ElementsOf(Tail(q)) = ElementsOf(v) \cup ElementsOf(q)
    BY <1>4, <2>2
  <2>4. (n + 1) + Len(Tail(q)) <= 1 + 2 * Len(v)
    <3> DEFINE k == Len(q)
               l == Len(v)
               t == Len(Tail(q))
    <3>1. k \in Nat /\ l \in Nat /\ t = k - 1 /\ n + k <= 1 + 2 * l
      BY <1>2, <1>4, <2>2
    <3> HIDE DEF k, l, t
    <3>2. (n + 1) + t <= 1 + 2 * l
      BY <3>1
    <3> QED BY <3>2 DEF t, l
  <2> HIDE DEF r, q, v, W
  <2>5. LogWell(r, n + 1, start, fp)
    BY <1>2, <2>1, <2>3, <2>4 DEF LogWell, W
  <2> QED BY <2>5 DEF r
<1>5. CASE q # <<>> /\ Head(q) \notin ElementsOf(v)
  <2> DEFINE c == Head(q)
             e == LogNext(c, fp, c \in kept)
  <2>1. r.queue = Tail(q) \o e /\ r.seen = Append(v, c)
    BY <1>5, LogStepIs
  <2>2. /\ c \in Commits /\ Tail(q) \in Seq(Commits) /\ Len(Tail(q)) = Len(q) - 1 /\ Len(q) \in Nat
        /\ ElementsOf(q) = {c} \cup ElementsOf(Tail(q)) /\ Len(v) \in Nat
    BY <1>1, <1>5, TailIs
  <2>3. e \in Seq(Commits) /\ Len(e) <= 2 /\ ElementsOf(e) = ElementsOf(Followed(c, fp))
    BY <2>2 DEF GoesAs
  <2>4. c \notin ElementsOf(v)
    BY <1>5
  <2> HIDE DEF c, e
  <2>5. /\ Len(Append(v, c)) = Len(v) + 1 /\ ElementsOf(Append(v, c)) = ElementsOf(v) \cup {c}
        /\ Distinct(Append(v, c))
    BY <1>1, <1>2, <2>2, <2>4, AppendIs
  <2>6. ElementsOf(Tail(q) \o e) = ElementsOf(Tail(q)) \cup ElementsOf(Followed(c, fp))
    <3> DEFINE t == Tail(q)
    <3>1. t \in Seq(Commits)
      BY <2>2
    <3> HIDE DEF t
    <3>2. ElementsOf(t \o e) = ElementsOf(t) \cup ElementsOf(e)
      BY <2>3, <3>1, ElementsJoin
    <3> QED BY <2>3, <3>2 DEF t
  <2>7. Len(Tail(q) \o e) = Len(Tail(q)) + Len(e) /\ Len(e) \in Nat
    BY <2>2, <2>3
  <2>8. ElementsOf(Followed(c, fp)) \subseteq W
    BY <1>2, <2>2, WalkGoesOn
  <2>9. (n + 1) + Len(Tail(q) \o e) <= 1 + 2 * Len(Append(v, c))
    <3> DEFINE k == Len(q)
               l == Len(v)
               t == Len(Tail(q))
               d == Len(e)
               j == Len(Tail(q) \o e)
               a == Len(Append(v, c))
    <3>1. /\ k \in Nat /\ l \in Nat /\ t = k - 1 /\ n + k <= 1 + 2 * l /\ d \in Nat /\ d <= 2
          /\ j = t + d /\ a = l + 1
      BY <1>2, <1>5, <2>2, <2>3, <2>5, <2>7
    <3> HIDE DEF k, l, t, d, j, a
    <3>2. (n + 1) + j <= 1 + 2 * a
      BY <3>1
    <3> QED BY <3>2 DEF j, a
  <2> HIDE DEF r, q, v, W
  <2>10. /\ ElementsOf(r.seen) = ElementsOf(v) \cup {c}
         /\ ElementsOf(r.queue) = ElementsOf(Tail(q)) \cup ElementsOf(Followed(c, fp))
    BY <2>1, <2>5, <2>6
  <2>11. \A u \in ElementsOf(r.seen) : ElementsOf(Followed(u, fp)) \subseteq ElementsOf(r.seen) \cup ElementsOf(r.queue)
    BY <1>2, <2>2, <2>10
  <2>12. ElementsOf(r.seen) \cup ElementsOf(r.queue) \subseteq W /\ start \in ElementsOf(r.seen) \cup ElementsOf(r.queue)
    BY <1>2, <2>2, <2>8, <2>10
  <2>13. Distinct(r.seen) /\ (n + 1) + Len(r.queue) <= 1 + 2 * Len(r.seen)
    BY <2>1, <2>5, <2>9
  <2>14. LogWell(r, n + 1, start, fp)
    BY <2>11, <2>12, <2>13 DEF LogWell, W
  <2> QED BY <2>14 DEF r
<1> QED BY <1>3, <1>4, <1>5

\* The walk of log is the commits that a walk reaches and the filters keep, each once.
LEMMA LogWalkIs ==
    ASSUME HistoryOK, NEW fp, NEW kept, GoesAs(fp, kept), NEW start \in Commits
    PROVE  /\ LogWalk(start, fp, kept) \in Seq(Commits)
           /\ Distinct(LogWalk(start, fp, kept))
           /\ ElementsOf(LogWalk(start, fp, kept)) = Walk({start}, fp) \cap kept
<1> DEFINE N == 2 * Len(log) + 1
           at == LogsFrom(start, fp, kept)
           G == {n \in 0..N : LogWell(at[n], n, start, fp)}
<1>1. N \in Nat /\ Commits = 1..Len(log) /\ Len(log) \in Nat
  BY CommitsAre
<1>2. /\ at \in [0..N -> LogState] /\ at[0] = LogFrom(start)
      /\ \A n \in 1..N : at[n] = LogStep(at[n - 1], fp, kept)
  BY LogsDefined
<1>3. LogWalk(start, fp, kept) = Within(at[N].seen, kept)
  BY LogRead
<1> HIDE DEF N, at
<1>4. 0 \in G
  BY <1>1, <1>2, LogWellStarts
<1>5. ASSUME NEW n \in 1..N, n - 1 \in G PROVE n \in G
  <2> DEFINE m == n - 1
  <2>1. m \in Nat /\ m \in 0..N /\ m + 1 = n /\ n \in 0..N
    BY <1>1
  <2>2. at[m] \in LogState /\ LogWell(at[m], m, start, fp) /\ at[n] = LogStep(at[m], fp, kept)
    BY <1>2, <1>5, <2>1
  <2> HIDE DEF m
  <2>3. LogWell(LogStep(at[m], fp, kept), m + 1, start, fp)
    BY <2>1, <2>2, LogWellGoesOn
  <2> QED BY <2>1, <2>2, <2>3
<1>6. G = 0..N
  <2>1. G \in SUBSET (0..N)
    OBVIOUS
  <2> HIDE DEF G
  <2> QED BY <1>1, <1>4, <1>5, <2>1, Onwards
<1> DEFINE s == at[N]
<1>7. s \in LogState /\ LogWell(s, N, start, fp)
  <2>1. N \in 0..N
    BY <1>1
  <2>2. N \in G
    BY <1>6, <2>1
  <2> QED BY <1>2, <2>1, <2>2
<1> HIDE DEF s
<1> DEFINE q == s.queue
           v == s.seen
           E == ElementsOf(v)
<1>8. q \in Seq(Commits) /\ v \in Seq(Commits)
  BY <1>7 DEF LogState
<1>9. /\ Distinct(v) /\ E \cup ElementsOf(q) \subseteq Walk({start}, fp) /\ start \in E \cup ElementsOf(q)
      /\ \A u \in E : ElementsOf(Followed(u, fp)) \subseteq E \cup ElementsOf(q)
      /\ q # <<>> => N + Len(q) <= 1 + 2 * Len(v)
  BY <1>7 DEF LogWell
<1>10. Len(v) \in Nat /\ Len(v) <= Len(log)
  <2> DEFINE g == Len(log)
  <2>1. g \in Nat /\ Commits = 1..g
    BY <1>1
  <2> HIDE DEF g
  <2>2. IsFiniteSet(Commits) /\ Cardinality(Commits) = g
    BY <2>1, FS_Interval
  <2> HIDE DEF v
  <2>3. Cardinality(E) = Len(v) /\ E \subseteq Commits
    <3>1. E \subseteq Commits
      BY <1>8 DEF ElementsOf
    <3> QED BY <1>8, <1>9, <3>1, DistinctLength
  <2> HIDE DEF E
  <2>4. Cardinality(E) <= Cardinality(Commits)
    BY <2>2, <2>3, FS_Subset
  <2>5. Len(v) \in Nat
    BY <1>8
  <2>6. Len(v) <= g
    BY <2>2, <2>3, <2>4
  <2> QED BY <2>5, <2>6 DEF g
<1>11. q = <<>>
  <2>1. q # <<>> => Len(q) \in Nat /\ Len(q) >= 1
    BY <1>8
  <2> DEFINE k == Len(v)
             l == Len(q)
             g == Len(log)
  <2>2. k \in Nat /\ k <= g /\ g \in Nat /\ (q # <<>> => l \in Nat /\ l >= 1 /\ (2 * g + 1) + l <= 1 + 2 * k)
    BY <1>1, <1>9, <1>10, <2>1 DEF N
  <2> HIDE DEF k, l, g
  <2> QED BY <2>2
<1>12. ElementsOf(q) = {}
  BY <1>11 DEF ElementsOf
<1> HIDE DEF q, v
<1>13. start \in E /\ E \subseteq Walk({start}, fp) /\ \A u \in E : ElementsOf(Followed(u, fp)) \subseteq E
  BY <1>9, <1>12
<1> HIDE DEF E
<1>14. Walk({start}, fp) \subseteq E
  BY <1>13, WalkStaysIn
<1>15. E = Walk({start}, fp)
  BY <1>13, <1>14
<1>16. /\ Within(v, kept) \in Seq(Commits) /\ ElementsOf(Within(v, kept)) = E \cap kept
       /\ Distinct(Within(v, kept))
  BY <1>8, <1>9, WithinIs, WithinDistinct DEF E
<1>17. LogWalk(start, fp, kept) = Within(v, kept)
  BY <1>3 DEF v, s
<1> QED BY <1>15, <1>16, <1>17

\* Whether the filters keep a commit or not makes no difference, but to --first-parent.
LEMMA LogGoesOn ==
    ASSUME HistoryOK, ParentsOK
    PROVE  (\A kept : GoesAs(FALSE, kept)) /\ GoesAs(TRUE, Commits)
<1>1. ASSUME NEW c \in Commits
      PROVE  log[c] \in Seq(Commits) /\ Len(log[c]) <= 2 /\ Len(log[c]) \in Nat /\ Visible(c) \in {log[c], <<>>}
  BY ParentsStored DEF ParentsOK, Visible
<1>2. ASSUME NEW c \in Commits
      PROVE  FirstOf(Visible(c)) \in Seq(Commits) /\ Len(FirstOf(Visible(c))) <= 2
  <2> DEFINE w == Visible(c)
  <2>1. w \in Seq(Commits)
    <3>1. <<>> \in Seq(Commits)
      OBVIOUS
    <3> QED BY <1>1, <3>1
  <2> HIDE DEF w
  <2>2. FirstOf(w) \in Seq(Commits) /\ Len(FirstOf(w)) <= 2
    BY <2>1 DEF FirstOf
  <2> QED BY <2>2 DEF w
<1>3. ASSUME NEW c \in Commits
      PROVE  \A k : LogNext(c, FALSE, k) = Visible(c) /\ Followed(c, FALSE) = Visible(c)
  BY DEF LogNext, Visible, Followed
<1>4. ASSUME NEW c \in Commits
      PROVE  LogNext(c, TRUE, c \in Commits) = FirstOf(Visible(c)) /\ Followed(c, TRUE) = FirstOf(Visible(c))
  BY DEF LogNext, Visible, Followed, FirstOf
<1>5. ASSUME NEW kept PROVE GoesAs(FALSE, kept)
  <2>1. ASSUME NEW c \in Commits
        PROVE  Visible(c) \in Seq(Commits) /\ Len(Visible(c)) <= 2
    <3>1. <<>> \in Seq(Commits) /\ Len(<<>>) <= 2
      OBVIOUS
    <3> QED BY <1>1, <3>1
  <2> QED BY <1>3, <2>1 DEF GoesAs
<1>6. GoesAs(TRUE, Commits)
  BY <1>2, <1>4 DEF GoesAs
<1> QED BY <1>5, <1>6

-----------------------------------------------------------------------------
(***************************************************************************)
(* The order of log --topo-order.                                          *)
(***************************************************************************)
LEMMA DistinctJoin ==
    ASSUME NEW C, NEW s \in Seq(C), NEW t \in Seq(C), Distinct(s), Distinct(t),
           ElementsOf(s) \cap ElementsOf(t) = {}
    PROVE  Distinct(s \o t)
<1> DEFINE u == s \o t
           m == Len(s)
           n == Len(t)
<1>1. /\ m \in Nat /\ n \in Nat /\ DOMAIN s = 1..m /\ DOMAIN t = 1..n /\ DOMAIN u = 1..(m + n)
      /\ \A i \in 1..(m + n) : u[i] = IF i <= m THEN s[i] ELSE t[i - m]
  OBVIOUS
<1> HIDE DEF u, m, n
<1>2. ASSUME NEW i \in 1..(m + n)
      PROVE  (i \in 1..m /\ u[i] = s[i]) \/ (i \notin 1..m /\ i - m \in 1..n /\ u[i] = t[i - m])
  BY <1>1
<1>3. ASSUME NEW i \in 1..(m + n), NEW j \in 1..(m + n), i # j PROVE u[i] # u[j]
  <2>1. \A k \in 1..m : s[k] \in ElementsOf(s)
    BY <1>1 DEF ElementsOf
  <2>2. \A k \in 1..n : t[k] \in ElementsOf(t)
    BY <1>1 DEF ElementsOf
  <2>3. (\A k, l \in 1..m : k # l => s[k] # s[l]) /\ (\A k, l \in 1..n : k # l => t[k] # t[l])
    BY <1>1 DEF Distinct
  <2>4. CASE i \in 1..m /\ j \in 1..m
    BY <1>2, <2>4, <1>3, <2>3
  <2>5. CASE i \in 1..m /\ j \notin 1..m
    BY <1>2, <2>5, <2>1, <2>2
  <2>6. CASE i \notin 1..m /\ j \in 1..m
    BY <1>2, <2>6, <2>1, <2>2
  <2>7. CASE i \notin 1..m /\ j \notin 1..m
    BY <1>2, <2>7, <1>1, <1>3, <2>3
  <2> QED BY <2>4, <2>5, <2>6, <2>7
<1>4. Distinct(u)
  BY <1>1, <1>3 DEF Distinct
<1> QED BY <1>4 DEF u

FreeOf(S, out) == {c \in S : {d \in S : c \in ElementsOf(log[d])} \ ElementsOf(out) = {}}

\* The states that the ordering goes through, and the steps between them.
OrderState == [ready : Seq(Commits), out : Seq(Commits)]

OrderFrom(s) == [ready |-> Within(s, FreeOf(ElementsOf(s), <<>>)), out |-> <<>>]

OrderStep(w, S) ==
    IF w.ready = <<>> THEN w
    ELSE [ready |-> Tail(w.ready) \o Within(log[Head(w.ready)], FreeOf(S, Append(w.out, Head(w.ready)))),
          out   |-> Append(w.out, Head(w.ready))]

Orders(run, s) ==
    run = [i \in 0..Len(s) |-> IF i = 0 THEN OrderFrom(s) ELSE OrderStep(run[i - 1], ElementsOf(s))]

OrdersFrom(s) == CHOOSE run : Orders(run, s)

LEMMA OrderRead ==
    ASSUME NEW s
    PROVE  LogOrder(s) = OrdersFrom(s)[Len(s)].out
BY DEF LogOrder, OrdersFrom, Orders, OrderFrom, OrderStep, FreeOf

LEMMA OrderStepIs ==
    ASSUME HistoryOK, NEW S, NEW w \in OrderState
    PROVE  /\ OrderStep(w, S) \in OrderState
           /\ w.ready # <<>> =>
                 /\ OrderStep(w, S).out = Append(w.out, Head(w.ready))
                 /\ OrderStep(w, S).ready
                        = Tail(w.ready) \o Within(log[Head(w.ready)], FreeOf(S, Append(w.out, Head(w.ready))))
<1> DEFINE r == OrderStep(w, S)
           c == Head(w.ready)
           o == Append(w.out, c)
           e == Within(log[c], FreeOf(S, o))
<1>1. w.ready \in Seq(Commits) /\ w.out \in Seq(Commits)
  BY DEF OrderState
<1>2. CASE w.ready = <<>>
  BY <1>2 DEF OrderStep
<1>3. CASE w.ready # <<>>
  <2>1. r = [ready |-> Tail(w.ready) \o e, out |-> o]
    BY <1>3 DEF OrderStep
  <2>2. c \in Commits /\ Tail(w.ready) \in Seq(Commits)
    BY <1>1, <1>3, TailIs
  <2>3. e \in Seq(Commits)
    <3>1. log[c] \in Seq(Nat) /\ \A i \in DOMAIN log[c] : log[c][i] \in Commits
      BY <2>2, ParentsStored
    <3> HIDE DEF c, o
    <3>2. log[c] \in Seq(Commits)
      BY <3>1
    <3> QED BY <3>2, WithinIs
  <2>4. o \in Seq(Commits)
    BY <1>1, <2>2
  <2> HIDE DEF r, e, o, c
  <2>5. Tail(w.ready) \o e \in Seq(Commits)
    BY <2>2, <2>3
  <2>6. r \in OrderState /\ r.ready = Tail(w.ready) \o e /\ r.out = o
    BY <2>1, <2>4, <2>5 DEF OrderState
  <2> QED BY <1>3, <2>6 DEF r, e, o, c
<1> QED BY <1>2, <1>3

LEMMA OrdersDefined ==
    ASSUME HistoryOK, NEW s \in Seq(Commits)
    PROVE  /\ OrdersFrom(s) \in [0..Len(s) -> OrderState]
           /\ OrdersFrom(s)[0] = OrderFrom(s)
           /\ \A n \in 1..Len(s) : OrdersFrom(s)[n] = OrderStep(OrdersFrom(s)[n - 1], ElementsOf(s))
<1> DEFINE N == Len(s)
           S == ElementsOf(s)
           h == [n \in 1..N |-> [w \in OrderState |-> OrderStep(w, S)]]
           at == OrdersFrom(s)
<1>1. N \in Nat
  OBVIOUS
<1>2. OrderFrom(s) \in OrderState
  <2>1. Within(s, FreeOf(ElementsOf(s), <<>>)) \in Seq(Commits)
    BY WithinIs
  <2>2. <<>> \in Seq(Commits)
    OBVIOUS
  <2> QED BY <2>1, <2>2 DEF OrderFrom, OrderState
<1>3. \A w \in OrderState : OrderStep(w, S) \in OrderState
  BY OrderStepIs
<1> HIDE DEF N, S
<1>4. h \in [1..N -> [OrderState -> OrderState]]
  BY <1>3
<1>5. \A n \in 1..N : \A w \in OrderState : h[n][w] = OrderStep(w, S)
  OBVIOUS
<1> HIDE DEF h
<1>6. PICK f \in [0..N -> OrderState] : Iterates(f, N, OrderFrom(s), h)
  BY <1>1, <1>2, <1>4, IterationDefines
<1>7. f[0] = OrderFrom(s) /\ \A n \in 1..N : f[n] = OrderStep(f[n - 1], S)
  <2>1. \A n \in 1..N : f[n] = h[n][f[n - 1]] /\ f[n - 1] \in OrderState
    BY <1>1, <1>6 DEF Iterates
  <2> QED BY <1>5, <1>6, <2>1 DEF Iterates
<1>8. \A n \in 0..N : f[n] = IF n = 0 THEN OrderFrom(s) ELSE OrderStep(f[n - 1], S)
  BY <1>1, <1>7
<1>9. f = [n \in 0..N |-> f[n]]
  BY <1>6
<1>10. f = [n \in 0..N |-> IF n = 0 THEN OrderFrom(s) ELSE OrderStep(f[n - 1], S)]
  BY <1>8, <1>9
<1>11. Orders(f, s)
  BY <1>10 DEF Orders, N, S
<1>12. Orders(at, s)
  BY <1>11 DEF OrdersFrom
<1> HIDE DEF at
<1>13. at = [n \in 0..N |-> at[n]]
       /\ \A n \in 0..N : at[n] = IF n = 0 THEN OrderFrom(s) ELSE OrderStep(at[n - 1], S)
  BY <1>12 DEF Orders, N, S
<1>14. at[0] = OrderFrom(s) /\ \A n \in 1..N : at[n] = OrderStep(at[n - 1], S)
  BY <1>1, <1>13
<1> DEFINE G == {n \in 0..N : at[n] \in OrderState}
<1>15. 0 \in G
  BY <1>1, <1>2, <1>14
<1>16. \A n \in 1..N : n - 1 \in G => n \in G
  BY <1>1, <1>3, <1>14
<1>17. G = 0..N
  <2>1. G \in SUBSET (0..N)
    OBVIOUS
  <2> HIDE DEF G
  <2> QED BY <1>1, <1>15, <1>16, <2>1, Onwards
<1>18. at \in [0..N -> OrderState]
  BY <1>13, <1>17
<1> QED BY <1>14, <1>18 DEF at, N, S

\* What is out is a beginning of the order, and what waits is what could come next.
Queued(w, S, i) ==
    /\ OutWell(w.out, S, i)
    /\ Distinct(w.ready) /\ ElementsOf(w.ready) = Ready(S, w.out)

LEMMA OrderedStarts ==
    ASSUME NEW s \in Seq(Commits), Distinct(s)
    PROVE  Queued(OrderFrom(s), ElementsOf(s), 0)
<1> DEFINE S == ElementsOf(s)
           w == OrderFrom(s)
<1>1. w.out = <<>> /\ w.ready = Within(s, FreeOf(S, <<>>))
  BY DEF OrderFrom
<1>2. Distinct(w.ready) /\ ElementsOf(w.ready) = S \cap FreeOf(S, <<>>)
  BY <1>1, WithinIs, WithinDistinct
<1> HIDE DEF w, S
<1>3. ElementsOf(<<>>) = {}
  BY DEF ElementsOf
<1>4. S \cap FreeOf(S, <<>>) = Ready(S, <<>>)
  BY <1>3 DEF FreeOf, Ready
<1>5. OutWell(<<>>, S, 0)
  BY DEF OutWell, Distinct, Led
<1>6. Queued(w, S, 0)
  BY <1>1, <1>2, <1>4, <1>5 DEF Queued
<1> QED BY <1>6 DEF w, S

LEMMA OrderedGoesOn ==
    ASSUME HistoryOK, ParentsOK, NEW S \in SUBSET Commits, NEW w \in OrderState, NEW i \in Nat, i < Cardinality(S),
           Queued(w, S, i)
    PROVE  Queued(OrderStep(w, S), S, i + 1)
<1> DEFINE r == OrderStep(w, S)
           y == w.ready
           o == w.out
           c == Head(y)
           p == Append(o, c)
           F == FreeOf(S, p)
           e == Within(log[c], F)
<1>1. y \in Seq(Commits) /\ o \in Seq(Commits)
  BY DEF OrderState
<1>2. OutWell(o, S, i) /\ Distinct(y) /\ ElementsOf(y) = Ready(S, o)
  BY DEF Queued
<1>3. y # <<>>
  BY <1>2, ReadyIs DEF ElementsOf
<1>4. r.out = p /\ r.ready = Tail(y) \o e
  BY <1>3, OrderStepIs
<1>5. /\ c \in Commits /\ Tail(y) \in Seq(Commits) /\ ElementsOf(y) = {c} \cup ElementsOf(Tail(y))
      /\ Distinct(Tail(y)) /\ c \notin ElementsOf(Tail(y))
  BY <1>1, <1>2, <1>3, TailIs
<1>6. log[c] \in Seq(Commits) /\ Distinct(log[c])
  <2>1. log[c] \in Seq(Nat) /\ \A j \in DOMAIN log[c] : log[c][j] \in Commits
    BY <1>5, ParentsStored
  <2>2. Distinct(log[c])
    BY <1>5 DEF ParentsOK
  <2> HIDE DEF c
  <2> QED BY <2>1, <2>2
<1> DEFINE t == Tail(y)
<1> HIDE DEF c, y, o, F, t
<1>7. e \in Seq(Commits) /\ Distinct(e) /\ ElementsOf(e) = ElementsOf(log[c]) \cap F
  BY <1>6, WithinIs, WithinDistinct
<1> HIDE DEF e
<1>8. c \in Ready(S, o) /\ ElementsOf(t) = Ready(S, o) \ {c} /\ t \in Seq(Commits) /\ Distinct(t)
  BY <1>2, <1>5 DEF t
<1>9. OutWell(p, S, i + 1)
  BY <1>2, <1>8, OutGoesOn
<1>10. ElementsOf(p) = ElementsOf(o) \cup {c}
  BY <1>1, <1>5, AppendIs
<1> HIDE DEF p
<1>11. c \in S /\ c \notin ElementsOf(o) /\ c \notin ElementsOf(log[c])
  <2>1. c \notin ElementsOf(log[c])
    BY <1>5, CommitsAre DEF HistoryOK, ElementsOf
  <2> QED BY <1>8, <2>1 DEF Ready
<1>12. ElementsOf(log[c]) \cap S \cap ElementsOf(o) = {}
  BY <1>2, <1>11 DEF ElementsOf, OutWell, Led
<1> DEFINE Under(x) == {d \in S : x \in ElementsOf(log[d])}
<1>13. \A x : x \in F <=> x \in S /\ Under(x) \subseteq ElementsOf(o) \cup {c}
  BY <1>10 DEF F, FreeOf
<1>14. \A x : x \in Ready(S, o) <=> x \in S /\ x \notin ElementsOf(o) /\ Under(x) \subseteq ElementsOf(o)
  BY DEF Ready
<1>15. \A x : x \in Ready(S, p) <=> x \in S /\ x \notin ElementsOf(o) /\ x # c /\ Under(x) \subseteq ElementsOf(o) \cup {c}
  BY <1>10 DEF Ready
<1>16. \A x : c \in Under(x) <=> x \in ElementsOf(log[c])
  BY <1>11
<1> HIDE DEF Under
<1>17. ElementsOf(t) \cap ElementsOf(e) = {}
  BY <1>7, <1>8, <1>11, <1>14, <1>16
<1>18. ElementsOf(t) \cup ElementsOf(e) = Ready(S, p)
  <2>1. ASSUME NEW x \in ElementsOf(t) \cup ElementsOf(e) PROVE x \in Ready(S, p)
    <3>1. CASE x \in ElementsOf(t)
      BY <1>8, <1>14, <1>15, <3>1
    <3>2. CASE x \in ElementsOf(e)
      BY <1>7, <3>2, <1>11, <1>12, <1>13, <1>15
    <3> QED BY <2>1, <3>1, <3>2
  <2>2. ASSUME NEW x \in Ready(S, p) PROVE x \in ElementsOf(t) \cup ElementsOf(e)
    <3>1. x \in S /\ x \notin ElementsOf(o) /\ x # c /\ Under(x) \subseteq ElementsOf(o) \cup {c}
      BY <1>15, <2>2
    <3>2. CASE c \in Under(x)
      BY <1>7, <1>13, <1>16, <3>1, <3>2
    <3>3. CASE c \notin Under(x)
      BY <3>1, <3>3, <1>8, <1>14
    <3> QED BY <3>2, <3>3
  <2> QED BY <2>1, <2>2
<1>19. ElementsOf(t \o e) = Ready(S, p) /\ Distinct(t \o e)
  BY <1>7, <1>8, <1>17, <1>18, ElementsJoin, DistinctJoin
<1>20. r.ready = t \o e /\ r.out = p
  BY <1>4 DEF t
<1> HIDE DEF r
<1>21. Queued(r, S, i + 1)
  BY <1>9, <1>19, <1>20 DEF Queued
<1> QED BY <1>21 DEF r

\* The order of log --topo-order has each of its commits once, none before one below it.
LEMMA LogOrderIs ==
    ASSUME HistoryOK, ParentsOK, NEW s \in Seq(Commits), Distinct(s)
    PROVE  /\ Lists(LogOrder(s), ElementsOf(s))
           /\ Clear(LogOrder(s), [c \in Commits |-> ElementsOf(log[c])])
<1> DEFINE N == Len(s)
           S == ElementsOf(s)
           at == OrdersFrom(s)
           G == {n \in 0..N : Queued(at[n], S, n)}
<1>1. N \in Nat /\ Cardinality(S) = N /\ S \in SUBSET Commits
  <2>1. N \in Nat /\ S \in SUBSET Commits
    BY DEF ElementsOf
  <2> QED BY <2>1, DistinctLength
<1>2. /\ at \in [0..N -> OrderState] /\ at[0] = OrderFrom(s)
      /\ \A n \in 1..N : at[n] = OrderStep(at[n - 1], S)
  BY OrdersDefined
<1>3. LogOrder(s) = at[N].out
  BY OrderRead
<1>4. Queued(OrderFrom(s), S, 0)
  BY OrderedStarts
<1> HIDE DEF N, at, S
<1>5. 0 \in G
  BY <1>1, <1>2, <1>4
<1>6. ASSUME NEW n \in 1..N, n - 1 \in G PROVE n \in G
  <2> DEFINE m == n - 1
  <2>1. m \in Nat /\ m \in 0..N /\ m + 1 = n /\ n \in 0..N /\ m < N
    BY <1>1
  <2>2. at[m] \in OrderState /\ Queued(at[m], S, m) /\ at[n] = OrderStep(at[m], S)
    BY <1>2, <1>6, <2>1
  <2> HIDE DEF m
  <2>3. m < Cardinality(S)
    BY <1>1, <2>1
  <2>4. Queued(OrderStep(at[m], S), S, m + 1)
    BY <1>1, <2>1, <2>2, <2>3, OrderedGoesOn
  <2> QED BY <2>1, <2>2, <2>4
<1>7. G = 0..N
  <2>1. G \in SUBSET (0..N)
    OBVIOUS
  <2> HIDE DEF G
  <2> QED BY <1>1, <1>5, <1>6, <2>1, Onwards
<1>8. N \in G
  BY <1>1, <1>7
<1>9. OutWell(LogOrder(s), S, Cardinality(S))
  BY <1>1, <1>3, <1>8 DEF Queued
<1> DEFINE o == LogOrder(s)
<1> HIDE DEF o
<1>10. OutWell(o, S, Cardinality(S))
  BY <1>9 DEF o
<1>11. Lists(o, S) /\ Clear(o, [c \in Commits |-> ElementsOf(log[c])])
  BY <1>1, <1>10, OutIsAll
<1> QED BY <1>11 DEF o, S

\* What log lists: all commits that its walk reaches and the filters keep, each once.
LEMMA LogIs ==
    ASSUME HistoryOK, ParentsOK, NEW fp, NEW topo \in BOOLEAN, NEW kept, GoesAs(fp, kept), NEW start \in Commits
    PROVE  /\ Log(start, fp, topo, 0, kept) \in Seq(Commits)
           /\ ElementsOf(Log(start, fp, topo, 0, kept)) = Walk({start}, fp) \cap kept
           /\ Distinct(Log(start, fp, topo, 0, kept))
           /\ topo => Clear(Log(start, fp, topo, 0, kept), [c \in Commits |-> ElementsOf(log[c])])
<1> DEFINE w == LogWalk(start, fp, kept)
           o == LogOrder(w)
           T == Walk({start}, fp) \cap kept
           R == [c \in Commits |-> ElementsOf(log[c])]
           l == Log(start, fp, topo, 0, kept)
<1>1. w \in Seq(Commits) /\ Distinct(w) /\ ElementsOf(w) = T
  BY LogWalkIs
<1>2. l = Upto(IF topo THEN o ELSE w, 0)
  BY DEF Log
<1> HIDE DEF w, T, R
<1>3. o \in Seq(Commits) /\ ElementsOf(o) = T /\ Distinct(o) /\ Clear(o, R)
  <2>1. Lists(o, T) /\ Clear(o, R)
    BY <1>1, LogOrderIs DEF R
  <2> HIDE DEF o
  <2>2. T \subseteq Commits
    BY <1>1 DEF ElementsOf
  <2>3. o \in Seq(T) /\ ElementsOf(o) = T /\ Distinct(o)
    BY <2>1 DEF Lists
  <2>4. o \in Seq(Commits)
    BY <2>2, <2>3
  <2> QED BY <2>1, <2>3, <2>4
<1> HIDE DEF o, l
<1>4. CASE topo
  BY <1>2, <1>4, <1>3, UptoIs DEF l, T, R
<1>5. CASE ~topo
  BY <1>2, <1>5, <1>1, UptoIs DEF l, T
<1> QED BY <1>4, <1>5

\* A walk past every commit that the filters leave out.
LEMMA LogLists ==
    ASSUME HistoryOK, ParentsOK, NEW c \in Commits, NEW topo \in BOOLEAN, NEW kept
    PROVE  /\ ElementsOf(Log(c, FALSE, topo, 0, kept)) = Ancestors(c) \cap kept
           /\ Len(Log(c, FALSE, topo, 0, kept)) = Cardinality(ElementsOf(Log(c, FALSE, topo, 0, kept)))
           /\ topo => \A i, j \in DOMAIN Log(c, FALSE, topo, 0, kept) :
                          i < j => Log(c, FALSE, topo, 0, kept)[i]
                                       \notin ElementsOf(log[Log(c, FALSE, topo, 0, kept)[j]])
<1> DEFINE l == Log(c, FALSE, topo, 0, kept)
           R == [d \in Commits |-> ElementsOf(log[d])]
<1>1. GoesAs(FALSE, kept)
  BY LogGoesOn
<1>2. l \in Seq(Commits) /\ ElementsOf(l) = Walk({c}, FALSE) \cap kept /\ Distinct(l) /\ (topo => Clear(l, R))
  BY <1>1, LogIs
<1> HIDE DEF l
<1>3. Len(l) = Cardinality(ElementsOf(l))
  BY <1>2, DistinctLength
<1>4. ASSUME topo, NEW i \in DOMAIN l, NEW j \in DOMAIN l, i < j PROVE l[i] \notin ElementsOf(log[l[j]])
  <2>1. l[j] \in Commits
    BY <1>2
  <2>2. l[i] \notin R[l[j]]
    BY <1>2, <1>4 DEF Clear
  <2> QED BY <2>1, <2>2
<1>5. ElementsOf(l) = Ancestors(c) \cap kept
  BY <1>2 DEF Ancestors
<1> QED BY <1>3, <1>4, <1>5 DEF l

\* With --first-parent and no filter.
LEMMA LogFirstParents ==
    ASSUME HistoryOK, ParentsOK, NEW c \in Commits
    PROVE  ElementsOf(Log(c, TRUE, FALSE, 0, Commits)) = Walk({c}, TRUE)
<1>1. GoesAs(TRUE, Commits)
  BY LogGoesOn
<1>2. ElementsOf(Log(c, TRUE, FALSE, 0, Commits)) = Walk({c}, TRUE) \cap Commits
  BY <1>1, LogIs
<1>3. Walk({c}, TRUE) \subseteq Commits
  BY WalkHolds
<1> QED BY <1>2, <1>3

\* describe counts the edges to the tag, and finds it only if it is an ancestor.
LEMMA Described ==
    ASSUME HistoryOK, ParentsOK, TagOK, shallow = {}, NEW c \in Commits
    PROVE  Describe(c, {tag}) = IF tag \in Ancestors(c) THEN Distances(c)[tag] ELSE None
BY SearchForOne DEF Describe

LEMMA WalksAlike ==
    ASSUME HistoryOK, TagOK, ParentsOK, GraphOK
    PROVE  WalksAgree
<1>1. \A c \in DOMAIN graph : \A a \in ProperAncestors(c) : a \in DOMAIN graph /\ graph[a] < graph[c]
  BY GraphOrders
<1>2. ASSUME NEW c \in Commits
      PROVE  /\ \A most \in {1, 2} : \A topo \in BOOLEAN :
                    LET kept == {x \in Commits : Len(log[x]) <= most}
                        listed == Log(c, FALSE, topo, 0, kept)
                    IN  /\ ElementsOf(listed) = Ancestors(c) \cap kept
                        /\ Len(listed) = Cardinality(ElementsOf(listed))
                        /\ topo => \A i, j \in DOMAIN listed : i < j => listed[i] \notin ElementsOf(log[listed[j]])
             /\ ElementsOf(Log(c, TRUE, FALSE, 0, Commits)) = Walk({c}, TRUE)
             /\ shallow = {} => \A b \in Commits : \A counted \in AheadBehind(c, b) :
                    LET mine == Ancestors(c) \ Ancestors(b)
                        theirs == Ancestors(b) \ Ancestors(c)
                    IN  IF Ancestors(c) \cap Ancestors(b) = {} THEN counted = <<{}, {}>>
                        ELSE /\ mine \subseteq counted[1] /\ theirs \subseteq counted[2]
                             /\ (\A d \in Commits : Len(log[d]) < 2) => counted = <<mine, theirs>>
             /\ \A f \in {[NoFilter EXCEPT !.contains = c], [NoFilter EXCEPT !.noMerged = c],
                          [NoFilter EXCEPT !.merged = Newest, !.noContains = c]} :
                    LET found == EachRef(Refs, f)
                    IN  /\ found = {r \in Refs : /\ (f.contains = c => c \in Ancestors(r.tip))
                                                /\ (f.merged = Newest => r.tip \in Ancestors(Newest))
                                                /\ (f.noMerged = c => r.tip \notin Ancestors(c))
                                                /\ (f.noContains = c => c \notin Ancestors(r.tip))}
                        /\ shallow = {} => found = ListedBranches(Refs, f)
             /\ shallow = {} /\ tag # None =>
                    LET edges == Describe(c, {tag})
                    IN  IF tag \in Ancestors(c) THEN edges = Distances(c)[tag] ELSE edges = None
  <2>1. ASSUME NEW most \in {1, 2}, NEW topo \in BOOLEAN
        PROVE  LET kept == {x \in Commits : Len(log[x]) <= most}
                   listed == Log(c, FALSE, topo, 0, kept)
               IN  /\ ElementsOf(listed) = Ancestors(c) \cap kept
                   /\ Len(listed) = Cardinality(ElementsOf(listed))
                   /\ topo => \A i, j \in DOMAIN listed : i < j => listed[i] \notin ElementsOf(log[listed[j]])
    <3> DEFINE kept == {x \in Commits : Len(log[x]) <= most}
    <3> HIDE DEF kept
    <3>1. /\ ElementsOf(Log(c, FALSE, topo, 0, kept)) = Ancestors(c) \cap kept
          /\ Len(Log(c, FALSE, topo, 0, kept)) = Cardinality(ElementsOf(Log(c, FALSE, topo, 0, kept)))
          /\ topo => \A i, j \in DOMAIN Log(c, FALSE, topo, 0, kept) :
                         i < j => Log(c, FALSE, topo, 0, kept)[i]
                                      \notin ElementsOf(log[Log(c, FALSE, topo, 0, kept)[j]])
      BY LogLists
    <3> QED BY <3>1 DEF kept
  <2>2. ElementsOf(Log(c, TRUE, FALSE, 0, Commits)) = Walk({c}, TRUE)
    BY LogFirstParents
  <2>3. ASSUME shallow = {}, NEW b \in Commits, NEW counted \in AheadBehind(c, b)
        PROVE  IF Ancestors(c) \cap Ancestors(b) = {} THEN counted = <<{}, {}>>
               ELSE /\ Ancestors(c) \ Ancestors(b) \subseteq counted[1]
                    /\ Ancestors(b) \ Ancestors(c) \subseteq counted[2]
                    /\ (\A d \in Commits : Len(log[d]) < 2)
                           => counted = <<Ancestors(c) \ Ancestors(b), Ancestors(b) \ Ancestors(c)>>
    BY <2>3, BothSidesCounted DEF CountsFit
  <2>4. ASSUME NEW f \in {[NoFilter EXCEPT !.contains = c], [NoFilter EXCEPT !.noMerged = c],
                          [NoFilter EXCEPT !.merged = Newest, !.noContains = c]}
        PROVE  /\ EachRef(Refs, f) = {r \in Refs : /\ (f.contains = c => c \in Ancestors(r.tip))
                                                  /\ (f.merged = Newest => r.tip \in Ancestors(Newest))
                                                  /\ (f.noMerged = c => r.tip \notin Ancestors(c))
                                                  /\ (f.noContains = c => c \notin Ancestors(r.tip))}
               /\ shallow = {} => EachRef(Refs, f) = ListedBranches(Refs, f)
    <3>1. f \in AskedOf(c)
      BY DEF AskedOf
    <3>2. FoundAs(f, c)
      BY <3>1, RefsFound
    <3> QED BY <3>2 DEF FoundAs
  <2>5. ASSUME shallow = {}
        PROVE  LET edges == Describe(c, {tag})
               IN  IF tag \in Ancestors(c) THEN edges = Distances(c)[tag] ELSE edges = None
    BY <2>5, Described
  <2> QED BY <2>1, <2>2, <2>3, <2>4, <2>5
<1> QED BY <1>1, <1>2 DEF WalksAgree

\* In every history, however long and however often merged: log lists what its walk reaches and
\* the filters keep, each commit once and with --topo-order none before one below it; the
\* commit-graph sets ancestors in generations below; ahead and behind count at least what lies
\* beyond the other side, and no more without merges, if the two histories share a commit, and
\* nothing at all if they do not; the ref filters of both functions agree
\* with the ancestors; and describe counts the fewest edges to its tag.
\* (log, topo_order, collect_commit_graph_commits, _compute_generations, ahead_behind,
\* for_each_ref, _branch_matches, describe)
THEOREM WalksAllAgree == Spec => []WalksAgree
<1>1. Spec => [](HistoryOK /\ TagOK /\ ParentsOK /\ GraphOK)
  BY HistoryInvariant, TagInvariant, GraphInvariant, PTL
<1>2. HistoryOK /\ TagOK /\ ParentsOK /\ GraphOK => WalksAgree
  BY WalksAlike
<1> QED BY <1>1, <1>2, PTL

=============================================================================

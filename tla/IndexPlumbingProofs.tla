------------------------ MODULE IndexPlumbingProofs ------------------------
(***************************************************************************)
(* Proofs about the commands that work on the index, for every set of      *)
(* paths and contents, every repository to start from and any number of    *)
(* commands and edits.                                                     *)
(***************************************************************************)
EXTENDS IndexPlumbing, WellFoundedInduction, SequenceTheorems, FiniteSetTheorems, TLAPS

-----------------------------------------------------------------------------
(***************************************************************************)
(* Induction over the numbers below a bound.                               *)
(***************************************************************************)
\* The least number of a set of naturals.
LEMMA LeastOf == ASSUME NEW T \in SUBSET Nat, T # {} PROVE \E n \in T : \A m \in T : n <= m
<1> DEFINE R == OpToRel(<, Nat)
<1>1. IsWellFoundedOn(R, Nat)
  BY NatLessThanWellFounded
<1> HIDE DEF R
<1>2. \E x \in T : \A y \in T : ~(<<y, x>> \in R)
  BY <1>1, WFMin
<1>3. \A x, y \in Nat : <<y, x>> \in R <=> y < x
  BY DEF R, OpToRel
<1>4. PICK x \in T : \A y \in T : ~(<<y, x>> \in R)
  BY <1>2
<1>5. ASSUME NEW y \in T PROVE x <= y
  <2>1. x \in Nat /\ y \in Nat
    OBVIOUS
  <2>2. ~(y < x)
    BY <1>3, <1>4, <2>1
  <2> QED BY <2>1, <2>2
<1> QED BY <1>5

\* Induction over the numbers up to n: what holds of 0 and, with a number, of the next.
LEMMA UpTo ==
    ASSUME NEW n \in Nat, NEW T, 0 \in T, \A i \in 0..(n - 1) : i \in T => i + 1 \in T
    PROVE  \A i \in 0..n : i \in T
<1> DEFINE W == {i \in 0..n : i \notin T}
<1>1. SUFFICES ASSUME W # {} PROVE FALSE
  OBVIOUS
<1>0. W \in SUBSET Nat
  OBVIOUS
<1>2. PICK i \in W : \A j \in W : i <= j
  <2> HIDE DEF W
  <2> QED BY <1>0, <1>1, LeastOf
<1>3. i # 0 /\ i - 1 \in 0..(n-1) /\ i - 1 \notin W
  BY <1>2
<1> QED BY <1>3

-----------------------------------------------------------------------------
(***************************************************************************)
(* What may be written to a worktree: it stays one, with directories above *)
(* whatever is in it.                                                      *)
(***************************************************************************)
LEMMA WorktreeIs ==
    ASSUME NEW w \in Worktrees
    PROVE  /\ w \in [Paths -> Blobs \cup {Gone, Directory}]
           /\ \A p, q \in Paths : w[p] # Gone /\ Beneath(p, q) => w[q] = Directory
BY DEF Worktrees

LEMMA BlobsAreBlobs == ASSUME NEW e \in Blobs PROVE e \notin {Gone, Directory} /\ e.oid \in Contents /\ e.mode \in File
BY SentinelsAreDistinct DEF Blobs

\* A file, or an empty directory, is put where nothing is in its way.
LEMMA PutIsTree ==
    ASSUME NEW w \in Worktrees, NEW p \in Paths, CanWrite(w, p), NEW e \in Blobs \cup {Directory}
    PROVE  Put(w, p, e) \in Worktrees
<1> DEFINE u == Put(w, p, e)
<1>1. u \in [Paths -> Blobs \cup {Gone, Directory}]
  BY WorktreeIs DEF Put
<1>2. \A q \in Paths : u[q] = IF q = p THEN e ELSE IF Beneath(p, q) THEN Directory ELSE w[q]
  BY DEF Put, Dirs
<1>3. ASSUME NEW r \in Paths, NEW q \in Paths, u[r] # Gone, Beneath(r, q) PROVE u[q] = Directory
  <2> HIDE DEF u
  <2>1. CASE q = p
    BY <1>3, <2>1, BeneathIsOrder, <1>2, WorktreeIs DEF CanWrite
  <2>2. CASE q # p /\ ~Beneath(p, q)
    BY <1>3, <2>2, BeneathIsOrder, <1>2, WorktreeIs
  <2> QED BY <1>2, <2>1, <2>2
<1> HIDE DEF u
<1>4. u \in Worktrees
  BY <1>1, <1>3 DEF Worktrees
<1> QED BY <1>4 DEF u

LEMMA RestoreIsPut ==
    ASSUME NEW w \in Worktrees, NEW p \in Paths, NEW e \in Blobs
    PROVE  \E b \in Blobs : Restore(w, p, e) = Put(w, p, b) /\ b.oid = e.oid
<1> DEFINE b == IF IsFile(w, p) /\ w[p].mode = "100755" THEN [e EXCEPT !.mode = "100755"] ELSE e
<1>1. b \in Blobs /\ b.oid = e.oid
  BY DEF Blobs, File
<1> QED BY <1>1 DEF Restore

LEMMA RemovedIsTree ==
    ASSUME NEW w \in Worktrees, NEW ps PROVE Removed(w, ps) \in Worktrees
<1> DEFINE u == Removed(w, ps)
<1>1. u \in [Paths -> Blobs \cup {Gone, Directory}]
  BY WorktreeIs DEF Removed
<1>2. \A q \in Paths : u[q] = IF q \in ps /\ w[q] \notin {Gone, Directory} THEN Gone ELSE w[q]
  BY DEF Removed, IsFile
<1> HIDE DEF u
<1>3. ASSUME NEW r \in Paths, NEW q \in Paths, u[r] # Gone, Beneath(r, q) PROVE u[q] = Directory
  BY <1>2, <1>3, WorktreeIs
<1>4. u \in Worktrees
  BY <1>1, <1>3 DEF Worktrees
<1> QED BY <1>4 DEF u

-----------------------------------------------------------------------------
(***************************************************************************)
(* The files that a command writes, one after another.                     *)
(***************************************************************************)
Results == [files : Worktrees, ok : BOOLEAN]

\* The first m steps that Written makes.
Writes(w, ps, t, force, restores, f, m) ==
    /\ f \in [0..m -> Results]
    /\ f[0] = [files |-> w, ok |-> TRUE]
    /\ \A i \in 1..m : f[i] = WriteNext(f[i - 1], Order[i], ps, t, force, restores)

\* One more file, of t, restored or checked out.
LEMMA WriteNextIs ==
    ASSUME NEW r \in Results, NEW p \in Paths, NEW ps, NEW t \in Tree, ps \subseteq PathsOf(t),
           NEW force \in BOOLEAN, NEW restores \in BOOLEAN
    PROVE  LET n == WriteNext(r, p, ps, t, force, restores)
           IN  \/ n = r /\ (p \in ps => ~r.ok)
               \/ /\ p \in ps /\ r.ok /\ n = [files |-> r.files, ok |-> FALSE]
                  /\ ~CanWrite(r.files, p) \/ (IsFile(r.files, p) /\ ~force)
               \/ /\ p \in ps /\ r.ok /\ CanWrite(r.files, p)
                  /\ \E b \in Blobs : /\ n = [files |-> Put(r.files, p, b), ok |-> TRUE]
                                      /\ b.oid = t[p].oid /\ (~restores => b = t[p])
<1> DEFINE n == WriteNext(r, p, ps, t, force, restores)
<1>0. r = [files |-> r.files, ok |-> r.ok] /\ r.files \in Worktrees /\ r.ok \in BOOLEAN
  BY DEF Results
<1>1. CASE p \notin ps \/ ~r.ok
  BY <1>1 DEF WriteNext
<1>2. CASE p \in ps /\ r.ok /\ (~CanWrite(r.files, p) \/ (IsFile(r.files, p) /\ ~force))
  BY <1>2, <1>0 DEF WriteNext
<1>3. CASE p \in ps /\ r.ok /\ CanWrite(r.files, p) /\ ~(IsFile(r.files, p) /\ ~force)
  <2>1. t[p] \in Blobs
    BY <1>3 DEF PathsOf, Tree
  <2>2. PICK b \in Blobs : /\ (IF restores THEN Restore(r.files, p, t[p]) ELSE CheckOut(r.files, p, t[p])) = Put(r.files, p, b)
                           /\ b.oid = t[p].oid /\ (~restores => b = t[p])
    BY <2>1, <1>0, RestoreIsPut DEF CheckOut
  <2>3. n = [r EXCEPT !.files = IF restores THEN Restore(r.files, p, t[p]) ELSE CheckOut(r.files, p, t[p])]
    BY <1>3 DEF WriteNext
  <2>4. n = [files |-> Put(r.files, p, b), ok |-> TRUE]
    BY <1>0, <1>3, <2>2, <2>3
  <2> QED BY <1>3, <2>2, <2>4
<1> QED BY <1>0, <1>1, <1>2, <1>3

LEMMA WriteNextTyped ==
    ASSUME NEW r \in Results, NEW p \in Paths, NEW ps, NEW t \in Tree, ps \subseteq PathsOf(t),
           NEW force \in BOOLEAN, NEW restores \in BOOLEAN
    PROVE  WriteNext(r, p, ps, t, force, restores) \in Results
<1> DEFINE n == WriteNext(r, p, ps, t, force, restores)
<1>1. r.files \in Worktrees
  BY DEF Results
<1>2. \/ n = r
      \/ n = [files |-> r.files, ok |-> FALSE]
      \/ CanWrite(r.files, p) /\ \E b \in Blobs : n = [files |-> Put(r.files, p, b), ok |-> TRUE]
  <2> HIDE DEF n
  <2> QED BY WriteNextIs DEF n
<1> HIDE DEF n
<1>3. ASSUME CanWrite(r.files, p), NEW b \in Blobs PROVE [files |-> Put(r.files, p, b), ok |-> TRUE] \in Results
  BY <1>1, <1>3, PutIsTree DEF Results
<1>4. [files |-> r.files, ok |-> FALSE] \in Results
  BY <1>1 DEF Results
<1>5. n \in Results
  BY <1>2, <1>3, <1>4
<1> QED BY <1>5 DEF n

LEMMA OrderIs == Len(Order) \in Nat /\ \A i \in 1..Len(Order) : Order[i] \in Paths
BY OrderIsOfPaths

\* Such steps can be made.
LEMMA WritesExist ==
    ASSUME NEW w \in Worktrees, NEW ps, NEW t \in Tree, ps \subseteq PathsOf(t),
           NEW force \in BOOLEAN, NEW restores \in BOOLEAN
    PROVE  \E f : Writes(w, ps, t, force, restores, f, Len(Order))
<1> DEFINE N == Len(Order)
           W(f, m) == Writes(w, ps, t, force, restores, f, m)
           T == {m \in 0..N : \E f : W(f, m)}
<1>1. N \in Nat
  BY OrderIs
<1>2. 0 \in T
  <2> DEFINE g == [i \in {0} |-> [files |-> w, ok |-> TRUE]]
  <2>1. W(g, 0)
    <3>1. g \in [{0} -> Results] /\ g[0] = [files |-> w, ok |-> TRUE]
      BY DEF Results
    <3>2. 0..0 = {0} /\ 1..0 = {}
      OBVIOUS
    <3> HIDE DEF g
    <3> QED BY <3>1, <3>2 DEF Writes
  <2> QED BY <1>1, <2>1
<1>3. ASSUME NEW m \in 0..(N - 1), m \in T PROVE m + 1 \in T
  <2>1. PICK f : W(f, m)
    BY <1>3
  <2> DEFINE New == WriteNext(f[m], Order[m + 1], ps, t, force, restores)
             g == [i \in 0..(m + 1) |-> IF i = m + 1 THEN New ELSE f[i]]
  <2>2. f \in [0..m -> Results] /\ f[0] = [files |-> w, ok |-> TRUE]
    BY <2>1 DEF Writes
  <2>3. New \in Results
    BY <2>2, <1>1, OrderIs, WriteNextTyped
  <2>4. g \in [0..(m + 1) -> Results]
    <3> HIDE DEF New
    <3> QED BY <2>2, <2>3, <1>1
  <2>5. g[0] = [files |-> w, ok |-> TRUE]
    <3> HIDE DEF New
    <3> QED BY <2>2, <1>1
  <2>6. ASSUME NEW i \in 1..(m + 1) PROVE g[i] = WriteNext(g[i - 1], Order[i], ps, t, force, restores)
    <3>1. CASE i = m + 1
      <4>1. g[i] = New /\ g[i - 1] = f[m]
        BY <3>1, <1>1
      <4> QED BY <4>1, <3>1, Zenon
    <3>2. CASE i # m + 1
      <4>1. i \in 1..m
        BY <3>2
      <4>2. g[i] = f[i] /\ g[i - 1] = f[i - 1]
        BY <4>1
      <4>3. f[i] = WriteNext(f[i - 1], Order[i], ps, t, force, restores)
        BY <4>1, <2>1 DEF Writes
      <4> HIDE DEF g
      <4> QED BY <4>2, <4>3, Zenon
    <3> QED BY <3>1, <3>2
  <2>7. W(g, m + 1)
    <3> HIDE DEF g
    <3> QED BY <2>4, <2>5, <2>6 DEF Writes
  <2> QED BY <2>7, <1>1
<1>4. \A m \in 0..N : m \in T
  <2> HIDE DEF T, N
  <2> QED BY <1>1, <1>2, <1>3, UpTo
<1> QED BY <1>1, <1>4

\* Written is the last of such steps.
LEMMA WrittenSteps ==
    ASSUME NEW w \in Worktrees, NEW ps, NEW t \in Tree, ps \subseteq PathsOf(t),
           NEW force \in BOOLEAN, NEW restores \in BOOLEAN
    PROVE  \E f : /\ Writes(w, ps, t, force, restores, f, Len(Order))
                  /\ Written(w, ps, t, force, restores) = f[Len(Order)]
<1> DEFINE N == Len(Order)
           Def(f) == f = [i \in 0..N |-> IF i = 0 THEN [files |-> w, ok |-> TRUE]
                                         ELSE WriteNext(f[i - 1], Order[i], ps, t, force, restores)]
           g == CHOOSE f : Def(f)
<1>1. N \in Nat
  BY OrderIs
<1>2. PICK f : Writes(w, ps, t, force, restores, f, N)
  BY WritesExist
<1>3. Def(f)
  BY <1>1, <1>2 DEF Writes
<1>4. Def(g)
  <2> HIDE DEF Def
  <2> QED BY <1>3
<1>5. Written(w, ps, t, force, restores) = g[N]
  BY DEF Written
<1> HIDE DEF g
<1>10. /\ g[0] = [files |-> w, ok |-> TRUE]
       /\ \A i \in 0..N : i # 0 => g[i] = WriteNext(g[i - 1], Order[i], ps, t, force, restores)
       /\ DOMAIN g = 0..N /\ g = [i \in 0..N |-> g[i]]
  <2> DEFINE e(i) == WriteNext(g[i - 1], Order[i], ps, t, force, restores)
  <2>1. g = [i \in 0..N |-> IF i = 0 THEN [files |-> w, ok |-> TRUE] ELSE e(i)]
    BY <1>4
  <2> HIDE DEF Def, e, N
  <2>2. /\ g[0] = [files |-> w, ok |-> TRUE]
        /\ \A i \in 0..N : i # 0 => g[i] = e(i)
        /\ DOMAIN g = 0..N /\ g = [i \in 0..N |-> g[i]]
    BY <2>1, <1>1
  <2> QED BY <2>2 DEF e
<1> HIDE DEF Def
<1>6. g[0] = [files |-> w, ok |-> TRUE]
  BY <1>10
<1>7. ASSUME NEW i \in 1..N PROVE g[i] = WriteNext(g[i - 1], Order[i], ps, t, force, restores)
  <2>1. i \in 0..N /\ i # 0
    BY <1>1
  <2> HIDE DEF N
  <2> QED BY <1>10, <2>1
<1>8. g \in [0..N -> Results]
  <2> DEFINE T == {i \in 0..N : g[i] \in Results}
  <2>1. 0 \in T
    <3>1. 0 \in 0..N /\ [files |-> w, ok |-> TRUE] \in Results
      BY <1>1 DEF Results
    <3> QED BY <1>6, <3>1
  <2>2. ASSUME NEW i \in 0..(N - 1), i \in T PROVE i + 1 \in T
    BY <1>1, <1>7, OrderIs, <2>2, WriteNextTyped
  <2>3. \A i \in 0..N : i \in T
    <3> HIDE DEF T, N
    <3> QED BY <1>1, <2>1, <2>2, UpTo
  <2> HIDE DEF N
  <2> QED BY <1>10, <2>3
<1>9. Writes(w, ps, t, force, restores, g, N)
  BY <1>6, <1>7, <1>8 DEF Writes
<1> QED BY <1>5, <1>9

LEMMA WrittenTyped ==
    ASSUME NEW w \in Worktrees, NEW ps, NEW t \in Tree, ps \subseteq PathsOf(t),
           NEW force \in BOOLEAN, NEW restores \in BOOLEAN
    PROVE  Written(w, ps, t, force, restores) \in Results
<1>1. PICK f : /\ Writes(w, ps, t, force, restores, f, Len(Order))
               /\ Written(w, ps, t, force, restores) = f[Len(Order)]
  BY WrittenSteps
<1> QED BY <1>1, OrderIs DEF Writes
-----------------------------------------------------------------------------
(***************************************************************************)
(* Types: the index holds entries, and the worktree stays a worktree.      *)
(***************************************************************************)
LEMMA TypesAre ==
    ASSUME TypeOK
    PROVE  /\ entries \in Tree /\ unmerged \in Stagings /\ worktree \in Worktrees
           /\ trees.base \in Tree /\ trees.ours \in Tree /\ trees.theirs \in Tree
           /\ \A n \in TreeNames : trees[n] \in Tree
           /\ \A p \in Paths : IsFile(worktree, p) => worktree[p] \in Blobs
BY WorktreeIs DEF TypeOK, TreeNames, IsFile

LEMMA TreeIs == ASSUME NEW t \in Tree PROVE \A p \in Paths : t[p] \in Blobs \cup {Gone}
BY DEF Tree

LEMMA EmptyIsTree == EmptyTree \in Tree /\ NoStages \in [1..3 -> Blobs \cup {Gone}] /\ NoneUnmerged \in Stagings
BY DEF EmptyTree, Tree, NoStages, NoneUnmerged, Stagings, Stages

LEMMA LeftTyped ==
    ASSUME TypeOK, NEW cmd, MayRun(cmd), left' = [left EXCEPT !.commands = @ - 1]
    PROVE  left' \in [allowed : SUBSET Commands, commands : Nat, edits : Nat]
BY DEF TypeOK, MayRun

LEMMA SpendTyped ==
    ASSUME TypeOK, NEW cmd, MayRun(cmd), Spend
    PROVE  /\ left' \in [allowed : SUBSET Commands, commands : Nat, edits : Nat]
           /\ trees' \in [base : Tree, ours : Tree, theirs : Tree] /\ cmd \in Names
BY LeftTyped DEF TypeOK, MayRun, Spend, Names

\* A command that leaves an index, a worktree and its name.
LEMMA CommandTyped ==
    ASSUME TypeOK, NEW cmd, MayRun(cmd), Spend, NEW e \in Tree, NEW u \in Stagings, NEW w \in Worktrees,
           NEW c \in Names, NEW ok \in BOOLEAN,
           entries' = e, unmerged' = u, worktree' = w, last' = [cmd |-> c, ok |-> ok]
    PROVE  TypeOK'
BY SpendTyped DEF TypeOK

LEMMA SavedTyped ==
    ASSUME TypeOK, NEW cmd, MayRun(cmd), NEW e \in Tree, NEW u \in Stagings, Saved(cmd, e, u)
    PROVE  TypeOK'
BY CommandTyped DEF TypeOK, MayRun, Names, Saved, Index, Done

LEMMA WithoutTyped ==
    ASSUME TypeOK, NEW p \in Paths
    PROVE  Without(entries, p, Gone) \in Tree /\ Without(unmerged, p, NoStages) \in Stagings
BY EmptyIsTree DEF TypeOK, Without, Tree, Stagings

LEMMA UpdateIndexTyped == ASSUME TypeOK, UpdateIndexCommand PROVE TypeOK'
<1>1. ASSUME NEW p \in Paths, NEW e \in Given, CacheInfo(p, e) PROVE TypeOK'
  BY BlobsAreGiven, <1>1, SavedTyped DEF TypeOK, Tree, CacheInfo
<1>2. ASSUME NEW p \in Paths, NEW e \in Given, NEW s \in Stages, IndexInfo(p, s, e) PROVE TypeOK'
  BY BlobsAreGiven, <1>2, SavedTyped DEF TypeOK, Stagings, Stages, IndexInfo
<1>3. ASSUME NEW p \in Paths, ForceRemove(p) PROVE TypeOK'
  BY <1>3, WithoutTyped, SavedTyped DEF ForceRemove
<1>4. ASSUME NEW p \in Paths, NEW add, NEW remove, NEW chmod \in {None} \cup File,
             UpdateIndex(p, add, remove, chmod)
      PROVE  TypeOK'
  <2>1. CASE Saved("update-index", Without(entries, p, Gone), Without(unmerged, p, NoStages))
    BY <1>4, <2>1, WithoutTyped, SavedTyped DEF UpdateIndex
  <2> DEFINE b == IF chmod = None THEN worktree[p] ELSE [worktree[p] EXCEPT !.mode = chmod]
  <2>2. CASE IsFile(worktree, p) /\ Saved("update-index", [entries EXCEPT ![p] = b], Without(unmerged, p, NoStages))
    <3>1. b \in Blobs
      BY <2>2, TypesAre DEF Blobs
    <3> HIDE DEF b
    <3>2. [entries EXCEPT ![p] = b] \in Tree
      BY <3>1 DEF TypeOK, Tree
    <3> QED BY <1>4, <2>2, <3>2, WithoutTyped, SavedTyped DEF UpdateIndex
  <2> QED BY <1>4, <2>1, <2>2 DEF UpdateIndex
<1> QED BY <1>1, <1>2, <1>3, <1>4 DEF UpdateIndexCommand

\* A tree put in a directory, and over an index.
LEMMA PrefixedIs ==
    ASSUME NEW t \in Tree, NEW d \in Paths
    PROVE  /\ Prefixed(d, t) \in Tree
           /\ \A e \in Tree : [p \in Paths |-> IF Prefixed(d, t)[p] # Gone THEN Prefixed(d, t)[p] ELSE e[p]] \in Tree
<1>1. ASSUME NEW p \in Paths
      PROVE  (IF \E q \in PathsOf(t) : Join(d, q) = p
              THEN t[CHOOSE q \in PathsOf(t) : Join(d, q) = p] ELSE Gone) \in Blobs \cup {Gone}
  <2>1. CASE \E q \in PathsOf(t) : Join(d, q) = p
    <3> DEFINE q == CHOOSE r \in PathsOf(t) : Join(d, r) = p
    <3>1. q \in PathsOf(t)
      BY <2>1
    <3> HIDE DEF q
    <3>2. t[q] \in Blobs \cup {Gone}
      BY <3>1 DEF PathsOf, Tree
    <3> QED BY <2>1, <3>2 DEF q
  <2> QED BY <2>1
<1>2. Prefixed(d, t) \in Tree
  BY <1>1 DEF Prefixed, Tree
<1> QED BY <1>2 DEF Tree

LEMMA DoneTyped ==
    ASSUME TypeOK, NEW cmd, MayRun(cmd), NEW e \in Tree, NEW u \in Stagings, NEW w \in Worktrees,
           worktree' = w, Index(e, u), Done(cmd), Spend
    PROVE  TypeOK'
BY CommandTyped DEF TypeOK, MayRun, Names, Index, Done

LEMMA UnsavedTyped ==
    ASSUME TypeOK, NEW cmd, MayRun(cmd), NEW w \in Worktrees, Unsaved(cmd, w)
    PROVE  TypeOK'
BY CommandTyped DEF TypeOK, MayRun, Names, Unsaved, Failed

LEMMA ReadTreeUpdateTyped == ASSUME TypeOK, NEW t \in Tree, ReadTreeUpdate(t) PROVE TypeOK'
<1> DEFINE r == Written(Removed(worktree, PathsOf(entries) \ PathsOf(t)), PathsOf(t), t, TRUE, TRUE)
<1>1. r.files \in Worktrees
  <2>1. r \in Results
    BY WrittenTyped, RemovedIsTree DEF TypeOK
  <2> QED BY <2>1 DEF Results
<1>2. CASE worktree' = r.files /\ Index(t, NoneUnmerged) /\ Done("read-tree -u") /\ Spend
  <2>1. MayRun("read-tree -u")
    BY DEF ReadTreeUpdate
  <2> HIDE DEF r
  <2> QED BY <1>1, <1>2, <2>1, DoneTyped, EmptyIsTree
<1>3. CASE Unsaved("read-tree -u", r.files)
  BY <1>1, <1>3, UnsavedTyped DEF ReadTreeUpdate
<1> QED BY <1>2, <1>3 DEF ReadTreeUpdate

LEMMA ReadTreePrefixUpdateTyped ==
    ASSUME TypeOK, NEW t \in Tree, NEW d \in Paths, ReadTreePrefixUpdate(d, t) PROVE TypeOK'
<1> DEFINE new == Prefixed(d, t)
           r == Written(worktree, PathsOf(new), new, TRUE, TRUE)
           e == [p \in Paths |-> IF new[p] # Gone THEN new[p] ELSE entries[p]]
<1>1. r.files \in Worktrees
  <2>1. r \in Results
    BY WrittenTyped, PrefixedIs DEF TypeOK
  <2> QED BY <2>1 DEF Results
<1>2. e \in Tree /\ unmerged \in Stagings
  BY PrefixedIs DEF TypeOK
<1>3. CASE worktree' = r.files /\ Index(e, unmerged) /\ Done("read-tree --prefix -u") /\ Spend
  <2> HIDE DEF e, r
  <2>1. MayRun("read-tree --prefix -u")
    BY DEF ReadTreePrefixUpdate
  <2> QED BY <1>1, <1>2, <1>3, <2>1, DoneTyped
<1>4. CASE Unsaved("read-tree --prefix -u", r.files)
  BY <1>1, <1>4, UnsavedTyped DEF ReadTreePrefixUpdate
<1> QED BY <1>3, <1>4 DEF ReadTreePrefixUpdate

LEMMA TwoWayTyped == ASSUME TypeOK, NEW h \in Tree, NEW m \in Tree PROVE TwoWay(h, m) \in Tree
BY TypesAre, TreeIs DEF TwoWay, Tree

LEMMA ThreeWayTyped ==
    ASSUME TypeOK, NEW aggressive, ReadTreeThreeWay(aggressive)
    PROVE  TypeOK'
<1> DEFINE b == trees.base
           o == trees.ours
           t == trees.theirs
           Settles(p) == Resolved(b[p], o[p], t[p], aggressive)
           e == [p \in Paths |-> IF Settles(p) THEN Resolution(b[p], o[p], t[p]) ELSE Gone]
           u == [p \in Paths |-> IF Settles(p) THEN NoStages ELSE <<b[p], o[p], t[p]>>]
<1>1. \A p \in Paths : b[p] \in Blobs \cup {Gone} /\ o[p] \in Blobs \cup {Gone} /\ t[p] \in Blobs \cup {Gone}
  BY TypesAre, TreeIs
<1>2. e \in Tree
  BY <1>1 DEF Resolution, Tree
<1>3. u \in Stagings
  BY <1>1, EmptyIsTree DEF Stagings
<1>4. MayRun("read-tree -m3") /\ Saved("read-tree -m3", e, u)
  BY DEF ReadTreeThreeWay
<1> HIDE DEF e, u
<1> QED BY <1>2, <1>3, <1>4, SavedTyped

LEMMA ReadTreeTyped == ASSUME TypeOK, ReadTreeCommand PROVE TypeOK'
<1>1. ASSUME NEW t \in Tree, ReadTree(t) PROVE TypeOK'
  BY <1>1, EmptyIsTree, SavedTyped DEF ReadTree
<1>2. ASSUME NEW t \in Tree, NEW d \in Paths, ReadTreePrefix(d, t) PROVE TypeOK'
  <2> DEFINE e == [p \in Paths |-> IF Prefixed(d, t)[p] # Gone THEN Prefixed(d, t)[p] ELSE entries[p]]
  <2>1. e \in Tree /\ unmerged \in Stagings
    BY PrefixedIs DEF TypeOK
  <2>2. MayRun("read-tree --prefix") /\ Saved("read-tree --prefix", e, unmerged)
    BY <1>2 DEF ReadTreePrefix
  <2> HIDE DEF e
  <2> QED BY <2>1, <2>2, SavedTyped
<1>3. ASSUME NEW h \in Tree, NEW m \in Tree, ReadTreeTwoWay(h, m) PROVE TypeOK'
  BY <1>3, TwoWayTyped, EmptyIsTree, SavedTyped DEF ReadTreeTwoWay
<1>4. \A n \in TreeNames : trees[n] \in Tree
  BY TypesAre
<1>5. CASE ReadTree(EmptyTree)
  BY <1>1, <1>5, EmptyIsTree
<1>6. CASE \E n \in TreeNames : ReadTree(trees[n]) \/ ReadTreeUpdate(trees[n])
  BY <1>1, <1>4, <1>6, ReadTreeUpdateTyped
<1>7. CASE \E n \in TreeNames, d \in Paths : ReadTreePrefix(d, trees[n]) \/ ReadTreePrefixUpdate(d, trees[n])
  BY <1>2, <1>4, <1>7, ReadTreePrefixUpdateTyped
<1>8. CASE \E h, m \in TreeNames : ReadTreeTwoWay(trees[h], trees[m])
  BY <1>3, <1>4, <1>8
<1>9. CASE \E aggressive \in BOOLEAN : ReadTreeThreeWay(aggressive)
  BY <1>9, ThreeWayTyped
<1> QED BY <1>5, <1>6, <1>7, <1>8, <1>9 DEF ReadTreeCommand
LEMMA AtIsTree == ASSUME TypeOK, NEW s \in 0..3 PROVE At(s) \in Tree
BY DEF TypeOK, At, Tree, Stagings

LEMMA SelectionsAre == ASSUME NEW t, NEW ps \in Selections(t) PROVE ps \subseteq PathsOf(t)
BY DEF Selections, Matching

LEMMA CheckoutIndexTyped == ASSUME TypeOK, CheckoutIndexCommand PROVE TypeOK'
<1>1. PICK s \in 0..3, force \in BOOLEAN, noCreate \in BOOLEAN :
          \E paths \in Selections(At(s)) : CheckoutIndex(s, paths, force, noCreate)
  BY DEF CheckoutIndexCommand
<1>2. PICK paths \in Selections(At(s)) : CheckoutIndex(s, paths, force, noCreate)
  BY <1>1
<1> DEFINE todo == {p \in paths : noCreate => worktree[p] # Gone}
           r == Written(worktree, todo, At(s), force, FALSE)
<1>3. r.files \in Worktrees /\ r.ok \in BOOLEAN
  <2>1. todo \subseteq PathsOf(At(s)) /\ worktree \in Worktrees /\ FALSE \in BOOLEAN
    BY SelectionsAre DEF TypeOK
  <2>2. r \in Results
    <3> HIDE DEF todo
    <3> QED BY <2>1, AtIsTree, WrittenTyped
  <2> QED BY <2>2 DEF Results
<1> DEFINE c == IF s = 0 /\ paths = PathsOf(entries) /\ ~noCreate
                THEN IF force THEN "checkout-index -a -f" ELSE "checkout-index -a"
                ELSE "checkout-index"
<1>4. /\ MayRun("checkout-index") /\ Spend /\ worktree' = r.files /\ entries' = entries /\ unmerged' = unmerged
      /\ last' = [cmd |-> c, ok |-> r.ok]
  BY <1>2 DEF CheckoutIndex
<1>5. c \in Names
  <2>1. c \in {"checkout-index -a -f", "checkout-index -a", "checkout-index"}
    <3> HIDE DEF r, todo
    <3> QED OBVIOUS
  <2> HIDE DEF c
  <2> QED BY <2>1 DEF Names, Commands
<1> HIDE DEF c, r
<1> QED BY <1>3, <1>4, <1>5, CommandTyped DEF TypeOK

LEMMA WriteTreeTyped == ASSUME TypeOK, WriteTree PROVE TypeOK'
BY LeftTyped DEF WriteTree, Done, TypeOK, Names, Commands

LEMMA MvTyped ==
    ASSUME TypeOK, NEW src \in Paths, NEW dst \in Paths, NEW force, Mv(src, dst, force)
    PROVE  TypeOK'
<1> DEFINE to == IF worktree[dst] = Directory THEN Join(dst, src) ELSE dst
           w == Removed(Put(worktree, to, worktree[src]), {src})
           e == [Without(entries, src, Gone) EXCEPT ![to] = worktree[src]]
           u == Without(Without(unmerged, src, NoStages), to, NoStages)
<1>1. /\ MayRun("mv") /\ IsFile(worktree, src) /\ to \notin {None, src} /\ CanWrite(worktree, to)
      /\ worktree' = w /\ Index(e, u) /\ Done("mv") /\ Spend
  BY DEF Mv
<1>2. to \in Paths
  BY <1>1, JoinsArePaths
<1>3. worktree[src] \in Blobs
  BY <1>1, TypesAre
<1> HIDE DEF to
<1>4. w \in Worktrees
  BY <1>1, <1>2, <1>3, PutIsTree, RemovedIsTree DEF TypeOK
<1>5. e \in Tree
  BY WithoutTyped, <1>2, <1>3 DEF Tree
<1>6. u \in Stagings
  BY WithoutTyped, <1>2, EmptyIsTree DEF Stagings, Without
<1> HIDE DEF w, e, u
<1> QED BY <1>1, <1>4, <1>5, <1>6, DoneTyped

LEMMA PorcelainTyped == ASSUME TypeOK, PorcelainCommand PROVE TypeOK'
<1>1. ASSUME NEW p \in Paths, Add(p) PROVE TypeOK'
  <2> DEFINE found == IF IsFile(worktree, p) THEN {p} ELSE {q \in Files(worktree) : Beneath(q, p)}
             e == [q \in Paths |-> IF q \in found THEN worktree[q] ELSE entries[q]]
             u == [q \in Paths |-> IF q \in found THEN NoStages ELSE unmerged[q]]
  <2>1. \A q \in found : worktree[q] \in Blobs
    BY TypesAre DEF Files
  <2>2. MayRun("add") /\ Saved("add", e, u)
    BY <1>1 DEF Add
  <2> HIDE DEF found
  <2>3. e \in Tree
    BY <2>1 DEF TypeOK, Tree
  <2>4. u \in Stagings
    BY EmptyIsTree DEF TypeOK, Stagings
  <2> HIDE DEF e, u
  <2> QED BY <2>2, <2>3, <2>4, SavedTyped
<1>2. ASSUME NEW p \in Paths, NEW cached \in BOOLEAN, Rm(p, cached) PROVE TypeOK'
  <2> DEFINE w == IF cached THEN worktree ELSE Removed(worktree, {p})
             ok == cached \/ worktree[p] # Directory
  <2>1. /\ MayRun("rm") /\ Spend /\ worktree' = w /\ last' = [cmd |-> "rm", ok |-> ok]
        /\ entries' = Without(entries, p, Gone) /\ unmerged' = Without(unmerged, p, NoStages)
    BY <1>2 DEF Rm, Index
  <2>2. w \in Worktrees /\ ok \in BOOLEAN /\ "rm" \in Names
    BY RemovedIsTree DEF TypeOK, Names, Commands
  <2> HIDE DEF w, ok
  <2> QED BY <2>1, <2>2, WithoutTyped, CommandTyped
<1> QED BY <1>1, <1>2, MvTyped DEF PorcelainCommand

LEMMA EditedTyped == ASSUME TypeOK, NEW w \in Worktrees, Edited(w) PROVE TypeOK'
<1>1. entries' = entries /\ unmerged' = unmerged /\ worktree' = w /\ trees' = trees
  BY DEF Edited
<1>2. last' \in [cmd : Names, ok : BOOLEAN]
  BY DEF Edited, Names
<1>3. left' \in [allowed : SUBSET Commands, commands : Nat, edits : Nat]
  BY DEF Edited, TypeOK
<1> QED BY <1>1, <1>2, <1>3 DEF TypeOK

LEMMA UserTyped == ASSUME TypeOK, User PROVE TypeOK'
<1>0. worktree \in Worktrees
  BY DEF TypeOK
<1>1. ASSUME NEW p \in Paths, NEW e \in Typed, WriteFile(p, e) PROVE TypeOK'
  BY <1>0, <1>1, BlobsAreGiven, PutIsTree, EditedTyped DEF WriteFile
<1>2. ASSUME NEW p \in Paths, DeleteFile(p) PROVE TypeOK'
  BY <1>0, <1>2, RemovedIsTree, EditedTyped DEF DeleteFile
<1>3. ASSUME NEW d \in Paths, DeleteDirectory(d) PROVE TypeOK'
  <2> DEFINE u == [p \in Paths |-> IF p = d \/ Beneath(p, d) THEN Gone ELSE worktree[p]]
  <2>1. u \in [Paths -> Blobs \cup {Gone, Directory}]
    BY <1>0, WorktreeIs
  <2>2. ASSUME NEW r \in Paths, NEW q \in Paths, u[r] # Gone, Beneath(r, q) PROVE u[q] = Directory
    BY <2>2, <1>0, WorktreeIs, BeneathIsOrder
  <2>3. Edited(u)
    BY <1>3 DEF DeleteDirectory
  <2> HIDE DEF u
  <2>4. u \in Worktrees
    BY <2>1, <2>2 DEF Worktrees
  <2> QED BY <2>3, <2>4, EditedTyped
<1>4. ASSUME NEW d \in Paths, MakeDirectory(d) PROVE TypeOK'
  BY <1>4, SentinelsAreDistinct, <1>0, PutIsTree, EditedTyped DEF MakeDirectory, CanWrite, IsFile
<1> QED BY <1>1, <1>2, <1>3, <1>4 DEF User

\* The index and the trees hold entries, the stages of a path are three, and in the worktree only
\* directories have anything beneath them, whatever the commands and the user do.
THEOREM TypeCorrect == Spec => []TypeOK
<1>1. Init => TypeOK
  BY ScenariosAreTyped, EmptyIsTree DEF Init, Names, TypeOK
<1>2. TypeOK /\ [Next]_vars => TypeOK'
  BY UpdateIndexTyped, ReadTreeTyped, WriteTreeTyped, CheckoutIndexTyped, PorcelainTyped, UserTyped DEF vars,
     TypeOK, Next
<1> QED BY <1>1, <1>2, PTL DEF Spec
-----------------------------------------------------------------------------
(***************************************************************************)
(* What the commands say they were.                                        *)
(***************************************************************************)
LEMMA SavedSays == ASSUME NEW cmd, NEW e, NEW u, Saved(cmd, e, u) PROVE last'.cmd = cmd
BY DEF Saved, Done

Telling == {"read-tree -u", "read-tree --prefix -u", "checkout-index -a -f"}

LEMMA UpdateIndexSays == ASSUME UpdateIndexCommand PROVE last'.cmd \notin Telling
BY SavedSays DEF CacheInfo, IndexInfo, ForceRemove, UpdateIndex, UpdateIndexCommand, Telling

LEMMA UpdatesSay ==
    /\ \A t : ReadTreeUpdate(t) => last'.cmd = "read-tree -u"
    /\ \A d, t : ReadTreePrefixUpdate(d, t) => last'.cmd = "read-tree --prefix -u"
<1>1. \A c, w : Unsaved(c, w) => last'.cmd = c
  BY DEF Unsaved, Failed
<1>2. \A c : Done(c) => last'.cmd = c
  BY DEF Done
<1>3. ASSUME NEW t, ReadTreeUpdate(t) PROVE last'.cmd = "read-tree -u"
  BY <1>1, <1>2, <1>3 DEF ReadTreeUpdate
<1>4. ASSUME NEW d, NEW t, ReadTreePrefixUpdate(d, t) PROVE last'.cmd = "read-tree --prefix -u"
  BY <1>1, <1>2, <1>4 DEF ReadTreePrefixUpdate
<1> QED BY <1>3, <1>4

LEMMA ReadTreeSays ==
    ASSUME ReadTreeCommand
    PROVE  \/ last'.cmd \notin Telling
           \/ last'.cmd = "read-tree -u" /\ \E n \in TreeNames : ReadTreeUpdate(trees[n])
           \/ last'.cmd = "read-tree --prefix -u" /\ \E n \in TreeNames, d \in Paths : ReadTreePrefixUpdate(d, trees[n])
BY SavedSays, UpdatesSay DEF ReadTree, ReadTreePrefix, ReadTreeTwoWay, ReadTreeThreeWay, Telling,
   ReadTreeCommand

LEMMA OthersSay == ASSUME WriteTree \/ PorcelainCommand \/ User PROVE last'.cmd \notin Telling
<1>1. CASE WriteTree
  BY <1>1 DEF WriteTree, Done, Telling
<1>2. CASE PorcelainCommand
  <2>1. \A p : Add(p) => last'.cmd = "add"
    BY SavedSays DEF Add
  <2>2. \A p, cached : Rm(p, cached) => last'.cmd = "rm"
    BY DEF Rm
  <2>3. \A p, dst, force : Mv(p, dst, force) => last'.cmd = "mv"
    BY DEF Mv, Done
  <2> QED BY <1>2, <2>1, <2>2, <2>3 DEF PorcelainCommand, Telling
<1>3. CASE User
  <2>1. \A w : Edited(w) => last'.cmd = "edit"
    BY DEF Edited
  <2>2. \E w : Edited(w)
    BY <1>3 DEF User, WriteFile, DeleteFile, DeleteDirectory, MakeDirectory
  <2> QED BY <2>1, <2>2 DEF Telling
<1> QED BY <1>1, <1>2, <1>3

LEMMA CheckoutIndexSays ==
    ASSUME CheckoutIndexCommand
    PROVE  /\ last'.cmd \notin {"read-tree -u", "read-tree --prefix -u"}
           /\ last'.cmd = "checkout-index -a -f" => CheckoutIndex(0, PathsOf(entries), TRUE, FALSE)
<1>1. PICK s \in 0..3, force \in BOOLEAN, noCreate \in BOOLEAN :
          \E paths \in Selections(At(s)) : CheckoutIndex(s, paths, force, noCreate)
  BY DEF CheckoutIndexCommand
<1>2. PICK paths \in Selections(At(s)) : CheckoutIndex(s, paths, force, noCreate)
  BY <1>1
<1>3. last'.cmd = IF s = 0 /\ paths = PathsOf(entries) /\ ~noCreate
                  THEN IF force THEN "checkout-index -a -f" ELSE "checkout-index -a"
                  ELSE "checkout-index"
  BY <1>2 DEF CheckoutIndex
<1>4. last'.cmd = "checkout-index -a -f" => s = 0 /\ paths = PathsOf(entries) /\ noCreate = FALSE /\ force = TRUE
  BY <1>3
<1>5. last'.cmd \notin {"read-tree -u", "read-tree --prefix -u"}
  BY <1>3
<1> QED BY <1>2, <1>4, <1>5

-----------------------------------------------------------------------------
(***************************************************************************)
(* read-tree -u.                                                           *)
(***************************************************************************)
\* A worktree that a command finds clean has what HEAD has.
LEMMA CleanIsHead ==
    ASSUME NEW tracked, tracked \subseteq PathsOf(entries), Clean(tracked)
    PROVE  \A p \in Files(worktree) : Oid(trees.ours[p]) = Oid(worktree[p])
BY DEF Clean, Staged, Unstaged, Files, PathsOf

\* read-tree -u, whether it is done or fails half-way, takes from the worktree only what HEAD has,
\* and so it does with --prefix when no path is unmerged: _ensure_clean_worktree has seen to that.
THEOREM LosesNoWork == Spec => UpdateLosesNoWork
<1> DEFINE Updated == \/ last'.cmd = "read-tree -u"
                      \/ last'.cmd = "read-tree --prefix -u" /\ Unmerged = {}
           Kept == \A p \in Files(worktree) : \/ Oid(worktree'[p]) = Oid(worktree[p])
                                              \/ Oid(trees.ours[p]) = Oid(worktree[p])
<1>1. ASSUME Next, Updated PROVE Kept
  <2>1. CASE \E n \in TreeNames : ReadTreeUpdate(trees[n])
    BY <2>1, CleanIsHead DEF ReadTreeUpdate
  <2>2. CASE Unmerged = {} /\ \E n \in TreeNames, d \in Paths : ReadTreePrefixUpdate(d, trees[n])
    BY <2>2, CleanIsHead DEF ReadTreePrefixUpdate, Tracked
  <2>3. UpdateIndexCommand \/ ReadTreeCommand \/ WriteTree \/ CheckoutIndexCommand \/ PorcelainCommand \/ User
    BY <1>1 DEF Next
  <2>4. last'.cmd \in {"read-tree -u", "read-tree --prefix -u"} /\ last'.cmd \in Telling
    BY <1>1 DEF Telling
  <2>5. ReadTreeCommand
    BY <2>3, <2>4, UpdateIndexSays, OthersSay, CheckoutIndexSays
  <2> QED BY <1>1, <2>1, <2>2, <2>4, <2>5, ReadTreeSays
<1>2. [Next]_vars => [Updated /\ left' # left => Kept]_vars
  BY <1>1
<1>3. Spec => [][Updated /\ left' # left => Kept]_vars
  <2> HIDE DEF Updated, Kept
  <2> QED BY <1>2, PTL DEF Spec
<1> QED BY <1>3 DEF UpdateLosesNoWork

-----------------------------------------------------------------------------
(***************************************************************************)
(* checkout-index --all --force.                                           *)
(***************************************************************************)
\* A path of ps that cannot be written in the worktree w, where the others of ps are written.
InTheWay(w, ps) ==
    \E p \in ps : \/ w[p] = Directory
                  \/ \E q \in ps : Beneath(q, p)
                  \/ \E q \in Paths : Beneath(p, q) /\ (q \in ps \/ IsFile(w, q))

\* What the worktree is when the first m paths have been written, r being what came of it.
Halfway(w, ps, t, r, m) ==
    /\ ~r.ok => InTheWay(w, ps)
    /\ r.ok => /\ \A j \in 1..m : Order[j] \in ps => r.files[Order[j]] = t[Order[j]]
               /\ \A q \in Paths : /\ r.files[q] = Directory => w[q] = Directory \/ \E p \in ps : Beneath(p, q)
                                   /\ IsFile(r.files, q) => q \in ps \/ IsFile(w, q)

LEMMA HalfwayOn ==
    ASSUME NEW w \in Worktrees, NEW t \in Tree, NEW ps, ps \subseteq PathsOf(t), NEW r \in Results,
           NEW m \in 0..(Len(Order) - 1), Halfway(w, ps, t, r, m)
    PROVE  Halfway(w, ps, t, WriteNext(r, Order[m + 1], ps, t, TRUE, FALSE), m + 1)
<1> DEFINE p == Order[m + 1]
           n == WriteNext(r, p, ps, t, TRUE, FALSE)
<1>0. p \in Paths /\ \A j \in 1..(m + 1) : j \in 1..m \/ j = m + 1
  BY OrderIs
<1>p. \A j \in 1..m : Order[j] \in Paths
  BY OrderIs
<1>1. \/ n = r /\ (p \in ps => ~r.ok)
      \/ p \in ps /\ r.ok /\ n = [files |-> r.files, ok |-> FALSE] /\ ~CanWrite(r.files, p)
      \/ p \in ps /\ r.ok /\ CanWrite(r.files, p) /\ n = [files |-> Put(r.files, p, t[p]), ok |-> TRUE]
  <2> HIDE DEF p, n
  <2> HIDE DEF p
  <2>1. r = [files |-> r.files, ok |-> r.ok]
    BY DEF Results
  <2>2. CASE p \notin ps \/ ~r.ok
    BY <2>2 DEF WriteNext, n
  <2>3. CASE p \in ps /\ r.ok /\ ~CanWrite(r.files, p)
    BY <2>3, <2>1 DEF WriteNext, n
  <2>4. CASE p \in ps /\ r.ok /\ CanWrite(r.files, p)
    BY <2>4, <2>1 DEF WriteNext, CheckOut, n, Results
  <2> QED BY <2>2, <2>3, <2>4
<1> HIDE DEF n, p
<1>2. CASE n = r /\ (p \in ps => ~r.ok)
  BY <1>0, <1>2 DEF Halfway, p, n
<1>3. CASE p \in ps /\ r.ok /\ n = [files |-> r.files, ok |-> FALSE] /\ ~CanWrite(r.files, p)
  <2>1. InTheWay(w, ps)
    BY <1>0, <1>3 DEF Halfway, InTheWay, CanWrite, Dirs
  <2>2. ~n.ok
    BY <1>3
  <2> QED BY <2>1, <2>2 DEF Halfway, n, p
<1>4. CASE p \in ps /\ r.ok /\ CanWrite(r.files, p) /\ n = [files |-> Put(r.files, p, t[p]), ok |-> TRUE]
  <2> DEFINE v == Put(r.files, p, t[p])
  <2>1. \A q \in Paths : v[q] = IF q = p THEN t[p] ELSE IF Beneath(p, q) THEN Directory ELSE r.files[q]
    BY DEF Put, Dirs
  <2> HIDE DEF v
  <2>2. \A q \in ps : q \in Paths /\ t[q] \in Blobs /\ t[q] \notin {Gone, Directory}
    BY BlobsAreBlobs DEF PathsOf, Tree
  <2>3. \A j \in 1..(m + 1) : Order[j] \in ps => v[Order[j]] = t[Order[j]]
    <3>1. ASSUME NEW j \in 1..m, Order[j] \in ps PROVE v[Order[j]] = t[Order[j]]
      BY <1>4, <3>1, <2>2, <1>p, <2>1 DEF Halfway, IsFile, CanWrite, Dirs
    <3>2. v[p] = t[p]
      BY <1>0, <2>1
    <3> QED BY <1>0, <3>1, <3>2 DEF p
  <2>4. ASSUME NEW q \in Paths
        PROVE  /\ v[q] = Directory => w[q] = Directory \/ \E o \in ps : Beneath(o, q)
               /\ IsFile(v, q) => q \in ps \/ IsFile(w, q)
    <3>1. CASE q = p
      BY <1>4, <2>1, <2>2, <3>1
    <3>2. CASE q # p /\ Beneath(p, q)
      BY <1>4, <2>1, <3>2 DEF IsFile
    <3>3. CASE q # p /\ ~Beneath(p, q)
      BY <2>1, <3>3, <1>4 DEF Halfway, IsFile
    <3> QED BY <3>1, <3>2, <3>3
  <2>5. n.ok /\ n.files = v
    BY <1>4 DEF v
  <2> QED BY <2>3, <2>4, <2>5 DEF Halfway, n, p
<1> QED BY <1>1, <1>2, <1>3, <1>4

\* In the end either every path of ps is what t has, or something was in the way.
LEMMA CheckedOut ==
    ASSUME NEW w \in Worktrees, NEW t \in Tree, NEW ps, ps \subseteq PathsOf(t)
    PROVE  LET r == Written(w, ps, t, TRUE, FALSE)
           IN  IF r.ok THEN \A p \in ps : r.files[p] = t[p] ELSE InTheWay(w, ps)
<1> DEFINE N == Len(Order)
           r == Written(w, ps, t, TRUE, FALSE)
<1>0. TRUE \in BOOLEAN /\ FALSE \in BOOLEAN /\ N \in Nat
  BY OrderIs
<1>1. PICK f : Writes(w, ps, t, TRUE, FALSE, f, N) /\ r = f[N]
  BY <1>0, WrittenSteps
<1> HIDE DEF r
<1>2. /\ f \in [0..N -> Results] /\ f[0] = [files |-> w, ok |-> TRUE]
      /\ \A i \in 1..N : f[i] = WriteNext(f[i - 1], Order[i], ps, t, TRUE, FALSE)
  BY <1>1 DEF Writes
<1> DEFINE T == {i \in 0..N : Halfway(w, ps, t, f[i], i)}
<1>3. 0 \in T
  BY <1>2, <1>0 DEF Halfway
<1>4. ASSUME NEW i \in 0..(N - 1), i \in T PROVE i + 1 \in T
  BY <1>0, <1>2, <1>4, HalfwayOn
<1>5. Halfway(w, ps, t, r, N)
  <2>1. \A i \in 0..N : i \in T
    <3> HIDE DEF T, N
    <3> QED BY <1>0, <1>3, <1>4, UpTo
  <2> QED BY <1>0, <1>1, <2>1
<1>6. \A p \in ps : \E j \in 1..N : Order[j] = p
  <2>1. ps \subseteq Paths
    BY DEF PathsOf
  <2> QED BY <2>1, OrderIsOfPaths
<1> QED BY <1>5, <1>6 DEF Halfway, r

\* checkout-index --all --force makes the worktree what the index says, or something was in the way
\* of an entry: a file that ls-files --killed lists, a directory, or another path of the index.
THEOREM Forced == Spec => ForcedCheckout
<1> DEFINE Shown == IF last'.ok THEN DiffFiles' = {}
                    ELSE \/ Killed # {} \/ Blocking(Tracked) # {}
                         \/ \E p \in PathsOf(entries) : worktree[p] = Directory
<1>1. ASSUME TypeOK, Next, last'.cmd = "checkout-index -a -f" PROVE Shown
  <2>1. CheckoutIndex(0, PathsOf(entries), TRUE, FALSE)
    BY <1>1, UpdateIndexSays, OthersSay, ReadTreeSays, CheckoutIndexSays DEF Telling, Next
  <2> DEFINE ps == PathsOf(entries)
             r == Written(worktree, ps, entries, TRUE, FALSE)
  <2>2. worktree' = r.files /\ entries' = entries /\ last'.ok = r.ok
    BY <2>1 DEF At, CheckoutIndex
  <2>3. IF r.ok THEN \A p \in ps : r.files[p] = entries[p] ELSE InTheWay(worktree, ps)
    <3>1. worktree \in Worktrees /\ entries \in Tree /\ ps \subseteq PathsOf(entries)
      BY <1>1 DEF TypeOK
    <3> HIDE DEF ps
    <3> QED BY <3>1, CheckedOut
  <2> HIDE DEF r
  <2>4. CASE r.ok
    BY <2>2, <2>3, <2>4 DEF DiffFiles, PathsOf
  <2>5. CASE ~r.ok
    <3>1. PICK p \in ps : \/ worktree[p] = Directory
                          \/ \E q \in ps : Beneath(q, p)
                          \/ \E q \in Paths : Beneath(p, q) /\ (q \in ps \/ IsFile(worktree, q))
      BY <2>3, <2>5 DEF InTheWay
    <3>2. p \in Tracked /\ ps \subseteq Tracked
      BY DEF Tracked
    <3>3. CASE \E q \in ps : Beneath(q, p)
      BY <2>2, <2>5, <3>2, <3>3 DEF Blocking
    <3>4. ASSUME NEW q \in Paths, Beneath(p, q), q \in ps \/ IsFile(worktree, q) PROVE Shown
      <4>1. CASE q \in Tracked
        BY <2>2, <2>5, <3>2, <3>4, <4>1 DEF Blocking
      <4>2. CASE q \notin Tracked
        BY <3>2, <3>4, <4>2, <2>2, <2>5 DEF Others, Files, Killed
      <4> QED BY <4>1, <4>2
    <3> QED BY <2>2, <2>5, <3>1, <3>3, <3>4
  <2> QED BY <2>4, <2>5
<1>2. TypeOK /\ [Next]_vars => [last'.cmd = "checkout-index -a -f" /\ left' # left => Shown]_vars
  BY <1>1
<1>3. Spec => [][last'.cmd = "checkout-index -a -f" /\ left' # left => Shown]_vars
  <2> HIDE DEF Shown
  <2> QED BY <1>2, TypeCorrect, PTL DEF Spec
<1> QED BY <1>3 DEF ForcedCheckout
-----------------------------------------------------------------------------
(***************************************************************************)
(* The views of the index and the worktree.                                *)
(***************************************************************************)
LEMMA PathsAreFinite == IsFiniteSet(Paths)
<1> DEFINE N == Len(Order)
<1>1. N \in Nat /\ Order \in [1..N -> Paths] /\ {Order[i] : i \in 1..N} = Paths
  BY OrderIsOfPaths
<1>2. Order \in Surjection(1..N, Paths)
  BY <1>1 DEF Surjection
<1>3. IsFiniteSet(1..N)
  BY <1>1, FS_Interval
<1> QED BY <1>2, <1>3, FS_Surjection

\* Of directories that lie in one another, one is the topmost.
LEMMA TopmostExists == ASSUME NEW S \in SUBSET Paths, S # {} PROVE Topmost(S) # {}
<1> DEFINE size(d) == Cardinality(Dirs(d))
           T == {size(d) : d \in S}
<1>1. \A d \in Paths : IsFiniteSet(Dirs(d)) /\ size(d) \in Nat
  BY PathsAreFinite, FS_Subset, FS_CardinalityType DEF Dirs
<1>2. PICK n \in T : \A m \in T : n <= m
  <2>1. T \in SUBSET Nat /\ T # {}
    BY <1>1
  <2> HIDE DEF T
  <2> QED BY <2>1, LeastOf
<1>3. PICK d \in S : n = size(d)
  BY <1>2
<1>4. ASSUME NEW e \in S, Beneath(d, e) PROVE FALSE
  <2>1. Dirs(e) \subseteq Dirs(d) /\ e \in Dirs(d) /\ e \notin Dirs(e)
    BY <1>4, BeneathIsOrder DEF Dirs
  <2>2. size(e) <= size(d) /\ size(e) # size(d)
    BY <1>1, <2>1, FS_Subset
  <2>3. size(d) <= size(e)
    BY <1>2, <1>3
  <2>4. size(d) \in Nat /\ size(e) \in Nat
    BY <1>1
  <2> HIDE DEF size
  <2> QED BY <2>2, <2>3, <2>4
<1>5. d \in Topmost(S)
  BY <1>4 DEF Topmost
<1> QED BY <1>5

\* status and ls-files --others --directory --no-empty-directory show the same directories for
\* what is untracked, and the same files.
LEMMA CollapsesAgree == ASSUME TypeOK PROVE Collapsed(Untracked) = OthersDirectory(TRUE)
<1> DEFINE Above(p) == {d \in Dirs(p) : \A q \in Tracked : q # d /\ ~Beneath(q, d)}
           U == {d \in WhollyUntracked : TRUE => NonEmpty(d)}
           shown == Topmost(U)
           dirs == UNION {Topmost(Above(p)) : p \in Others}
<1>0. Others \subseteq Paths /\ \A p \in Others : IsFile(worktree, p) /\ p \notin Tracked
  BY DEF Others, Files
<1>1. ASSUME NEW p \in Others, NEW d \in Above(p) PROVE d \in U /\ d \in Paths /\ Beneath(p, d)
  BY <1>0, WorktreeIs DEF Dirs, IsFile, TypeOK, WhollyUntracked, NonEmpty, Files
<1>2. ASSUME NEW d \in U, NEW p \in Others, Beneath(p, d) PROVE d \in Above(p)
  BY <1>2 DEF WhollyUntracked, Dirs
<1>3. ASSUME NEW d \in U PROVE \E p \in Others : Beneath(p, d)
  BY <1>3 DEF NonEmpty, WhollyUntracked, Others
<1>4. \A d \in U : d \in Paths
  BY DEF WhollyUntracked
<1>5. dirs = shown
  <2>1. ASSUME NEW p \in Others, NEW d \in Topmost(Above(p)) PROVE d \in shown
    <3>1. d \in Above(p) /\ \A e \in Above(p) : ~Beneath(d, e)
      BY DEF Topmost
    <3>2. d \in U /\ Beneath(p, d) /\ d \in Paths
      BY <1>1, <3>1
    <3>3. ASSUME NEW e \in U, Beneath(d, e) PROVE FALSE
      <4>1. Beneath(p, e)
        BY <1>0, <1>4, <3>2, <3>3, BeneathIsOrder
      <4> HIDE DEF U, Above
      <4> QED BY <1>2, <3>1, <3>3, <4>1
    <3> HIDE DEF U, Above
    <3> QED BY <3>2, <3>3 DEF Topmost
  <2>2. ASSUME NEW d \in shown PROVE d \in dirs
    <3>1. d \in U /\ \A e \in U : ~Beneath(d, e)
      BY DEF Topmost
    <3> HIDE DEF U
    <3>2. PICK p \in Others : Beneath(p, d)
      BY <1>3, <3>1
    <3>3. d \in Above(p)
      BY <1>2, <3>1, <3>2
    <3> HIDE DEF Above
    <3>4. d \in Topmost(Above(p))
      BY <1>1, <3>1, <3>3 DEF Topmost
    <3> QED BY <3>4
  <2> HIDE DEF shown, Above
  <2> QED BY <2>1, <2>2
<1>6. ASSUME NEW p \in Others PROVE Above(p) = {} <=> ~\E d \in shown : Beneath(p, d)
  <2>1. ASSUME NEW d \in shown, Beneath(p, d) PROVE Above(p) # {}
    <3>1. d \in U
      BY DEF Topmost
    <3> HIDE DEF U, Above
    <3> QED BY <1>2, <2>1, <3>1
  <2>2. ASSUME Above(p) # {} PROVE \E d \in shown : Beneath(p, d)
    <3>1. Above(p) \in SUBSET Paths
      BY DEF Dirs
    <3> HIDE DEF Above, U, shown
    <3>2. PICK d \in Topmost(Above(p)) : TRUE
      BY <2>2, <3>1, TopmostExists
    <3>3. d \in shown
      BY <1>5, <3>2
    <3>4. d \in Above(p)
      BY <3>2 DEF Topmost
    <3> QED BY <1>1, <3>3, <3>4
  <2> QED BY <2>1, <2>2
<1>7. {p \in Others : Above(p) = {}} = {p \in Others : ~\E d \in shown : Beneath(p, d)}
  <2> HIDE DEF Above, shown
  <2> QED BY <1>6
<1>8. Collapsed(Untracked) = [dirs |-> dirs, files |-> {p \in Others : Above(p) = {}}]
  BY DEF Collapsed, Untracked
<1>9. OthersDirectory(TRUE) = [dirs |-> shown, files |-> {p \in Others : ~\E d \in shown : Beneath(p, d)}]
  BY DEF OthersDirectory
<1> HIDE DEF dirs, shown, Above
<1> QED BY <1>5, <1>7, <1>8, <1>9

\* What the XY of a conflict says of its sides.
LEMMA CodesAre ==
    ASSUME NEW stages, DOMAIN stages = 1..3, \E s \in Stages : stages[s] # Gone
    PROVE  LET c == ConflictCode(stages)
           IN  /\ c # <<" ", " ">>
               /\ stages[2] # Gone <=> (c[1] # "D" /\ c # <<"U", "A">>)
               /\ stages[3] # Gone <=> (c[2] # "D" /\ c # <<"A", "U">>)
<1> DEFINE present == {s \in Stages : stages[s] # Gone}
<1>0. /\ 1 \in present <=> stages[1] # Gone
      /\ 2 \in present <=> stages[2] # Gone
      /\ 3 \in present <=> stages[3] # Gone
      /\ present \subseteq {1, 2, 3} /\ present # {} /\ Stages = {1, 2, 3}
  BY DEF Stages
<1>1. ConflictCode(stages) =
          CASE present = {1} -> <<"D", "D">> [] present = {2} -> <<"A", "U">> [] present = {3} -> <<"U", "A">>
            [] present = {1, 2} -> <<"U", "D">> [] present = {1, 3} -> <<"D", "U">>
            [] present = {2, 3} -> <<"A", "A">> [] present = Stages -> <<"U", "U">>
  BY DEF ConflictCode
<1> HIDE DEF present
<1>2. CASE present = {1}
  <2>1. ConflictCode(stages) = <<"D", "D">>
    BY <1>0, <1>1, <1>2
  <2> QED BY <1>0, <1>2, <2>1
<1>3. CASE present = {2}
  <2>1. ConflictCode(stages) = <<"A", "U">>
    BY <1>0, <1>1, <1>3
  <2> QED BY <1>0, <1>3, <2>1
<1>4. CASE present = {3}
  <2>1. ConflictCode(stages) = <<"U", "A">>
    BY <1>0, <1>1, <1>4
  <2> QED BY <1>0, <1>4, <2>1
<1>5. CASE present = {1, 2}
  <2>1. ConflictCode(stages) = <<"U", "D">>
    BY <1>0, <1>1, <1>5
  <2> QED BY <1>0, <1>5, <2>1
<1>6. CASE present = {1, 3}
  <2>1. ConflictCode(stages) = <<"D", "U">>
    BY <1>0, <1>1, <1>6
  <2> QED BY <1>0, <1>6, <2>1
<1>7. CASE present = {2, 3}
  <2>1. ConflictCode(stages) = <<"A", "A">>
    BY <1>0, <1>1, <1>7
  <2> QED BY <1>0, <1>7, <2>1
<1>8. CASE present = {1, 2, 3}
  BY <1>0, <1>1, <1>8
<1>9. present \in {{1}, {2}, {3}, {1, 2}, {1, 3}, {2, 3}, {1, 2, 3}}
  BY <1>0
<1> QED BY <1>2, <1>3, <1>4, <1>5, <1>6, <1>7, <1>8, <1>9

LEMMA UnmergedIs ==
    ASSUME TypeOK, NEW p \in Paths
    PROVE  /\ DOMAIN unmerged[p] = 1..3
           /\ p \in Unmerged <=> \E s \in Stages : unmerged[p][s] # Gone
BY DEF TypeOK, Stagings, NoStages, Stages, Unmerged

\* status lists what is staged, changed, untracked or in conflict, and nothing else.
LEMMA StatusIs == ASSUME TypeOK PROVE StatusPaths = Staged \cup Unstaged \cup Untracked \cup Unmerged
<1>1. \A a, b : Letter(a, b) = " " <=> a = b
  BY DEF Letter
<1>2. ASSUME NEW p \in Paths
      PROVE  Code(p) # <<" ", " ">> <=> p \in Staged \cup Unstaged \cup Untracked \cup Unmerged
  <2>1. CASE p \in Unmerged
    BY <2>1, UnmergedIs, CodesAre DEF Code
  <2>2. CASE p \notin Unmerged /\ p \in Untracked
    BY <2>2 DEF Code
  <2>3. CASE p \notin Unmerged /\ p \notin Untracked
    <3> DEFINE X == Letter(Oid(trees.ours[p]), Oid(entries[p]))
               Y == IF entries[p] = Gone THEN " " ELSE Letter(Oid(entries[p]), Oid(worktree[p]))
    <3>1. Code(p) = <<X, Y>>
      BY <2>3 DEF Code
    <3>2. X # " " <=> p \in Staged
      BY <1>1 DEF Staged
    <3>3. Y # " " <=> p \in Unstaged
      BY <1>1 DEF Unstaged, PathsOf
    <3> HIDE DEF X, Y
    <3>4. <<X, Y>> = <<" ", " ">> <=> X = " " /\ Y = " "
      OBVIOUS
    <3> QED BY <2>3, <3>1, <3>2, <3>3, <3>4
  <2> QED BY <2>1, <2>2, <2>3
<1>3. Staged \cup Unstaged \cup Untracked \cup Unmerged \subseteq Paths
  BY DEF Staged, Unstaged, PathsOf, Untracked, Others, Files, Unmerged
<1> QED BY <1>2, <1>3 DEF StatusPaths

\* A clean worktree differs from HEAD in modes alone.
LEMMA CleanDiffers ==
    ASSUME TypeOK, Clean(Tracked), NEW p \in DiffIndex(trees.ours)
    PROVE  Oid(worktree[p]) = Oid(trees.ours[p])
<1>0. p \in Paths /\ p \in PathsOf(trees.ours) \cup PathsOf(entries)
  BY DEF DiffIndex, PathsOf
<1>1. Oid(trees.ours[p]) = Oid(entries[p])
  BY <1>0 DEF Clean, Staged
<1>2. CASE p \in PathsOf(entries)
  BY <1>0, <1>1, <1>2 DEF Clean, Unstaged
<1>3. CASE p \notin PathsOf(entries)
  <2>1. entries[p] = Gone /\ trees.ours[p] \in Blobs
    BY <1>0, <1>3, TypesAre, TreeIs DEF PathsOf
  <2>2. Oid(trees.ours[p]) \in Contents /\ Oid(entries[p]) = Gone
    BY <2>1, BlobsAreBlobs DEF Oid
  <2> QED BY <1>1, <2>2, SentinelsAreDistinct
<1> QED BY <1>2, <1>3

\* checkout-index --temp --stage=all takes a name that matches an entry or a path in conflict.
LEMMA TempNames ==
    ASSUME TypeOK, NEW p \in Paths
    PROVE  TempPaths(Stages, {p}) = None <=> TempPaths({0}, {p}) = None /\ Matching(Unmerged, {p}) = {}
<1> DEFINE all == UNION {PathsOf(At(s)) : s \in Stages}
           zero == UNION {PathsOf(At(s)) : s \in {0}}
<1>0. 0 \notin Stages /\ {0} # Stages
  BY DEF Stages
<1>1. zero = PathsOf(entries)
  BY DEF At
<1>2. all \subseteq Paths /\ zero \subseteq Paths
  BY DEF PathsOf
<1>3. \A S : AllMatch(S, {p}) <=> Matching(S, {p}) # {}
  BY DEF AllMatch
<1>4. TempPaths(Stages, {p}) = IF ~AllMatch(Tracked, {p}) THEN None ELSE Matching(all, {p})
  BY DEF TempPaths
<1>5. TempPaths({0}, {p}) = IF ~AllMatch(zero, {p}) THEN None ELSE Matching(zero, {p})
  BY <1>0 DEF TempPaths
<1> HIDE DEF all, zero
<1>6. Matching(all, {p}) # None /\ Matching(zero, {p}) # None
  BY <1>2, NoneIsNoSet DEF Matching
<1>7. Matching(Tracked, {p}) = Matching(PathsOf(entries), {p}) \cup Matching(Unmerged, {p})
  BY DEF Matching, Tracked
<1> QED BY <1>1, <1>3, <1>4, <1>5, <1>6, <1>7

\* A path in conflict gets the sides that status speaks of.
LEMMA TempSides ==
    ASSUME TypeOK, NEW p \in Unmerged
    PROVE  LET taken == {f[1] : f \in TempFiles(Stages, p)}
           IN  /\ p \in TempPaths(Stages, {}) \cap TempPaths(Stages, {p})
               /\ (2 \in taken) <=> (Code(p)[1] # "D" /\ Code(p) # <<"U", "A">>)
               /\ (3 \in taken) <=> (Code(p)[2] # "D" /\ Code(p) # <<"A", "U">>)
<1> DEFINE taken == {f[1] : f \in TempFiles(Stages, p)}
           all == UNION {PathsOf(At(s)) : s \in Stages}
<1>0. p \in Paths /\ p \in Tracked
  BY DEF Unmerged, Tracked
<1>1. \A s \in Stages : At(s)[p] = unmerged[p][s]
  BY <1>0 DEF At, Stages
<1>2. \A s \in Stages : s \in taken <=> unmerged[p][s] # Gone
  <2> DEFINE F == TempFiles(Stages, p)
             file(s) == <<s, At(s)[p].oid>>
  <2>1. F = {file(s) : s \in {r \in Stages : At(r)[p] # Gone}} /\ \A s : file(s)[1] = s
    BY DEF TempFiles
  <2> HIDE DEF F, file
  <2>2. \A s \in Stages : At(s)[p] # Gone <=> \E f \in F : f[1] = s
    BY <2>1
  <2>3. \A s : s \in taken <=> \E f \in F : f[1] = s
    BY DEF F
  <2> QED BY <1>1, <2>2, <2>3
<1>3. p \in all
  BY <1>0, <1>1, UnmergedIs DEF PathsOf
<1>4. p \in TempPaths(Stages, {}) \cap TempPaths(Stages, {p})
  <2>1. AllMatch(Tracked, {}) /\ p \in Matching(all, {p}) /\ p \in Matching(Tracked, {p})
    BY <1>0, <1>3 DEF AllMatch, Matching
  <2>2. AllMatch(Tracked, {p})
    BY <2>1 DEF AllMatch
  <2>3. TempPaths(Stages, {}) = all /\ TempPaths(Stages, {p}) = Matching(all, {p})
    <3>1. \A names : TempPaths(Stages, names) = IF ~AllMatch(Tracked, names) THEN None
                                                ELSE IF names = {} THEN all ELSE Matching(all, names)
      BY DEF TempPaths
    <3> HIDE DEF all
    <3> QED BY <2>1, <2>2, <3>1
  <2> QED BY <1>3, <2>1, <2>3
<1>5. Code(p) = ConflictCode(unmerged[p])
  BY DEF Code
<1>6. 2 \in Stages /\ 3 \in Stages
  BY DEF Stages
<1> HIDE DEF taken
<1>7. /\ unmerged[p][2] # Gone <=> (Code(p)[1] # "D" /\ Code(p) # <<"U", "A">>)
      /\ unmerged[p][3] # Gone <=> (Code(p)[2] # "D" /\ Code(p) # <<"A", "U">>)
  BY <1>0, <1>5, UnmergedIs, CodesAre
<1> QED BY <1>2, <1>4, <1>6, <1>7 DEF taken

\* status, ls-files, diff-files, diff-index and checkout-index --temp tell one story of the index
\* and the worktree, whatever the commands and the user have made of them.
THEOREM Views == Spec => []ViewsAgree
<1>1. ASSUME TypeOK PROVE ViewsAgree
  BY <1>1, CollapsesAgree, StatusIs, CleanDiffers, TempNames, TempSides DEF Unstaged, DiffFiles, ViewsAgree
<1> QED BY <1>1, TypeCorrect, PTL
-----------------------------------------------------------------------------
(***************************************************************************)
(* The merge of lines where one side is the base: the edits of the other,  *)
(* put in, are that other side.                                            *)
(***************************************************************************)
\* A recursion over the numbers up to a bound has a solution.
Steps(X, N) == [1..N -> [X -> X]]

Chain(f, X, N, a, h) == f \in [0..N -> X] /\ f[0] = a /\ \A n \in 1..N : f[n] = h[n][f[n - 1]]

LEMMA Iterated ==
    ASSUME NEW X, NEW a \in X, NEW N \in Nat, NEW h \in Steps(X, N)
    PROVE  \E f : Chain(f, X, N, a, h)
<1>0. h \in [1..N -> [X -> X]]
  BY DEF Steps
<1> DEFINE Upto(f, m) == f \in [0..m -> X] /\ f[0] = a /\ \A n \in 1..m : f[n] = h[n][f[n - 1]]
           T == {m \in 0..N : \E f : Upto(f, m)}
<1>1. 0 \in T
  <2> DEFINE g == [i \in 0..0 |-> a]
  <2>1. Upto(g, 0)
    OBVIOUS
  <2>2. 0 \in 0..N
    OBVIOUS
  <2> HIDE DEF Upto
  <2> QED BY <2>1, <2>2
<1>2. ASSUME NEW m \in 0..(N - 1), m \in T PROVE m + 1 \in T
  <2>1. PICK f : Upto(f, m)
    BY <1>2
  <2> DEFINE New == h[m + 1][f[m]]
             g == [i \in 0..(m + 1) |-> IF i = m + 1 THEN New ELSE f[i]]
  <2>2. New \in X
    BY <2>1, <1>0
  <2>3. g \in [0..(m + 1) -> X]
    <3> HIDE DEF New
    <3> QED BY <2>1, <2>2
  <2>4. g[0] = a
    BY <2>1
  <2>5. ASSUME NEW n \in 1..(m + 1) PROVE g[n] = h[n][g[n - 1]]
    <3>1. CASE n = m + 1
      BY <3>1
    <3>2. CASE n # m + 1
      BY <3>2, <2>1
    <3> QED BY <3>1, <3>2
  <2>6. Upto(g, m + 1)
    <3> HIDE DEF g
    <3> QED BY <2>3, <2>4, <2>5
  <2>7. m + 1 \in 0..N
    OBVIOUS
  <2> HIDE DEF Upto
  <2> QED BY <2>6, <2>7
<1>3. \A m \in 0..N : m \in T
  <2> HIDE DEF T
  <2> QED BY <1>1, <1>2, UpTo
<1> QED BY <1>3 DEF Chain

\* Where a line of u is in v, before the first and after the last line included.
Place(u, v, i) == IF i = 0 THEN 0 ELSE IF i > Len(u) THEN Len(v) + 1 ELSE CHOOSE k \in DOMAIN v : v[k] = u[i]

\* The places in u that v has, too.
Shared(u, v) == {j \in 0..(Len(u) + 1) : j = 0 \/ j = Len(u) + 1 \/ u[j] \in Lines(v)}

LEMMA PlaceIs ==
    ASSUME NEW L, NEW u \in Seq(L), NEW v \in Seq(L), NEW j \in Shared(u, v)
    PROVE  /\ Place(u, v, j) \in 0..(Len(v) + 1)
           /\ j \in 1..Len(u) => Place(u, v, j) \in 1..Len(v) /\ v[Place(u, v, j)] = u[j]
           /\ j = 0 => Place(u, v, j) = 0
           /\ j = Len(u) + 1 => Place(u, v, j) = Len(v) + 1
<1>1. Len(u) \in Nat /\ Len(v) \in Nat /\ DOMAIN v = 1..Len(v)
  BY LenProperties
<1>2. CASE j \in 1..Len(u)
  BY <1>1, <1>2 DEF Shared, Lines, Place
<1>3. CASE j \notin 1..Len(u)
  BY <1>1, <1>3 DEF Place, Shared
<1> QED BY <1>2, <1>3

\* Alike texts have the lines they share in one order.
LEMMA PlacesRise ==
    ASSUME NEW L, NEW u \in Seq(L), NEW v \in Seq(L), Alike(u, v),
           NEW i \in Shared(u, v), NEW j \in Shared(u, v), i < j
    PROVE  Place(u, v, i) < Place(u, v, j)
<1>1. Len(u) \in Nat /\ Len(v) \in Nat /\ DOMAIN v = 1..Len(v) /\ DOMAIN u = 1..Len(u) /\ i \in 0..(Len(u) + 1) /\ j \in 0..(Len(u) + 1)
  BY LenProperties DEF Shared
<1> DEFINE I == Place(u, v, i)
           J == Place(u, v, j)
<1>2. /\ I \in 0..(Len(v) + 1)
      /\ i \in 1..Len(u) => I \in 1..Len(v) /\ v[I] = u[i]
      /\ i = 0 => I = 0
  BY PlaceIs
<1>3. /\ J \in 0..(Len(v) + 1)
      /\ j \in 1..Len(u) => J \in 1..Len(v) /\ v[J] = u[j]
      /\ j = Len(u) + 1 => J = Len(v) + 1
  BY PlaceIs
<1> HIDE DEF I, J
<1>6. I < J
  BY <1>1, <1>2, <1>3 DEF Alike
<1> QED BY <1>6 DEF I, J

\* One edit of a text of L, of a base of n lines.
EditsOf(L, n) == [from : 0..n, to : 0..n, new : Seq(L)]

Gaps(u, v, L) == [kept : Shared(u, v), edits : Seq(EditsOf(L, Len(u)))]

\* The edit between two lines that both texts have, i and j.
Between(u, v, i, j) == [from |-> i, to |-> j - 1, new |-> SubSeq(v, Place(u, v, i) + 1, Place(u, v, j) - 1)]

LEMMA WithGapIs ==
    ASSUME NEW u, NEW v, NEW r, NEW j
    PROVE  WithGap(u, v, r, j) =
               IF j <= Len(u) /\ u[j] \notin Lines(v) THEN r
               ELSE LET e == Between(u, v, r.kept, j)
                    IN  [kept |-> j, edits |-> IF e.from = e.to /\ e.new = <<>> THEN r.edits ELSE Append(r.edits, e)]
BY DEF WithGap, Between, Place

LEMMA BetweenIs ==
    ASSUME NEW L, NEW u \in Seq(L), NEW v \in Seq(L), NEW i \in Shared(u, v), NEW j \in Shared(u, v), i < j
    PROVE  /\ Between(u, v, i, j) \in EditsOf(L, Len(u))
           /\ Len(Between(u, v, i, j).new) = IF Place(u, v, i) < Place(u, v, j) THEN Place(u, v, j) - Place(u, v, i) - 1 ELSE 0
<1>1. /\ Len(u) \in Nat /\ Len(v) \in Nat /\ i \in 0..Len(u) /\ j - 1 \in 0..Len(u)
      /\ \A k \in 1..Len(v) : v[k] \in L
  BY LenProperties, ElementOfSeq DEF Shared
<1> DEFINE I == Place(u, v, i)
           J == Place(u, v, j)
<1>2. I \in 0..(Len(v) + 1) /\ J \in 0..(Len(v) + 1)
  BY PlaceIs
<1>3. Between(u, v, i, j) = [from |-> i, to |-> j - 1, new |-> SubSeq(v, I + 1, J - 1)]
  BY DEF Between
<1> HIDE DEF I, J
<1>4. \A k \in (I + 1)..(J - 1) : v[k] \in L
  BY <1>1, <1>2
<1>5. SubSeq(v, I + 1, J - 1) \in Seq(L) /\ Len(SubSeq(v, I + 1, J - 1)) = IF I + 1 <= J - 1 THEN (J - 1) - (I + 1) + 1 ELSE 0
  BY <1>2, <1>4, SubSeqProperties
<1>6. (IF I + 1 <= J - 1 THEN (J - 1) - (I + 1) + 1 ELSE 0) = IF I < J THEN J - I - 1 ELSE 0
  BY <1>2
<1>7. /\ Between(u, v, i, j) \in EditsOf(L, Len(u))
      /\ Len(Between(u, v, i, j).new) = IF I < J THEN J - I - 1 ELSE 0
  BY <1>1, <1>3, <1>5, <1>6 DEF EditsOf
<1> QED BY <1>7 DEF I, J

\* The edits are found line by line.
Found(f, u, v, L) ==
    /\ f \in [0..(Len(u) + 1) -> Gaps(u, v, L)]
    /\ f[0] = [kept |-> 0, edits |-> <<>>]
    /\ \A j \in 1..(Len(u) + 1) : f[j] = WithGap(u, v, f[j - 1], j)
    /\ \A j \in 0..(Len(u) + 1) : f[j].kept <= j

LEMMA WithGapTyped ==
    ASSUME NEW L, NEW u \in Seq(L), NEW v \in Seq(L), NEW r \in Gaps(u, v, L),
           NEW j \in 1..(Len(u) + 1), r.kept < j
    PROVE  /\ WithGap(u, v, r, j) \in Gaps(u, v, L)
           /\ WithGap(u, v, r, j).kept <= j
<1>1. Len(u) \in Nat
  BY LenProperties
<1>2. r.kept \in Shared(u, v) /\ r.edits \in Seq(EditsOf(L, Len(u))) /\ r.kept \in Nat
  BY DEF Gaps, Shared
<1>3. CASE j <= Len(u) /\ u[j] \notin Lines(v)
  BY <1>1, <1>2, <1>3, WithGapIs
<1>4. CASE ~(j <= Len(u) /\ u[j] \notin Lines(v))
  <2>1. j \in Shared(u, v)
    BY <1>1, <1>4 DEF Shared
  <2> DEFINE e == Between(u, v, r.kept, j)
  <2>2. e \in EditsOf(L, Len(u))
    BY <1>2, <2>1, BetweenIs
  <2>3. WithGap(u, v, r, j) = [kept |-> j, edits |-> IF e.from = e.to /\ e.new = <<>> THEN r.edits ELSE Append(r.edits, e)]
    BY <1>4, WithGapIs
  <2> HIDE DEF e
  <2>4. Append(r.edits, e) \in Seq(EditsOf(L, Len(u)))
    BY <1>2, <2>2, AppendProperties
  <2> QED BY <1>2, <2>1, <2>3, <2>4 DEF Gaps
<1> QED BY <1>3, <1>4

LEMMA EditsFound ==
    ASSUME NEW L, NEW u \in Seq(L), NEW v \in Seq(L)
    PROVE  \E f : Found(f, u, v, L) /\ Edits(u, v) = f[Len(u) + 1].edits
<1> DEFINE X == Gaps(u, v, L)
           N == Len(u) + 1
           a == [kept |-> 0, edits |-> <<>>]
           h == [n \in 1..N |-> [r \in X |-> IF r.kept < n THEN WithGap(u, v, r, n) ELSE r]]
<1>1. N \in Nat /\ N >= 1
  BY LenProperties
<1>2. a \in X
  BY <1>1, EmptySeq DEF Gaps, Shared
<1>3. h \in Steps(X, N)
  BY WithGapTyped DEF Steps
<1>4. PICK f : f \in [0..N -> X] /\ f[0] = a /\ \A n \in 1..N : f[n] = h[n][f[n - 1]]
  <2> HIDE DEF h, X, a, N
  <2>1. PICK f : Chain(f, X, N, a, h)
    BY <1>1, <1>2, <1>3, Iterated, Zenon
  <2> QED BY <2>1 DEF Chain
<1>5. \A j \in 1..N : f[j] = IF f[j - 1].kept < j THEN WithGap(u, v, f[j - 1], j) ELSE f[j - 1]
  <2> SUFFICES ASSUME NEW j \in 1..N PROVE f[j] = IF f[j - 1].kept < j THEN WithGap(u, v, f[j - 1], j) ELSE f[j - 1]
    OBVIOUS
  <2>0. j - 1 \in 0..N
    BY <1>1
  <2>1. f[j - 1] \in X
    BY <1>4, <2>0
  <2>2. f[j] = h[j][f[j - 1]]
    BY <1>4
  <2> QED BY <2>1, <2>2
<1>6. \A j \in 0..N : f[j].kept <= j
  <2> DEFINE T == {j \in 0..N : f[j].kept <= j}
  <2>1. 0 \in T
    BY <1>1, <1>4
  <2>2. ASSUME NEW j \in 0..(N - 1), j \in T PROVE j + 1 \in T
    <3>1. j + 1 \in 1..N /\ (j + 1) - 1 = j /\ f[j] \in Gaps(u, v, L)
      BY <1>1, <1>4
    <3>2. f[j].kept \in Nat /\ f[j].kept < j + 1
      BY <2>2, <3>1 DEF Gaps, Shared
    <3>3. f[j + 1] = WithGap(u, v, f[j], j + 1)
      BY <1>5, <3>1, <3>2
    <3>4. f[j + 1].kept <= j + 1
      <4> HIDE DEF T, X
      <4> QED BY <3>1, <3>2, <3>3, WithGapTyped
    <3> QED BY <3>1, <3>4
  <2>3. \A j \in 0..N : j \in T
    <3> HIDE DEF T, N
    <3> QED BY <1>1, <2>1, <2>2, UpTo
  <2> QED BY <2>3
<1>7. \A j \in 1..N : f[j] = WithGap(u, v, f[j - 1], j)
  <2> SUFFICES ASSUME NEW j \in 1..N PROVE f[j] = WithGap(u, v, f[j - 1], j)
    OBVIOUS
  <2>1. j - 1 \in 0..N /\ f[j - 1] \in Gaps(u, v, L)
    BY <1>1, <1>4
  <2>2. f[j - 1].kept \in Nat
    BY <1>1, <2>1 DEF Gaps, Shared
  <2>3. f[j - 1].kept <= j - 1
    BY <1>6, <2>1
  <2>4. f[j - 1].kept < j
    BY <1>1, <2>2, <2>3
  <2> QED BY <1>5, <2>4
<1> HIDE DEF h
<1>8. Found(f, u, v, L)
  BY <1>4, <1>6, <1>7 DEF Found
<1> DEFINE Def(g) == g = [j \in 0..N |-> IF j = 0 THEN a ELSE WithGap(u, v, g[j - 1], j)]
           g == CHOOSE g : Def(g)
<1>9. Def(f)
  BY <1>4, <1>7
<1>10. Def(g)
  <2> HIDE DEF Def
  <2> QED BY <1>9
<1>11. Edits(u, v) = g[N].edits
  BY DEF Edits
<1> HIDE DEF g
<1>12. \A j \in 0..N : g[j] = IF j = 0 THEN a ELSE WithGap(u, v, g[j - 1], j)
  <2> DEFINE e(j) == WithGap(u, v, g[j - 1], j)
  <2>1. g = [j \in 0..N |-> IF j = 0 THEN a ELSE e(j)]
    BY <1>10
  <2> HIDE DEF Def, e, N, a
  <2>2. \A j \in 0..N : g[j] = IF j = 0 THEN a ELSE e(j)
    BY <2>1
  <2> QED BY <2>2 DEF e
<1>13. \A j \in 0..N : g[j] = f[j]
  <2> DEFINE T == {j \in 0..N : g[j] = f[j]}
  <2>1. 0 \in T
    BY <1>1, <1>4, <1>12
  <2>2. ASSUME NEW j \in 0..(N - 1), j \in T PROVE j + 1 \in T
    BY <1>1, <1>7, <1>12, <2>2
  <2>3. \A j \in 0..N : j \in T
    <3> HIDE DEF T, N
    <3> QED BY <1>1, <2>1, <2>2, UpTo
  <2> QED BY <2>3
<1> QED BY <1>1, <1>8, <1>11, <1>13

\* What is found up to a line stays: the edits found then are the first of all.
LEMMA FoundFirst ==
    ASSUME NEW L, NEW u \in Seq(L), NEW v \in Seq(L), NEW f, Found(f, u, v, L)
    PROVE  \A j \in 0..(Len(u) + 1) :
              LET E == f[Len(u) + 1].edits
              IN  /\ Len(f[j].edits) \in 0..Len(E)
                  /\ \A i \in 1..Len(f[j].edits) : f[j].edits[i] = E[i]
<1> DEFINE N == Len(u) + 1
           E == f[N].edits
           First(j) == Len(f[j].edits) \in 0..Len(E) /\ \A i \in 1..Len(f[j].edits) : f[j].edits[i] = E[i]
           T == {d \in 0..N : First(N - d)}
<1>1. N \in Nat /\ N >= 1
  BY LenProperties
<1>2. \A j \in 0..N : f[j] \in Gaps(u, v, L) /\ f[j].edits \in Seq(EditsOf(L, Len(u))) /\ Len(f[j].edits) \in Nat
  BY LenProperties DEF Found, Gaps
<1>3. 0 \in T
  BY <1>1, <1>2
<1>4. ASSUME NEW d \in 0..(N - 1), d \in T PROVE d + 1 \in T
  <2> DEFINE j == N - d
             s == f[j - 1].edits
  <2>1. j \in 1..N /\ j - 1 \in 0..N /\ j \in 0..N /\ N - (d + 1) = j - 1 /\ d + 1 \in 0..N
    BY <1>1
  <2>2. First(j)
    BY <1>4
  <2>3. f[j] = WithGap(u, v, f[j - 1], j)
    BY <2>1 DEF Found
  <2>4. s \in Seq(EditsOf(L, Len(u))) /\ Len(s) \in Nat /\ f[j - 1].kept \in Shared(u, v) /\ f[j - 1].kept \in Nat /\ f[j - 1].kept < j
    <3>1. f[j - 1] \in Gaps(u, v, L) /\ s \in Seq(EditsOf(L, Len(u))) /\ Len(s) \in Nat
      BY <1>2, <2>1
    <3>2. f[j - 1].kept \in Shared(u, v) /\ f[j - 1].kept \in Nat
      BY <3>1, <1>1 DEF Gaps, Shared
    <3>3. f[j - 1].kept <= j - 1
      BY <2>1 DEF Found
    <3> HIDE DEF j
    <3>4. f[j - 1].kept < j
      BY <1>1, <2>1, <3>2, <3>3
    <3> QED BY <3>1, <3>2, <3>4
  <2> HIDE DEF j, s
  <2>5. First(j - 1)
    <3> DEFINE e == Between(u, v, f[j - 1].kept, j)
    <3>1. f[j].edits = s \/ (f[j].edits = Append(s, e) /\ j \in Shared(u, v))
      <4>1. CASE j <= Len(u) /\ u[j] \notin Lines(v)
        BY <2>3, <4>1, WithGapIs DEF s
      <4>2. CASE ~(j <= Len(u) /\ u[j] \notin Lines(v))
        <5>1. j \in Shared(u, v)
          BY <2>1, <4>2, LenProperties DEF Shared
        <5>2. f[j] = [kept |-> j, edits |-> IF e.from = e.to /\ e.new = <<>> THEN s ELSE Append(s, e)]
          BY <2>3, <4>2, WithGapIs DEF s
        <5> QED BY <5>1, <5>2
      <4> QED BY <4>1, <4>2
    <3>2. CASE f[j].edits = s
      BY <2>2, <3>2 DEF s
    <3>3. CASE f[j].edits = Append(s, e) /\ j \in Shared(u, v)
      <4>1. e \in EditsOf(L, Len(u))
        BY <2>4, <3>3, BetweenIs
      <4> HIDE DEF e
      <4>2. Len(f[j].edits) = Len(s) + 1 /\ \A i \in 1..Len(s) : f[j].edits[i] = s[i]
        BY <2>4, <3>3, <4>1, AppendProperties
      <4>3. Len(E) \in Nat
        BY <1>1, <1>2
      <4> HIDE DEF E
      <4> QED BY <2>2, <2>4, <4>2, <4>3 DEF s
    <3> QED BY <3>1, <3>2, <3>3
  <2>6. First(N - (d + 1))
    <3> HIDE DEF First
    <3> QED BY <2>1, <2>5
  <2> QED BY <2>1, <2>6
<1>5. \A d \in 0..N : d \in T
  <2> HIDE DEF T, N
  <2> QED BY <1>1, <1>3, <1>4, UpTo
<1>6. ASSUME NEW j \in 0..N PROVE First(j)
  <2>1. N - j \in 0..N /\ N - (N - j) = j
    BY <1>1
  <2>2. First(N - (N - j))
    <3> HIDE DEF First, N
    <3> QED BY <1>5, <2>1
  <2> HIDE DEF First
  <2> QED BY <2>1, <2>2
<1> QED BY <1>6

\* The walk over the edits of one side, the other having none.
Walks(L) == [o : Nat, t : Nat, at : Nat, marked : Nat, out : Seq(L)]

Alone(u, E, side, k) == IF k[side] < Len(E) THEN Take(u, k, E[k[side] + 1], side) ELSE k

Walked(w, u, E, side, L) ==
    /\ w \in [0..Len(E) -> Walks(L)]
    /\ w[0] = Start
    /\ \A i \in 1..Len(E) : w[i] = Alone(u, E, side, w[i - 1])

Sides == {"o", "t"}

\* The walk q is k with one edit of a side taken.
Taken(q, u, k, e, side, L) ==
    /\ q \in Walks(L)
    /\ q.out = k.out \o Slice(u, k.at, e.from) \o e.new
    /\ q.at = e.to
    /\ q.marked = k.marked
    /\ q[side] = k[side] + 1

LEMMA TakeTyped ==
    ASSUME NEW L, NEW u \in Seq(L), NEW e \in EditsOf(L, Len(u)), NEW k \in Walks(L), NEW side \in Sides
    PROVE  Taken(Take(u, k, e, side), u, k, e, side, L)
<1>1. Len(u) \in Nat /\ \A i \in 1..Len(u) : u[i] \in L
  BY LenProperties, ElementOfSeq
<1>2. k.o \in Nat /\ k.t \in Nat /\ k.at \in Nat /\ k.marked \in Nat /\ k.out \in Seq(L)
  BY DEF Walks
<1>3. e.from \in 0..Len(u) /\ e.to \in 0..Len(u) /\ e.new \in Seq(L)
  BY DEF EditsOf
<1>4. Slice(u, k.at, e.from) \in Seq(L)
  BY <1>1, <1>2, <1>3, SubSeqProperties DEF Slice
<1> DEFINE new == k.out \o Slice(u, k.at, e.from) \o e.new
<1>5. new \in Seq(L)
  BY <1>2, <1>3, <1>4, ConcatProperties
<1>6. Take(u, k, e, side) = [k EXCEPT !.out = new, !.at = e.to, ![side] = @ + 1]
  BY DEF Take
<1> HIDE DEF new
<1>7. e.to \in Nat
  BY <1>1, <1>3
<1>8. /\ Take(u, k, e, side) \in Walks(L)
      /\ Take(u, k, e, side).out = new
      /\ Take(u, k, e, side).at = e.to
      /\ Take(u, k, e, side).marked = k.marked
      /\ Take(u, k, e, side)[side] = k[side] + 1
  <2>1. CASE side = "o"
    <3>1. Take(u, k, e, side) = [o |-> k.o + 1, t |-> k.t, at |-> e.to, marked |-> k.marked, out |-> new]
      BY <1>6, <2>1 DEF Walks
    <3> QED BY <3>1, <1>2, <1>5, <1>7, <2>1 DEF Walks
  <2>2. CASE side = "t"
    <3>1. Take(u, k, e, side) = [o |-> k.o, t |-> k.t + 1, at |-> e.to, marked |-> k.marked, out |-> new]
      BY <1>6, <2>2 DEF Walks
    <3> QED BY <3>1, <1>2, <1>5, <1>7, <2>2 DEF Walks
  <2> QED BY <2>1, <2>2 DEF Sides
<1> QED BY <1>8 DEF new, Taken

LEMMA AloneTyped ==
    ASSUME NEW L, NEW u \in Seq(L), NEW E \in Seq(EditsOf(L, Len(u))), NEW k \in Walks(L), NEW side \in Sides
    PROVE  Alone(u, E, side, k) \in Walks(L)
<1>1. CASE k[side] < Len(E)
  <2>1. k[side] + 1 \in 1..Len(E)
    BY LenProperties, <1>1 DEF Walks, Sides
  <2>2. E[k[side] + 1] \in EditsOf(L, Len(u))
    BY <2>1, ElementOfSeq
  <2> QED BY <1>1, <2>2, TakeTyped DEF Alone, Taken
<1> QED BY <1>1 DEF Alone

LEMMA WeaveAlone ==
    ASSUME NEW L, NEW u, NEW E \in Seq(L), NEW k, k.o \in Nat, k.t \in Nat, NEW form, NEW style
    PROVE  /\ Weave(u, E, <<>>, k, form, style) = Alone(u, E, "o", k)
           /\ Weave(u, <<>>, E, k, form, style) = Alone(u, E, "t", k)
BY LenProperties DEF Weave, Alone

LEMMA WalkedExists ==
    ASSUME NEW L, NEW u \in Seq(L), NEW E \in Seq(EditsOf(L, Len(u))), NEW side \in Sides
    PROVE  \E w : Walked(w, u, E, side, L)
<1> DEFINE X == Walks(L)
           N == Len(E)
           h == [n \in 1..N |-> [k \in X |-> Alone(u, E, side, k)]]
<1>1. N \in Nat
  BY LenProperties
<1>2. Start \in X
  BY EmptySeq DEF Walks, Start
<1>3. h \in Steps(X, N)
  BY AloneTyped DEF Steps
<1>4. PICK w : w \in [0..N -> X] /\ w[0] = Start /\ \A n \in 1..N : w[n] = h[n][w[n - 1]]
  <2> HIDE DEF h, X, N
  <2>1. PICK f : Chain(f, X, N, Start, h)
    BY <1>1, <1>2, <1>3, Iterated, Zenon
  <2> QED BY <2>1 DEF Chain
<1>5. ASSUME NEW n \in 1..N PROVE w[n] = Alone(u, E, side, w[n - 1])
  <2>1. n - 1 \in 0..N
    BY <1>1
  <2>2. w[n - 1] \in X /\ w[n] = h[n][w[n - 1]]
    BY <1>4, <2>1
  <2> HIDE DEF X
  <2> QED BY <2>2
<1> QED BY <1>4, <1>5 DEF Walked

\* The account of it step by step.
Account(w, u, E, L) ==
    /\ \A i \in 0..Len(E) : w[i] \in Walks(L) /\ w[i].marked = 0
    /\ \A i \in 1..Len(E) : /\ w[i].out = w[i - 1].out \o Slice(u, w[i - 1].at, E[i].from) \o E[i].new
                            /\ w[i].at = E[i].to

LEMMA WalkedSteps ==
    ASSUME NEW L, NEW u \in Seq(L), NEW E \in Seq(EditsOf(L, Len(u))), NEW side \in Sides,
           NEW w, Walked(w, u, E, side, L)
    PROVE  Account(w, u, E, L)
<1> DEFINE N == Len(E)
           T == {i \in 0..N : w[i][side] = i /\ w[i].marked = 0}
<1>1. N \in Nat /\ \A i \in 0..N : w[i] \in Walks(L)
  BY LenProperties DEF Walked
<1>2. 0 \in T
  BY <1>1 DEF Walked, Start
<1>3. ASSUME NEW i \in 0..(N - 1), w[i][side] = i
      PROVE  w[i + 1] = Take(u, w[i], E[i + 1], side) /\ E[i + 1] \in EditsOf(L, Len(u)) /\ i + 1 \in 1..N /\ w[i] \in Walks(L)
  BY <1>1, ElementOfSeq, <1>3 DEF Walked, Alone
<1>4. ASSUME NEW i \in 0..(N - 1), i \in T PROVE i + 1 \in T
  <2>1. w[i][side] = i /\ w[i].marked = 0
    BY <1>4
  <2>2. w[i + 1] = Take(u, w[i], E[i + 1], side) /\ E[i + 1] \in EditsOf(L, Len(u)) /\ i + 1 \in 1..N /\ w[i] \in Walks(L)
    BY <1>3, <2>1
  <2>3. w[i + 1].marked = 0 /\ w[i + 1][side] = i + 1
    <3> DEFINE k == w[i]
               e == E[i + 1]
    <3>1. k \in Walks(L) /\ e \in EditsOf(L, Len(u)) /\ w[i + 1] = Take(u, k, e, side) /\ k[side] = i /\ k.marked = 0
      BY <2>1, <2>2
    <3> HIDE DEF k, e
    <3>2. Taken(Take(u, k, e, side), u, k, e, side, L)
      BY <3>1, TakeTyped
    <3> QED BY <3>1, <3>2 DEF Taken
  <2> QED BY <1>1, <2>2, <2>3
<1>5. \A i \in 0..N : i \in T
  <2> HIDE DEF T, N
  <2> QED BY <1>1, <1>2, <1>4, UpTo
<1>6. ASSUME NEW i \in 1..N
      PROVE  /\ w[i].out = w[i - 1].out \o Slice(u, w[i - 1].at, E[i].from) \o E[i].new
             /\ w[i].at = E[i].to
  <2>1. i - 1 \in 0..(N - 1) /\ i - 1 \in 0..N /\ (i - 1) + 1 = i
    BY <1>1
  <2>2. w[i - 1][side] = i - 1
    BY <1>5, <2>1
  <2>3. w[i] = Take(u, w[i - 1], E[i], side) /\ E[i] \in EditsOf(L, Len(u)) /\ w[i - 1] \in Walks(L)
    BY <1>3, <2>1, <2>2
  <2> DEFINE k == w[i - 1]
             e == E[i]
  <2>4. k \in Walks(L) /\ e \in EditsOf(L, Len(u)) /\ w[i] = Take(u, k, e, side)
    BY <2>3
  <2>5. w[i].out = k.out \o Slice(u, k.at, e.from) \o e.new /\ w[i].at = e.to
    <3> HIDE DEF k, e
    <3>1. Taken(Take(u, k, e, side), u, k, e, side, L)
      BY <2>4, TakeTyped
    <3> QED BY <2>4, <3>1 DEF Taken
  <2> QED BY <2>5
<1> QED BY <1>1, <1>5, <1>6 DEF Account

\* The result of a walk.
Result(w, u, E) == [text |-> w[Len(E)].out \o Slice(u, w[Len(E)].at, Len(u)), conflicts |-> w[Len(E)].marked]

\* That the edits E are those of one side, and the other side has none.
EditsOfSide(ours, theirs, E, side) ==
    \/ side = "o" /\ ours = E /\ theirs = <<>>
    \/ side = "t" /\ ours = <<>> /\ theirs = E

LEMMA WovenIs ==
    ASSUME NEW L, NEW u \in Seq(L), NEW E \in Seq(EditsOf(L, Len(u))), NEW form, NEW style, NEW w, NEW side \in Sides,
           Walked(w, u, E, side, L), NEW ours, NEW theirs,
           EditsOfSide(ours, theirs, E, side)
    PROVE  WovenEdits(u, ours, theirs, form, style) = Result(w, u, E)
<1> DEFINE N == Len(E)
           Def(g) == g = [n \in 0..Len(ours) + Len(theirs) |->
                             IF n = 0 THEN Start ELSE Weave(u, ours, theirs, g[n - 1], form, style)]
           g == CHOOSE g : Def(g)
<1>1. N \in Nat /\ Len(ours) + Len(theirs) = N
  BY LenProperties DEF EditsOfSide
<1>2. \A k \in Walks(L) : Weave(u, ours, theirs, k, form, style) = Alone(u, E, side, k)
  <2> SUFFICES ASSUME NEW k \in Walks(L) PROVE Weave(u, ours, theirs, k, form, style) = Alone(u, E, side, k)
    OBVIOUS
  <2>1. k.o \in Nat /\ k.t \in Nat
    BY DEF Walks
  <2>2. /\ Weave(u, E, <<>>, k, form, style) = Alone(u, E, "o", k)
        /\ Weave(u, <<>>, E, k, form, style) = Alone(u, E, "t", k)
    BY <2>1, WeaveAlone
  <2>3. CASE side = "o"
    BY <2>2, <2>3 DEF EditsOfSide
  <2>4. CASE side = "t"
    BY <2>2, <2>4 DEF EditsOfSide
  <2> QED BY <2>3, <2>4 DEF Sides
<1>3. \A n \in 0..N : w[n] \in Walks(L)
  BY DEF Walked
<1>4. \A n \in 1..N : w[n] = Weave(u, ours, theirs, w[n - 1], form, style)
  BY <1>1, <1>2, <1>3 DEF Walked
<1>5. Def(w)
  <2> DEFINE e(n) == Weave(u, ours, theirs, w[n - 1], form, style)
  <2>1. \A n \in 0..N : w[n] = IF n = 0 THEN Start ELSE e(n)
    BY <1>4 DEF Walked
  <2>2. w = [n \in 0..N |-> w[n]]
    BY DEF Walked
  <2> HIDE DEF e
  <2>3. w = [n \in 0..N |-> IF n = 0 THEN Start ELSE e(n)]
    BY <2>1, <2>2
  <2> QED BY <1>1, <2>3 DEF e
<1>6. Def(g)
  <2> HIDE DEF Def
  <2> QED BY <1>5
<1>7. WovenEdits(u, ours, theirs, form, style)
          = [text |-> g[N].out \o Slice(u, g[N].at, Len(u)), conflicts |-> g[N].marked]
  BY <1>1 DEF WovenEdits
<1> HIDE DEF g
<1>8. \A n \in 0..N : g[n] = IF n = 0 THEN Start ELSE Weave(u, ours, theirs, g[n - 1], form, style)
  <2> DEFINE e(n) == Weave(u, ours, theirs, g[n - 1], form, style)
  <2>1. g = [n \in 0..N |-> IF n = 0 THEN Start ELSE e(n)]
    BY <1>1, <1>6
  <2> HIDE DEF Def, e, N
  <2>2. \A n \in 0..N : g[n] = IF n = 0 THEN Start ELSE e(n)
    BY <2>1
  <2> QED BY <2>2 DEF e
<1>9. \A n \in 0..N : g[n] = w[n]
  <2> DEFINE T == {n \in 0..N : g[n] = w[n]}
  <2>1. 0 \in T
    BY <1>1, <1>8 DEF Walked
  <2>2. ASSUME NEW n \in 0..(N - 1), n \in T PROVE n + 1 \in T
    BY <1>1, <1>4, <1>8, <2>2
  <2>3. \A n \in 0..N : n \in T
    <3> HIDE DEF T, N
    <3> QED BY <1>1, <2>1, <2>2, UpTo
  <2> QED BY <2>3
<1>10. N \in 0..N /\ g[N] = w[N]
  BY <1>1, <1>9
<1> QED BY <1>7, <1>10 DEF Result

\* The walk w over the edits E that are found between u and v.
Making(w, E, f, side, u, v, L) ==
    /\ u \in Seq(L) /\ v \in Seq(L) /\ Alike(u, v)
    /\ Found(f, u, v, L) /\ E = f[Len(u) + 1].edits
    /\ side \in Sides /\ Walked(w, u, E, side, L)

\* What a walk over the edits of v makes of the base u: v.
LEMMA WalkMakes ==
    ASSUME NEW w, NEW E, NEW f, NEW side, NEW u, NEW v, NEW L, Making(w, E, f, side, u, v, L)
    PROVE  Result(w, u, E) = [text |-> v, conflicts |-> 0]
<1>0. /\ u \in Seq(L) /\ v \in Seq(L) /\ Alike(u, v)
      /\ Found(f, u, v, L) /\ E = f[Len(u) + 1].edits
      /\ side \in Sides /\ Walked(w, u, E, side, L)
  BY DEF Making
<1> USE <1>0
<1> DEFINE n == Len(u)
           m == Len(v)
           N == n + 1
           K(j) == w[Len(f[j].edits)]
           Sofar(j) == /\ K(j).at <= f[j].kept
                       /\ K(j).out \o SubSeq(u, K(j).at + 1, Least(f[j].kept, n)) = SubSeq(v, 1, Least(Place(u, v, f[j].kept), m))
           T == {j \in 0..N : Sofar(j)}
<1>1. n \in Nat /\ m \in Nat /\ N \in Nat /\ N = n + 1
  BY LenProperties
<1>2. \A j \in 0..N : /\ f[j] \in Gaps(u, v, L) /\ f[j].edits \in Seq(EditsOf(L, n)) /\ Len(f[j].edits) \in Nat
                      /\ f[j].kept \in Shared(u, v) /\ f[j].kept \in 0..N /\ f[j].kept <= j
  BY LenProperties DEF Found, Gaps, Shared
<1>3. E = f[N].edits /\ E \in Seq(EditsOf(L, n)) /\ Len(E) \in Nat /\ N \in 0..N
  BY <1>1, <1>2
<1>4. /\ \A i \in 0..Len(E) : w[i] \in Walks(L) /\ w[i].marked = 0
      /\ \A i \in 1..Len(E) : /\ w[i].out = w[i - 1].out \o Slice(u, w[i - 1].at, E[i].from) \o E[i].new
                              /\ w[i].at = E[i].to
  <2>1. Account(w, u, E, L)
    BY <1>3, WalkedSteps
  <2> QED BY <2>1 DEF Account
<1>5. \A j \in 0..N : /\ Len(f[j].edits) \in 0..Len(E)
                      /\ \A i \in 1..Len(f[j].edits) : f[j].edits[i] = E[i]
  BY <1>3, FoundFirst
<1>6. Sofar(0)
  <2>1. f[0].kept = 0 /\ f[0].edits = <<>> /\ Len(f[0].edits) = 0 /\ Place(u, v, 0) = 0
    BY EmptySeq DEF Found, Place
  <2>2. w[0].out = <<>> /\ w[0].at = 0
    BY DEF Walked, Start
  <2>3. Least(0, n) = 0 /\ Least(0, m) = 0
    BY <1>1 DEF Least
  <2>4. SubSeq(u, 1, 0) = <<>> /\ SubSeq(v, 1, 0) = <<>>
    BY SubSeqEmpty
  <2>5. <<>> \o <<>> = <<>>
    BY EmptySeq, ConcatEmptySeq
  <2>6. K(0) = w[0]
    BY <2>1
  <2> HIDE DEF K
  <2>7. K(0).at <= f[0].kept
    BY <2>1, <2>2, <2>6
  <2>8. K(0).out \o SubSeq(u, K(0).at + 1, Least(f[0].kept, n)) = <<>>
    BY <2>1, <2>2, <2>3, <2>4, <2>5, <2>6
  <2>9. SubSeq(v, 1, Least(Place(u, v, f[0].kept), m)) = <<>>
    BY <2>1, <2>3, <2>4
  <2> QED BY <2>7, <2>8, <2>9
<1>7. ASSUME NEW j \in 1..N, Sofar(j - 1) PROVE Sofar(j)
  <2> DEFINE r == f[j - 1]
             i == r.kept
             I == Place(u, v, i)
             J == Place(u, v, j)
             c == Len(r.edits)
             k == w[c]
             q == K(j)
             e == Between(u, v, i, j)
  <2>1. j - 1 \in 0..N /\ j \in 0..N
    BY <1>1
  <2>2. f[j] = WithGap(u, v, r, j)
    BY DEF Found
  <2>3. /\ i \in Shared(u, v) /\ i \in Nat /\ i < j /\ c \in 0..Len(E) /\ c \in Nat
        /\ r.edits \in Seq(EditsOf(L, n))
    BY <1>1, <1>2, <1>5, <2>1
  <2>4. k \in Walks(L) /\ k.at \in Nat /\ k.out \in Seq(L)
    BY <1>4, <2>3 DEF Walks
  <2>5. k.at <= i /\ k.out \o SubSeq(u, k.at + 1, Least(i, n)) = SubSeq(v, 1, Least(I, m))
    BY <1>7
  <2>6. CASE j <= n /\ u[j] \notin Lines(v)
    <3>1. f[j] = r
      BY <2>2, <2>6, WithGapIs
    <3> QED BY <3>1, <2>5
  <2>7. CASE ~(j <= n /\ u[j] \notin Lines(v))
    <3>1. j \in Shared(u, v)
      BY <1>1, <2>1, <2>7 DEF Shared
    <3>2. f[j] = [kept |-> j, edits |-> IF e.from = e.to /\ e.new = <<>> THEN r.edits ELSE Append(r.edits, e)]
      BY <2>2, <2>7, WithGapIs
    <3>3. /\ I \in 0..(m + 1) /\ J \in 0..(m + 1) /\ I < J
          /\ j \in 1..n => J \in 1..m /\ v[J] = u[j]
          /\ j = N => J = m + 1
      BY <1>1, <2>3, <3>1, PlaceIs, PlacesRise
    <3>4. /\ e \in EditsOf(L, n)
          /\ Len(e.new) = J - I - 1
          /\ e.from = i /\ e.to = j - 1 /\ e.new = SubSeq(v, I + 1, J - 1)
      BY <2>3, <3>1, <3>3, BetweenIs DEF Between
    <3>5. i \in 0..n /\ I \in 0..m /\ J - 1 \in I..m /\ j \in 1..(n + 1)
      BY <1>1, <2>3, <3>3
    <3> HIDE DEF I, J, e, i, k, c, r
    <3>6. k.out \o SubSeq(u, k.at + 1, i) = SubSeq(v, 1, I)
      <4>1. Least(i, n) = i /\ Least(I, m) = I
        BY <1>1, <3>5 DEF Least
      <4> QED BY <2>5, <4>1
    <3>7. q \in Walks(L) /\ q.at <= j - 1 /\ q.out \o SubSeq(u, q.at + 1, j - 1) = SubSeq(v, 1, J - 1)
      <4>1. CASE e.from = e.to /\ e.new = <<>>
        <5>1. f[j].edits = r.edits /\ i = j - 1
          <6>1. f[j] = [kept |-> j, edits |-> r.edits]
            BY <3>2, <4>1
          <6>2. i = j - 1
            BY <3>4, <4>1
          <6> QED BY <6>1, <6>2
        <5>2. I = J - 1
          BY <3>4, <4>1, EmptySeq, <3>3
        <5>3. q = k
          BY <5>1 DEF k, c
        <5> HIDE DEF q
        <5> QED BY <2>4, <2>5, <3>6, <5>1, <5>2, <5>3
      <4>2. CASE ~(e.from = e.to /\ e.new = <<>>)
        <5>1. f[j].edits = Append(r.edits, e)
          BY <3>2, <4>2
        <5>2. Len(f[j].edits) = c + 1 /\ f[j].edits[c + 1] = e
          BY <2>3, <3>4, <5>1, AppendProperties DEF c
        <5>3. c + 1 \in 1..Len(E) /\ E[c + 1] = e
          BY <1>3, <1>5, <2>1, <2>3, <5>2
        <5>4. q = w[c + 1]
          BY <5>2
        <5>5. q.out = (k.out \o Slice(u, k.at, i)) \o e.new /\ q.at = j - 1 /\ q \in Walks(L)
          <6>0. Len(E) \in Nat /\ c \in Nat /\ c + 1 \in 1..Len(E)
            BY <1>3, <2>3, <5>3
          <6>1. (c + 1) - 1 = c /\ c + 1 \in 0..Len(E)
            BY <6>0
          <6> HIDE DEF q
          <6> QED BY <1>4, <3>4, <5>3, <5>4, <6>1 DEF k
        <5> HIDE DEF q
        <5>6. q.out = SubSeq(v, 1, J - 1)
          <6>1. q.out = SubSeq(v, 1, I) \o SubSeq(v, I + 1, J - 1)
            BY <3>4, <3>6, <5>5 DEF Slice
          <6>2. 1 \in 1..(Len(v) + 1) /\ I \in (1 - 1)..Len(v) /\ J - 1 \in I..Len(v)
            BY <1>1, <3>5
          <6> QED BY <6>1, <6>2, ConcatAdjacentSubSeq
        <5>7. SubSeq(u, q.at + 1, j - 1) = <<>>
          BY <1>1, <5>5, SubSeqEmpty
        <5>8. q.out \in Seq(L)
          BY <5>5 DEF Walks
        <5>9. j - 1 \in Int
          BY <3>5
        <5> QED BY <5>5, <5>6, <5>7, <5>8, <5>9, ConcatEmptySeq
      <4> QED BY <4>1, <4>2
    <3>8. f[j].kept = j
      BY <3>2
    <3>9. q.at \in Nat /\ q.out \in Seq(L)
      BY <3>7 DEF Walks
    <3> HIDE DEF q
    <3>10. q.at <= j /\ q.out \o SubSeq(u, q.at + 1, Least(j, n)) = SubSeq(v, 1, Least(J, m))
      <4>1. CASE j = N
        <5>1. Least(j, n) = j - 1 /\ Least(J, m) = J - 1
          BY <1>1, <3>3, <4>1 DEF Least
        <5>2. q.at <= j
          BY <1>1, <3>7, <3>9
        <5> QED BY <3>7, <5>1, <5>2
      <4>2. CASE j # N
        <5>1. j \in 1..n /\ J \in 1..m /\ v[J] = u[j]
          BY <1>1, <3>3, <4>2
        <5>2. Least(j, n) = j /\ Least(J, m) = J
          BY <1>1, <5>1 DEF Least
        <5>3. SubSeq(u, q.at + 1, j) = SubSeq(u, q.at + 1, j - 1) \o <<u[j]>>
          <6>1. q.at + 1 \in 1..Len(u) /\ j \in (q.at + 1)..Len(u)
            BY <1>1, <3>7, <3>9, <5>1
          <6> QED BY <6>1, SubSeqRecursiveSecond
        <5>4. SubSeq(v, 1, J) = SubSeq(v, 1, J - 1) \o <<v[J]>>
          BY <1>1, <5>1, SubSeqRecursiveSecond
        <5>5. SubSeq(u, q.at + 1, j - 1) \in Seq(L) /\ <<u[j]>> \in Seq(L)
          BY ElementOfSeq, <1>1, <3>9, <5>1, SubSeqProperties
        <5> DEFINE s == SubSeq(u, q.at + 1, j - 1)
                   x == <<u[j]>>
        <5>6. q.out \o SubSeq(u, q.at + 1, j) = SubSeq(v, 1, J)
          <6>1. q.out \o s = SubSeq(v, 1, J - 1) /\ s \in Seq(L) /\ x \in Seq(L)
            BY <3>7, <5>5
          <6>2. SubSeq(u, q.at + 1, j) = s \o x /\ SubSeq(v, 1, J) = SubSeq(v, 1, J - 1) \o x
            BY <5>1, <5>3, <5>4
          <6> HIDE DEF s, x
          <6>3. q.out \o (s \o x) = (q.out \o s) \o x
            <7> DEFINE z == q.out
            <7>1. z \in Seq(L) /\ s \in Seq(L) /\ x \in Seq(L)
              BY <3>9, <6>1
            <7> HIDE DEF z
            <7>2. (z \o s) \o x = z \o (s \o x)
              BY ONLY <7>1, ConcatAssociative
            <7> QED BY <7>2 DEF z
          <6> QED BY <6>1, <6>2, <6>3
        <5>7. q.at <= j
          BY <1>1, <3>7, <3>9
        <5> HIDE DEF s, x
        <5> QED BY <5>2, <5>6, <5>7
      <4> QED BY <4>1, <4>2
    <3>11. Sofar(j)
      BY <3>8, <3>10 DEF q, J
    <3> QED BY <3>11
  <2> QED BY <2>6, <2>7
<1>8. Sofar(N)
  <2> HIDE DEF Sofar
  <2>1. 0 \in T
    BY <1>1, <1>6
  <2>2. ASSUME NEW j \in 0..(N - 1), j \in T PROVE j + 1 \in T
    <3>1. j + 1 \in 1..N /\ (j + 1) - 1 = j /\ j + 1 \in 0..N /\ Sofar(j)
      BY <1>1, <2>2
    <3>2. Sofar((j + 1) - 1)
      BY <3>1
    <3>3. Sofar(j + 1)
      <4> HIDE DEF N
      <4> QED BY <1>7, <3>1, <3>2
    <3> QED BY <3>1, <3>3
  <2>3. \A j \in 0..N : j \in T
    <3> HIDE DEF T, N
    <3> QED BY <1>1, <2>1, <2>2, UpTo
  <2> QED BY <1>3, <2>3
<1>9. f[N].kept = N
  BY <1>1, WithGapIs DEF Found
<1>10. /\ w[Len(E)].out \o Slice(u, w[Len(E)].at, n) = v
       /\ w[Len(E)].marked = 0
  <2>1. N \in Shared(u, v)
    BY <1>1 DEF Shared
  <2>2. Place(u, v, N) = m + 1
    BY <1>1, <2>1, PlaceIs
  <2>3. Least(N, n) = n /\ Least(m + 1, m) = m
    BY <1>1 DEF Least
  <2>4. SubSeq(v, 1, m) = v
    BY SubSeqFull
  <2>5. Len(E) \in 0..Len(E)
    BY <1>3
  <2> QED BY <1>4, <1>8, <1>9, <2>2, <2>3, <2>4, <2>5 DEF Slice
<1> QED BY <1>10 DEF Result

\* A text that is the base has no edits.
LEMMA NoEdits ==
    ASSUME NEW L, NEW u \in Seq(L), Alike(u, u)
    PROVE  Edits(u, u) = <<>>
<1> DEFINE n == Len(u)
           N == n + 1
<1>1. n \in Nat /\ N = n + 1 /\ DOMAIN u = 1..n /\ N \in Nat
  BY LenProperties
<1>2. PICK f : Found(f, u, u, L) /\ Edits(u, u) = f[N].edits
  BY EditsFound
<1>3. \A j \in 0..N : j \in Shared(u, u) /\ Place(u, u, j) = j
  <2> SUFFICES ASSUME NEW j \in 0..N PROVE j \in Shared(u, u) /\ Place(u, u, j) = j
    OBVIOUS
  <2>1. j \in Shared(u, u)
    BY <1>1 DEF Shared, Lines
  <2>2. CASE j \in 1..n
    <3>1. Place(u, u, j) \in 1..n /\ u[Place(u, u, j)] = u[j]
      BY <2>1, <2>2, PlaceIs
    <3> DEFINE k == Place(u, u, j)
    <3>2. ~(k < j) /\ ~(j < k)
      <4>1. k \in 1..n /\ u[k] = u[j]
        BY <3>1
      <4> HIDE DEF k
      <4>2. u[j] = u[k] /\ u[j] = u[j] => (j < j <=> k < j)
        BY <1>1, <2>2, <4>1 DEF Alike
      <4>3. u[j] = u[j] /\ u[j] = u[k] => (j < j <=> j < k)
        BY <1>1, <2>2, <4>1 DEF Alike
      <4> QED BY <2>2, <4>1, <4>2, <4>3
    <3> QED BY <2>1, <2>2, <3>1, <3>2
  <2>3. CASE j \notin 1..n
    BY <1>1, <2>1, <2>3, PlaceIs
  <2> QED BY <2>2, <2>3
<1> DEFINE T == {j \in 0..N : f[j] = [kept |-> j, edits |-> <<>>]}
<1>4. 0 \in T
  BY <1>1, <1>2 DEF Found
<1>5. ASSUME NEW j \in 0..(N - 1), j \in T PROVE j + 1 \in T
  <2>1. j + 1 \in 1..N /\ (j + 1) - 1 = j /\ j \in 0..N /\ j + 1 \in 0..N
    BY <1>1
  <2>2. f[j + 1] = WithGap(u, u, f[j], j + 1) /\ f[j].kept = j /\ f[j].edits = <<>>
    BY <1>2, <1>5, <2>1 DEF Found
  <2> DEFINE e == Between(u, u, j, j + 1)
  <2>3. e.from = e.to /\ e.new = <<>>
    BY <1>3, <2>1, SubSeqEmpty DEF Between
  <2>4. ~(j + 1 <= n /\ u[j + 1] \notin Lines(u))
    BY <1>1, <2>1 DEF Lines
  <2>5. f[j + 1] = [kept |-> j + 1, edits |-> <<>>]
    <3> HIDE DEF e, n, N, T
    <3>1. f[j + 1] = [kept |-> j + 1, edits |-> IF e.from = e.to /\ e.new = <<>> THEN f[j].edits ELSE Append(f[j].edits, e)]
      BY <2>2, <2>4, WithGapIs DEF e, n
    <3> QED BY <2>2, <2>3, <3>1
  <2> QED BY <2>1, <2>5
<1>6. N \in T
  <2>1. \A j \in 0..N : j \in T
    <3> HIDE DEF T, N
    <3> QED BY <1>1, <1>4, <1>5, UpTo
  <2> QED BY <1>1, <2>1
<1> QED BY <1>2, <1>6

\* Where one side is the base, the merge is the other side.
Texts == Contents \cup {<<>>}

LEMMA TextsAreTexts == ASSUME NEW u \in Texts, NEW v \in Texts PROVE u \in Seq(Lines(u)) /\ Alike(u, v)
<1>1. DOMAIN <<>> = {} /\ <<>> \in Seq(Lines(<<>>))
  BY EmptySeq
<1>2. CASE u \in Contents /\ v \in Contents
  BY <1>2, ContentsAreTexts
<1>3. CASE u \in Contents /\ v = <<>>
  BY <1>1, <1>3, ContentsAreTexts DEF Alike
<1>4. CASE u = <<>>
  BY <1>1, <1>4 DEF Alike
<1> QED BY <1>2, <1>3, <1>4 DEF Texts

LEMMA OneSideWoven ==
    ASSUME NEW u \in Texts, NEW v \in Texts, NEW form, NEW style
    PROVE  /\ Woven(form, u, v, u, style) = [text |-> v, conflicts |-> 0]
           /\ Woven(form, u, u, v, style) = [text |-> v, conflicts |-> 0]
<1> DEFINE L == Lines(u) \cup Lines(v)
<1>1. u \in Seq(L) /\ v \in Seq(L) /\ Alike(u, v) /\ Alike(u, u)
  <2>1. u \in Seq(Lines(u)) /\ v \in Seq(Lines(v)) /\ Lines(u) \subseteq L /\ Lines(v) \subseteq L
    BY TextsAreTexts
  <2>2. Alike(u, v) /\ Alike(u, u)
    BY TextsAreTexts
  <2> HIDE DEF L
  <2> QED BY <2>1, <2>2, SeqMonotonic
<1> HIDE DEF L
<1>2. Edits(u, u) = <<>>
  BY <1>1, NoEdits
<1>3. PICK f : Found(f, u, v, L) /\ Edits(u, v) = f[Len(u) + 1].edits
  BY <1>1, EditsFound
<1> DEFINE E == f[Len(u) + 1].edits
<1>4. E \in Seq(EditsOf(L, Len(u)))
  BY <1>1, LenProperties, <1>3 DEF Found, Gaps
<1> HIDE DEF E
<1>5. ASSUME NEW side \in Sides, NEW ours, NEW theirs, EditsOfSide(ours, theirs, E, side)
      PROVE  WovenEdits(u, ours, theirs, form, style) = [text |-> v, conflicts |-> 0]
  <2>1. PICK w : Walked(w, u, E, side, L)
    BY <1>1, <1>4, WalkedExists
  <2>2. E = f[Len(u) + 1].edits
    BY DEF E
  <2>3. Result(w, u, E) = [text |-> v, conflicts |-> 0]
    <3>1. Making(w, E, f, side, u, v, L)
      BY <1>1, <1>3, <2>1, <2>2 DEF Making
    <3> QED BY <3>1, WalkMakes
  <2>4. WovenEdits(u, ours, theirs, form, style) = Result(w, u, E)
    BY <1>1, <1>4, <1>5, <2>1, WovenIs
  <2> QED BY <2>3, <2>4
<1>6. WovenEdits(u, E, <<>>, form, style) = [text |-> v, conflicts |-> 0]
  BY <1>5 DEF Sides, EditsOfSide
<1>7. WovenEdits(u, <<>>, E, form, style) = [text |-> v, conflicts |-> 0]
  BY <1>5 DEF Sides, EditsOfSide
<1> QED BY <1>2, <1>3, <1>6, <1>7 DEF Woven, E

LEMMA OneSideChanged ==
    ASSUME NEW u \in Contents, NEW v \in Contents
    PROVE  /\ MergeText(u, v, u) = [text |-> v, conflicts |-> 0]
           /\ MergeText(u, u, v) = [text |-> v, conflicts |-> 0]
BY OneSideWoven DEF MergeText, Texts

\* One path in three trees: what the mergers make of it.
LEMMA EntriesAgree ==
    ASSUME NEW b \in Blobs \cup {Gone}, NEW o \in Blobs \cup {Gone}, NEW t \in Blobs \cup {Gone}
    PROVE  /\ Resolved(b, o, t, TRUE) => /\ MergeEntry(b, o, t) = Settled(Resolution(b, o, t))
                                        /\ Apply(b, o, t) = Settled(Resolution(b, o, t))
           /\ ~Resolved(b, o, t, TRUE) /\ MergeEntry(b, o, t).clash = "none" /\ o.oid # t.oid =>
                  /\ Apply(b, o, t).clash = "none"
                  /\ Apply(b, o, t).entry.oid = MergeEntry(b, o, t).entry.oid
<1>1. Resolved(b, o, t, TRUE) <=> (o = t \/ o = b \/ t = b)
  BY DEF Resolved
<1>2. ASSUME o = t \/ o = b \/ t = b
      PROVE  MergeEntry(b, o, t) = Settled(Resolution(b, o, t)) /\ Apply(b, o, t) = Settled(Resolution(b, o, t))
  <2>1. CASE o = t \/ t = b
    BY <2>1 DEF MergeEntry, Apply, Resolution
  <2>2. CASE o # t /\ t # b /\ o = b
    BY <2>2 DEF MergeEntry, Apply, Resolution
  <2> QED BY <1>2, <2>1, <2>2
<1>3. ASSUME o # t, o # b, t # b, MergeEntry(b, o, t).clash = "none", o.oid # t.oid
      PROVE  Apply(b, o, t).clash = "none" /\ Apply(b, o, t).entry.oid = MergeEntry(b, o, t).entry.oid
  <2>1. \A reason \in {"add/add", "modify/delete", "type", "mode", "binary", "content"} : Clash(reason).clash # "none"
    BY DEF Clash
  <2>2. MergeEntry(b, o, t) =
            IF b = Gone THEN Clash("add/add")
            ELSE IF Gone \in {o, t} THEN Clash("modify/delete")
            ELSE IF Kind(b) # Kind(o) \/ Kind(b) # Kind(t) THEN Clash("type")
            ELSE IF Kind(o) # "file" THEN Clash(Kind(o))
            ELSE MergeTexts(b, o, t)
    BY <1>3 DEF MergeEntry
  <2>3. b # Gone /\ o # Gone /\ t # Gone
    BY <1>3, <2>1, <2>2
  <2>4. /\ b.oid \in Contents /\ o.oid \in Contents /\ t.oid \in Contents
        /\ TextOf(b) = b.oid /\ TextOf(o) = o.oid /\ TextOf(t) = t.oid
        /\ Kind(b) = "file" /\ Kind(o) = "file" /\ Kind(t) = "file"
    BY <2>3 DEF Blobs, Kind, File, TextOf
  <2>5. MergeEntry(b, o, t) = MergeTexts(b, o, t)
    BY <2>2, <2>3, <2>4
  <2> DEFINE mode == MergedMode(b.mode, o.mode, t.mode)
             merged == MergeText(b.oid, o.oid, t.oid)
             kept == IF o # Gone THEN o.mode ELSE t.mode
  <2>6. Apply(b, o, t) = IF merged.conflicts > 0 THEN Clash("content") ELSE Settled(Entry(merged.text, kept))
    BY <1>3, <2>4 DEF Apply
  <2>7. MergeTexts(b, o, t) =
            CASE mode = Gone -> Clash("mode")
              [] mode # Gone /\ (o.oid = t.oid \/ t.oid = b.oid) -> Settled(Entry(o.oid, mode))
              [] mode # Gone /\ o.oid # t.oid /\ t.oid # b.oid /\ o.oid = b.oid -> Settled(Entry(t.oid, mode))
              [] OTHER -> IF {b.oid, o.oid, t.oid} \cap Binary # {} THEN Clash("binary")
                          ELSE IF merged.conflicts > 0 THEN Clash("content")
                          ELSE Settled(Entry(merged.text, mode))
    BY DEF MergeTexts
  <2> HIDE DEF mode, merged, kept
  <2>8. mode # Gone
    BY <1>3, <2>1, <2>5, <2>7
  <2>9. \A x, m : Settled(Entry(x, m)).clash = "none" /\ Settled(Entry(x, m)).entry.oid = x
    BY DEF Settled, Entry
  <2>10. CASE t.oid = b.oid
    <3>1. merged = [text |-> o.oid, conflicts |-> 0]
      BY <2>4, <2>10, OneSideChanged DEF merged
    <3>2. MergeTexts(b, o, t) = Settled(Entry(o.oid, mode))
      BY <2>7, <2>8, <2>10
    <3>3. Apply(b, o, t) = Settled(Entry(o.oid, kept))
      BY <2>6, <3>1
    <3> QED BY <2>5, <2>9, <3>2, <3>3
  <2>11. CASE t.oid # b.oid /\ o.oid = b.oid
    <3>1. merged = [text |-> t.oid, conflicts |-> 0]
      BY <2>4, <2>11, OneSideChanged DEF merged
    <3>2. MergeTexts(b, o, t) = Settled(Entry(t.oid, mode))
      BY <1>3, <2>7, <2>8, <2>11
    <3>3. Apply(b, o, t) = Settled(Entry(t.oid, kept))
      BY <2>6, <3>1
    <3> QED BY <2>5, <2>9, <3>2, <3>3
  <2>12. CASE t.oid # b.oid /\ o.oid # b.oid
    <3>1. MergeTexts(b, o, t) = IF {b.oid, o.oid, t.oid} \cap Binary # {} THEN Clash("binary")
                                ELSE IF merged.conflicts > 0 THEN Clash("content")
                                ELSE Settled(Entry(merged.text, mode))
      BY <1>3, <2>7, <2>8, <2>12
    <3>2. ~(merged.conflicts > 0) /\ MergeTexts(b, o, t) = Settled(Entry(merged.text, mode))
      BY <1>3, <2>1, <2>5, <3>1
    <3>3. Apply(b, o, t) = Settled(Entry(merged.text, kept))
      BY <2>6, <3>2
    <3> QED BY <2>5, <2>9, <3>2, <3>3
  <2> QED BY <2>10, <2>11, <2>12
<1> QED BY <1>1, <1>2, <1>3

\* read-tree -m, merge-tree and merge agree on every path of every three trees: what one of them
\* settles the others settle in the same way, and what merge-tree merges merge merges to the same
\* text, if the two sides have different texts (MergeEntry, Apply, Resolution).
THEOREM MergersAgree == Spec => []MergeWaysAgree
<1>1. ASSUME TypeOK PROVE MergeWaysAgree
  <2> SUFFICES ASSUME NEW p \in Paths
               PROVE  LET b == trees.base[p]  o == trees.ours[p]  t == trees.theirs[p]
                      IN  /\ Resolved(b, o, t, TRUE) => /\ MergeEntry(b, o, t) = Settled(Resolution(b, o, t))
                                                       /\ Apply(b, o, t) = Settled(Resolution(b, o, t))
                          /\ ~Resolved(b, o, t, TRUE) /\ MergeEntry(b, o, t).clash = "none" /\ o.oid # t.oid =>
                                 /\ Apply(b, o, t).clash = "none"
                                 /\ Apply(b, o, t).entry.oid = MergeEntry(b, o, t).entry.oid
    BY DEF MergeWaysAgree
  <2>1. /\ trees.base[p] \in Blobs \cup {Gone}
        /\ trees.ours[p] \in Blobs \cup {Gone}
        /\ trees.theirs[p] \in Blobs \cup {Gone}
    BY <1>1 DEF TypeOK, Tree
  <2> QED BY <2>1, EntriesAgree
<1> QED BY <1>1, TypeCorrect, PTL
-----------------------------------------------------------------------------
(***************************************************************************)
(* Texts: their lines, and what one has of another.                        *)
(***************************************************************************)
\* What holds of the empty text and, with a text, of one with a line more holds of all texts.
LEMMA TextByText ==
    ASSUME NEW L, NEW S, <<>> \in S, \A s \in Seq(L), x \in L : s \in S => s \o <<x>> \in S
    PROVE  \A s \in Seq(L) : s \in S
<1> SUFFICES ASSUME NEW s \in Seq(L) PROVE s \in S
  OBVIOUS
<1> DEFINE N == Len(s)
           T == {n \in 0..N : SubSeq(s, 1, n) \in S}
<1>1. N \in Nat /\ \A i \in 1..N : s[i] \in L
  BY LenProperties, ElementOfSeq
<1>2. 0 \in T
  <2>1. SubSeq(s, 1, 0) = <<>>
    BY SubSeqEmpty
  <2>2. 0 \in 0..N
    BY <1>1
  <2> QED BY <2>1, <2>2
<1>3. ASSUME NEW n \in 0..(N - 1), n \in T PROVE n + 1 \in T
  <2>1. n \in Nat /\ n + 1 \in 1..N /\ n + 1 \in 0..N /\ (n + 1) - 1 = n /\ s[n + 1] \in L
    BY <1>1
  <2>2. SubSeq(s, 1, n) \in Seq(L) /\ SubSeq(s, 1, n) \in S
    BY <1>1, <2>1, <1>3, SubSeqProperties
  <2>3. SubSeq(s, 1, n + 1) = SubSeq(s, 1, n) \o <<s[n + 1]>>
    BY <2>1, SubSeqRecursiveSecond
  <2>4. SubSeq(s, 1, n + 1) \in S
    BY <2>1, <2>2, <2>3
  <2> QED BY <2>1, <2>4
<1>4. N \in T
  <2>1. \A n \in 0..N : n \in T
    <3> HIDE DEF T, N
    <3> QED BY <1>1, <1>2, <1>3, UpTo
  <2> QED BY <1>1, <2>1
<1>5. SubSeq(s, 1, N) = s
  BY SubSeqFull
<1> QED BY <1>4, <1>5

TextsOf(s, t, u, L) == s \in Seq(L) /\ t \in Seq(L) /\ u \in Seq(L)

LEMMA Joined == ASSUME NEW L, NEW s, NEW t, NEW u, TextsOf(s, t, u, L) PROVE (s \o t) \o u = s \o (t \o u)
BY ConcatAssociative DEF TextsOf

LEMMA LinesOf ==
    ASSUME NEW L, NEW s \in Seq(L)
    PROVE  /\ Lines(s) \subseteq L
           /\ \A n \in 1..Len(s) : s[n] \in Lines(s)
           /\ \A x \in Lines(s) : \E n \in 1..Len(s) : s[n] = x
           /\ s \in Seq(Lines(s))
<1>1. Len(s) \in Nat /\ DOMAIN s = 1..Len(s) /\ s \in [1..Len(s) -> L]
  BY LenProperties
<1>2. \A n \in 1..Len(s) : s[n] \in L
  BY <1>1
<1>3. s \in Seq(Lines(s))
  BY <1>1 DEF Lines
<1> QED BY <1>1, <1>2, <1>3 DEF Lines

LEMMA LinesJoin ==
    ASSUME NEW L, NEW s \in Seq(L), NEW t \in Seq(L)
    PROVE  Lines(s \o t) = Lines(s) \cup Lines(t) /\ s \o t \in Seq(L)
<1>1. /\ s \o t \in Seq(L)
      /\ Len(s \o t) = Len(s) + Len(t)
      /\ \A i \in 1 .. Len(s) + Len(t) : (s \o t)[i] = IF i <= Len(s) THEN s[i] ELSE t[i - Len(s)]
  BY ConcatProperties
<1>2. Len(s) \in Nat /\ Len(t) \in Nat
  BY LenProperties
<1>3. ASSUME NEW x \in Lines(s \o t) PROVE x \in Lines(s) \cup Lines(t)
  <2>1. PICK n \in 1..(Len(s) + Len(t)) : (s \o t)[n] = x
    BY <1>1, LinesOf
  <2>2. CASE n <= Len(s)
    BY <1>1, <1>2, <2>1, <2>2, LinesOf
  <2>3. CASE ~(n <= Len(s))
    BY <1>2, <2>3, <1>1, <2>1, LinesOf
  <2> QED BY <2>2, <2>3
<1>4. ASSUME NEW x \in Lines(s) PROVE x \in Lines(s \o t)
  <2>1. PICK n \in 1..Len(s) : s[n] = x
    BY LinesOf
  <2>2. n \in 1..(Len(s) + Len(t)) /\ n <= Len(s)
    BY <1>2
  <2>3. n \in 1..Len(s \o t) /\ (s \o t)[n] = x
    BY <1>1, <2>1, <2>2
  <2> QED BY <1>1, <2>3, LinesOf
<1>5. ASSUME NEW x \in Lines(t) PROVE x \in Lines(s \o t)
  <2>1. PICK n \in 1..Len(t) : t[n] = x
    BY LinesOf
  <2>2. n + Len(s) \in 1..(Len(s) + Len(t)) /\ ~(n + Len(s) <= Len(s)) /\ (n + Len(s)) - Len(s) = n
    BY <1>2
  <2>3. n + Len(s) \in 1..Len(s \o t) /\ (s \o t)[n + Len(s)] = x
    BY <1>1, <2>1, <2>2
  <2> QED BY <1>1, <2>3, LinesOf
<1> QED BY <1>1, <1>3, <1>4, <1>5

LEMMA NoLines == Lines(<<>>) = {} /\ \A x : Lines(<<x>>) = {x}
BY DEF Lines

\* A slice of a text.
LEMMA SliceIs ==
    ASSUME NEW L, NEW u \in Seq(L), NEW i \in Nat, NEW j \in 0..Len(u)
    PROVE  /\ Slice(u, i, j) \in Seq(L)
           /\ \A x \in Lines(Slice(u, i, j)) : \E n \in (i + 1)..j : n \in 1..Len(u) /\ u[n] = x
           /\ \A n \in (i + 1)..j : u[n] \in Lines(Slice(u, i, j))
           /\ Lines(Slice(u, i, j)) \subseteq Lines(u)
<1>1. Len(u) \in Nat /\ \A n \in 1..Len(u) : u[n] \in L
  BY LenProperties, ElementOfSeq
<1>2. \A n \in (i + 1)..j : n \in 1..Len(u) /\ u[n] \in L
  BY <1>1
<1>3. i + 1 \in Int /\ j \in Int
  BY <1>1
<1> DEFINE s == Slice(u, i, j)
<1>4. /\ s \in Seq(L)
      /\ Len(s) = IF i + 1 <= j THEN j - (i + 1) + 1 ELSE 0
      /\ \A n \in 1..(j - (i + 1) + 1) : s[n] = u[(i + 1) + n - 1]
  BY <1>2, <1>3, SubSeqProperties DEF Slice
<1> HIDE DEF s
<1>5. ASSUME NEW x \in Lines(s) PROVE \E n \in (i + 1)..j : n \in 1..Len(u) /\ u[n] = x
  <2>1. PICK n \in 1..Len(s) : s[n] = x
    BY <1>4, LinesOf
  <2>2. n \in 1..(j - (i + 1) + 1) /\ (i + 1) + n - 1 \in (i + 1)..j
    BY <1>1, <1>4
  <2> QED BY <1>2, <1>4, <2>1, <2>2
<1>6. ASSUME NEW n \in (i + 1)..j PROVE u[n] \in Lines(s)
  <2>1. n - i \in 1..Len(s) /\ n - i \in 1..(j - (i + 1) + 1) /\ (i + 1) + (n - i) - 1 = n
    BY <1>1, <1>4
  <2>2. s[n - i] = u[n]
    BY <1>4, <2>1
  <2> QED BY <1>4, <2>1, <2>2, LinesOf
<1>7. Lines(s) \subseteq Lines(u)
  BY <1>5, LinesOf
<1> QED BY <1>4, <1>5, <1>6, <1>7 DEF s

LEMMA SlicesJoin ==
    ASSUME NEW L, NEW u \in Seq(L), NEW i \in Nat, NEW j \in i..Len(u), NEW k \in j..Len(u)
    PROVE  Slice(u, i, j) \o Slice(u, j, k) = Slice(u, i, k)
BY LenProperties, ConcatAdjacentSubSeq DEF Slice

LEMMA NoSlice == ASSUME NEW u, NEW i \in Nat PROVE Slice(u, i, i) = <<>>
BY SubSeqEmpty DEF Slice

\* t has the lines of s in their order.
Embeds(s, t) == \E f \in [1..Len(s) -> 1..Len(t)] :
                   /\ \A i, j \in 1..Len(s) : i < j => f[i] < f[j]
                   /\ \A i \in 1..Len(s) : t[f[i]] = s[i]

LEMMA EmbedsItself == ASSUME NEW L, NEW s \in Seq(L) PROVE Embeds(s, s)
<1>1. Len(s) \in Nat
  BY LenProperties
<1> DEFINE f == [i \in 1..Len(s) |-> i]
<1>2. f \in [1..Len(s) -> 1..Len(s)] /\ \A i \in 1..Len(s) : f[i] = i
  OBVIOUS
<1> HIDE DEF f
<1> QED BY <1>1, <1>2 DEF Embeds

LEMMA EmptyEmbeds == ASSUME NEW t PROVE Embeds(<<>>, t)
<1> DEFINE f == [i \in 1..Len(<<>>) |-> i]
<1>1. Len(<<>>) = 0 /\ 1..0 = {}
  OBVIOUS
<1>2. f \in [1..Len(<<>>) -> 1..Len(t)]
  BY <1>1
<1> HIDE DEF f
<1> QED BY <1>1, <1>2 DEF Embeds

LEMMA EmbedsJoin ==
    ASSUME NEW L, NEW s \in Seq(L), NEW t \in Seq(L), NEW p \in Seq(L), NEW q \in Seq(L),
           Embeds(s, t), Embeds(p, q)
    PROVE  Embeds(s \o p, t \o q)
<1>1. PICK f \in [1..Len(s) -> 1..Len(t)] : /\ \A i, j \in 1..Len(s) : i < j => f[i] < f[j]
                                            /\ \A i \in 1..Len(s) : t[f[i]] = s[i]
  BY DEF Embeds
<1>2. PICK g \in [1..Len(p) -> 1..Len(q)] : /\ \A i, j \in 1..Len(p) : i < j => g[i] < g[j]
                                            /\ \A i \in 1..Len(p) : q[g[i]] = p[i]
  BY DEF Embeds
<1>3. /\ Len(s \o p) = Len(s) + Len(p)
      /\ \A i \in 1 .. Len(s) + Len(p) : (s \o p)[i] = IF i <= Len(s) THEN s[i] ELSE p[i - Len(s)]
      /\ Len(t \o q) = Len(t) + Len(q)
      /\ \A i \in 1 .. Len(t) + Len(q) : (t \o q)[i] = IF i <= Len(t) THEN t[i] ELSE q[i - Len(t)]
  BY ConcatProperties
<1>4. Len(s) \in Nat /\ Len(t) \in Nat /\ Len(p) \in Nat /\ Len(q) \in Nat
  BY LenProperties
<1> DEFINE a == Len(s)
           b == Len(t)
           c == Len(p)
           d == Len(q)
<1>5. a \in Nat /\ b \in Nat /\ c \in Nat /\ d \in Nat
  BY <1>4
<1> DEFINE h == [i \in 1..(a + c) |-> IF i <= a THEN f[i] ELSE b + g[i - a]]
<1>6. \A i \in 1..(a + c) : /\ i <= a => i \in 1..a /\ f[i] \in 1..b
                            /\ ~(i <= a) => i - a \in 1..c /\ g[i - a] \in 1..d
  <2>1. ASSUME NEW i \in 1..(a + c), i <= a PROVE i \in 1..a /\ f[i] \in 1..b
    <3> HIDE DEF a, b, c, d, h
    <3>1. i \in 1..a
      BY <1>5, <2>1
    <3> QED BY <3>1 DEF a, b
  <2>2. ASSUME NEW i \in 1..(a + c), ~(i <= a) PROVE i - a \in 1..c /\ g[i - a] \in 1..d
    <3> HIDE DEF a, b, c, d, h
    <3>1. i - a \in 1..c
      BY <1>5, <2>2
    <3> QED BY <3>1 DEF c, d
  <2> QED BY <2>1, <2>2
<1>7. /\ h \in [1..(a + c) -> 1..(b + d)]
      /\ \A i \in 1..(a + c) : h[i] = IF i <= a THEN f[i] ELSE b + g[i - a]
  <2> HIDE DEF a, b, c, d
  <2> QED BY <1>5, <1>6
<1> HIDE DEF h
<1>8. ASSUME NEW i \in 1..(a + c), NEW j \in 1..(a + c), i < j PROVE h[i] < h[j]
  <2>1. CASE j <= a
    BY <1>5, <1>8, <2>1, <1>6, <1>7, <1>1
  <2>2. CASE i <= a /\ ~(j <= a)
    BY <1>6, <1>7, <2>2, <1>5
  <2>3. CASE ~(i <= a)
    <3>1. ~(j <= a)
      BY <1>5, <1>8, <2>3
    <3>2. h[i] = b + g[i - a] /\ h[j] = b + g[j - a] /\ i - a \in 1..c /\ j - a \in 1..c
      BY <1>6, <1>7, <2>3, <3>1
    <3>3. i - a < j - a /\ g[i - a] \in 1..d /\ g[j - a] \in 1..d
      BY <1>5, <1>6, <1>8, <2>3, <3>1
    <3>4. g[i - a] < g[j - a]
      BY <1>2, <3>2, <3>3
    <3> QED BY <1>5, <3>2, <3>3, <3>4
  <2> QED BY <2>1, <2>2, <2>3
<1>9. ASSUME NEW i \in 1..(a + c) PROVE (t \o q)[h[i]] = (s \o p)[i]
  <2>1. CASE i <= a
    BY <1>6, <1>7, <2>1, <1>5, <1>3, <1>1
  <2>2. CASE ~(i <= a)
    <3>1. h[i] = b + g[i - a] /\ i - a \in 1..c /\ g[i - a] \in 1..d
      BY <1>6, <1>7, <2>2
    <3>2. b + g[i - a] \in 1..(b + d) /\ ~(b + g[i - a] <= b) /\ (b + g[i - a]) - b = g[i - a]
      BY <1>5, <3>1
    <3>3. (t \o q)[b + g[i - a]] = q[g[i - a]] /\ (s \o p)[i] = p[i - a]
      BY <1>3, <2>2, <3>2
    <3> QED BY <1>2, <3>1, <3>3
  <2> QED BY <2>1, <2>2
<1> QED BY <1>3, <1>7, <1>8, <1>9 DEF Embeds
-----------------------------------------------------------------------------
(***************************************************************************)
(* A text read line by line: Survivors, Within and Pick.                   *)
(***************************************************************************)
\* A recursion over the numbers up to a bound has one solution.
Follows(g, X, N, a, h) == g[0] = a /\ \A n \in 1..N : g[n - 1] \in X => g[n] = h[n][g[n - 1]]

LEMMA Solved ==
    ASSUME NEW X, NEW a, NEW N \in Nat, NEW h, NEW f, Chain(f, X, N, a, h), NEW g, Follows(g, X, N, a, h)
    PROVE  \A n \in 0..N : g[n] = f[n]
<1> DEFINE T == {n \in 0..N : g[n] = f[n]}
<1>1. 0 \in T
  BY DEF Chain, Follows
<1>2. ASSUME NEW n \in 0..(N - 1), n \in T PROVE n + 1 \in T
  BY <1>2 DEF Chain, Follows
<1>3. \A n \in 0..N : n \in T
  <2> HIDE DEF T
  <2> QED BY <1>1, <1>2, UpTo
<1> QED BY <1>3

\* What each line of a text makes of what has been read.
Reading(h, X, L, s) == [n \in 1..Len(s) |-> [r \in X |-> h[r][s[n]]]]

ReadAll(f, h, X, L, a, s) ==
    /\ a \in X /\ h \in [X -> [L -> X]] /\ s \in Seq(L)
    /\ Chain(f, X, Len(s), a, Reading(h, X, L, s))

LEMMA ReadingExists ==
    ASSUME NEW X, NEW L, NEW a \in X, NEW h \in [X -> [L -> X]], NEW s \in Seq(L)
    PROVE  \E f : ReadAll(f, h, X, L, a, s)
<1>1. Len(s) \in Nat /\ \A n \in 1..Len(s) : s[n] \in L
  BY LenProperties, ElementOfSeq
<1>2. ASSUME NEW n \in 1..Len(s), NEW r \in X PROVE h[r][s[n]] \in X
  BY <1>1
<1>3. Reading(h, X, L, s) \in Steps(X, Len(s))
  BY <1>2 DEF Reading, Steps
<1>4. \E f : Chain(f, X, Len(s), a, Reading(h, X, L, s))
  BY <1>1, <1>3, Iterated
<1> QED BY <1>3, <1>4 DEF ReadAll

\* The first lines are read in the same way, whatever follows.
LEMMA ReadNext ==
    ASSUME NEW X, NEW L, NEW a, NEW h, NEW s, NEW x,
           NEW f, ReadAll(f, h, X, L, a, s), NEW g, ReadAll(g, h, X, L, a, s \o <<x>>)
    PROVE  g[Len(s \o <<x>>)] = h[f[Len(s)]][x]
<1>0. /\ a \in X /\ h \in [X -> [L -> X]] /\ s \in Seq(L) /\ s \o <<x>> \in Seq(L)
  BY DEF ReadAll
<1> DEFINE N == Len(s)
           t == s \o <<x>>
<1>1. N \in Nat
  BY <1>0, LenProperties
<1>2. Len(t) = N + 1 /\ (\A n \in 1..N : t[n] = s[n]) /\ t[N + 1] = x
  <2>1. <<x>> \in Seq(L \cup {x}) /\ Len(<<x>>) = 1 /\ <<x>>[1] = x /\ s \in Seq(L \cup {x})
    BY <1>0, SeqMonotonic
  <2>2. /\ Len(t) = N + 1
        /\ \A i \in 1 .. N + 1 : t[i] = IF i <= N THEN s[i] ELSE <<x>>[i - N]
    BY <2>1, ConcatProperties
  <2>3. \A n \in 1..N : n \in 1..(N + 1) /\ n <= N
    BY <1>1
  <2>4. N + 1 \in 1..(N + 1) /\ ~(N + 1 <= N) /\ (N + 1) - N = 1
    BY <1>1
  <2> HIDE DEF t
  <2> QED BY <2>1, <2>2, <2>3, <2>4
<1> HIDE DEF N, t
<1>3. /\ f \in [0..N -> X] /\ f[0] = a
      /\ \A n \in 1..N : f[n] = Reading(h, X, L, s)[n][f[n - 1]]
  BY DEF ReadAll, Chain, N
<1>4. /\ g \in [0..(N + 1) -> X] /\ g[0] = a
      /\ \A n \in 1..(N + 1) : g[n] = Reading(h, X, L, t)[n][g[n - 1]]
  BY <1>2 DEF ReadAll, Chain, t
<1>5. \A n \in 1..(N + 1) : g[n - 1] \in X /\ g[n] = h[g[n - 1]][t[n]]
  <2> SUFFICES ASSUME NEW n \in 1..(N + 1) PROVE g[n - 1] \in X /\ g[n] = h[g[n - 1]][t[n]]
    OBVIOUS
  <2>1. n - 1 \in 0..(N + 1)
    BY <1>1
  <2>2. g[n - 1] \in X
    BY <1>4, <2>1
  <2>3. Reading(h, X, L, t)[n][g[n - 1]] = h[g[n - 1]][t[n]]
    BY <1>2, <2>2 DEF Reading
  <2> QED BY <1>4, <2>2, <2>3
<1>6. \A n \in 0..N : g[n] = f[n]
  <2>1. \A n \in 1..N : g[n - 1] \in X => g[n] = Reading(h, X, L, s)[n][g[n - 1]]
    BY <1>1, <1>2, <1>5 DEF Reading, N
  <2>2. Follows(g, X, N, a, Reading(h, X, L, s))
    BY <1>4, <2>1 DEF Follows
  <2>3. Chain(f, X, N, a, Reading(h, X, L, s))
    BY DEF ReadAll, N
  <2> QED BY <1>1, <2>2, <2>3, Solved
<1>7. N + 1 \in 1..(N + 1) /\ (N + 1) - 1 = N /\ N \in 0..N
  BY <1>1
<1>8. g[N + 1] = h[g[N]][t[N + 1]] /\ g[N] = f[N]
  BY <1>5, <1>6, <1>7
<1> QED BY <1>2, <1>8 DEF N, t

\* What an operator defined by that recursion is: g is the function it is defined with.
ReadsBy(g, h, X, a, s) == g[0] = a /\ \A n \in 1..Len(s) : g[n - 1] \in X => g[n] = h[g[n - 1]][s[n]]

LEMMA ReadIs ==
    ASSUME NEW X, NEW L, NEW a, NEW h, NEW s, NEW f, ReadAll(f, h, X, L, a, s), NEW g, ReadsBy(g, h, X, a, s)
    PROVE  g[Len(s)] = f[Len(s)]
<1> DEFINE N == Len(s)
           H == Reading(h, X, L, s)
<1>1. N \in Nat /\ Chain(f, X, N, a, H)
  BY LenProperties DEF ReadAll
<1>2. \A n \in 1..N : g[n - 1] \in X => g[n] = H[n][g[n - 1]]
  BY DEF Reading, ReadsBy
<1>3. Follows(g, X, N, a, H)
  BY <1>2 DEF Follows, ReadsBy
<1> HIDE DEF N, H
<1>4. \A n \in 0..N : g[n] = f[n]
  BY <1>1, <1>3, Solved
<1> QED BY <1>1, <1>4 DEF N

LEMMA ReadSteps ==
    ASSUME NEW X, NEW L, NEW a, NEW h, NEW s, NEW f, ReadAll(f, h, X, L, a, s)
    PROVE  /\ f \in [0..Len(s) -> X] /\ f[0] = a
           /\ \A n \in 1..Len(s) : f[n] = h[f[n - 1]][s[n]]
<1>1. Len(s) \in Nat
  BY LenProperties DEF ReadAll
<1>2. f \in [0..Len(s) -> X] /\ f[0] = a /\ \A n \in 1..Len(s) : f[n] = Reading(h, X, L, s)[n][f[n - 1]]
  BY DEF ReadAll, Chain
<1>3. ASSUME NEW n \in 1..Len(s) PROVE f[n] = h[f[n - 1]][s[n]]
  <2>1. n - 1 \in 0..Len(s)
    BY <1>1
  <2>2. f[n - 1] \in X
    BY <1>2, <2>1
  <2>3. Reading(h, X, L, s)[n][f[n - 1]] = h[f[n - 1]][s[n]]
    BY <2>2 DEF Reading
  <2> QED BY <1>2, <2>3
<1> QED BY <1>2, <1>3

-----------------------------------------------------------------------------
\* Survivors
Surviving(gone, L) == [r \in Seq(L) |-> [x \in L |-> IF x \in gone THEN r ELSE Append(r, x)]]

LEMMA SurvivingIs ==
    ASSUME NEW gone, NEW L
    PROVE  /\ Surviving(gone, L) \in [Seq(L) -> [L -> Seq(L)]]
           /\ \A r \in Seq(L), x \in L : Surviving(gone, L)[r][x] = IF x \in gone THEN r ELSE Append(r, x)
<1>1. \A r \in Seq(L), x \in L : (IF x \in gone THEN r ELSE Append(r, x)) \in Seq(L)
  BY AppendProperties
<1>2. Surviving(gone, L) \in [Seq(L) -> [L -> Seq(L)]]
  BY <1>1 DEF Surviving
<1>3. ASSUME NEW r \in Seq(L), NEW x \in L PROVE Surviving(gone, L)[r][x] = IF x \in gone THEN r ELSE Append(r, x)
  BY DEF Surviving
<1> QED BY <1>2, <1>3

LEMMA SurvivorsAre ==
    ASSUME NEW gone, NEW L, NEW s \in Seq(L), NEW f, ReadAll(f, Surviving(gone, L), Seq(L), L, <<>>, s)
    PROVE  Survivors(s, gone) = f[Len(s)] /\ f[Len(s)] \in Seq(L)
<1> DEFINE N == Len(s)
           Def(g) == g = [n \in 0..N |-> IF n = 0 THEN <<>> ELSE IF s[n] \in gone THEN g[n - 1]
                                         ELSE Append(g[n - 1], s[n])]
           g == CHOOSE g : Def(g)
<1>1. N \in Nat /\ \A n \in 1..N : s[n] \in L
  BY LenProperties, ElementOfSeq
<1>2. /\ <<>> \in Seq(L)
      /\ Surviving(gone, L) \in [Seq(L) -> [L -> Seq(L)]]
      /\ \A r \in Seq(L), x \in L : Surviving(gone, L)[r][x] = IF x \in gone THEN r ELSE Append(r, x)
  BY EmptySeq, SurvivingIs
<1>3. /\ f \in [0..N -> Seq(L)] /\ f[0] = <<>>
      /\ \A n \in 1..N : f[n] = Surviving(gone, L)[f[n - 1]][s[n]]
  BY ReadSteps
<1>4. \A n \in 1..N : f[n] = IF s[n] \in gone THEN f[n - 1] ELSE Append(f[n - 1], s[n])
  <2> SUFFICES ASSUME NEW n \in 1..N PROVE f[n] = IF s[n] \in gone THEN f[n - 1] ELSE Append(f[n - 1], s[n])
    OBVIOUS
  <2>1. n - 1 \in 0..N
    BY <1>1
  <2>2. f[n - 1] \in Seq(L) /\ s[n] \in L
    BY <1>1, <1>3, <2>1
  <2> QED BY <1>2, <1>3, <2>2
<1>5. Def(f)
  <2> DEFINE e(n) == IF s[n] \in gone THEN f[n - 1] ELSE Append(f[n - 1], s[n])
  <2>0. \A n \in 1..N : f[n] = e(n)
    BY <1>4
  <2>1. \A n \in 0..N : f[n] = IF n = 0 THEN <<>> ELSE e(n)
    <3> HIDE DEF e
    <3> QED BY <1>1, <1>3, <2>0
  <2>2. f = [n \in 0..N |-> f[n]]
    BY <1>3
  <2> HIDE DEF e, N
  <2>3. f = [n \in 0..N |-> IF n = 0 THEN <<>> ELSE e(n)]
    BY <2>1, <2>2
  <2> QED BY <2>3 DEF e
<1>6. Def(g)
  <2> HIDE DEF Def
  <2> QED BY <1>5
<1>7. Survivors(s, gone) = g[N]
  BY DEF Survivors
<1> HIDE DEF g
<1>8. \A n \in 0..N : g[n] = IF n = 0 THEN <<>> ELSE IF s[n] \in gone THEN g[n - 1] ELSE Append(g[n - 1], s[n])
  <2> DEFINE e(n) == IF s[n] \in gone THEN g[n - 1] ELSE Append(g[n - 1], s[n])
  <2>1. g = [n \in 0..N |-> IF n = 0 THEN <<>> ELSE e(n)]
    BY <1>6
  <2> HIDE DEF Def, e, N
  <2>2. \A n \in 0..N : g[n] = IF n = 0 THEN <<>> ELSE e(n)
    BY <2>1
  <2> QED BY <2>2 DEF e
<1>9. g[0] = <<>> /\ \A n \in 1..N : g[n - 1] \in Seq(L) => g[n] = Surviving(gone, L)[g[n - 1]][s[n]]
  <2>1. g[0] = <<>>
    BY <1>1, <1>8
  <2>2. ASSUME NEW n \in 1..N, g[n - 1] \in Seq(L) PROVE g[n] = Surviving(gone, L)[g[n - 1]][s[n]]
    <3>1. n \in 0..N /\ n # 0 /\ s[n] \in L
      BY <1>1
    <3> QED BY <1>2, <1>8, <2>2, <3>1
  <2> QED BY <2>1, <2>2
<1>10. g[N] = f[N]
  BY <1>9, ReadIs DEF ReadsBy
<1> QED BY <1>1, <1>3, <1>7, <1>10

LEMMA SurvivorsNext ==
    ASSUME NEW gone, NEW L, NEW s \in Seq(L), NEW x \in L
    PROVE  /\ Survivors(s, gone) \in Seq(L)
           /\ Survivors(s \o <<x>>, gone) = IF x \in gone THEN Survivors(s, gone) ELSE Survivors(s, gone) \o <<x>>
<1> DEFINE h == Surviving(gone, L)
<1>1. /\ <<>> \in Seq(L) /\ h \in [Seq(L) -> [L -> Seq(L)]]
      /\ \A r \in Seq(L), y \in L : h[r][y] = IF y \in gone THEN r ELSE Append(r, y)
  BY EmptySeq, SurvivingIs
<1>2. s \o <<x>> \in Seq(L)
  BY ConcatProperties
<1>3. PICK f : ReadAll(f, h, Seq(L), L, <<>>, s)
  <2> HIDE DEF h
  <2> QED BY <1>1, ReadingExists
<1>4. PICK g : ReadAll(g, h, Seq(L), L, <<>>, s \o <<x>>)
  <2> HIDE DEF h
  <2> QED BY <1>1, <1>2, ReadingExists
<1>5. Survivors(s, gone) = f[Len(s)] /\ f[Len(s)] \in Seq(L)
  BY <1>3, SurvivorsAre
<1>6. Survivors(s \o <<x>>, gone) = g[Len(s \o <<x>>)]
  BY <1>2, <1>4, SurvivorsAre
<1>7. g[Len(s \o <<x>>)] = h[f[Len(s)]][x]
  <2> HIDE DEF h
  <2> QED BY <1>3, <1>4, ReadNext
<1>8. Append(f[Len(s)], x) = f[Len(s)] \o <<x>>
  BY <1>5, AppendIsConcat
<1> HIDE DEF h
<1> QED BY <1>1, <1>5, <1>6, <1>7, <1>8

LEMMA NoSurvivors == ASSUME NEW gone PROVE Survivors(<<>>, gone) = <<>>
<1>1. <<>> \in Seq({}) /\ Len(<<>>) = 0
  BY EmptySeq
<1>2. Surviving(gone, {}) \in [Seq({}) -> [{} -> Seq({})]]
  BY SurvivingIs
<1>3. PICK f : ReadAll(f, Surviving(gone, {}), Seq({}), {}, <<>>, <<>>)
  BY <1>1, <1>2, ReadingExists
<1>4. f[0] = <<>>
  BY <1>3, ReadSteps
<1>5. Survivors(<<>>, gone) = f[Len(<<>>)]
  BY <1>1, <1>3, SurvivorsAre
<1> QED BY <1>1, <1>4, <1>5

LEMMA SurvivorsStep ==
    ASSUME NEW gone, NEW L, NEW q \in Seq(L), NEW p \in Seq(L), NEW x \in L,
           Survivors(q, gone) \in Seq(L), Survivors(p, gone) \in Seq(L),
           Survivors(q \o p, gone) = Survivors(q, gone) \o Survivors(p, gone)
    PROVE  Survivors(q \o (p \o <<x>>), gone) = Survivors(q, gone) \o Survivors(p \o <<x>>, gone)
<1> DEFINE r == q \o p
           y == Survivors(q, gone)
           z == Survivors(p, gone)
           w == <<x>>
<1>1. r \in Seq(L) /\ w \in Seq(L)
  BY ConcatProperties
<1>2. q \o (p \o w) = r \o w
  <2>1. TextsOf(q, p, w, L)
    BY <1>1 DEF TextsOf
  <2> HIDE DEF w
  <2>2. (q \o p) \o w = q \o (p \o w)
    BY <2>1, Joined
  <2> QED BY <2>2
<1>0. x \in L
  OBVIOUS
<1>3. Survivors(r \o <<x>>, gone) = IF x \in gone THEN Survivors(r, gone) ELSE Survivors(r, gone) \o <<x>>
  <2>1. r \in Seq(L)
    BY <1>1
  <2> HIDE DEF r
  <2> QED BY ONLY <2>1, <1>0, SurvivorsNext, SMTT(30)
<1>4. Survivors(p \o <<x>>, gone) = IF x \in gone THEN z ELSE z \o w
  BY SurvivorsNext
<1>5. Survivors(r, gone) = y \o z /\ y \in Seq(L) /\ z \in Seq(L)
  OBVIOUS
<1>8. TextsOf(y, z, w, L)
  BY <1>1, <1>5 DEF TextsOf
<1> HIDE DEF y, z, w, r
<1>6. (y \o z) \o w = y \o (z \o w)
  BY ONLY <1>8, Joined
<1>7. Survivors(r \o w, gone) = y \o Survivors(p \o w, gone)
  BY <1>3, <1>5, <1>4, <1>6 DEF w
<1> QED BY <1>2, <1>7 DEF y, w

\* The survivors of two texts one after the other.
LEMMA SurvivorsJoin ==
    ASSUME NEW gone, NEW L, NEW s \in Seq(L), NEW t \in Seq(L)
    PROVE  /\ Survivors(s, gone) \in Seq(L)
           /\ Survivors(s \o t, gone) = Survivors(s, gone) \o Survivors(t, gone)
<1> DEFINE S == {p \in Seq(L) : /\ Survivors(p, gone) \in Seq(L)
                                /\ \A q \in Seq(L) : Survivors(q, gone) \in Seq(L) =>
                                      Survivors(q \o p, gone) = Survivors(q, gone) \o Survivors(p, gone)}
<1>1. <<>> \in S
  <2>1. <<>> \in Seq(L) /\ Survivors(<<>>, gone) = <<>>
    BY EmptySeq, NoSurvivors
  <2>2. ASSUME NEW q \in Seq(L), Survivors(q, gone) \in Seq(L)
        PROVE  Survivors(q \o <<>>, gone) = Survivors(q, gone) \o Survivors(<<>>, gone)
    BY <2>2, ConcatEmptySeq, <2>1
  <2> QED BY <2>1, <2>2
<1>2. ASSUME NEW p \in Seq(L), NEW x \in L, p \in S PROVE p \o <<x>> \in S
  <2>1. <<x>> \in Seq(L)
    OBVIOUS
  <2>2. p \o <<x>> \in Seq(L)
    BY <2>1, ConcatProperties
  <2>3. /\ Survivors(p, gone) \in Seq(L)
        /\ Survivors(p \o <<x>>, gone) = IF x \in gone THEN Survivors(p, gone) ELSE Survivors(p, gone) \o <<x>>
    BY SurvivorsNext
  <2>4. Survivors(p \o <<x>>, gone) \in Seq(L)
    BY <2>1, <2>3, ConcatProperties
  <2>5. ASSUME NEW q \in Seq(L), Survivors(q, gone) \in Seq(L)
        PROVE  Survivors(q \o (p \o <<x>>), gone) = Survivors(q, gone) \o Survivors(p \o <<x>>, gone)
    <3>1. Survivors(q \o p, gone) = Survivors(q, gone) \o Survivors(p, gone)
      BY <1>2, <2>5
    <3>2. q \in Seq(L) /\ p \in Seq(L) /\ x \in L /\ Survivors(q, gone) \in Seq(L) /\ Survivors(p, gone) \in Seq(L)
      BY <2>3, <2>5
    <3> QED BY ONLY <3>1, <3>2, SurvivorsStep
  <2> QED BY <2>2, <2>4, <2>5
<1>3. \A p \in Seq(L) : p \in S
  <2> HIDE DEF S
  <2> QED BY <1>1, <1>2, TextByText
<1>4. s \in S /\ t \in S
  BY <1>3
<1> QED BY <1>4

\* The survivors are in the text, in its order; and of a text that is gone there are none.
LEMMA SurvivorsEmbed ==
    ASSUME NEW gone, NEW L, NEW s \in Seq(L)
    PROVE  /\ Embeds(Survivors(s, gone), s)
           /\ Lines(s) \subseteq gone => Survivors(s, gone) = <<>>
<1> DEFINE S == {p \in Seq(L) : /\ Embeds(Survivors(p, gone), p)
                                /\ Lines(p) \subseteq gone => Survivors(p, gone) = <<>>}
<1>1. <<>> \in S
  BY EmptySeq, NoSurvivors, EmptyEmbeds
<1>2. ASSUME NEW p \in Seq(L), NEW x \in L, p \in S PROVE p \o <<x>> \in S
  <2> DEFINE w == <<x>>
  <2>1. w \in Seq(L) /\ Embeds(<<>>, w) /\ <<>> \in Seq(L)
    BY EmptySeq, EmptyEmbeds
  <2>2. Embeds(w, w)
    BY <2>1, EmbedsItself
  <2>3. Lines(w) = {x}
    BY NoLines
  <2>4. /\ Survivors(p, gone) \in Seq(L)
        /\ Survivors(p \o w, gone) = IF x \in gone THEN Survivors(p, gone) ELSE Survivors(p, gone) \o w
    BY SurvivorsNext
  <2> HIDE DEF w
  <2>5. p \o w \in Seq(L) /\ Lines(p \o w) = Lines(p) \cup {x}
    BY <2>1, <2>3, LinesJoin
  <2>6. Embeds(Survivors(p \o w, gone), p \o w)
    <3>1. Embeds(Survivors(p, gone) \o w, p \o w)
      BY <1>2, <2>1, <2>2, <2>4, EmbedsJoin
    <3>2. Embeds(Survivors(p, gone) \o <<>>, p \o w)
      BY <1>2, <2>1, <2>4, EmbedsJoin
    <3>3. Survivors(p, gone) \o <<>> = Survivors(p, gone)
      BY <2>4, ConcatEmptySeq
    <3> QED BY <2>4, <3>1, <3>2, <3>3
  <2>7. ASSUME Lines(p \o w) \subseteq gone PROVE Survivors(p \o w, gone) = <<>>
    BY <1>2, <2>4, <2>5, <2>7
  <2>8. p \o w \in S
    BY <2>5, <2>6, <2>7
  <2> QED BY <2>8 DEF w
<1>3. \A p \in Seq(L) : p \in S
  <2> HIDE DEF S
  <2> QED BY <1>1, <1>2, TextByText
<1> QED BY <1>3
-----------------------------------------------------------------------------
\* Within
Aligning(s, L) == [i \in 0..Len(s) |-> [x \in L |-> IF i < Len(s) /\ s[i + 1] = x THEN i + 1 ELSE i]]

\* A text that is in another, line by line, is found there.
LEMMA EmbedsWithin ==
    ASSUME NEW L, NEW s \in Seq(L), NEW t \in Seq(L), Embeds(s, t)
    PROVE  Within(s, t)
<1> DEFINE m == Len(s)
           N == Len(t)
           X == 0..m
           h == Aligning(s, L)
           Next1(i, x) == IF i < m /\ s[i + 1] = x THEN i + 1 ELSE i
<1>1. m \in Nat /\ N \in Nat /\ (\A n \in 1..N : t[n] \in L) /\ 0 \in X
  BY LenProperties, ElementOfSeq
<1>2. h \in [X -> [L -> X]] /\ \A i \in X, x \in L : h[i][x] = Next1(i, x)
  BY <1>1 DEF Aligning
<1>3. PICK f : ReadAll(f, h, X, L, 0, t)
  <2> HIDE DEF h, X, Next1
  <2> QED BY <1>1, <1>2, ReadingExists
<1>4. /\ f \in [0..N -> X] /\ f[0] = 0
      /\ \A n \in 1..N : f[n] = h[f[n - 1]][t[n]]
  <2> HIDE DEF h, X, Next1
  <2> QED BY <1>3, ReadSteps
<1>5. \A n \in 1..N : f[n - 1] \in X /\ f[n] = Next1(f[n - 1], t[n])
  <2> SUFFICES ASSUME NEW n \in 1..N PROVE f[n - 1] \in X /\ f[n] = Next1(f[n - 1], t[n])
    OBVIOUS
  <2>1. n - 1 \in 0..N
    BY <1>1
  <2> HIDE DEF h, X, Next1
  <2>2. f[n - 1] \in X /\ t[n] \in L
    BY <1>1, <1>4, <2>1
  <2> QED BY <1>2, <1>4, <2>2
<1> DEFINE Def(g) == g = [n \in 0..N |-> IF n = 0 THEN 0
                                         ELSE LET i == g[n - 1] IN IF i < m /\ s[i + 1] = t[n] THEN i + 1 ELSE i]
           g == CHOOSE g : Def(g)
<1>6. Def(f)
  <2> DEFINE e(n) == LET i == f[n - 1] IN IF i < m /\ s[i + 1] = t[n] THEN i + 1 ELSE i
  <2>0. \A n \in 1..N : f[n] = e(n)
    BY <1>5
  <2>1. \A n \in 0..N : f[n] = IF n = 0 THEN 0 ELSE e(n)
    <3> HIDE DEF e
    <3> QED BY <1>1, <1>4, <2>0
  <2>2. f = [n \in 0..N |-> f[n]]
    BY <1>4
  <2> HIDE DEF e, N
  <2>3. f = [n \in 0..N |-> IF n = 0 THEN 0 ELSE e(n)]
    BY <2>1, <2>2
  <2> QED BY <2>3 DEF e
<1>7. Def(g)
  <2> HIDE DEF Def
  <2> QED BY <1>6
<1>8. Within(s, t) <=> g[N] = m
  BY DEF Within
<1> HIDE DEF g
<1>9. \A n \in 0..N : g[n] = IF n = 0 THEN 0 ELSE Next1(g[n - 1], t[n])
  <2> DEFINE e(n) == LET i == g[n - 1] IN IF i < m /\ s[i + 1] = t[n] THEN i + 1 ELSE i
  <2>1. g = [n \in 0..N |-> IF n = 0 THEN 0 ELSE e(n)]
    BY <1>7
  <2> HIDE DEF Def, e, N
  <2>2. \A n \in 0..N : g[n] = IF n = 0 THEN 0 ELSE e(n)
    BY <2>1
  <2> QED BY <2>2 DEF e
<1>10. g[N] = f[N]
  <2>1. g[0] = 0
    BY <1>1, <1>9
  <2>2. ASSUME NEW n \in 1..N, g[n - 1] \in X PROVE g[n] = h[g[n - 1]][t[n]]
    <3>1. n \in 0..N /\ n # 0 /\ t[n] \in L
      BY <1>1
    <3> HIDE DEF h, X, Next1
    <3> QED BY <1>2, <1>9, <2>2, <3>1
  <2>3. ReadsBy(g, h, X, 0, t)
    <3> HIDE DEF h, X
    <3> QED BY <2>1, <2>2 DEF ReadsBy
  <2> HIDE DEF h, X
  <2> QED BY <1>3, <2>3, ReadIs
<1>11. PICK e \in [1..m -> 1..N] : /\ \A i, j \in 1..m : i < j => e[i] < e[j]
                                   /\ \A i \in 1..m : t[e[i]] = s[i]
  BY DEF Embeds
<1> DEFINE T == {n \in 0..N : \A i \in 1..m : e[i] <= n => i <= f[n]}
<1>12. 0 \in T
  BY <1>11, <1>1
<1>13. ASSUME NEW n \in 0..(N - 1), n \in T PROVE n + 1 \in T
  <2>1. n + 1 \in 1..N /\ (n + 1) - 1 = n /\ n + 1 \in 0..N /\ n \in 0..N
    BY <1>1
  <2>2. f[n] \in 0..m /\ f[n + 1] = IF f[n] < m /\ s[f[n] + 1] = t[n + 1] THEN f[n] + 1 ELSE f[n]
    BY <1>5, <2>1
  <2>3. ASSUME NEW i \in 1..m, e[i] <= n + 1 PROVE i <= f[n + 1]
    <3>1. e[i] \in 1..N
      BY <1>11
    <3>2. CASE e[i] <= n
      <4>1. i <= f[n]
        BY <1>13, <3>2
      <4> QED BY <1>1, <2>2, <4>1
    <3>3. CASE ~(e[i] <= n)
      <4>1. e[i] = n + 1 /\ t[n + 1] = s[i]
        BY <1>11, <2>1, <2>3, <3>1, <3>3
      <4>2. i - 1 <= f[n]
        <5>1. CASE i = 1
          BY <2>2, <5>1
        <5>2. CASE i # 1
          <6>1. i - 1 \in 1..m /\ i - 1 < i
            BY <1>1, <5>2
          <6>2. e[i - 1] \in 1..N /\ e[i - 1] < e[i]
            BY <1>11, <6>1
          <6>3. e[i - 1] <= n
            BY <2>1, <4>1, <6>2
          <6> QED BY <1>13, <6>1, <6>3
        <5> QED BY <5>1, <5>2
      <4>3. CASE i <= f[n]
        BY <1>1, <2>2, <4>3
      <4>4. CASE ~(i <= f[n])
        BY <1>1, <2>2, <4>2, <4>4, <4>1
      <4> QED BY <4>3, <4>4
    <3> QED BY <3>2, <3>3
  <2> QED BY <2>1, <2>3
<1>14. f[N] = m
  <2>1. \A n \in 0..N : n \in T
    <3> HIDE DEF T, N
    <3> QED BY <1>1, <1>12, <1>13, UpTo
  <2>2. N \in T /\ f[N] \in 0..m
    BY <1>1, <1>4, <2>1
  <2>3. CASE m = 0
    BY <2>2, <2>3
  <2>4. CASE m # 0
    BY <1>1, <2>4, <1>11, <2>2
  <2> QED BY <2>3, <2>4
<1> QED BY <1>8, <1>10, <1>14

-----------------------------------------------------------------------------
\* Pick
States(L) == [in : {"both", "ours", "base", "theirs"}, text : Seq(L)]

Reader(side, L) == [r \in States(L) |-> [x \in L |-> Read(r, x, side)]]

\* What is read of s for one side, from r on, is q.
Picks(r, s, side, L, q) == \E f : ReadAll(f, Reader(side, L), States(L), L, r, s) /\ f[Len(s)] = q

LEMMA MarkersDiffer == Ours # Base /\ Ours # Mid /\ Ours # Theirs /\ Base # Mid /\ Base # Theirs /\ Mid # Theirs
BY DEF Ours, Base, Mid, Theirs

LEMMA ReadIsState ==
    ASSUME NEW L, NEW r \in States(L), NEW x \in L, NEW side
    PROVE  /\ Read(r, x, side) \in States(L)
           /\ x \notin Markers => Read(r, x, side) = IF r.in \in {"both", side}
                                                      THEN [in |-> r.in, text |-> r.text \o <<x>>] ELSE r
<1>1. r = [in |-> r.in, text |-> r.text] /\ r.in \in {"both", "ours", "base", "theirs"} /\ r.text \in Seq(L)
  BY DEF States
<1>2. Append(r.text, x) = r.text \o <<x>> /\ Append(r.text, x) \in Seq(L)
  BY <1>1, AppendIsConcat, AppendProperties
<1>3. CASE x = Ours
  BY <1>3, MarkersDiffer, <1>1 DEF Read, States, Markers
<1>4. CASE x = Base
  BY <1>4, MarkersDiffer, <1>1 DEF Read, States, Markers
<1>5. CASE x = Mid
  BY <1>5, MarkersDiffer, <1>1 DEF Read, States, Markers
<1>6. CASE x = Theirs
  BY <1>6, MarkersDiffer, <1>1 DEF Read, States, Markers
<1>7. CASE x \notin Markers
  <2>1. x # Ours /\ x # Base /\ x # Mid /\ x # Theirs
    BY <1>7 DEF Markers
  <2>2. Read(r, x, side) = IF r.in \in {"both", side} THEN [r EXCEPT !.text = Append(@, x)] ELSE r
    BY <2>1 DEF Read
  <2>3. [r EXCEPT !.text = Append(@, x)] = [in |-> r.in, text |-> Append(r.text, x)]
    BY <1>1
  <2>4. [in |-> r.in, text |-> Append(r.text, x)] \in States(L)
    BY <1>1, <1>2 DEF States
  <2> QED BY <1>2, <2>1, <2>2, <2>3, <2>4
<1> QED BY <1>3, <1>4, <1>5, <1>6, <1>7 DEF Markers

LEMMA ReaderIs ==
    ASSUME NEW L, NEW side
    PROVE  /\ Reader(side, L) \in [States(L) -> [L -> States(L)]]
           /\ \A r \in States(L), x \in L : Reader(side, L)[r][x] = Read(r, x, side)
BY ReadIsState DEF Reader

LEMMA PicksEmpty == ASSUME NEW L, NEW side, NEW r \in States(L) PROVE Picks(r, <<>>, side, L, r)
<1>1. <<>> \in Seq(L) /\ Len(<<>>) = 0
  BY EmptySeq
<1> DEFINE X == States(L)
           h == Reader(side, L)
<1>2. h \in [X -> [L -> X]] /\ r \in X
  BY ReaderIs
<1> HIDE DEF X, h
<1>3. PICK f : ReadAll(f, h, X, L, r, <<>>)
  BY <1>1, <1>2, ReadingExists
<1>4. f[0] = r
  BY <1>3, ReadSteps
<1> QED BY <1>1, <1>3, <1>4 DEF Picks, X, h

LEMMA PicksTyped ==
    ASSUME NEW L, NEW side, NEW r, NEW s, NEW q, Picks(r, s, side, L, q)
    PROVE  r \in States(L) /\ s \in Seq(L) /\ q \in States(L)
<1> DEFINE X == States(L)
           h == Reader(side, L)
<1>1. PICK f : ReadAll(f, h, X, L, r, s) /\ f[Len(s)] = q
  BY DEF Picks
<1> HIDE DEF X, h
<1>2. r \in X /\ s \in Seq(L)
  BY <1>1 DEF ReadAll
<1>3. f \in [0..Len(s) -> X]
  BY <1>1, ReadSteps
<1>4. Len(s) \in 0..Len(s)
  BY <1>2, LenProperties
<1> QED BY <1>1, <1>2, <1>3, <1>4 DEF X

\* One line more.
LEMMA PicksNext ==
    ASSUME NEW L, NEW side, NEW r, NEW s, NEW q, Picks(r, s, side, L, q), NEW x \in L
    PROVE  Picks(r, s \o <<x>>, side, L, Read(q, x, side))
<1> DEFINE X == States(L)
           h == Reader(side, L)
<1>1. r \in X /\ s \in Seq(L) /\ q \in X
  BY PicksTyped
<1>2. h \in [X -> [L -> X]] /\ h[q][x] = Read(q, x, side)
  BY <1>1, ReaderIs
<1>3. PICK f : ReadAll(f, h, X, L, r, s) /\ f[Len(s)] = q
  BY DEF Picks
<1>4. s \o <<x>> \in Seq(L)
  BY <1>1, ConcatProperties
<1> HIDE DEF X, h
<1>5. PICK g : ReadAll(g, h, X, L, r, s \o <<x>>)
  <2> DEFINE t == s \o <<x>>
  <2>1. t \in Seq(L)
    BY <1>4
  <2> HIDE DEF t
  <2>2. \E g : ReadAll(g, h, X, L, r, t)
    BY <1>1, <1>2, <2>1, ReadingExists
  <2> QED BY <2>2 DEF t
<1>6. g[Len(s \o <<x>>)] = h[f[Len(s)]][x]
  BY <1>3, <1>5, ReadNext
<1>7. g[Len(s \o <<x>>)] = Read(q, x, side)
  BY <1>2, <1>3, <1>6
<1> QED BY <1>5, <1>7 DEF Picks, X, h

LEMMA PicksOnce ==
    ASSUME NEW L, NEW side, NEW r, NEW s, NEW p, NEW q, Picks(r, s, side, L, p), Picks(r, s, side, L, q)
    PROVE  p = q
<1> DEFINE X == States(L)
           h == Reader(side, L)
<1>1. PICK f : ReadAll(f, h, X, L, r, s) /\ f[Len(s)] = p
  BY DEF Picks
<1>2. PICK g : ReadAll(g, h, X, L, r, s) /\ g[Len(s)] = q
  BY DEF Picks
<1> HIDE DEF X, h
<1>3. g[0] = r /\ \A n \in 1..Len(s) : g[n] = h[g[n - 1]][s[n]]
  BY <1>2, ReadSteps
<1>4. ReadsBy(g, h, X, r, s)
  BY <1>3 DEF ReadsBy
<1>5. g[Len(s)] = f[Len(s)]
  BY <1>1, <1>4, ReadIs
<1> QED BY <1>1, <1>2, <1>5

LEMMA PicksExists ==
    ASSUME NEW L, NEW side, NEW r \in States(L), NEW s \in Seq(L) PROVE \E q : Picks(r, s, side, L, q)
<1> DEFINE X == States(L)
           h == Reader(side, L)
<1>1. h \in [X -> [L -> X]] /\ r \in X
  BY ReaderIs
<1> HIDE DEF X, h
<1>2. PICK f : ReadAll(f, h, X, L, r, s)
  BY <1>1, ReadingExists
<1> QED BY <1>2 DEF Picks, X, h

\* Two texts, one after the other.
LEMMA PicksJoin ==
    ASSUME NEW L, NEW side, NEW r, NEW s, NEW p, Picks(r, s, side, L, p), NEW t, NEW q, Picks(p, t, side, L, q)
    PROVE  Picks(r, s \o t, side, L, q)
<1>1. r \in States(L) /\ s \in Seq(L) /\ p \in States(L) /\ t \in Seq(L) /\ q \in States(L)
  BY PicksTyped
<1> DEFINE S == {z \in Seq(L) : \A w : Picks(p, z, side, L, w) => Picks(r, s \o z, side, L, w)}
<1>2. <<>> \in S
  <2>1. <<>> \in Seq(L) /\ s \o <<>> = s /\ Picks(p, <<>>, side, L, p)
    BY <1>1, EmptySeq, ConcatEmptySeq, PicksEmpty
  <2>2. ASSUME NEW w, Picks(p, <<>>, side, L, w) PROVE Picks(r, s \o <<>>, side, L, w)
    <3>1. w = p
      BY <2>1, <2>2, PicksOnce
    <3> QED BY <2>1, <3>1
  <2> QED BY <2>1, <2>2
<1>3. ASSUME NEW z \in Seq(L), NEW x \in L, z \in S PROVE z \o <<x>> \in S
  <2>1. <<x>> \in Seq(L)
    OBVIOUS
  <2>2. z \o <<x>> \in Seq(L)
    BY <2>1, ConcatProperties
  <2>3. ASSUME NEW w, Picks(p, z \o <<x>>, side, L, w) PROVE Picks(r, s \o (z \o <<x>>), side, L, w)
    <3>1. PICK y : Picks(p, z, side, L, y)
      BY <1>1, PicksExists
    <3>2. Picks(p, z \o <<x>>, side, L, Read(y, x, side))
      BY <3>1, PicksNext
    <3>3. w = Read(y, x, side)
      BY <2>3, <3>2, PicksOnce
    <3>4. Picks(r, s \o z, side, L, y)
      BY <1>3, <3>1
    <3>5. Picks(r, (s \o z) \o <<x>>, side, L, Read(y, x, side))
      BY <3>4, PicksNext
    <3>6. (s \o z) \o <<x>> = s \o (z \o <<x>>)
      BY <1>1, <2>1, Joined DEF TextsOf
    <3> QED BY <3>3, <3>5, <3>6
  <2> QED BY <2>2, <2>3
<1>4. \A z \in Seq(L) : z \in S
  <2> HIDE DEF S
  <2> QED BY <1>2, <1>3, TextByText
<1> QED BY <1>1, <1>4

\* A text without markers is read in full or not at all.
LEMMA PicksPlain ==
    ASSUME NEW L, NEW side, NEW r \in States(L), NEW s \in Seq(L), Lines(s) \cap Markers = {}
    PROVE  Picks(r, s, side, L, IF r.in \in {"both", side} THEN [in |-> r.in, text |-> r.text \o s] ELSE r)
<1> DEFINE Q(z) == IF r.in \in {"both", side} THEN [in |-> r.in, text |-> r.text \o z] ELSE r
           S == {z \in Seq(L) : Lines(z) \cap Markers = {} => Picks(r, z, side, L, Q(z))}
<1>1. r = [in |-> r.in, text |-> r.text] /\ r.text \in Seq(L)
  BY DEF States
<1>2. <<>> \in S
  <2>1. <<>> \in Seq(L) /\ r.text \o <<>> = r.text /\ Picks(r, <<>>, side, L, r)
    BY <1>1, EmptySeq, ConcatEmptySeq, PicksEmpty
  <2>2. Q(<<>>) = r
    BY <1>1, <2>1
  <2> HIDE DEF Q
  <2> QED BY <2>1, <2>2
<1>3. ASSUME NEW z \in Seq(L), NEW x \in L, z \in S PROVE z \o <<x>> \in S
  <2>1. <<x>> \in Seq(L)
    OBVIOUS
  <2>2. z \o <<x>> \in Seq(L) /\ Lines(z \o <<x>>) = Lines(z) \cup Lines(<<x>>) /\ Lines(<<x>>) = {x}
    <3> DEFINE w == <<x>>
    <3>1. w \in Seq(L)
      BY <2>1
    <3>2. Lines(w) = {x}
      BY NoLines
    <3> HIDE DEF w
    <3>3. z \o w \in Seq(L) /\ Lines(z \o w) = Lines(z) \cup Lines(w)
      BY <3>1, LinesJoin
    <3> QED BY <3>2, <3>3 DEF w
  <2>3. ASSUME Lines(z \o <<x>>) \cap Markers = {} PROVE Picks(r, z \o <<x>>, side, L, Q(z \o <<x>>))
    <3>1. Lines(z) \cap Markers = {} /\ x \notin Markers
      BY <2>2, <2>3
    <3>2. Picks(r, z, side, L, Q(z))
      BY <1>3, <3>1
    <3>3. Q(z) \in States(L)
      BY <3>2, PicksTyped
    <3>4. Read(Q(z), x, side) = IF Q(z).in \in {"both", side} THEN [in |-> Q(z).in, text |-> Q(z).text \o <<x>>] ELSE Q(z)
      <4> HIDE DEF Q
      <4> QED BY <3>1, <3>3, ReadIsState
    <3>5. (r.text \o z) \o <<x>> = r.text \o (z \o <<x>>)
      <4> DEFINE y == r.text
                 w == <<x>>
      <4>1. TextsOf(y, z, w, L)
        BY <1>1, <2>1 DEF TextsOf
      <4> HIDE DEF y, w
      <4>2. (y \o z) \o w = y \o (z \o w)
        BY ONLY <4>1, Joined
      <4> QED BY <4>2 DEF y, w
    <3>6. Read(Q(z), x, side) = Q(z \o <<x>>)
      <4>1. CASE r.in \in {"both", side}
        <5>1. Q(z) = [in |-> r.in, text |-> r.text \o z] /\ Q(z \o <<x>>) = [in |-> r.in, text |-> r.text \o (z \o <<x>>)]
          BY <4>1
        <5> HIDE DEF Q
        <5>2. Q(z).in = r.in /\ Q(z).text = r.text \o z
          BY <5>1
        <5> QED BY <3>4, <3>5, <4>1, <5>1, <5>2
      <4>2. CASE r.in \notin {"both", side}
        <5>1. Q(z) = r /\ Q(z \o <<x>>) = r
          BY <4>2
        <5> HIDE DEF Q
        <5> QED BY <3>4, <4>2, <5>1
      <4> QED BY <4>1, <4>2
    <3> HIDE DEF Q
    <3>7. Picks(r, z \o <<x>>, side, L, Read(Q(z), x, side))
      BY <3>2, PicksNext
    <3> QED BY <3>6, <3>7
  <2> HIDE DEF Q
  <2> QED BY <2>2, <2>3
<1>4. \A z \in Seq(L) : z \in S
  <2> HIDE DEF S
  <2> QED BY <1>2, <1>3, TextByText
<1>5. Picks(r, s, side, L, Q(s))
  BY <1>4
<1> QED BY <1>5

LEMMA PicksMarker ==
    ASSUME NEW L, Markers \subseteq L, NEW side, NEW r \in States(L)
    PROVE  /\ Picks(r, <<Ours>>, side, L, [in |-> "ours", text |-> r.text])
           /\ Picks(r, <<Base>>, side, L, [in |-> "base", text |-> r.text])
           /\ Picks(r, <<Mid>>, side, L, [in |-> "theirs", text |-> r.text])
           /\ Picks(r, <<Theirs>>, side, L, [in |-> "both", text |-> r.text])
<1>1. \A x \in L : Picks(r, <<x>>, side, L, Read(r, x, side))
  <2> SUFFICES ASSUME NEW x \in L PROVE Picks(r, <<x>>, side, L, Read(r, x, side))
    OBVIOUS
  <2>1. Picks(r, <<>>, side, L, r)
    BY PicksEmpty
  <2>2. Picks(r, <<>> \o <<x>>, side, L, Read(r, x, side))
    BY <2>1, PicksNext
  <2>3. <<>> \o <<x>> = <<x>>
    OBVIOUS
  <2> QED BY <2>2, <2>3
<1>2. Ours \in L /\ Base \in L /\ Mid \in L /\ Theirs \in L
  BY DEF Markers
<1>3. /\ Read(r, Ours, side) = [in |-> "ours", text |-> r.text]
      /\ Read(r, Base, side) = [in |-> "base", text |-> r.text]
      /\ Read(r, Mid, side) = [in |-> "theirs", text |-> r.text]
      /\ Read(r, Theirs, side) = [in |-> "both", text |-> r.text]
  BY MarkersDiffer DEF States, Read
<1> QED BY <1>1, <1>2, <1>3

\* A text without markers adds to what is read of the side it is of.
LEMMA PicksMore ==
    ASSUME NEW L, NEW side, NEW s \in Seq(L), NEW in \in {"both", "ours", "base", "theirs"}, NEW q \in Seq(L),
           Lines(s) \cap Markers = {}
    PROVE  Picks([in |-> in, text |-> q], s, side, L,
                 [in |-> in, text |-> IF in \in {"both", side} THEN q \o s ELSE q])
<1> DEFINE r == [in |-> in, text |-> q]
<1>1. r \in States(L) /\ r.in = in /\ r.text = q
  BY DEF States
<1>2. (IF r.in \in {"both", side} THEN [in |-> r.in, text |-> r.text \o s] ELSE r)
          = [in |-> in, text |-> IF in \in {"both", side} THEN q \o s ELSE q]
  BY <1>1
<1> HIDE DEF r
<1>3. Picks(r, s, side, L, IF r.in \in {"both", side} THEN [in |-> r.in, text |-> r.text \o s] ELSE r)
  BY <1>1, PicksPlain
<1> QED BY <1>2, <1>3 DEF r

Mine(side, one, two) == IF side = "ours" THEN one ELSE two

\* Of a conflict is read what it has of the side.
LEMMA PicksConflict ==
    ASSUME NEW L, Markers \subseteq L, NEW side \in {"ours", "theirs"}, NEW q \in Seq(L),
           NEW base, NEW one \in Seq(L), NEW two \in Seq(L), NEW start, NEW end, NEW style,
           Slice(base, start, end) \in Seq(L),
           Lines(Slice(base, start, end)) \cap Markers = {}, Lines(one) \cap Markers = {}, Lines(two) \cap Markers = {}
    PROVE  Picks([in |-> "both", text |-> q], Conflict(base, one, two, start, end, style), side, L,
                 [in |-> "both", text |-> q \o Mine(side, one, two)])
<1> DEFINE S(in, text) == [in |-> in, text |-> text]
           P(r, s, p) == Picks(r, s, side, L, p)
           mid == IF style = "diff3" THEN <<Base>> \o Slice(base, start, end) ELSE <<>>
           ql == IF side = "ours" THEN q \o one ELSE q
           qr == IF side = "theirs" THEN ql \o two ELSE ql
           in1 == IF style = "diff3" THEN "base" ELSE "ours"
<1>1. ql \in Seq(L) /\ qr \in Seq(L)
  <2>1. ql \in Seq(L)
    BY ConcatProperties
  <2> HIDE DEF ql
  <2> QED BY <2>1, ConcatProperties
<1>2. \A in \in {"both", "ours", "base", "theirs"}, t \in Seq(L) : S(in, t) \in States(L)
  BY DEF States
<1>3. \A r \in States(L) : /\ P(r, <<Ours>>, S("ours", r.text)) /\ P(r, <<Base>>, S("base", r.text))
                           /\ P(r, <<Mid>>, S("theirs", r.text)) /\ P(r, <<Theirs>>, S("both", r.text))
  BY PicksMarker
<1>4. P(S("both", q), <<Ours>>, S("ours", q))
  BY <1>2, <1>3
<1>5. P(S("ours", q), one, S("ours", ql))
  BY PicksMore
<1>6. P(S("both", q), <<Ours>> \o one, S("ours", ql))
  <2> HIDE DEF S
  <2> QED BY <1>4, <1>5, PicksJoin
<1>7. P(S("ours", ql), mid, S(in1, ql))
  <2>1. CASE style = "diff3"
    <3>1. P(S("ours", ql), <<Base>>, S("base", ql))
      <4>1. S("ours", ql) \in States(L) /\ S("ours", ql).text = ql
        BY <1>1, <1>2
      <4> HIDE DEF ql
      <4> QED BY <1>3, <4>1
    <3>2. P(S("base", ql), Slice(base, start, end), S("base", ql))
      <4> HIDE DEF ql
      <4>1. P(S("base", ql), Slice(base, start, end), S("base", IF "base" \in {"both", side} THEN ql \o Slice(base, start, end) ELSE ql))
        BY <1>1, PicksMore
      <4>2. "base" \notin {"both", side}
        OBVIOUS
      <4> QED BY <4>1, <4>2
    <3> HIDE DEF S, ql
    <3>3. P(S("ours", ql), <<Base>> \o Slice(base, start, end), S("base", ql))
      BY <3>1, <3>2, PicksJoin
    <3> QED BY <2>1, <3>3
  <2>2. CASE style # "diff3"
    <3>1. S("ours", ql) \in States(L)
      BY <1>1, <1>2
    <3> HIDE DEF S, ql
    <3>2. P(S("ours", ql), <<>>, S("ours", ql))
      BY <3>1, PicksEmpty
    <3> QED BY <2>2, <3>2
  <2> QED BY <2>1, <2>2
<1>8. P(S(in1, ql), <<Mid>>, S("theirs", ql))
  <2>1. S(in1, ql) \in States(L) /\ S(in1, ql).text = ql
    <3>1. in1 \in {"both", "ours", "base", "theirs"}
      OBVIOUS
    <3> HIDE DEF in1, ql
    <3> QED BY <1>1, <1>2, <3>1
  <2> HIDE DEF in1, ql
  <2> QED BY <1>3, <2>1
<1>9. P(S("theirs", ql), two, S("theirs", qr))
  <2>1. P(S("theirs", ql), two, S("theirs", IF "theirs" \in {"both", side} THEN ql \o two ELSE ql))
    <3> HIDE DEF ql
    <3> QED BY <1>1, PicksMore
  <2>2. ("theirs" \in {"both", side}) <=> side = "theirs"
    OBVIOUS
  <2> HIDE DEF ql
  <2> QED BY <2>1, <2>2
<1>10. P(S("theirs", qr), <<Theirs>>, S("both", qr))
  <2>1. S("theirs", qr) \in States(L) /\ S("theirs", qr).text = qr
    <3> HIDE DEF qr
    <3> QED BY <1>1, <1>2
  <2> HIDE DEF qr
  <2> QED BY <1>3, <2>1
<1>11. qr = q \o Mine(side, one, two)
  BY DEF Mine
<1>12. Conflict(base, one, two, start, end, style) = <<Ours>> \o one \o mid \o <<Mid>> \o two \o <<Theirs>>
  <2> DEFINE a == <<Ours>> \o one
             b == <<Mid>>
             c == <<Theirs>>
  <2>0. Conflict(base, one, two, start, end, style) = a \o mid \o b \o two \o c
    BY DEF Conflict
  <2> QED BY <2>0
<1> HIDE DEF S, mid, ql, qr, in1
<1>13. P(S("both", q), <<Ours>> \o one \o mid, S(in1, ql))
  BY <1>6, <1>7, PicksJoin
<1>14. P(S("both", q), <<Ours>> \o one \o mid \o <<Mid>>, S("theirs", ql))
  BY <1>8, <1>13, PicksJoin
<1>15. P(S("both", q), <<Ours>> \o one \o mid \o <<Mid>> \o two, S("theirs", qr))
  BY <1>9, <1>14, PicksJoin
<1>16. P(S("both", q), <<Ours>> \o one \o mid \o <<Mid>> \o two \o <<Theirs>>, S("both", qr))
  BY <1>10, <1>15, PicksJoin
<1> QED BY <1>11, <1>12, <1>16 DEF S

\* Pick is that reading of the whole text.
LEMMA PickIs ==
    ASSUME NEW L, NEW side, NEW s, NEW q, Picks([in |-> "both", text |-> <<>>], s, side, L, q)
    PROVE  Pick(s, side) = q.text
<1> DEFINE N == Len(s)
           a == [in |-> "both", text |-> <<>>]
           X == States(L)
           h == Reader(side, L)
           Def(g) == g = [n \in 0..N |-> IF n = 0 THEN a ELSE Read(g[n - 1], s[n], side)]
           g == CHOOSE g : Def(g)
<1>0. a \in X /\ s \in Seq(L)
  BY PicksTyped
<1>1. N \in Nat /\ \A n \in 1..N : s[n] \in L
  BY <1>0, LenProperties, ElementOfSeq
<1>2. PICK f : ReadAll(f, h, X, L, a, s) /\ f[N] = q
  BY DEF Picks
<1>3. f \in [0..N -> X] /\ f[0] = a /\ \A n \in 1..N : f[n] = h[f[n - 1]][s[n]]
  <2> HIDE DEF X, h, a
  <2> QED BY <1>2, ReadSteps
<1>4. \A r \in X, x \in L : h[r][x] = Read(r, x, side)
  BY ReaderIs
<1>5. \A n \in 1..N : f[n] = Read(f[n - 1], s[n], side)
  <2> SUFFICES ASSUME NEW n \in 1..N PROVE f[n] = Read(f[n - 1], s[n], side)
    OBVIOUS
  <2>1. n - 1 \in 0..N
    BY <1>1
  <2> HIDE DEF X, h
  <2>2. f[n - 1] \in X /\ s[n] \in L
    BY <1>1, <1>3, <2>1
  <2> QED BY <1>3, <1>4, <2>2
<1>6. Def(f)
  <2> DEFINE e(n) == Read(f[n - 1], s[n], side)
  <2> HIDE DEF a, X, h
  <2>1. \A n \in 0..N : f[n] = IF n = 0 THEN a ELSE e(n)
    BY <1>1, <1>3, <1>5
  <2>2. f = [n \in 0..N |-> f[n]]
    BY <1>3
  <2> HIDE DEF e, N
  <2>3. f = [n \in 0..N |-> IF n = 0 THEN a ELSE e(n)]
    BY <2>1, <2>2
  <2> QED BY <2>3 DEF e
<1>7. Def(g)
  <2> HIDE DEF Def
  <2> QED BY <1>6
<1>8. Pick(s, side) = g[N].text
  BY DEF Pick
<1> HIDE DEF g, a, X, h
<1>9. \A n \in 0..N : g[n] = IF n = 0 THEN a ELSE Read(g[n - 1], s[n], side)
  <2> DEFINE e(n) == Read(g[n - 1], s[n], side)
  <2>1. g = [n \in 0..N |-> IF n = 0 THEN a ELSE e(n)]
    BY <1>7
  <2> HIDE DEF Def, e, N
  <2>2. \A n \in 0..N : g[n] = IF n = 0 THEN a ELSE e(n)
    BY <2>1
  <2> QED BY <2>2 DEF e
<1>10. ReadsBy(g, h, X, a, s)
  <2>1. g[0] = a
    BY <1>1, <1>9
  <2>2. ASSUME NEW n \in 1..N, g[n - 1] \in X PROVE g[n] = h[g[n - 1]][s[n]]
    BY <1>1, <1>4, <1>9, <2>2
  <2> QED BY <2>1, <2>2 DEF ReadsBy
<1>11. g[N] = f[N]
  BY <1>2, <1>10, ReadIs
<1> QED BY <1>2, <1>8, <1>11
-----------------------------------------------------------------------------
(***************************************************************************)
(* What the edits of a text are.                                           *)
(***************************************************************************)
\* One edit: it takes lines of the base that the text lacks, and gives lines that the base lacks.
Sound(e, u, v, L) ==
    /\ e \in EditsOf(L, Len(u)) /\ e.from <= e.to
    /\ Lines(e.new) \cap Lines(u) = {}
    /\ \A n \in (e.from + 1)..e.to : u[n] \notin Lines(v)

\* The edits of a text, in order and apart.
Fit(E, u, v, L) ==
    /\ E \in Seq(EditsOf(L, Len(u)))
    /\ \A i \in 1..Len(E) : Sound(E[i], u, v, L)
    /\ \A i, j \in 1..Len(E) : i < j => E[i].to < E[j].from

LEMMA SoundIs ==
    ASSUME NEW L, NEW u, NEW v, Len(u) \in Nat, NEW e, Sound(e, u, v, L)
    PROVE  e.from \in 0..Len(u) /\ e.to \in 0..Len(u) /\ e.from \in Nat /\ e.to \in Nat /\ e.from <= e.to /\ e.new \in Seq(L)
BY DEF Sound, EditsOf

LEMMA FitIs ==
    ASSUME NEW L, NEW u, NEW v, Len(u) \in Nat, NEW E, Fit(E, u, v, L)
    PROVE  /\ Len(E) \in Nat
           /\ \A i \in 1..Len(E) : /\ E[i] \in EditsOf(L, Len(u)) /\ Sound(E[i], u, v, L)
                                   /\ E[i].from \in 0..Len(u) /\ E[i].to \in 0..Len(u) /\ E[i].from \in Nat /\ E[i].to \in Nat
                                   /\ E[i].from <= E[i].to /\ E[i].new \in Seq(L)
BY LenProperties, SoundIs DEF Fit, Sound

LEMMA BetweenFits ==
    ASSUME NEW L, NEW u \in Seq(L), NEW v \in Seq(L), Alike(u, v), NEW i \in Shared(u, v), NEW j \in Shared(u, v), i < j,
           \A m \in Shared(u, v) : ~(i < m /\ m < j)
    PROVE  Sound(Between(u, v, i, j), u, v, L) /\ Between(u, v, i, j).from = i /\ Between(u, v, i, j).to = j - 1
<1> DEFINE e == Between(u, v, i, j)
           I == Place(u, v, i)
           J == Place(u, v, j)
<1>1. Len(u) \in Nat /\ Len(v) \in Nat /\ i \in 0..(Len(u) + 1) /\ j \in 0..(Len(u) + 1)
  BY LenProperties DEF Shared
<1>2. e \in EditsOf(L, Len(u)) /\ e.from = i /\ e.to = j - 1 /\ e.new = SubSeq(v, I + 1, J - 1)
  BY BetweenIs DEF Between
<1>3. I \in 0..(Len(v) + 1) /\ J \in 0..(Len(v) + 1) /\ I < J
  BY PlaceIs, PlacesRise
<1>4. e.from <= e.to
  BY <1>1, <1>2
<1>5. ASSUME NEW n \in (e.from + 1)..e.to PROVE u[n] \notin Lines(v)
  BY <1>1, <1>2 DEF Shared
<1>6. ASSUME NEW x \in Lines(e.new), x \in Lines(u) PROVE FALSE
  <2> HIDE DEF e
  <2>1. e.new = Slice(v, I, J - 1) /\ I \in Nat /\ J - 1 \in 0..Len(v)
    BY <1>1, <1>2, <1>3 DEF Slice
  <2>2. PICK k \in (I + 1)..(J - 1) : k \in 1..Len(v) /\ v[k] = x
    <3> HIDE DEF I, J
    <3> QED BY <1>6, <2>1, SliceIs
  <2>3. PICK m \in 1..Len(u) : u[m] = x
    BY <1>6, LinesOf
  <2>4. m \in Shared(u, v)
    <3>1. x \in Lines(v)
      BY <2>2, LinesOf
    <3>2. m \in 0..(Len(u) + 1)
      BY <1>1, <2>3
    <3> QED BY <2>3, <3>1, <3>2 DEF Shared
  <2> DEFINE K == Place(u, v, m)
  <2>5. K \in 1..Len(v) /\ v[K] = x
    BY <2>3, <2>4, PlaceIs
  <2>6. i < m => I < K
    BY <2>4, PlacesRise
  <2>7. m < j => K < J
    BY <2>4, PlacesRise
  <2>8. m < i => K < I
    BY <2>4, PlacesRise
  <2>9. j < m => J < K
    BY <2>4, PlacesRise
  <2>10. DOMAIN u = 1..Len(u) /\ DOMAIN v = 1..Len(v)
    BY LenProperties
  <2>11. m = i => K = I
    OBVIOUS
  <2>12. m = j => K = J
    OBVIOUS
  <2> HIDE DEF K, I, J
  <2>13. K = k
    BY <2>2, <2>3, <2>5, <2>10, <1>1 DEF Alike
  <2>14. I < K /\ K < J
    BY <1>1, <1>3, <2>2, <2>13
  <2>15. ~(m < i) /\ ~(j < m) /\ m # i /\ m # j
    BY <1>1, <1>3, <2>5, <2>8, <2>9, <2>11, <2>12, <2>14
  <2>16. i < m /\ m < j
    BY <1>1, <2>15
  <2> QED BY <2>4, <2>16
<1>7. Sound(e, u, v, L)
  <2>1. Lines(e.new) \cap Lines(u) = {}
    BY <1>6
  <2> HIDE DEF e
  <2> QED BY <1>2, <1>4, <1>5, <2>1 DEF Sound
<1> QED BY <1>2, <1>7

\* An edit behind all others.
LEMMA OneMoreFits ==
    ASSUME NEW L, NEW u, NEW v, Len(u) \in Nat, NEW E, Fit(E, u, v, L), NEW e, Sound(e, u, v, L),
           \A i \in 1..Len(E) : E[i].to < e.from
    PROVE  /\ Fit(Append(E, e), u, v, L)
           /\ \A i \in 1..Len(Append(E, e)) : Append(E, e)[i].to <= e.to
<1> DEFINE F == Append(E, e)
           n == Len(E)
<1>1. E \in Seq(EditsOf(L, Len(u))) /\ e \in EditsOf(L, Len(u)) /\ n \in Nat
  BY LenProperties DEF Fit, Sound
<1>2. /\ F \in Seq(EditsOf(L, Len(u))) /\ Len(F) = n + 1
      /\ \A i \in 1..n : F[i] = E[i]
      /\ F[n + 1] = e
  BY <1>1, AppendProperties
<1> HIDE DEF F
<1>3. \A i \in 1..(n + 1) : (i \in 1..n /\ F[i] = E[i]) \/ (i = n + 1 /\ F[i] = e)
  BY <1>1, <1>2
<1>4. \A i \in 1..(n + 1) : Sound(F[i], u, v, L)
  BY <1>2, <1>3 DEF Fit
<1>5. ASSUME NEW i \in 1..(n + 1), NEW j \in 1..(n + 1), i < j PROVE F[i].to < F[j].from
  BY <1>1, <1>2, <1>5, <1>3 DEF Fit
<1>6. ASSUME NEW i \in 1..(n + 1) PROVE F[i].to <= e.to
  <2>1. e.to \in Nat /\ e.from \in Nat /\ e.from <= e.to
    BY DEF Sound, EditsOf
  <2>2. CASE i = n + 1
    BY <1>2, <2>1, <2>2
  <2>3. CASE i \in 1..n
    BY <1>2, <2>3, FitIs, <2>1
  <2> QED BY <1>3, <2>2, <2>3
<1>7. Fit(F, u, v, L)
  BY <1>2, <1>4, <1>5 DEF Fit
<1> QED BY <1>2, <1>6, <1>7 DEF F

LEMMA EditsFit ==
    ASSUME NEW L, NEW u \in Seq(L), NEW v \in Seq(L), Alike(u, v), NEW f, Found(f, u, v, L)
    PROVE  Fit(f[Len(u) + 1].edits, u, v, L)
<1> DEFINE N == Len(u) + 1
           Inv(j) == /\ \A m \in Shared(u, v) : ~(f[j].kept < m /\ m <= j)
                     /\ Fit(f[j].edits, u, v, L)
                     /\ \A i \in 1..Len(f[j].edits) : f[j].edits[i].to < f[j].kept
           T == {j \in 0..N : Inv(j)}
<1>1. N \in Nat /\ N >= 1 /\ Len(u) \in Nat /\ Shared(u, v) \in SUBSET (0..N)
  BY LenProperties DEF Shared
<1>2. \A j \in 0..N : f[j] \in Gaps(u, v, L) /\ f[j].kept \in Shared(u, v) /\ f[j].kept \in Nat /\ f[j].kept <= j
  <2>1. \A j \in 0..N : f[j] \in Gaps(u, v, L) /\ f[j].kept <= j
    BY DEF Found
  <2>2. \A j \in 0..N : f[j].kept \in Shared(u, v)
    BY <2>1 DEF Gaps
  <2> QED BY <1>1, <2>1, <2>2
<1>3. 0 \in T
  <2>1. f[0].kept = 0 /\ f[0].edits = <<>>
    BY DEF Found
  <2>2. \A m \in Shared(u, v) : ~(0 < m /\ m <= 0)
    BY <1>1
  <2>3. Len(<<>>) = 0 /\ <<>> \in Seq(EditsOf(L, Len(u))) /\ 1..0 = {}
    BY EmptySeq
  <2>4. Fit(<<>>, u, v, L)
    BY <2>3 DEF Fit
  <2>5. 0 \in 0..N
    BY <1>1
  <2> QED BY <2>1, <2>2, <2>3, <2>4, <2>5
<1>4. ASSUME NEW k \in 0..(N - 1), k \in T PROVE k + 1 \in T
  <2> DEFINE j == k + 1
             r == f[k]
             e == Between(u, v, r.kept, j)
  <2>0. Inv(k)
    BY <1>4
  <2>1. j \in 1..N /\ j - 1 = k /\ k \in 0..N /\ j \in 0..N /\ k \in Nat
    BY <1>1
  <2>2. f[j] = WithGap(u, v, r, j)
    BY <2>1 DEF Found
  <2>3. r.kept \in Shared(u, v) /\ r.kept \in Nat /\ r.kept <= k
    BY <1>2, <2>1
  <2>4. Inv(j)
    <3>1. CASE j <= Len(u) /\ u[j] \notin Lines(v)
      <4>1. f[j] = r
        BY <2>2, <3>1, WithGapIs
      <4>2. j \notin Shared(u, v)
        BY <1>1, <2>1, <3>1 DEF Shared
      <4>3. ASSUME NEW m \in Shared(u, v), r.kept < m, m <= j PROVE FALSE
        BY <1>1, <4>2, <2>1, <4>3, <2>0
      <4> HIDE DEF j, r
      <4> QED BY <2>0, <4>1, <4>3 DEF r
    <3>2. CASE ~(j <= Len(u) /\ u[j] \notin Lines(v))
      <4>1. j \in Shared(u, v) /\ r.kept < j
        BY <1>1, <2>1, <2>3, <3>2 DEF Shared
      <4>2. f[j] = [kept |-> j, edits |-> IF e.from = e.to /\ e.new = <<>> THEN r.edits ELSE Append(r.edits, e)]
        BY <2>2, <3>2, WithGapIs
      <4>3. \A m \in Shared(u, v) : ~(r.kept < m /\ m < j)
        BY <1>1, <2>1, <2>0
      <4>4. Sound(e, u, v, L) /\ e.from = r.kept /\ e.to = j - 1
        <5> HIDE DEF j, r
        <5> QED BY <2>3, <4>1, <4>3, BetweenFits DEF r
      <4>5. \A m \in Shared(u, v) : ~(j < m /\ m <= j)
        BY <1>1, <2>1
      <4>6. Fit(r.edits, u, v, L) /\ \A i \in 1..Len(r.edits) : r.edits[i].to < r.kept
        BY <2>0
      <4>7. \A i \in 1..Len(r.edits) : r.edits[i].to \in Nat
        <5> DEFINE E == r.edits
        <5>1. Fit(E, u, v, L)
          BY <4>6
        <5> HIDE DEF E
        <5>2. \A i \in 1..Len(E) : E[i].to \in Nat
          BY <1>1, <5>1, FitIs
        <5> QED BY <5>2 DEF E
      <4> HIDE DEF j, e, r
      <4>8. CASE e.from = e.to /\ e.new = <<>>
        <5>1. f[j].kept = j /\ f[j].edits = r.edits
          BY <4>2, <4>8
        <5>2. \A i \in 1..Len(r.edits) : r.edits[i].to < j
          BY <2>1, <2>3, <4>1, <4>6, <4>7
        <5> QED BY <4>5, <4>6, <5>1, <5>2
      <4>9. CASE ~(e.from = e.to /\ e.new = <<>>)
        <5>1. f[j].kept = j /\ f[j].edits = Append(r.edits, e)
          BY <4>2, <4>9
        <5> DEFINE E == r.edits
                   F == Append(E, e)
        <5>2. Fit(E, u, v, L) /\ \A i \in 1..Len(E) : E[i].to < e.from
          BY <4>4, <4>6
        <5>3. Fit(F, u, v, L) /\ \A i \in 1..Len(F) : F[i].to <= e.to
          <6> HIDE DEF E
          <6> QED BY <1>1, <4>4, <5>2, OneMoreFits
        <5>4. f[j].kept = j /\ f[j].edits = F
          BY <5>1
        <5> HIDE DEF F
        <5>5. \A i \in 1..Len(F) : F[i].to \in Nat
          BY <1>1, <5>3, FitIs
        <5>6. \A i \in 1..Len(F) : F[i].to < j
          BY <2>1, <4>4, <5>3, <5>5
        <5> QED BY <4>5, <5>3, <5>4, <5>6
      <4> QED BY <4>8, <4>9
    <3> QED BY <3>1, <3>2
  <2> HIDE DEF Inv
  <2> QED BY <2>1, <2>4
<1>5. N \in T
  <2>1. \A j \in 0..N : j \in T
    <3> HIDE DEF T, N
    <3> QED BY <1>1, <1>3, <1>4, UpTo
  <2>2. N \in 0..N
    BY <1>1
  <2> HIDE DEF T
  <2> QED BY <2>1, <2>2
<1> QED BY <1>5
-----------------------------------------------------------------------------
(***************************************************************************)
(* One side by itself: what its edits make of the base up to a place.      *)
(***************************************************************************)
Worked(w, E, u, v, L) ==
    /\ u \in Seq(L) /\ v \in Seq(L) /\ Fit(E, u, v, L)
    /\ Account(w, u, E, L) /\ w[0] = Start
    /\ w[Len(E)].out \o Slice(u, w[Len(E)].at, Len(u)) = v

LEMMA WorkedExists ==
    ASSUME NEW L, NEW u \in Seq(L), NEW v \in Seq(L), Alike(u, v)
    PROVE  \E w : Worked(w, Edits(u, v), u, v, L)
<1>1. PICK f : Found(f, u, v, L) /\ Edits(u, v) = f[Len(u) + 1].edits
  BY EditsFound
<1> DEFINE E == f[Len(u) + 1].edits
<1>2. Fit(E, u, v, L)
  BY <1>1, EditsFit
<1>3. E \in Seq(EditsOf(L, Len(u)))
  BY <1>2 DEF Fit
<1>4. "o" \in Sides
  BY DEF Sides
<1>5. E = f[Len(u) + 1].edits
  OBVIOUS
<1> HIDE DEF E
<1>6. PICK w : Walked(w, u, E, "o", L)
  BY <1>3, <1>4, WalkedExists
<1>7. Account(w, u, E, L)
  BY <1>3, <1>4, <1>6, WalkedSteps
<1>8. Making(w, E, f, "o", u, v, L)
  BY <1>1, <1>4, <1>5, <1>6 DEF Making
<1>9. Result(w, u, E) = [text |-> v, conflicts |-> 0]
  BY <1>8, WalkMakes
<1>10. w[Len(E)].out \o Slice(u, w[Len(E)].at, Len(u)) = v
  BY <1>9 DEF Result
<1>11. w[0] = Start
  BY <1>6 DEF Walked
<1>12. Worked(w, E, u, v, L)
  BY <1>2, <1>7, <1>10, <1>11 DEF Worked
<1> QED BY <1>1, <1>5, <1>12

\* The place x in the base lies behind the first i edits and before the others.
Rests(E, u, i, x) ==
    /\ i \in 0..Len(E) /\ x \in 0..Len(u)
    /\ i > 0 => E[i].to <= x
    /\ i < Len(E) => x <= E[i + 1].from

Upto(w, u, i, x) == w[i].out \o Slice(u, w[i].at, x)

LEMMA WorkedIs ==
    ASSUME NEW w, NEW E, NEW u, NEW v, NEW L, Worked(w, E, u, v, L)
    PROVE  /\ u \in Seq(L) /\ v \in Seq(L) /\ Len(u) \in Nat /\ Len(E) \in Nat /\ Fit(E, u, v, L)
           /\ \A i \in 0..Len(E) : w[i].out \in Seq(L) /\ w[i].at \in 0..Len(u)
           /\ w[0].out = <<>> /\ w[0].at = 0
           /\ \A i \in 1..Len(E) : /\ w[i].out = w[i - 1].out \o Slice(u, w[i - 1].at, E[i].from) \o E[i].new
                                   /\ w[i].at = E[i].to
<1>1. u \in Seq(L) /\ v \in Seq(L) /\ Fit(E, u, v, L) /\ Account(w, u, E, L) /\ w[0] = Start
  BY DEF Worked
<1>2. Len(u) \in Nat /\ Len(E) \in Nat
  BY <1>1, LenProperties DEF Fit
<1>3. w[0].out = <<>> /\ w[0].at = 0
  BY <1>1 DEF Start
<1>4. \A i \in 1..Len(E) : /\ w[i].out = w[i - 1].out \o Slice(u, w[i - 1].at, E[i].from) \o E[i].new
                           /\ w[i].at = E[i].to
  BY <1>1 DEF Account
<1>5. \A i \in 0..Len(E) : w[i].out \in Seq(L)
  BY <1>1 DEF Account, Walks
<1>6. ASSUME NEW i \in 0..Len(E) PROVE w[i].at \in 0..Len(u)
  <2>1. CASE i = 0
    BY <1>2, <1>3, <2>1
  <2>2. CASE i # 0
    <3>1. i \in 1..Len(E)
      BY <1>2, <2>2
    <3>2. E[i].to \in 0..Len(u)
      BY <1>1, <1>2, <3>1, FitIs
    <3> QED BY <1>4, <3>1, <3>2
  <2> QED BY <2>1, <2>2
<1> QED BY <1>1, <1>2, <1>3, <1>4, <1>5, <1>6

\* What the first edits make is the beginning of the text.
LEMMA OutIsOwn ==
    ASSUME NEW w, NEW E, NEW u, NEW v, NEW L, Worked(w, E, u, v, L)
    PROVE  \A i \in 0..Len(E) : Lines(w[i].out) \subseteq Lines(v)
<1> DEFINE N == Len(E)
           T == {d \in 0..N : Lines(w[N - d].out) \subseteq Lines(v)}
<1>1. /\ u \in Seq(L) /\ v \in Seq(L) /\ Len(u) \in Nat /\ N \in Nat /\ Fit(E, u, v, L)
      /\ \A i \in 0..N : w[i].out \in Seq(L) /\ w[i].at \in 0..Len(u)
      /\ \A i \in 1..N : /\ w[i].out = w[i - 1].out \o Slice(u, w[i - 1].at, E[i].from) \o E[i].new
                         /\ w[i].at = E[i].to
  BY WorkedIs
<1>2. 0 \in T
  <2> DEFINE s == w[N].out
             t == Slice(u, w[N].at, Len(u))
  <2>1. s \in Seq(L) /\ w[N].at \in 0..Len(u) /\ N - 0 = N /\ 0 \in 0..N
    BY <1>1
  <2>2. t \in Seq(L)
    <3>1. w[N].at \in Nat /\ Len(u) \in 0..Len(u)
      BY <1>1, <2>1
    <3> QED BY <1>1, <3>1, SliceIs
  <2>3. s \o t = v
    BY DEF Worked
  <2> HIDE DEF s, t
  <2>4. Lines(s \o t) = Lines(s) \cup Lines(t)
    BY <2>1, <2>2, LinesJoin
  <2>5. Lines(s) \subseteq Lines(v)
    BY <2>3, <2>4
  <2> QED BY <2>1, <2>5 DEF s
<1>3. ASSUME NEW d \in 0..(N - 1), d \in T PROVE d + 1 \in T
  <2> DEFINE i == N - d
             s == w[i - 1].out
             t == Slice(u, w[i - 1].at, E[i].from)
             n == E[i].new
  <2>1. i \in 1..N /\ i - 1 \in 0..N /\ N - (d + 1) = i - 1 /\ d + 1 \in 0..N
    BY <1>1
  <2>2. s \in Seq(L) /\ w[i - 1].at \in 0..Len(u) /\ w[i].out = (s \o t) \o n
    BY <1>1, <2>1
  <2>3. E[i].from \in 0..Len(u) /\ n \in Seq(L)
    <3> HIDE DEF i
    <3> QED BY <1>1, <2>1, FitIs
  <2>4. t \in Seq(L)
    <3>1. w[i - 1].at \in Nat
      BY <2>2
    <3> HIDE DEF i
    <3> QED BY <1>1, <2>3, <3>1, SliceIs
  <2>5. Lines(w[i].out) \subseteq Lines(v)
    BY <1>3
  <2> HIDE DEF s, t, n, i
  <2>6. s \o t \in Seq(L) /\ Lines(s) \subseteq Lines(s \o t)
    BY <2>2, <2>4, LinesJoin
  <2>7. Lines(s \o t) \subseteq Lines((s \o t) \o n)
    <3> DEFINE st == s \o t
    <3>1. st \in Seq(L)
      BY <2>6
    <3> HIDE DEF st
    <3>2. Lines(st) \subseteq Lines(st \o n)
      BY <2>3, <3>1, LinesJoin
    <3> QED BY <3>2 DEF st
  <2>8. Lines(s) \subseteq Lines(v)
    BY <2>2, <2>5, <2>6, <2>7
  <2> QED BY <2>1, <2>8 DEF s
<1>4. \A d \in 0..N : d \in T
  <2> HIDE DEF T, N
  <2> QED BY <1>1, <1>2, <1>3, UpTo
<1>5. ASSUME NEW i \in 0..N PROVE Lines(w[i].out) \subseteq Lines(v)
  BY <1>1, <1>4
<1> QED BY <1>5

\* With the edit i + 1, the text grows by what lies before it and by its new lines.
Change(E, u, i, x) == Slice(u, x, E[i + 1].from) \o E[i + 1].new

Before(E, i) == i < Len(E)

\* One more edit of the side.
LEMMA TakesEdit ==
    ASSUME NEW w, NEW E, NEW u, NEW v, NEW L, Worked(w, E, u, v, L),
           NEW i, NEW x, Rests(E, u, i, x), Before(E, i)
    PROVE  /\ Change(E, u, i, x) \in Seq(L)
           /\ Upto(w, u, i + 1, E[i + 1].to) = Upto(w, u, i, x) \o Change(E, u, i, x)
           /\ Rests(E, u, i + 1, E[i + 1].to)
<1>1. /\ u \in Seq(L) /\ v \in Seq(L) /\ Len(u) \in Nat /\ Len(E) \in Nat /\ Fit(E, u, v, L)
      /\ \A j \in 0..Len(E) : w[j].out \in Seq(L) /\ w[j].at \in 0..Len(u)
      /\ w[0].out = <<>> /\ w[0].at = 0
      /\ \A j \in 1..Len(E) : /\ w[j].out = w[j - 1].out \o Slice(u, w[j - 1].at, E[j].from) \o E[j].new
                              /\ w[j].at = E[j].to
  BY WorkedIs
<1>2. /\ i \in 0..Len(E) /\ x \in 0..Len(u) /\ (i > 0 => E[i].to <= x) /\ x <= E[i + 1].from
      /\ i + 1 \in 1..Len(E) /\ i + 1 \in 0..Len(E) /\ (i + 1) - 1 = i /\ i \in Nat
  BY <1>1 DEF Rests, Before
<1> DEFINE at == w[i].at
           e == E[i + 1]
           o == w[i].out
<1>3. at \in 0..Len(u) /\ o \in Seq(L) /\ at <= x
  <2>1. CASE i = 0
    BY <1>1, <1>2, <2>1
  <2>2. CASE i # 0
    <3>1. i \in 1..Len(E) /\ i > 0
      BY <1>1, <1>2, <2>2
    <3> QED BY <1>1, <1>2, <3>1
  <2> QED BY <2>1, <2>2
<1>4. e.from \in 0..Len(u) /\ e.to \in 0..Len(u) /\ e.from <= e.to /\ e.new \in Seq(L)
  BY <1>1, <1>2, FitIs
<1>5. w[i + 1].out = o \o Slice(u, at, e.from) \o e.new /\ w[i + 1].at = e.to
  BY <1>1, <1>2
<1>6. Rests(E, u, i + 1, e.to)
  <2>1. i + 1 < Len(E) => e.to <= E[(i + 1) + 1].from
    <3> SUFFICES ASSUME i + 1 < Len(E) PROVE e.to <= E[(i + 1) + 1].from
      OBVIOUS
    <3>1. (i + 1) + 1 \in 1..Len(E) /\ i + 1 < (i + 1) + 1
      BY <1>1, <1>2
    <3>2. e.to < E[(i + 1) + 1].from
      BY <1>1, <1>2, <3>1 DEF Fit
    <3>3. E[(i + 1) + 1].from \in Nat
      <4> DEFINE j == (i + 1) + 1
      <4>1. j \in 1..Len(E)
        BY <3>1
      <4> HIDE DEF j
      <4>2. E[j].from \in Nat
        BY <1>1, <4>1, FitIs
      <4> QED BY <4>2 DEF j
    <3> HIDE DEF e
    <3> QED BY <1>4, <3>2, <3>3
  <2>2. e.to <= e.to
    BY <1>4
  <2> QED BY <1>2, <1>4, <2>1, <2>2 DEF Rests
<1> DEFINE p == Slice(u, at, x)
           q == Slice(u, x, e.from)
           n == e.new
<1>7. p \in Seq(L) /\ q \in Seq(L) /\ n \in Seq(L) /\ p \o q = Slice(u, at, e.from)
  <2> HIDE DEF at, e
  <2>1. at \in Nat /\ x \in Nat /\ x \in at..Len(u) /\ e.from \in x..Len(u)
    BY <1>1, <1>2, <1>3, <1>4 DEF e
  <2>2. p \in Seq(L) /\ q \in Seq(L)
    BY <1>1, <1>2, <1>4, <2>1, SliceIs
  <2>3. p \o q = Slice(u, at, e.from)
    BY <1>1, <2>1, SlicesJoin
  <2> QED BY <1>4, <2>2, <2>3
<1>8. Slice(u, e.to, e.to) = <<>>
  BY <1>4, NoSlice
<1>9. Upto(w, u, i + 1, e.to) = o \o Slice(u, at, e.from) \o n
  BY <1>5, <1>8, <1>1, <1>2, ConcatEmptySeq DEF Upto
<1>10. Upto(w, u, i, x) = o \o p
  BY DEF Upto
<1> HIDE DEF p, q, n, o
<1>11. q \o n \in Seq(L) /\ o \o p \in Seq(L)
  BY <1>3, <1>7, ConcatProperties
<1>12. o \o (p \o q) = (o \o p) \o q
  <2>1. TextsOf(o, p, q, L)
    BY <1>3, <1>7 DEF TextsOf
  <2> QED BY <2>1, Joined
<1>13. ((o \o p) \o q) \o n = (o \o p) \o (q \o n)
  <2> DEFINE r == o \o p
  <2>1. TextsOf(r, q, n, L)
    BY <1>7, <1>11 DEF TextsOf
  <2> HIDE DEF r
  <2>2. (r \o q) \o n = r \o (q \o n)
    BY <2>1, Joined
  <2> QED BY <2>2 DEF r
<1>14. Upto(w, u, i + 1, e.to) = Upto(w, u, i, x) \o (q \o n)
  BY <1>7, <1>9, <1>10, <1>12, <1>13
<1> QED BY <1>6, <1>11, <1>14 DEF q, n, Change

\* More of the base, before the next edit of the side.
LEMMA TakesBase ==
    ASSUME NEW w, NEW E, NEW u, NEW v, NEW L, Worked(w, E, u, v, L),
           NEW i, NEW x, Rests(E, u, i, x), NEW y \in x..Len(u), i < Len(E) => y <= E[i + 1].from
    PROVE  /\ Slice(u, x, y) \in Seq(L)
           /\ Upto(w, u, i, y) = Upto(w, u, i, x) \o Slice(u, x, y)
           /\ Rests(E, u, i, y)
<1>1. /\ u \in Seq(L) /\ v \in Seq(L) /\ Len(u) \in Nat /\ Len(E) \in Nat /\ Fit(E, u, v, L)
      /\ \A j \in 0..Len(E) : w[j].out \in Seq(L) /\ w[j].at \in 0..Len(u)
      /\ w[0].out = <<>> /\ w[0].at = 0
      /\ \A j \in 1..Len(E) : w[j].at = E[j].to
  BY WorkedIs
<1>2. i \in 0..Len(E) /\ x \in 0..Len(u) /\ (i > 0 => E[i].to <= x) /\ i \in Nat /\ x \in Nat /\ y \in Nat /\ x <= y
  BY <1>1 DEF Rests
<1> DEFINE at == w[i].at
           o == w[i].out
<1>3. at \in 0..Len(u) /\ o \in Seq(L) /\ at <= x /\ (i > 0 => E[i].to <= y)
  <2>1. CASE i = 0
    BY <1>1, <1>2, <2>1
  <2>2. CASE i # 0
    BY <1>1, <1>2, <2>2, FitIs
  <2> QED BY <2>1, <2>2
<1>4. Rests(E, u, i, y)
  BY <1>1, <1>2, <1>3 DEF Rests
<1> DEFINE p == Slice(u, at, x)
           q == Slice(u, x, y)
<1>5. p \in Seq(L) /\ q \in Seq(L) /\ p \o q = Slice(u, at, y)
  <2> HIDE DEF at
  <2>1. at \in Nat /\ x \in at..Len(u) /\ y \in 0..Len(u)
    BY <1>1, <1>2, <1>3
  <2>2. p \in Seq(L) /\ q \in Seq(L)
    BY <1>1, <1>2, <2>1, SliceIs
  <2>3. p \o q = Slice(u, at, y)
    BY <1>1, <2>1, SlicesJoin
  <2> QED BY <2>2, <2>3
<1>6. Upto(w, u, i, y) = o \o Slice(u, at, y) /\ Upto(w, u, i, x) = o \o p
  BY DEF Upto
<1> HIDE DEF p, q, o
<1>7. o \o (p \o q) = (o \o p) \o q
  <2>1. TextsOf(o, p, q, L)
    BY <1>3, <1>5 DEF TextsOf
  <2> QED BY <2>1, Joined
<1>8. Upto(w, u, i, y) = Upto(w, u, i, x) \o q
  BY <1>5, <1>6, <1>7
<1> QED BY <1>4, <1>5, <1>8 DEF q

LEMMA UptoIs ==
    ASSUME NEW w, NEW E, NEW u, NEW v, NEW L, Worked(w, E, u, v, L), NEW i, NEW x, Rests(E, u, i, x)
    PROVE  Upto(w, u, i, x) \in Seq(L) /\ Lines(Upto(w, u, i, x)) \subseteq Lines(v)
<1>1. /\ u \in Seq(L) /\ v \in Seq(L) /\ Len(u) \in Nat /\ Len(E) \in Nat /\ Fit(E, u, v, L)
      /\ \A j \in 0..Len(E) : w[j].out \in Seq(L) /\ w[j].at \in 0..Len(u)
  BY WorkedIs
<1>2. i \in 0..Len(E) /\ x \in 0..Len(u) /\ i \in Nat
  BY <1>1 DEF Rests
<1>3. \A a, b : a \in Seq(L) /\ b \in Seq(L) /\ Lines(a \o b) \subseteq Lines(v) => Lines(a) \subseteq Lines(v)
  BY LinesJoin
<1>4. Upto(w, u, i, x) \in Seq(L)
  <2>1. w[i].at \in Nat
    BY <1>1, <1>2
  <2>2. Slice(u, w[i].at, x) \in Seq(L)
    BY <1>1, <1>2, <2>1, SliceIs
  <2>3. w[i].out \in Seq(L)
    BY <1>1, <1>2
  <2> QED BY <2>2, <2>3, ConcatProperties DEF Upto
<1>5. CASE i < Len(E)
  <2> DEFINE e == E[i + 1]
             a == Upto(w, u, i, x)
             b == Slice(u, x, e.from) \o e.new
  <2>1. b \in Seq(L) /\ Upto(w, u, i + 1, e.to) = a \o b
    <3>1. Before(E, i)
      BY <1>5 DEF Before
    <3>2. Change(E, u, i, x) \in Seq(L) /\ Upto(w, u, i + 1, E[i + 1].to) = Upto(w, u, i, x) \o Change(E, u, i, x)
      BY <3>1, TakesEdit
    <3> QED BY <3>2 DEF Change
  <2>2. i + 1 \in 1..Len(E) /\ i + 1 \in 0..Len(E)
    BY <1>1, <1>2, <1>5
  <2>3. e.to \in Nat /\ w[i + 1].at = e.to /\ w[i + 1].out \in Seq(L)
    BY <2>2, WorkedIs, FitIs
  <2>4. Upto(w, u, i + 1, e.to) = w[i + 1].out
    BY <2>3, NoSlice, ConcatEmptySeq DEF Upto
  <2>5. Lines(w[i + 1].out) \subseteq Lines(v)
    BY <2>2, OutIsOwn
  <2> HIDE DEF a, b
  <2>6. a \in Seq(L) /\ Lines(a \o b) \subseteq Lines(v)
    BY <1>4, <2>1, <2>4, <2>5 DEF a
  <2>7. Lines(a) \subseteq Lines(v)
    BY <1>3, <2>1, <2>6
  <2> QED BY <1>4, <2>7 DEF a
<1>6. CASE ~(i < Len(E))
  <2> DEFINE a == Upto(w, u, i, x)
             b == Slice(u, x, Len(u))
  <2>1. i = Len(E) /\ Len(u) \in x..Len(u)
    BY <1>1, <1>2, <1>6
  <2>2. b \in Seq(L) /\ Upto(w, u, i, Len(u)) = a \o b
    BY <1>6, <2>1, TakesBase
  <2>3. Upto(w, u, i, Len(u)) = v
    BY <2>1 DEF Worked, Upto
  <2> HIDE DEF a, b
  <2>4. a \in Seq(L) /\ Lines(a \o b) \subseteq Lines(v)
    BY <1>4, <2>2, <2>3 DEF a
  <2>5. Lines(a) \subseteq Lines(v)
    BY <1>3, <2>2, <2>4
  <2> QED BY <1>4, <2>5 DEF a
<1> QED BY <1>5, <1>6
-----------------------------------------------------------------------------
(***************************************************************************)
(* A side of a cluster, rendered: what its edits make of that range.       *)
(***************************************************************************)
\* Where the text that the first n - 1 edits leave begins.
After(F, start, n) == IF n = 1 THEN start ELSE F[n - 1].to

Rendering(f, u, F, start, L) ==
    /\ f \in [0..Len(F) -> Seq(L)] /\ f[0] = <<>>
    /\ \A n \in 1..Len(F) : f[n] = f[n - 1] \o Slice(u, After(F, start, n), F[n].from) \o F[n].new

LEMMA RenderingExists ==
    ASSUME NEW L, NEW u \in Seq(L), NEW F \in Seq(EditsOf(L, Len(u))), NEW start \in Nat
    PROVE  \E f : Rendering(f, u, F, start, L)
<1> DEFINE N == Len(F)
           X == Seq(L)
           Part(n) == Slice(u, After(F, start, n), F[n].from)
           h == [n \in 1..N |-> [r \in X |-> (r \o Part(n)) \o F[n].new]]
<1>1. N \in Nat /\ Len(u) \in Nat /\ \A n \in 1..N : F[n] \in EditsOf(L, Len(u))
  BY LenProperties, ElementOfSeq
<1>2. ASSUME NEW n \in 1..N PROVE Part(n) \in X /\ F[n].new \in X
  <2>1. F[n].from \in 0..Len(u) /\ F[n].new \in X
    BY <1>1 DEF EditsOf
  <2>2. After(F, start, n) \in Nat
    <3>1. CASE n = 1
      BY <3>1 DEF After
    <3>2. CASE n # 1
      BY <1>1, <3>2 DEF EditsOf, After
    <3> QED BY <3>1, <3>2
  <2>3. Part(n) \in X
    BY <2>1, <2>2, SliceIs
  <2> QED BY <2>1, <2>3
<1>3. h \in Steps(X, N)
  <2>1. \A n \in 1..N, r \in X : (r \o Part(n)) \o F[n].new \in X
    <3> SUFFICES ASSUME NEW n \in 1..N, NEW r \in X PROVE (r \o Part(n)) \o F[n].new \in X
      OBVIOUS
    <3> HIDE DEF Part
    <3> QED BY <1>2, ConcatProperties
  <2> HIDE DEF Part
  <2> QED BY <2>1 DEF Steps
<1>4. <<>> \in X
  BY EmptySeq
<1>5. PICK f : Chain(f, X, N, <<>>, h)
  <2> HIDE DEF h, X, N
  <2> QED BY <1>1, <1>3, <1>4, Iterated
<1>6. ASSUME NEW n \in 1..N PROVE f[n] = (f[n - 1] \o Part(n)) \o F[n].new
  <2>1. n - 1 \in 0..N
    BY <1>1
  <2>2. f[n - 1] \in X /\ f[n] = h[n][f[n - 1]]
    <3> HIDE DEF h, X
    <3> QED BY <1>5, <2>1 DEF Chain
  <2> HIDE DEF X, Part
  <2> QED BY <2>2
<1> QED BY <1>5, <1>6 DEF Chain, Rendering

\* Where the text behind the last edit begins.
Behind(F, start) == IF Len(F) = 0 THEN start ELSE F[Len(F)].to

LEMMA RenderIs ==
    ASSUME NEW L, NEW u \in Seq(L), NEW F \in Seq(EditsOf(L, Len(u))), NEW start \in Nat, NEW end,
           NEW f, Rendering(f, u, F, start, L)
    PROVE  Render(u, F, start, end) = f[Len(F)] \o Slice(u, Behind(F, start), end)
<1> DEFINE N == Len(F)
           Def(g) == g = [i \in 0..N |-> IF i = 0 THEN <<>>
                             ELSE g[i-1] \o Slice(u, IF i = 1 THEN start ELSE F[i-1].to, F[i].from) \o F[i].new]
           g == CHOOSE g : Def(g)
           Next1(r, n) == r \o Slice(u, After(F, start, n), F[n].from) \o F[n].new
<1>1. N \in Nat /\ (F = <<>> <=> N = 0)
  BY LenProperties, EmptySeq
<1>2. /\ f \in [0..N -> Seq(L)] /\ f[0] = <<>>
      /\ \A n \in 1..N : f[n] = Next1(f[n - 1], n)
  BY DEF Rendering
<1>3. \A r, n : Next1(r, n) = r \o Slice(u, IF n = 1 THEN start ELSE F[n-1].to, F[n].from) \o F[n].new
  BY DEF After
<1>4. Def(f)
  <2> DEFINE e(n) == Next1(f[n - 1], n)
  <2>1. \A n \in 0..N : f[n] = IF n = 0 THEN <<>> ELSE e(n)
    <3> HIDE DEF Next1
    <3> QED BY <1>1, <1>2
  <2>2. f = [n \in 0..N |-> f[n]]
    BY <1>2
  <2> HIDE DEF e, N
  <2>3. f = [n \in 0..N |-> IF n = 0 THEN <<>> ELSE e(n)]
    BY <2>1, <2>2
  <2> QED BY <2>3 DEF e, After
<1>5. Def(g)
  <2> HIDE DEF Def
  <2> QED BY <1>4
<1>6. Render(u, F, start, end) = g[N] \o Slice(u, IF F = <<>> THEN start ELSE F[N].to, end)
  BY DEF Render
<1> HIDE DEF g
<1>7. \A n \in 0..N : g[n] = IF n = 0 THEN <<>> ELSE Next1(g[n - 1], n)
  <2> DEFINE e(n) == Next1(g[n - 1], n)
  <2>1. g = [n \in 0..N |-> IF n = 0 THEN <<>> ELSE e(n)]
    BY <1>5 DEF After
  <2> HIDE DEF Def, e, N
  <2>2. \A n \in 0..N : g[n] = IF n = 0 THEN <<>> ELSE e(n)
    BY <2>1
  <2> QED BY <2>2 DEF e
<1> HIDE DEF Next1, Def
<1> DEFINE T == {n \in 0..N : g[n] = f[n]}
<1>8. 0 \in T
  BY <1>1, <1>2, <1>7
<1>9. ASSUME NEW n \in 0..(N - 1), n \in T PROVE n + 1 \in T
  <2>1. n + 1 \in 1..N /\ (n + 1) - 1 = n /\ n + 1 \in 0..N /\ n + 1 # 0
    BY <1>1
  <2>2. f[n + 1] = Next1(f[n], n + 1) /\ g[n + 1] = Next1(g[n], n + 1) /\ g[n] = f[n]
    BY <1>2, <2>1, <1>7, <1>9
  <2> QED BY <2>1, <2>2
<1>10. \A n \in 0..N : n \in T
  <2> HIDE DEF T, N
  <2> QED BY <1>1, <1>8, <1>9, UpTo
<1>11. g[N] = f[N]
  <2>1. N \in 0..N
    BY <1>1
  <2> QED BY <1>10, <2>1
<1> QED BY <1>1, <1>6, <1>11 DEF Behind

\* With r, the text U becomes what the first m edits of the side make of the base up to z.
Renders(w, E, u, L, U, m, z, r) ==
    Rests(E, u, m, z) /\ U \in Seq(L) /\ r \in Seq(L) /\ Upto(w, u, m, z) = U \o r

LEMMA RenderedMore ==
    ASSUME NEW w, NEW E, NEW u, NEW v, NEW L, Worked(w, E, u, v, L), NEW U, NEW m, NEW z, NEW r,
           Renders(w, E, u, L, U, m, z, r), Before(E, m)
    PROVE  /\ Renders(w, E, u, L, U, m + 1, E[m + 1].to, r \o Slice(u, z, E[m + 1].from) \o E[m + 1].new)
           /\ Lines(r) \subseteq Lines(r \o Slice(u, z, E[m + 1].from) \o E[m + 1].new)
           /\ Lines(Slice(u, z, E[m + 1].from)) \subseteq Lines(r \o Slice(u, z, E[m + 1].from) \o E[m + 1].new)
<1>1. Rests(E, u, m, z) /\ U \in Seq(L) /\ r \in Seq(L) /\ Upto(w, u, m, z) = U \o r
  BY DEF Renders
<1>2. /\ Change(E, u, m, z) \in Seq(L)
      /\ Upto(w, u, m + 1, E[m + 1].to) = Upto(w, u, m, z) \o Change(E, u, m, z)
      /\ Rests(E, u, m + 1, E[m + 1].to)
  BY <1>1, TakesEdit
<1> DEFINE p == Slice(u, z, E[m + 1].from)
           n == E[m + 1].new
<1>3. p \in Seq(L) /\ n \in Seq(L)
  <2>1. u \in Seq(L) /\ Len(u) \in Nat /\ Len(E) \in Nat /\ Fit(E, u, v, L)
    BY WorkedIs
  <2>2. m \in Nat /\ z \in Nat /\ m + 1 \in 1..Len(E)
    BY <1>1, <2>1 DEF Rests, Before
  <2>3. E[m + 1].from \in 0..Len(u) /\ n \in Seq(L)
    BY <2>1, <2>2, FitIs
  <2> QED BY <2>1, <2>2, <2>3, SliceIs
<1>4. Change(E, u, m, z) = p \o n
  BY DEF Change
<1>5. Upto(w, u, m + 1, E[m + 1].to) = (U \o r) \o (p \o n)
  BY <1>1, <1>2, <1>4
<1> HIDE DEF p, n
<1>6. p \o n \in Seq(L) /\ r \o p \in Seq(L) /\ Lines(r \o p) = Lines(r) \cup Lines(p)
  BY <1>1, <1>3, LinesJoin
<1>7. (r \o p) \o n \in Seq(L) /\ Lines((r \o p) \o n) = Lines(r \o p) \cup Lines(n)
  <2> DEFINE s == r \o p
  <2>1. s \in Seq(L)
    BY <1>6
  <2> HIDE DEF s
  <2>2. s \o n \in Seq(L) /\ Lines(s \o n) = Lines(s) \cup Lines(n)
    BY <1>3, <2>1, LinesJoin
  <2> QED BY <2>2 DEF s
<1>8. (U \o r) \o (p \o n) = U \o ((r \o p) \o n)
  <2>1. (r \o p) \o n = r \o (p \o n)
    BY <1>1, <1>3, Joined DEF TextsOf
  <2> DEFINE s == p \o n
  <2>2. TextsOf(U, r, s, L)
    BY <1>1, <1>6 DEF TextsOf
  <2> HIDE DEF s
  <2>3. (U \o r) \o s = U \o (r \o s)
    BY <2>2, Joined
  <2> QED BY <2>1, <2>3 DEF s
<1>9. Renders(w, E, u, L, U, m + 1, E[m + 1].to, (r \o p) \o n)
  BY <1>1, <1>2, <1>5, <1>7, <1>8 DEF Renders
<1>10. Lines(r) \subseteq Lines((r \o p) \o n) /\ Lines(p) \subseteq Lines((r \o p) \o n)
  BY <1>6, <1>7
<1> QED BY <1>9, <1>10 DEF p, n

\* Up to y the side changes nothing.
Still(E, u, m, z, y) == y \in z..Len(u) /\ (m < Len(E) => y <= E[m + 1].from)

LEMMA RenderedLast ==
    ASSUME NEW w, NEW E, NEW u, NEW v, NEW L, Worked(w, E, u, v, L), NEW U, NEW m, NEW z, NEW r,
           Renders(w, E, u, L, U, m, z, r), NEW y, Still(E, u, m, z, y)
    PROVE  /\ Renders(w, E, u, L, U, m, y, r \o Slice(u, z, y))
           /\ Lines(r \o Slice(u, z, y)) = Lines(r) \cup Lines(Slice(u, z, y))
<1>1. Rests(E, u, m, z) /\ U \in Seq(L) /\ r \in Seq(L) /\ Upto(w, u, m, z) = U \o r
  BY DEF Renders
<1>2. y \in z..Len(u) /\ (m < Len(E) => y <= E[m + 1].from)
  BY DEF Still
<1>3. /\ Slice(u, z, y) \in Seq(L)
      /\ Upto(w, u, m, y) = Upto(w, u, m, z) \o Slice(u, z, y)
      /\ Rests(E, u, m, y)
  BY <1>1, <1>2, TakesBase
<1> DEFINE p == Slice(u, z, y)
<1>4. p \in Seq(L) /\ Upto(w, u, m, y) = (U \o r) \o p
  BY <1>1, <1>3
<1> HIDE DEF p
<1>5. r \o p \in Seq(L) /\ Lines(r \o p) = Lines(r) \cup Lines(p)
  BY <1>1, <1>4, LinesJoin
<1>6. (U \o r) \o p = U \o (r \o p)
  <2>1. TextsOf(U, r, p, L)
    BY <1>1, <1>4 DEF TextsOf
  <2> QED BY <2>1, Joined
<1>7. Renders(w, E, u, L, U, m, y, r \o p)
  BY <1>1, <1>3, <1>4, <1>5, <1>6 DEF Renders
<1> QED BY <1>5, <1>7 DEF p

\* The edits i + 1 to j of the side, applied to the base from x to y.
Stretch(E, u, i, x, j, y) == Rests(E, u, i, x) /\ Rests(E, u, j, y) /\ i <= j /\ x <= y

Rendered(w, E, u, v, L, i, x, j, y, r) ==
    /\ Renders(w, E, u, L, Upto(w, u, i, x), j, y, r)
    /\ Lines(r) \subseteq Lines(v)
    /\ i < j => Lines(Slice(u, x, E[i + 1].from)) \subseteq Lines(r)
    /\ i + 1 < j => Lines(Slice(u, E[i + 1].to, E[i + 2].from)) \subseteq Lines(r)
    /\ i + 1 = j => Lines(Slice(u, E[i + 1].to, y)) \subseteq Lines(r)

LEMMA StretchRendered ==
    ASSUME NEW w, NEW E, NEW u, NEW v, NEW L, Worked(w, E, u, v, L),
           NEW i, NEW x, NEW j, NEW y, Stretch(E, u, i, x, j, y)
    PROVE  Rendered(w, E, u, v, L, i, x, j, y, Render(u, SubSeq(E, i + 1, j), x, y))
<1> DEFINE F == SubSeq(E, i + 1, j)
           N == j - i
           U == Upto(w, u, i, x)
           z(n) == IF n = 0 THEN x ELSE E[i + n].to
<1>1. /\ u \in Seq(L) /\ v \in Seq(L) /\ Len(u) \in Nat /\ Len(E) \in Nat /\ Fit(E, u, v, L)
      /\ \A n \in 1..Len(E) : /\ E[n] \in EditsOf(L, Len(u))
                              /\ E[n].from \in 0..Len(u) /\ E[n].to \in 0..Len(u) /\ E[n].from <= E[n].to
  <2>1. u \in Seq(L) /\ v \in Seq(L) /\ Len(u) \in Nat /\ Len(E) \in Nat /\ Fit(E, u, v, L)
    BY WorkedIs
  <2>2. \A n \in 1..Len(E) : /\ E[n] \in EditsOf(L, Len(u))
                             /\ E[n].from \in 0..Len(u) /\ E[n].to \in 0..Len(u) /\ E[n].from <= E[n].to
    BY ONLY <2>1, FitIs
  <2> QED BY <2>1, <2>2
<1>2. /\ Rests(E, u, i, x) /\ Rests(E, u, j, y) /\ i <= j /\ x <= y
      /\ i \in 0..Len(E) /\ x \in 0..Len(u) /\ j \in 0..Len(E) /\ y \in 0..Len(u)
      /\ (j > 0 => E[j].to <= y) /\ (j < Len(E) => y <= E[j + 1].from)
  BY DEF Stretch, Rests
<1>3. N \in Nat /\ i \in Nat /\ j \in Nat /\ x \in Nat /\ i + N = j
  BY <1>1, <1>2
<1>4. F \in Seq(EditsOf(L, Len(u))) /\ Len(F) = N /\ \A n \in 1..N : F[n] = E[i + n]
  <2> DEFINE D == EditsOf(L, Len(u))
             m == i + 1
  <2>0. m \in Int /\ j \in Int /\ \A n \in m..j : n \in 1..Len(E)
    <3>1. i \in Nat /\ j \in 0..Len(E) /\ Len(E) \in Nat /\ m = i + 1
      BY <1>1, <1>2, <1>3
    <3> HIDE DEF m
    <3> QED BY ONLY <3>1
  <2>1. m \in Int /\ j \in Int /\ \A n \in m..j : E[n] \in D
    <3> HIDE DEF D, m
    <3> QED BY <1>1, <2>0 DEF D
  <2> HIDE DEF D, m
  <2>2. /\ SubSeq(E, m, j) \in Seq(D)
        /\ Len(SubSeq(E, m, j)) = IF m <= j THEN j - m + 1 ELSE 0
        /\ \A n \in 1..(j - m + 1) : SubSeq(E, m, j)[n] = E[m + n - 1]
    BY <2>1, SubSeqProperties
  <2>3. Len(SubSeq(E, m, j)) = N /\ j - m + 1 = N
    BY <1>2, <1>3, <2>2 DEF m
  <2>4. \A n \in 1..N : m + n - 1 = i + n
    BY <1>3 DEF m
  <2> QED BY <2>2, <2>3, <2>4 DEF m, D
<1> HIDE DEF F
<1>5. PICK f : Rendering(f, u, F, x, L)
  BY <1>1, <1>3, <1>4, RenderingExists
<1>6. Render(u, F, x, y) = f[N] \o Slice(u, z(N), y)
  <2>1. Render(u, F, x, y) = f[Len(F)] \o Slice(u, Behind(F, x), y)
    <3>1. u \in Seq(L) /\ F \in Seq(EditsOf(L, Len(u))) /\ x \in Nat
      BY <1>1, <1>3, <1>4
    <3> HIDE DEF U, z, N
    <3> QED BY ONLY <1>5, <3>1, RenderIs
  <2>2. N # 0 => F[N] = E[i + N]
    BY <1>3, <1>4
  <2>3. Behind(F, x) = z(N)
    <3> HIDE DEF N
    <3> QED BY <1>4, <2>2 DEF Behind
  <2> HIDE DEF z, N
  <2> QED BY <1>4, <2>1, <2>3
<1> DEFINE Good(n) == /\ Renders(w, E, u, L, U, i + n, z(n), f[n])
                      /\ n >= 1 => Lines(Slice(u, x, E[i + 1].from)) \subseteq Lines(f[n])
                      /\ n >= 2 => Lines(Slice(u, E[i + 1].to, E[i + 2].from)) \subseteq Lines(f[n])
           T == {n \in 0..N : Good(n)}
<1>7. 0 \in T
  <2>1. f[0] = <<>> /\ z(0) = x /\ i + 0 = i /\ 0 \in 0..N
    BY <1>3, <1>5 DEF Rendering
  <2>2. U \in Seq(L)
    BY <1>2, UptoIs
  <2>3. <<>> \in Seq(L) /\ U \o <<>> = U
    <3> HIDE DEF U
    <3> QED BY <2>2, EmptySeq, ConcatEmptySeq
  <2>4. Renders(w, E, u, L, U, i, x, <<>>)
    BY <1>2, <2>2, <2>3 DEF Renders
  <2> HIDE DEF U
  <2> QED BY <2>1, <2>4
<1>8. ASSUME NEW n \in 0..(N - 1), n \in T PROVE n + 1 \in T
  <2> DEFINE m == i + n
             g == f[n] \o Slice(u, z(n), E[m + 1].from) \o E[m + 1].new
  <2>1. /\ n + 1 \in 1..N /\ (n + 1) - 1 = n /\ n + 1 \in 0..N /\ i + (n + 1) = m + 1 /\ m \in Nat /\ n \in Nat
        /\ m + 1 \in 1..Len(E) /\ m < Len(E)
    BY <1>1, <1>2, <1>3
  <2>2. Good(n)
    BY <1>8
  <2>3. Before(E, m)
    BY <2>1 DEF Before
  <2>4. After(F, x, n + 1) = z(n)
    BY <1>3, <1>4, <2>1 DEF After
  <2>5. f[n + 1] = g
    <3>1. f[n + 1] = f[n] \o Slice(u, After(F, x, n + 1), F[n + 1].from) \o F[n + 1].new
      BY <1>4, <1>5, <2>1 DEF Rendering
    <3>2. F[n + 1] = E[m + 1]
      BY <1>4, <2>1
    <3> QED BY <2>4, <3>1, <3>2
  <2>6. z(n + 1) = E[m + 1].to
    BY <2>1
  <2>7. /\ Renders(w, E, u, L, U, m + 1, E[m + 1].to, g)
        /\ Lines(f[n]) \subseteq Lines(g)
        /\ Lines(Slice(u, z(n), E[m + 1].from)) \subseteq Lines(g)
    <3>1. Renders(w, E, u, L, U, m, z(n), f[n])
      BY <2>2
    <3> DEFINE r == f[n]
               y1 == z(n)
    <3> HIDE DEF U, m, z, r, y1
    <3>2. Renders(w, E, u, L, U, m, y1, r)
      BY <3>1 DEF r, y1
    <3>3. /\ Renders(w, E, u, L, U, m + 1, E[m + 1].to, r \o Slice(u, y1, E[m + 1].from) \o E[m + 1].new)
          /\ Lines(r) \subseteq Lines(r \o Slice(u, y1, E[m + 1].from) \o E[m + 1].new)
          /\ Lines(Slice(u, y1, E[m + 1].from)) \subseteq Lines(r \o Slice(u, y1, E[m + 1].from) \o E[m + 1].new)
      BY <2>3, <3>2, RenderedMore
    <3> QED BY <3>3 DEF r, y1
  <2>8. Lines(Slice(u, x, E[i + 1].from)) \subseteq Lines(g)
    <3>1. CASE n = 0
      <4>1. m + 1 = i + 1 /\ z(n) = x
        BY <1>3, <3>1
      <4> HIDE DEF g, z, m
      <4> QED BY <2>7, <4>1
    <3>2. CASE n # 0
      <4>1. n >= 1
        BY <2>1, <3>2
      <4> HIDE DEF g, z, m
      <4> QED BY <2>2, <2>7, <4>1
    <3> QED BY <3>1, <3>2
  <2>9. n + 1 >= 2 => Lines(Slice(u, E[i + 1].to, E[i + 2].from)) \subseteq Lines(g)
    <3> SUFFICES ASSUME n + 1 >= 2 PROVE Lines(Slice(u, E[i + 1].to, E[i + 2].from)) \subseteq Lines(g)
      OBVIOUS
    <3>1. CASE n = 1
      <4>1. m + 1 = i + 2 /\ z(n) = E[i + 1].to
        BY <1>3, <3>1
      <4> HIDE DEF g, z, m
      <4> QED BY <2>7, <4>1
    <3>2. CASE n # 1
      <4>1. n >= 2
        BY <2>1, <3>2
      <4> HIDE DEF g, z, m
      <4> QED BY <2>2, <2>7, <4>1
    <3> QED BY <3>1, <3>2
  <2> HIDE DEF U, g
  <2>10. Renders(w, E, u, L, U, i + (n + 1), z(n + 1), g)
    <3> HIDE DEF z, m
    <3> QED BY <2>1, <2>6, <2>7
  <2> QED BY <2>1, <2>5, <2>8, <2>9, <2>10
<1>9. N \in T
  <2>1. \A n \in 0..N : n \in T
    <3> HIDE DEF T, N
    <3> QED BY <1>3, <1>7, <1>8, UpTo
  <2>2. N \in 0..N
    BY <1>3
  <2> QED BY <2>1, <2>2
<1> DEFINE r == f[N]
           e == z(N)
           s == r \o Slice(u, e, y)
<1>10. /\ Renders(w, E, u, L, U, j, e, r)
       /\ N >= 1 => Lines(Slice(u, x, E[i + 1].from)) \subseteq Lines(r)
       /\ N >= 2 => Lines(Slice(u, E[i + 1].to, E[i + 2].from)) \subseteq Lines(r)
  BY <1>3, <1>9
<1>11. Still(E, u, j, e, y)
  <2>1. CASE N = 0
    <3>1. e = x
      BY <2>1
    <3> QED BY <1>1, <1>2, <1>3, <3>1 DEF Still
  <2>2. CASE N # 0
    <3>1. e = E[j].to /\ j \in 1..Len(E) /\ j > 0
      BY <1>1, <1>2, <1>3, <2>2
    <3>2. e \in 0..Len(u) /\ e <= y
      <4> HIDE DEF e
      <4> QED BY <1>1, <1>2, <3>1
    <3> HIDE DEF e
    <3> QED BY <1>1, <1>2, <3>2 DEF Still
  <2> QED BY <2>1, <2>2
<1>12. i + 1 = j => e = E[i + 1].to
  BY <1>3
<1>13. Render(u, F, x, y) = s
  BY <1>6
<1>14. N >= 1 <=> i < j
  BY <1>3
<1>15. N >= 2 <=> i + 1 < j
  BY <1>3
<1> HIDE DEF U, r, e, z, N
<1>16. Renders(w, E, u, L, U, j, y, s) /\ Lines(s) = Lines(r) \cup Lines(Slice(u, e, y))
  BY <1>10, <1>11, RenderedLast
<1>17. Lines(s) \subseteq Lines(v)
  <2> HIDE DEF s
  <2>1. U \in Seq(L) /\ s \in Seq(L) /\ Upto(w, u, j, y) = U \o s
    BY <1>16 DEF Renders
  <2>2. Lines(Upto(w, u, j, y)) \subseteq Lines(v)
    BY <1>2, UptoIs
  <2>3. Lines(U \o s) = Lines(U) \cup Lines(s)
    BY <2>1, LinesJoin
  <2> QED BY <2>1, <2>2, <2>3
<1>18. Rendered(w, E, u, v, L, i, x, j, y, s)
  <2> HIDE DEF s
  <2> QED BY <1>10, <1>12, <1>14, <1>15, <1>16, <1>17 DEF Rendered, U
<1> QED BY <1>13, <1>18 DEF F
-----------------------------------------------------------------------------
(***************************************************************************)
(* Clusters of edits.                                                      *)
(***************************************************************************)
\* The next edits of both sides overlap.
Meeting(O, T, u, v1, v2, L, i, j) ==
    /\ Len(u) \in Nat /\ Fit(O, u, v1, L) /\ Fit(T, u, v2, L)
    /\ i \in 0..(Len(O) - 1) /\ j \in 0..(Len(T) - 1)
    /\ O[i + 1].from < T[j + 1].to /\ T[j + 1].from < O[i + 1].to

\* They take the same lines of the base.
SameRange(e, d) == e.from = d.from /\ e.to = d.to

Clusters(O, T, u, i, j) ==
    {c \in [o : i..Len(O), t : j..Len(T), start : 0..Len(u), end : 0..Len(u)] :
        /\ c.start = Least(O[i + 1].from, T[j + 1].from)
        /\ O[i + 1].to <= c.end /\ T[j + 1].to <= c.end
        /\ c.o > i => O[c.o].to <= c.end
        /\ c.t > j => T[c.t].to <= c.end
        /\ SameRange(O[i + 1], T[j + 1]) => c.end = O[i + 1].to /\ c.o <= i + 1 /\ c.t <= j + 1}

\* The next edit of a side is not of the cluster.
Ended(E, n, c) == n < Len(E) => ~Overlaps(E[n + 1], c.start, c.end)

LEMMA MeetingIs ==
    ASSUME NEW O, NEW T, NEW u, NEW v1, NEW v2, NEW L, NEW i, NEW j, Meeting(O, T, u, v1, v2, L, i, j)
    PROVE  /\ Len(u) \in Nat /\ Len(O) \in Nat /\ Len(T) \in Nat /\ i \in Nat /\ j \in Nat
           /\ i + 1 \in 1..Len(O) /\ j + 1 \in 1..Len(T)
           /\ \A n \in 1..Len(O) : O[n].from \in 0..Len(u) /\ O[n].to \in 0..Len(u) /\ O[n].from <= O[n].to
           /\ \A n \in 1..Len(T) : T[n].from \in 0..Len(u) /\ T[n].to \in 0..Len(u) /\ T[n].from <= T[n].to
           /\ \A n \in 1..Len(O) : i + 1 < n => O[i + 1].to < O[n].from
           /\ \A n \in 1..Len(T) : j + 1 < n => T[j + 1].to < T[n].from
           /\ O[i + 1].from < T[j + 1].to /\ T[j + 1].from < O[i + 1].to
<1>1. /\ Len(u) \in Nat /\ Fit(O, u, v1, L) /\ Fit(T, u, v2, L)
      /\ i \in 0..(Len(O) - 1) /\ j \in 0..(Len(T) - 1)
      /\ O[i + 1].from < T[j + 1].to /\ T[j + 1].from < O[i + 1].to
  BY DEF Meeting
<1>2. Len(O) \in Nat /\ Len(T) \in Nat
  BY <1>1, FitIs
<1>3. /\ \A n \in 1..Len(O) : O[n].from \in 0..Len(u) /\ O[n].to \in 0..Len(u) /\ O[n].from <= O[n].to
      /\ \A n \in 1..Len(T) : T[n].from \in 0..Len(u) /\ T[n].to \in 0..Len(u) /\ T[n].from <= T[n].to
  BY <1>1, FitIs
<1>4. i \in Nat /\ j \in Nat /\ i + 1 \in 1..Len(O) /\ j + 1 \in 1..Len(T)
  BY <1>1, <1>2
<1>5. /\ \A n \in 1..Len(O) : i + 1 < n => O[i + 1].to < O[n].from
      /\ \A n \in 1..Len(T) : j + 1 < n => T[j + 1].to < T[n].from
  BY <1>1, <1>4 DEF Fit
<1> QED BY <1>1, <1>2, <1>3, <1>4, <1>5

\* One more edit: that of ours.
LEMMA GrownOurs ==
    ASSUME NEW O, NEW T, NEW u, NEW v1, NEW v2, NEW L, NEW i, NEW j, Meeting(O, T, u, v1, v2, L, i, j),
           NEW c \in Clusters(O, T, u, i, j), ~Ended(O, c.o, c)
    PROVE  Grown(O, T, c) \in Clusters(O, T, u, i, j) /\ Grown(O, T, c).o = c.o + 1 /\ Grown(O, T, c).t = c.t
<1> DEFINE e == O[c.o + 1]
           a == O[i + 1]
           b == T[j + 1]
           d == [o |-> c.o + 1, t |-> c.t, start |-> Least(c.start, e.from), end |-> Most(c.end, e.to)]
<1>1. /\ Len(u) \in Nat /\ Len(O) \in Nat /\ Len(T) \in Nat /\ i \in Nat /\ j \in Nat
      /\ i + 1 \in 1..Len(O) /\ j + 1 \in 1..Len(T)
      /\ \A n \in 1..Len(O) : O[n].from \in 0..Len(u) /\ O[n].to \in 0..Len(u) /\ O[n].from <= O[n].to
      /\ \A n \in 1..Len(T) : T[n].from \in 0..Len(u) /\ T[n].to \in 0..Len(u) /\ T[n].from <= T[n].to
      /\ \A n \in 1..Len(O) : i + 1 < n => O[i + 1].to < O[n].from
  BY MeetingIs
<1>2. /\ c \in [o : i..Len(O), t : j..Len(T), start : 0..Len(u), end : 0..Len(u)]
      /\ c.start = Least(a.from, b.from) /\ a.to <= c.end /\ b.to <= c.end
      /\ c.t > j => T[c.t].to <= c.end
      /\ SameRange(a, b) => c.end = a.to /\ c.o <= i + 1 /\ c.t <= j + 1
  BY DEF Clusters
<1>3. /\ c.o \in i..Len(O) /\ c.t \in j..Len(T) /\ c.start \in 0..Len(u) /\ c.end \in 0..Len(u)
      /\ c.start \in Nat /\ c.end \in Nat
  BY <1>1, <1>2
<1>4. c.o < Len(O) /\ Overlaps(e, c.start, c.end)
  BY DEF Ended
<1>5. Grown(O, T, c) = d
  BY <1>4, <1>2 DEF Grown
<1>6. /\ c.o + 1 \in 1..Len(O) /\ c.o + 1 \in i..Len(O) /\ c.o + 1 > i /\ i <= c.o
      /\ e.from \in 0..Len(u) /\ e.to \in 0..Len(u) /\ e.from <= e.to
      /\ a.from \in 0..Len(u) /\ a.to \in 0..Len(u) /\ a.from <= a.to
      /\ b.from \in 0..Len(u) /\ b.to \in 0..Len(u) /\ b.from <= b.to
  <2>1. c.o + 1 \in 1..Len(O) /\ c.o + 1 \in i..Len(O) /\ c.o + 1 > i /\ i <= c.o
    <3>1. c.o < Len(O)
      BY <1>4
    <3> QED BY <1>1, <1>3, <3>1
  <2>2. e.from \in 0..Len(u) /\ e.to \in 0..Len(u) /\ e.from <= e.to
    BY <1>1, <2>1
  <2> QED BY <1>1, <2>1, <2>2
<1>7. c.o = i => e = a
  OBVIOUS
<1>8. c.o # i => a.to < e.from
  BY <1>1, <1>3, <1>6, SMTT(30)
<1> HIDE DEF e, a, b
<1>9. Least(c.start, e.from) = c.start
  BY <1>2, <1>6, <1>7, <1>8, <1>3 DEF Least
<1>10. Most(c.end, e.to) \in 0..Len(u) /\ c.end <= Most(c.end, e.to) /\ e.to <= Most(c.end, e.to)
  BY <1>3, <1>6 DEF Most
<1>11. SameRange(a, b) => Most(c.end, e.to) = a.to /\ c.o + 1 <= i + 1 /\ c.t <= j + 1
  <2> SUFFICES ASSUME SameRange(a, b) PROVE Most(c.end, e.to) = a.to /\ c.o + 1 <= i + 1 /\ c.t <= j + 1
    OBVIOUS
  <2>1. e.from < c.end /\ c.end = a.to /\ c.t <= j + 1
    BY <1>2, <1>4 DEF Overlaps
  <2>2. c.o = i
    BY <1>1, <1>3, <1>6, <1>8, <2>1
  <2>3. Most(c.end, e.to) = a.to
    BY <1>6, <1>7, <2>1, <2>2 DEF Most
  <2>4. c.o + 1 <= i + 1
    BY <1>1, <2>2
  <2> QED BY <2>1, <2>3, <2>4
<1>12. d.o = c.o + 1 /\ d.t = c.t /\ d.start = c.start /\ d.end = Most(c.end, e.to)
  BY <1>9
<1>13. d \in [o : i..Len(O), t : j..Len(T), start : 0..Len(u), end : 0..Len(u)]
  BY <1>3, <1>6, <1>9, <1>10
<1>14. a.to <= d.end /\ b.to <= d.end /\ (d.t > j => T[d.t].to <= d.end)
  <2>1. a.to <= Most(c.end, e.to) /\ b.to <= Most(c.end, e.to)
    BY <1>2, <1>3, <1>6, <1>10
  <2>2. c.t > j => T[c.t].to <= Most(c.end, e.to)
    BY <1>1, <1>3, <1>2, <1>10
  <2> HIDE DEF d
  <2> QED BY <1>12, <2>1, <2>2
<1>15. d.o > i => O[d.o].to <= d.end
  <2> HIDE DEF d
  <2> QED BY <1>10, <1>12 DEF e
<1> HIDE DEF d
<1>16. d \in Clusters(O, T, u, i, j)
  BY <1>2, <1>12, <1>11, <1>13, <1>14, <1>15 DEF Clusters, a, b
<1> QED BY <1>5, <1>12, <1>16

\* One more edit: that of theirs.
LEMMA GrownTheirs ==
    ASSUME NEW O, NEW T, NEW u, NEW v1, NEW v2, NEW L, NEW i, NEW j, Meeting(O, T, u, v1, v2, L, i, j),
           NEW c \in Clusters(O, T, u, i, j), Ended(O, c.o, c), ~Ended(T, c.t, c)
    PROVE  Grown(O, T, c) \in Clusters(O, T, u, i, j) /\ Grown(O, T, c).o = c.o /\ Grown(O, T, c).t = c.t + 1
<1> DEFINE e == T[c.t + 1]
           a == O[i + 1]
           b == T[j + 1]
           d == [o |-> c.o, t |-> c.t + 1, start |-> Least(c.start, e.from), end |-> Most(c.end, e.to)]
<1>1. /\ Len(u) \in Nat /\ Len(O) \in Nat /\ Len(T) \in Nat /\ i \in Nat /\ j \in Nat
      /\ i + 1 \in 1..Len(O) /\ j + 1 \in 1..Len(T)
      /\ \A n \in 1..Len(O) : O[n].from \in 0..Len(u) /\ O[n].to \in 0..Len(u) /\ O[n].from <= O[n].to
      /\ \A n \in 1..Len(T) : T[n].from \in 0..Len(u) /\ T[n].to \in 0..Len(u) /\ T[n].from <= T[n].to
      /\ \A n \in 1..Len(T) : j + 1 < n => T[j + 1].to < T[n].from
  BY MeetingIs
<1>2. /\ c \in [o : i..Len(O), t : j..Len(T), start : 0..Len(u), end : 0..Len(u)]
      /\ c.start = Least(a.from, b.from) /\ a.to <= c.end /\ b.to <= c.end
      /\ c.o > i => O[c.o].to <= c.end
      /\ SameRange(a, b) => c.end = a.to /\ c.o <= i + 1 /\ c.t <= j + 1
  BY DEF Clusters
<1>3. /\ c.o \in i..Len(O) /\ c.t \in j..Len(T) /\ c.start \in 0..Len(u) /\ c.end \in 0..Len(u)
      /\ c.start \in Nat /\ c.end \in Nat
  BY <1>1, <1>2
<1>4. c.t < Len(T) /\ Overlaps(e, c.start, c.end) /\ ~(c.o < Len(O) /\ Overlaps(O[c.o + 1], c.start, c.end))
  BY DEF Ended
<1>5. Grown(O, T, c) = d
  BY <1>4, <1>2 DEF Grown
<1>6. /\ c.t + 1 \in 1..Len(T) /\ c.t + 1 \in j..Len(T) /\ c.t + 1 > j /\ j <= c.t
      /\ e.from \in 0..Len(u) /\ e.to \in 0..Len(u) /\ e.from <= e.to
      /\ a.from \in 0..Len(u) /\ a.to \in 0..Len(u) /\ a.from <= a.to
      /\ b.from \in 0..Len(u) /\ b.to \in 0..Len(u) /\ b.from <= b.to
  <2>1. c.t + 1 \in 1..Len(T) /\ c.t + 1 \in j..Len(T) /\ c.t + 1 > j /\ j <= c.t
    <3>1. c.t < Len(T)
      BY <1>4
    <3> QED BY <1>1, <1>3, <3>1
  <2>2. e.from \in 0..Len(u) /\ e.to \in 0..Len(u) /\ e.from <= e.to
    BY <1>1, <2>1
  <2> QED BY <1>1, <2>1, <2>2
<1>7. c.t = j => e = b
  OBVIOUS
<1>8. c.t # j => b.to < e.from
  BY <1>1, <1>3, <1>6, SMTT(30)
<1> HIDE DEF e, a, b
<1>9. Least(c.start, e.from) = c.start
  BY <1>2, <1>6, <1>7, <1>8, <1>3 DEF Least
<1>10. Most(c.end, e.to) \in 0..Len(u) /\ c.end <= Most(c.end, e.to) /\ e.to <= Most(c.end, e.to)
  BY <1>3, <1>6 DEF Most
<1>11. SameRange(a, b) => Most(c.end, e.to) = a.to /\ c.o <= i + 1 /\ c.t + 1 <= j + 1
  <2> SUFFICES ASSUME SameRange(a, b) PROVE Most(c.end, e.to) = a.to /\ c.o <= i + 1 /\ c.t + 1 <= j + 1
    OBVIOUS
  <2>1. e.from < c.end /\ c.end = a.to /\ a.to = b.to /\ c.o <= i + 1
    BY <1>2, <1>4 DEF Overlaps, SameRange
  <2>2. c.t = j
    BY <1>1, <1>3, <1>6, <1>8, <2>1, SMTT(30)
  <2>3. Most(c.end, e.to) = a.to
    BY <1>6, <1>7, <2>1, <2>2 DEF Most
  <2>4. c.t + 1 <= j + 1
    BY <1>1, <2>2
  <2> QED BY <2>1, <2>3, <2>4
<1>12. d.o = c.o /\ d.t = c.t + 1 /\ d.start = c.start /\ d.end = Most(c.end, e.to)
  BY <1>9
<1>13. d \in [o : i..Len(O), t : j..Len(T), start : 0..Len(u), end : 0..Len(u)]
  BY <1>3, <1>6, <1>9, <1>10
<1>14. a.to <= d.end /\ b.to <= d.end /\ (d.o > i => O[d.o].to <= d.end)
  <2>1. a.to <= Most(c.end, e.to) /\ b.to <= Most(c.end, e.to)
    BY <1>2, <1>3, <1>6, <1>10
  <2>2. c.o > i => O[c.o].to <= Most(c.end, e.to)
    BY <1>1, <1>3, <1>2, <1>10
  <2> HIDE DEF d
  <2> QED BY <1>12, <2>1, <2>2
<1>15. d.t > j => T[d.t].to <= d.end
  <2> HIDE DEF d
  <2> QED BY <1>10, <1>12 DEF e
<1> HIDE DEF d
<1>16. d \in Clusters(O, T, u, i, j)
  BY <1>2, <1>12, <1>11, <1>13, <1>14, <1>15 DEF Clusters, a, b
<1> QED BY <1>5, <1>12, <1>16

LEMMA GrownNoMore ==
    ASSUME NEW O, NEW T, NEW c, Ended(O, c.o, c), Ended(T, c.t, c)
    PROVE  Grown(O, T, c) = c
BY DEF Ended, Grown

\* The walk over the edits that Cluster is.
Growing(f, O, T, u, i, j, a) ==
    /\ f \in [0..(Len(O) + Len(T)) -> Clusters(O, T, u, i, j)] /\ f[0] = a
    /\ \A n \in 1..(Len(O) + Len(T)) : f[n] = Grown(O, T, f[n - 1])

LEMMA GrownIs ==
    ASSUME NEW O, NEW T, NEW u, NEW v1, NEW v2, NEW L, NEW i, NEW j, Meeting(O, T, u, v1, v2, L, i, j),
           NEW c \in Clusters(O, T, u, i, j)
    PROVE  /\ Grown(O, T, c) \in Clusters(O, T, u, i, j)
           /\ \/ Ended(O, c.o, c) /\ Ended(T, c.t, c) /\ Grown(O, T, c) = c
              \/ Grown(O, T, c).o + Grown(O, T, c).t = c.o + c.t + 1
<1>1. c.o \in Nat /\ c.t \in Nat
  BY MeetingIs DEF Clusters
<1>2. CASE ~Ended(O, c.o, c)
  BY <1>2, GrownOurs, <1>1
<1>3. CASE Ended(O, c.o, c) /\ ~Ended(T, c.t, c)
  BY <1>3, GrownTheirs, <1>1
<1>4. CASE Ended(O, c.o, c) /\ Ended(T, c.t, c)
  BY <1>4, GrownNoMore
<1> QED BY <1>2, <1>3, <1>4

LEMMA GrowingExists ==
    ASSUME NEW O, NEW T, NEW u, NEW v1, NEW v2, NEW L, NEW i, NEW j, Meeting(O, T, u, v1, v2, L, i, j),
           NEW a \in Clusters(O, T, u, i, j)
    PROVE  \E f : Growing(f, O, T, u, i, j, a) /\ Cluster(O, T, a) = f[Len(O) + Len(T)]
<1> DEFINE N == Len(O) + Len(T)
           X == Clusters(O, T, u, i, j)
           h == [n \in 1..N |-> [c \in X |-> Grown(O, T, c)]]
           Def(g) == g = [n \in 0..N |-> IF n = 0 THEN a ELSE Grown(O, T, g[n - 1])]
           g == CHOOSE g : Def(g)
<1>1. N \in Nat
  BY MeetingIs
<1>2. \A c \in X : Grown(O, T, c) \in X
  BY GrownIs
<1>3. h \in Steps(X, N)
  <2> HIDE DEF X, N
  <2> QED BY <1>2 DEF Steps
<1>4. PICK f : Chain(f, X, N, a, h)
  <2> HIDE DEF h, X, N
  <2>1. a \in X
    BY DEF X
  <2> QED BY <1>1, <1>3, <2>1, Iterated
<1>5. ASSUME NEW n \in 1..N PROVE f[n] = Grown(O, T, f[n - 1])
  <2>1. n - 1 \in 0..N
    BY <1>1
  <2>2. f[n - 1] \in X /\ f[n] = h[n][f[n - 1]]
    <3> HIDE DEF h, X, N
    <3> QED BY <1>4, <2>1 DEF Chain
  <2> HIDE DEF X, N
  <2> QED BY <2>2
<1>6. f \in [0..N -> X] /\ f[0] = a
  BY <1>4 DEF Chain
<1>7. Def(f)
  <2> DEFINE e(n) == Grown(O, T, f[n - 1])
  <2>1. \A n \in 0..N : f[n] = IF n = 0 THEN a ELSE e(n)
    <3> HIDE DEF N
    <3> QED BY <1>1, <1>5, <1>6
  <2> HIDE DEF e, N, X
  <2>2. f = [n \in 0..N |-> f[n]]
    BY <1>6
  <2>3. f = [n \in 0..N |-> IF n = 0 THEN a ELSE e(n)]
    BY <2>1, <2>2
  <2> QED BY <2>3 DEF e
<1>8. Def(g)
  <2> HIDE DEF Def
  <2> QED BY <1>7
<1>9. Cluster(O, T, a) = g[N]
  BY DEF Cluster
<1> HIDE DEF g
<1>10. \A n \in 0..N : g[n] = IF n = 0 THEN a ELSE Grown(O, T, g[n - 1])
  <2> DEFINE e(n) == Grown(O, T, g[n - 1])
  <2>1. g = [n \in 0..N |-> IF n = 0 THEN a ELSE e(n)]
    BY <1>8
  <2> HIDE DEF Def, e, N
  <2>2. \A n \in 0..N : g[n] = IF n = 0 THEN a ELSE e(n)
    BY <2>1
  <2> QED BY <2>2 DEF e
<1> HIDE DEF Def, h, X
<1>11. Growing(f, O, T, u, i, j, a)
  BY <1>5, <1>6 DEF Growing, X
<1> DEFINE S == {n \in 0..N : g[n] = f[n]}
<1> HIDE DEF N
<1>12. 0 \in S
  BY <1>1, <1>6, <1>10
<1>13. ASSUME NEW n \in 0..(N - 1), n \in S PROVE n + 1 \in S
  <2>1. n + 1 \in 1..N /\ (n + 1) - 1 = n /\ n + 1 \in 0..N /\ n + 1 # 0
    BY <1>1
  <2>2. f[n + 1] = Grown(O, T, f[n])
    BY <1>5, <2>1
  <2>3. g[n + 1] = Grown(O, T, g[n])
    BY <1>10, <2>1
  <2> QED BY <1>13, <2>1, <2>2, <2>3
<1>14. \A n \in 0..N : n \in S
  <2> HIDE DEF S
  <2> QED BY <1>1, <1>12, <1>13, UpTo
<1>15. g[N] = f[N]
  <2>1. N \in 0..N
    BY <1>1
  <2> QED BY <1>14, <2>1
<1> QED BY <1>9, <1>11, <1>15 DEF N

\* The cluster that two edits begin.
First2(O, T, i, j) == [o |-> i, t |-> j, start |-> Least(O[i + 1].from, T[j + 1].from),
                       end |-> Most(O[i + 1].to, T[j + 1].to)]

\* It has all edits that overlap it.
LEMMA ClusterEnds ==
    ASSUME NEW O, NEW T, NEW u, NEW v1, NEW v2, NEW L, NEW i, NEW j, Meeting(O, T, u, v1, v2, L, i, j)
    PROVE  \E c \in Clusters(O, T, u, i, j) : /\ Cluster(O, T, First2(O, T, i, j)) = c
                                              /\ Ended(O, c.o, c) /\ Ended(T, c.t, c)
<1> DEFINE N == Len(O) + Len(T)
           X == Clusters(O, T, u, i, j)
           a == First2(O, T, i, j)
<1>1. /\ Len(u) \in Nat /\ Len(O) \in Nat /\ Len(T) \in Nat /\ i \in Nat /\ j \in Nat
      /\ i + 1 \in 1..Len(O) /\ j + 1 \in 1..Len(T)
      /\ \A n \in 1..Len(O) : O[n].from \in 0..Len(u) /\ O[n].to \in 0..Len(u) /\ O[n].from <= O[n].to
      /\ \A n \in 1..Len(T) : T[n].from \in 0..Len(u) /\ T[n].to \in 0..Len(u) /\ T[n].from <= T[n].to
  BY MeetingIs
<1>2. a \in X
  <2> DEFINE e == O[i + 1]
             d == T[j + 1]
  <2>1. /\ e.from \in 0..Len(u) /\ e.to \in 0..Len(u) /\ e.from <= e.to
        /\ d.from \in 0..Len(u) /\ d.to \in 0..Len(u) /\ d.from <= d.to
    BY <1>1
  <2> HIDE DEF e, d
  <2>2. Least(e.from, d.from) \in 0..Len(u)
    BY <2>1 DEF Least
  <2>3. Most(e.to, d.to) \in 0..Len(u) /\ e.to <= Most(e.to, d.to) /\ d.to <= Most(e.to, d.to)
    BY <1>1, <2>1 DEF Most
  <2>4. SameRange(e, d) => Most(e.to, d.to) = e.to
    BY <2>1 DEF SameRange, Most
  <2>5. i \in i..Len(O) /\ j \in j..Len(T) /\ ~(i > i) /\ ~(j > j) /\ i <= i + 1 /\ j <= j + 1
    BY <1>1
  <2>6. a.o = i /\ a.t = j /\ a.start = Least(e.from, d.from) /\ a.end = Most(e.to, d.to)
    BY DEF First2, e, d
  <2>7. a \in [o : i..Len(O), t : j..Len(T), start : 0..Len(u), end : 0..Len(u)]
    BY <2>2, <2>3, <2>5 DEF First2, e, d
  <2> HIDE DEF a
  <2> QED BY <2>3, <2>4, <2>5, <2>6, <2>7 DEF Clusters, e, d
<1> HIDE DEF a
<1>3. PICK f : Growing(f, O, T, u, i, j, a) /\ Cluster(O, T, a) = f[N]
  BY <1>2, GrowingExists
<1>4. N \in Nat /\ f \in [0..N -> X] /\ \A n \in 1..N : f[n] = Grown(O, T, f[n - 1])
  BY <1>1, <1>3 DEF Growing
<1>5. \A c \in X : c.o \in 0..Len(O) /\ c.t \in 0..Len(T) /\ c.o \in Nat /\ c.t \in Nat
  BY <1>1 DEF Clusters
<1> DEFINE Over(c) == Ended(O, c.o, c) /\ Ended(T, c.t, c)
           S == {n \in 0..N : Over(f[n]) \/ f[n].o + f[n].t >= n}
<1>6. \A c \in X : Grown(O, T, c) \in X /\ ((Over(c) /\ Grown(O, T, c) = c) \/ Grown(O, T, c).o + Grown(O, T, c).t = c.o + c.t + 1)
  BY GrownIs
<1> HIDE DEF X, Over
<1>7. 0 \in S
  BY <1>4, <1>5
<1>8. ASSUME NEW n \in 0..(N - 1), n \in S PROVE n + 1 \in S
  <2> DEFINE c == f[n]
             d == f[n + 1]
  <2>1. n + 1 \in 1..N /\ (n + 1) - 1 = n /\ n \in 0..N /\ n + 1 \in 0..N /\ n \in Nat
    BY <1>4
  <2>2. d = Grown(O, T, c) /\ c \in X /\ (Over(c) \/ c.o + c.t >= n)
    BY <1>4, <2>1, <1>8
  <2> HIDE DEF c, d
  <2>3. Over(d) \/ d.o + d.t >= n + 1
    <3>1. CASE Over(c) /\ Grown(O, T, c) = c
      BY <2>2, <3>1
    <3>2. CASE Grown(O, T, c).o + Grown(O, T, c).t = c.o + c.t + 1
      <4>1. d.o + d.t = c.o + c.t + 1 /\ c.o \in Nat /\ c.t \in Nat /\ d.o \in Nat /\ d.t \in Nat
        BY <1>5, <1>6, <2>2, <3>2
      <4>2. CASE Over(c) /\ ~(c.o + c.t >= n)
        \* a cluster that has ended does not grow
        BY <4>2, GrownNoMore, <2>2 DEF Over
      <4>3. CASE c.o + c.t >= n
        BY <2>1, <4>1, <4>3
      <4> QED BY <2>2, <4>2, <4>3
    <3> QED BY <1>6, <2>2, <3>1, <3>2
  <2> QED BY <2>1, <2>3 DEF d
<1>9. \A n \in 0..N : n \in S
  <2> HIDE DEF S, N
  <2> QED BY <1>4, <1>7, <1>8, UpTo
<1> DEFINE c == f[N]
<1>10. c \in X /\ (Over(c) \/ c.o + c.t >= N)
  <2>1. N \in 0..N
    BY <1>4
  <2> QED BY <1>4, <1>9, <2>1
<1>11. Cluster(O, T, a) = c
  BY <1>3
<1> HIDE DEF c
<1>12. Over(c)
  <2>1. CASE c.o + c.t >= N
    BY <1>1, <1>5, <1>10, <2>1 DEF Over, Ended
  <2> QED BY <1>10, <2>1
<1> QED BY <1>10, <1>11, <1>12 DEF Over, X, a

\* All edits of it have been taken, and behind it is where the walk goes on.
LEMMA ClusterRests ==
    ASSUME NEW O, NEW T, NEW u, NEW v1, NEW v2, NEW L, NEW i, NEW j, Meeting(O, T, u, v1, v2, L, i, j),
           NEW c \in Clusters(O, T, u, i, j), Ended(O, c.o, c), Ended(T, c.t, c)
    PROVE  /\ i < c.o /\ Rests(O, u, c.o, c.end)
           /\ j < c.t /\ Rests(T, u, c.t, c.end)
<1> DEFINE a == O[i + 1]
           b == T[j + 1]
<1>1. /\ Len(u) \in Nat /\ Len(O) \in Nat /\ Len(T) \in Nat /\ i \in Nat /\ j \in Nat
      /\ i + 1 \in 1..Len(O) /\ j + 1 \in 1..Len(T)
      /\ \A n \in 1..Len(O) : O[n].from \in 0..Len(u) /\ O[n].to \in 0..Len(u) /\ O[n].from <= O[n].to
      /\ \A n \in 1..Len(T) : T[n].from \in 0..Len(u) /\ T[n].to \in 0..Len(u) /\ T[n].from <= T[n].to
      /\ \A n \in 1..Len(O) : i + 1 < n => a.to < O[n].from
      /\ \A n \in 1..Len(T) : j + 1 < n => b.to < T[n].from
      /\ a.from < b.to /\ b.from < a.to
  BY MeetingIs
<1>2. /\ c \in [o : i..Len(O), t : j..Len(T), start : 0..Len(u), end : 0..Len(u)]
      /\ c.start = Least(a.from, b.from) /\ a.to <= c.end /\ b.to <= c.end
      /\ c.o > i => O[c.o].to <= c.end
      /\ c.t > j => T[c.t].to <= c.end
  BY DEF Clusters
<1>3. /\ c.o \in i..Len(O) /\ c.t \in j..Len(T) /\ c.start \in 0..Len(u) /\ c.end \in 0..Len(u)
      /\ c.o \in Nat /\ c.t \in Nat /\ c.start \in Nat /\ c.end \in Nat
  BY <1>1, <1>2
<1>4. /\ a.from \in 0..Len(u) /\ a.to \in 0..Len(u) /\ a.from <= a.to
      /\ b.from \in 0..Len(u) /\ b.to \in 0..Len(u) /\ b.from <= b.to
  BY <1>1
<1>10. a.from < b.to /\ b.from < a.to /\ Len(u) \in Nat
  BY <1>1
<1>5. c.start <= a.from /\ c.start <= b.from
  BY <1>2, <1>4 DEF Least
<1>6. c.o < Len(O) => ~Overlaps(O[c.o + 1], c.start, c.end)
  BY DEF Ended
<1>7. c.t < Len(T) => ~Overlaps(T[c.t + 1], c.start, c.end)
  BY DEF Ended
<1>8. i < c.o /\ Rests(O, u, c.o, c.end)
  <2>1. i < c.o
    <3> SUFFICES ASSUME ~(i < c.o) PROVE FALSE
      OBVIOUS
    <3>1. c.o = i /\ c.o < Len(O)
      BY <1>1, <1>3
    <3>2. ~Overlaps(a, c.start, c.end)
      BY <1>6, <3>1
    <3> HIDE DEF a, b
    <3> QED BY <1>1, <1>2, <1>3, <1>4, <1>5, <3>2 DEF Overlaps
  <2>2. c.o < Len(O) => c.end <= O[c.o + 1].from
    <3> SUFFICES ASSUME c.o < Len(O) PROVE c.end <= O[c.o + 1].from
      OBVIOUS
    <3> DEFINE e == O[c.o + 1]
    <3>1. c.o + 1 \in 1..Len(O) /\ i + 1 < c.o + 1
      BY <1>1, <1>3, <2>1, SMTT(30)
    <3>2. e.from \in 0..Len(u) /\ e.to \in 0..Len(u) /\ e.from <= e.to /\ a.to < e.from
      BY <1>1, <3>1
    <3>3. ~Overlaps(e, c.start, c.end)
      BY <1>6
    <3> HIDE DEF e, a, b
    <3>4. c.end <= e.from
      BY <1>3, <1>4, <1>5, <1>10, <3>2, <3>3 DEF Overlaps
    <3> QED BY <3>4 DEF e
  <2> QED BY <1>1, <1>2, <1>3, <2>1, <2>2 DEF Rests
<1>9. j < c.t /\ Rests(T, u, c.t, c.end)
  <2>1. j < c.t
    <3> SUFFICES ASSUME ~(j < c.t) PROVE FALSE
      OBVIOUS
    <3>1. c.t = j /\ c.t < Len(T)
      BY <1>1, <1>3
    <3>2. ~Overlaps(b, c.start, c.end)
      BY <1>7, <3>1
    <3> HIDE DEF a, b
    <3> QED BY <1>1, <1>2, <1>3, <1>4, <1>5, <3>2 DEF Overlaps
  <2>2. c.t < Len(T) => c.end <= T[c.t + 1].from
    <3> SUFFICES ASSUME c.t < Len(T) PROVE c.end <= T[c.t + 1].from
      OBVIOUS
    <3> DEFINE e == T[c.t + 1]
    <3>1. c.t + 1 \in 1..Len(T) /\ j + 1 < c.t + 1
      BY <1>1, <1>3, <2>1, SMTT(30)
    <3>2. e.from \in 0..Len(u) /\ e.to \in 0..Len(u) /\ e.from <= e.to /\ b.to < e.from
      BY <1>1, <3>1
    <3>3. ~Overlaps(e, c.start, c.end)
      BY <1>7
    <3> HIDE DEF e, a, b
    <3>4. c.end <= e.from
      BY <1>3, <1>4, <1>5, <1>10, <3>2, <3>3 DEF Overlaps
    <3> QED BY <3>4 DEF e
  <2> QED BY <1>1, <1>2, <1>3, <2>1, <2>2 DEF Rests
<1> QED BY <1>8, <1>9
-----------------------------------------------------------------------------
(***************************************************************************)
(* The text that is woven, piece by piece.                                 *)
(***************************************************************************)
\* What one side or the other deleted.
Lost(u, v1, v2) == Deletions(u, v1) \cup Deletions(u, v2)

\* No line reads like a marker.
Unmarked(u, v1, v2) == Markers \cap (Lines(u) \cup Lines(v1) \cup Lines(v2)) = {}

\* Of x is read e for that side, whatever is read before.
Yields(x, side, L, e) == \A q \in Seq(L) : Picks([in |-> "both", text |-> q], x, side, L, [in |-> "both", text |-> q \o e])

\* The side has d there, e is what can be taken of it from the woven text x.
Piece(d, e, x, side, u, v1, v2, L) ==
    /\ d \in Seq(L) /\ e \in Seq(L) /\ x \in Seq(L)
    /\ Embeds(Survivors(d, Lost(u, v1, v2)), e)
    /\ Lines(e) \cap Deletions(u, Mine(side, v1, v2)) = {}
    /\ Unmarked(u, v1, v2) => Yields(x, side, L, e)

LEMMA YieldsJoin ==
    ASSUME NEW L, NEW side, NEW x, NEW e \in Seq(L), NEW y, NEW f \in Seq(L), Yields(x, side, L, e), Yields(y, side, L, f)
    PROVE  Yields(x \o y, side, L, e \o f)
<1> SUFFICES ASSUME NEW q \in Seq(L)
             PROVE  Picks([in |-> "both", text |-> q], x \o y, side, L, [in |-> "both", text |-> q \o (e \o f)])
  BY DEF Yields
<1> DEFINE a == [in |-> "both", text |-> q]
           b == [in |-> "both", text |-> q \o e]
           c == [in |-> "both", text |-> (q \o e) \o f]
<1>1. Picks(a, x, side, L, b)
  BY DEF Yields
<1>2. q \o e \in Seq(L)
  BY ConcatProperties
<1>3. Picks(b, y, side, L, c)
  BY <1>2 DEF Yields
<1>4. c = [in |-> "both", text |-> q \o (e \o f)]
  <2>1. TextsOf(q, e, f, L)
    BY DEF TextsOf
  <2>2. (q \o e) \o f = q \o (e \o f)
    BY <2>1, Joined
  <2> QED BY <2>2
<1> HIDE DEF a, b, c
<1>5. Picks(a, x \o y, side, L, c)
  BY <1>1, <1>3, PicksJoin
<1> QED BY <1>4, <1>5 DEF a

LEMMA YieldsPlain ==
    ASSUME NEW L, NEW side, NEW s \in Seq(L), Lines(s) \cap Markers = {}
    PROVE  Yields(s, side, L, s)
<1> SUFFICES ASSUME NEW q \in Seq(L)
             PROVE  Picks([in |-> "both", text |-> q], s, side, L, [in |-> "both", text |-> q \o s])
  BY DEF Yields
<1> DEFINE in == "both"
<1>1. in \in {"both", "ours", "base", "theirs"} /\ in \in {"both", side}
  OBVIOUS
<1> HIDE DEF in
<1>2. Picks([in |-> in, text |-> q], s, side, L, [in |-> in, text |-> IF in \in {"both", side} THEN q \o s ELSE q])
  BY <1>1, PicksMore
<1>3. Picks([in |-> in, text |-> q], s, side, L, [in |-> in, text |-> q \o s])
  BY <1>1, <1>2
<1> QED BY <1>3 DEF in

LEMMA PiecesJoin ==
    ASSUME NEW d1, NEW e1, NEW x1, NEW d2, NEW e2, NEW x2, NEW side, NEW u, NEW v1, NEW v2, NEW L,
           Piece(d1, e1, x1, side, u, v1, v2, L), Piece(d2, e2, x2, side, u, v1, v2, L)
    PROVE  Piece(d1 \o d2, e1 \o e2, x1 \o x2, side, u, v1, v2, L)
<1> DEFINE g == Lost(u, v1, v2)
<1>1. /\ d1 \in Seq(L) /\ e1 \in Seq(L) /\ x1 \in Seq(L) /\ d2 \in Seq(L) /\ e2 \in Seq(L) /\ x2 \in Seq(L)
      /\ Embeds(Survivors(d1, g), e1) /\ Embeds(Survivors(d2, g), e2)
      /\ Lines(e1) \cap Deletions(u, Mine(side, v1, v2)) = {} /\ Lines(e2) \cap Deletions(u, Mine(side, v1, v2)) = {}
      /\ Unmarked(u, v1, v2) => Yields(x1, side, L, e1) /\ Yields(x2, side, L, e2)
  BY DEF Piece
<1> HIDE DEF g
<1>2. d1 \o d2 \in Seq(L) /\ e1 \o e2 \in Seq(L) /\ x1 \o x2 \in Seq(L) /\ Lines(e1 \o e2) = Lines(e1) \cup Lines(e2)
  BY <1>1, LinesJoin
<1>3. Embeds(Survivors(d1 \o d2, g), e1 \o e2)
  <2> DEFINE s1 == Survivors(d1, g)
             s2 == Survivors(d2, g)
  <2>1. s1 \in Seq(L) /\ s2 \in Seq(L) /\ Survivors(d1 \o d2, g) = s1 \o s2
    BY <1>1, SurvivorsJoin
  <2>2. Embeds(s1, e1) /\ Embeds(s2, e2)
    BY <1>1
  <2> HIDE DEF s1, s2
  <2>3. Embeds(s1 \o s2, e1 \o e2)
    BY <1>1, <2>1, <2>2, EmbedsJoin
  <2> QED BY <2>1, <2>3
<1>4. Unmarked(u, v1, v2) => Yields(x1 \o x2, side, L, e1 \o e2)
  BY <1>1, YieldsJoin
<1>5. Lines(e1 \o e2) \cap Deletions(u, Mine(side, v1, v2)) = {}
  BY <1>1, <1>2
<1> QED BY <1>2, <1>3, <1>4, <1>5 DEF Piece, g

\* What is of the side and in the woven text.
LEMMA PieceOwn ==
    ASSUME NEW s, NEW side, NEW u, NEW v1, NEW v2, NEW L, s \in Seq(L), Lines(s) \subseteq Lines(Mine(side, v1, v2))
    PROVE  Piece(s, s, s, side, u, v1, v2, L)
BY SurvivorsEmbed, YieldsPlain DEF Deletions, Unmarked, Mine, Piece

\* What the other side took away, and gave for it.
LEMMA PieceChanged ==
    ASSUME NEW d, NEW e, NEW side, NEW u, NEW v1, NEW v2, NEW L, d \in Seq(L), e \in Seq(L),
           Lines(d) \subseteq Lost(u, v1, v2), Lines(e) \cap Lines(u) = {}, Lines(e) \subseteq Lines(v1) \cup Lines(v2)
    PROVE  Piece(d, e, e, side, u, v1, v2, L)
BY SurvivorsEmbed, EmptyEmbeds, YieldsPlain DEF Deletions, Unmarked, Piece

\* Both sides between markers.
BothSides(one, two, u, v1, v2, L, start, end) ==
    /\ Markers \subseteq L /\ one \in Seq(L) /\ two \in Seq(L) /\ Lines(one) \subseteq Lines(v1) /\ Lines(two) \subseteq Lines(v2)
    /\ Slice(u, start, end) \in Seq(L) /\ Lines(Slice(u, start, end)) \subseteq Lines(u)

LEMMA ConflictIs ==
    ASSUME NEW one, NEW two, NEW u, NEW v1, NEW v2, NEW L, NEW start, NEW end, NEW style,
           BothSides(one, two, u, v1, v2, L, start, end)
    PROVE  Conflict(u, one, two, start, end, style) \in Seq(L)
<1> DEFINE b == IF style = "diff3" THEN <<Base>> \o Slice(u, start, end) ELSE <<>>
<1>1. one \in Seq(L) /\ two \in Seq(L) /\ Slice(u, start, end) \in Seq(L)
  BY DEF BothSides
<1>2. <<Ours>> \in Seq(L) /\ <<Base>> \in Seq(L) /\ <<Mid>> \in Seq(L) /\ <<Theirs>> \in Seq(L) /\ <<>> \in Seq(L)
  BY EmptySeq DEF BothSides, Markers
<1>3. b \in Seq(L)
  BY <1>1, <1>2, ConcatProperties
<1> HIDE DEF b
<1>4. \A s, t \in Seq(L) : s \o t \in Seq(L)
  BY ConcatProperties
<1>5. <<Ours>> \o one \in Seq(L)
  BY <1>1, <1>2, <1>4
<1>6. (<<Ours>> \o one) \o b \in Seq(L)
  BY <1>3, <1>4, <1>5
<1>7. ((<<Ours>> \o one) \o b) \o <<Mid>> \in Seq(L)
  BY <1>2, <1>4, <1>6
<1>8. (((<<Ours>> \o one) \o b) \o <<Mid>>) \o two \in Seq(L)
  BY <1>1, <1>4, <1>7
<1>9. ((((<<Ours>> \o one) \o b) \o <<Mid>>) \o two) \o <<Theirs>> \in Seq(L)
  BY <1>2, <1>4, <1>8
<1> QED BY <1>9 DEF b, Conflict

LEMMA PieceConflict ==
    ASSUME NEW one, NEW two, NEW side \in {"ours", "theirs"}, NEW u, NEW v1, NEW v2, NEW L, NEW start, NEW end, NEW style,
           BothSides(one, two, u, v1, v2, L, start, end)
    PROVE  Piece(Mine(side, one, two), Mine(side, one, two), Conflict(u, one, two, start, end, style), side, u, v1, v2, L)
<1> DEFINE s == Mine(side, one, two)
           x == Conflict(u, one, two, start, end, style)
<1>1. /\ Markers \subseteq L /\ one \in Seq(L) /\ two \in Seq(L) /\ Lines(one) \subseteq Lines(v1) /\ Lines(two) \subseteq Lines(v2)
      /\ Slice(u, start, end) \in Seq(L) /\ Lines(Slice(u, start, end)) \subseteq Lines(u)
  BY DEF BothSides
<1>2. s \in Seq(L) /\ Lines(s) \subseteq Lines(Mine(side, v1, v2))
  BY <1>1 DEF Mine
<1>3. x \in Seq(L)
  BY ConflictIs
<1>4. Embeds(Survivors(s, Lost(u, v1, v2)), s) /\ Lines(s) \cap Deletions(u, Mine(side, v1, v2)) = {}
  <2> HIDE DEF s
  <2> QED BY <1>2, SurvivorsEmbed DEF Deletions
<1>5. ASSUME Unmarked(u, v1, v2) PROVE Yields(x, side, L, s)
  BY <1>1, <1>5, PicksConflict DEF Unmarked, Yields
<1> HIDE DEF s, x
<1>6. Piece(s, s, x, side, u, v1, v2, L)
  BY <1>2, <1>3, <1>4, <1>5 DEF Piece
<1> QED BY <1>6 DEF s, x

\* What follows of a side, and of its text.
LEMMA PartsOfOwn ==
    ASSUME NEW w, NEW E, NEW u, NEW v, NEW L, Worked(w, E, u, v, L), NEW i, NEW x, NEW j, NEW y, Rests(E, u, i, x),
           Rests(E, u, j, y), NEW s \in Seq(L), Upto(w, u, j, y) = Upto(w, u, i, x) \o s
    PROVE  Lines(s) \subseteq Lines(v)
<1> DEFINE p == Upto(w, u, i, x)
           q == Upto(w, u, j, y)
<1>1. p \in Seq(L) /\ q \in Seq(L) /\ Lines(q) \subseteq Lines(v)
  BY UptoIs
<1>2. q = p \o s
  OBVIOUS
<1> HIDE DEF p, q
<1>3. Lines(p \o s) = Lines(p) \cup Lines(s)
  BY <1>1, LinesJoin
<1> QED BY <1>1, <1>2, <1>3

\* The next edit is that of side s alone.
OneNext(w, E, m, w2, E2, n, z, s, t, u, v1, v2, L) ==
    /\ s \in {"ours", "theirs"} /\ t \in {"ours", "theirs"} /\ s # t
    /\ Worked(w, E, u, Mine(s, v1, v2), L) /\ Worked(w2, E2, u, Mine(t, v1, v2), L)
    /\ Rests(E, u, m, z) /\ Before(E, m)
    /\ Rests(E2, u, n, z) /\ Still(E2, u, n, z, E[m + 1].to)

OneDone(w, E, m, w2, E2, n, z, s, t, u, v1, v2, L) ==
    LET to == E[m + 1].to
        x == Change(E, u, m, z)
    IN  /\ Rests(E, u, m + 1, to) /\ Rests(E2, u, n, to)
        /\ Upto(w, u, m + 1, to) = Upto(w, u, m, z) \o x
        /\ Piece(x, x, x, s, u, v1, v2, L)
        /\ Upto(w2, u, n, to) = Upto(w2, u, n, z) \o Slice(u, z, to)
        /\ Piece(Slice(u, z, to), x, x, t, u, v1, v2, L)

LEMMA OneTakes ==
    ASSUME NEW w, NEW E, NEW m, NEW w2, NEW E2, NEW n, NEW z, NEW s, NEW t, NEW u, NEW v1, NEW v2, NEW L,
           OneNext(w, E, m, w2, E2, n, z, s, t, u, v1, v2, L)
    PROVE  OneDone(w, E, m, w2, E2, n, z, s, t, u, v1, v2, L)
<1> DEFINE from == E[m + 1].from
           to == E[m + 1].to
           new == E[m + 1].new
           x == Change(E, u, m, z)
           v == Mine(s, v1, v2)
           v0 == Mine(t, v1, v2)
<1>1. /\ s \in {"ours", "theirs"} /\ t \in {"ours", "theirs"} /\ s # t
      /\ Worked(w, E, u, v, L) /\ Worked(w2, E2, u, v0, L)
      /\ Rests(E, u, m, z) /\ Before(E, m)
      /\ Rests(E2, u, n, z) /\ Still(E2, u, n, z, to)
  BY DEF OneNext
<1>2. /\ {v, v0} = {v1, v2}
      /\ Lost(u, v1, v2) = Deletions(u, v) \cup Deletions(u, v0)
  <2>1. CASE s = "ours" /\ t = "theirs"
    BY <2>1 DEF Mine, Lost
  <2>2. CASE s = "theirs" /\ t = "ours"
    BY <2>2 DEF Mine, Lost
  <2> QED BY <1>1, <2>1, <2>2
<1>3. /\ u \in Seq(L) /\ Len(u) \in Nat /\ Len(E) \in Nat /\ Fit(E, u, v, L)
  BY <1>1, WorkedIs
<1>4. /\ m + 1 \in 1..Len(E) /\ z \in 0..Len(u) /\ z \in Nat /\ z <= from
  BY <1>1, <1>3 DEF Rests, Before
<1>5. /\ from \in 0..Len(u) /\ to \in 0..Len(u) /\ from <= to /\ new \in Seq(L) /\ Sound(E[m + 1], u, v, L)
  BY <1>3, <1>4, FitIs
<1>6. Lines(new) \cap Lines(u) = {} /\ \A l \in (from + 1)..to : u[l] \notin Lines(v)
  BY <1>5 DEF Sound
<1>7. /\ x \in Seq(L)
      /\ Upto(w, u, m + 1, to) = Upto(w, u, m, z) \o x
      /\ Rests(E, u, m + 1, to)
  <2> HIDE DEF v
  <2> QED BY <1>1, TakesEdit
<1> DEFINE p == Slice(u, z, from)
           g == Slice(u, from, to)
<1>8. x = p \o new
  BY DEF Change
<1>9. /\ to \in z..Len(u) /\ (n < Len(E2) => to <= E2[n + 1].from)
  BY <1>1 DEF Still
<1>10. /\ Slice(u, z, to) \in Seq(L)
       /\ Upto(w2, u, n, to) = Upto(w2, u, n, z) \o Slice(u, z, to)
       /\ Rests(E2, u, n, to)
  <2> HIDE DEF to, v0
  <2> QED BY <1>1, <1>9, TakesBase
<1>11. from \in z..Len(u) /\ to \in from..Len(u) /\ (n < Len(E2) => from <= E2[n + 1].from)
  <2>1. from \in z..Len(u) /\ to \in from..Len(u)
    BY <1>3, <1>4, <1>5
  <2>2. ASSUME n < Len(E2) PROVE from <= E2[n + 1].from
    <3>1. n + 1 \in 1..Len(E2) /\ Fit(E2, u, v0, L)
      <4>1. Len(E2) \in Nat /\ n \in Nat /\ Fit(E2, u, v0, L)
        <5> HIDE DEF v0
        <5>1. Len(E2) \in Nat /\ Fit(E2, u, v0, L)
          BY <1>1, WorkedIs
        <5>2. n \in 0..Len(E2)
          BY <1>1 DEF Rests
        <5> QED BY <5>1, <5>2
      <4> QED BY <2>2, <4>1
    <3>2. E2[n + 1].from \in Nat
      <4> HIDE DEF v0
      <4> QED BY <1>3, <3>1, FitIs
    <3>3. to <= E2[n + 1].from
      BY <1>9, <2>2
    <3> HIDE DEF from, to
    <3> QED BY <1>3, <1>5, <3>2, <3>3
  <2> QED BY <2>1, <2>2
<1>12. Upto(w2, u, n, from) = Upto(w2, u, n, z) \o p /\ p \in Seq(L) /\ Rests(E2, u, n, from)
  <2> HIDE DEF from, v0
  <2> QED BY <1>1, <1>11, TakesBase DEF p
<1>13. g \in Seq(L) /\ Slice(u, z, to) = p \o g /\ Lines(g) \subseteq Deletions(u, v)
  <2> HIDE DEF from, to, v
  <2>1. from \in Nat
    BY <1>5
  <2>2. g \in Seq(L) /\ Lines(g) \subseteq Lines(u) /\ \A y \in Lines(g) : \E l \in (from + 1)..to : u[l] = y
    <3>1. u \in Seq(L) /\ to \in 0..Len(u)
      BY <1>3, <1>5
    <3>2. /\ Slice(u, from, to) \in Seq(L)
          /\ \A y \in Lines(Slice(u, from, to)) : \E l \in (from + 1)..to : l \in 1..Len(u) /\ u[l] = y
          /\ Lines(Slice(u, from, to)) \subseteq Lines(u)
      BY ONLY <2>1, <3>1, SliceIs
    <3> QED BY <3>2
  <2>3. Slice(u, z, to) = p \o g
    BY <1>3, <1>4, <1>11, SlicesJoin
  <2> HIDE DEF g
  <2>4. Lines(g) \subseteq Deletions(u, v)
    BY <1>6, <2>2 DEF Deletions
  <2> QED BY <2>2, <2>3, <2>4
<1>14. Lines(x) \subseteq Lines(v)
  <2> HIDE DEF x, v, to
  <2> QED BY <1>1, <1>7, PartsOfOwn
<1>15. Lines(p) \subseteq Lines(v0)
  <2> HIDE DEF p, v0, from
  <2> QED BY <1>1, <1>12, PartsOfOwn
<1>16. Piece(x, x, x, s, u, v1, v2, L)
  <2> HIDE DEF x
  <2> QED BY <1>7, <1>14, PieceOwn DEF v
<1> HIDE DEF p, g
<1>17. Lines(x) = Lines(p) \cup Lines(new)
  <2> HIDE DEF new, x
  <2> QED BY <1>5, <1>8, <1>12, LinesJoin
<1>18. Piece(p, p, p, t, u, v1, v2, L)
  BY <1>12, <1>15, PieceOwn DEF v0
<1>19. Piece(g, new, new, t, u, v1, v2, L)
  <2>1. Lines(new) \subseteq Lines(v1) \cup Lines(v2) /\ Lines(g) \subseteq Lost(u, v1, v2)
    <3> HIDE DEF v, v0, new, x
    <3> QED BY <1>2, <1>13, <1>14, <1>17
  <2> HIDE DEF new
  <2> QED BY <1>5, <1>6, <1>13, <2>1, PieceChanged
<1>20. Piece(p \o g, p \o new, p \o new, t, u, v1, v2, L)
  <2> HIDE DEF new
  <2> QED BY <1>18, <1>19, PiecesJoin
<1>21. Piece(Slice(u, z, to), x, x, t, u, v1, v2, L)
  BY <1>8, <1>13, <1>20
<1> HIDE DEF x
<1> QED BY <1>7, <1>10, <1>16, <1>21 DEF OneDone, x
-----------------------------------------------------------------------------
(***************************************************************************)
(* A cluster whose sides read the same is one edit that both sides made.   *)
(***************************************************************************)
\* The text r is what either side makes of the base from x to y.
SameText(w, E, v, i, m, w2, E2, v2, j, n, u, L, x, y, r) ==
    /\ Worked(w, E, u, v, L) /\ Worked(w2, E2, u, v2, L)
    /\ i \in Nat /\ j \in Nat /\ i < m /\ j < n /\ m \in 0..Len(E) /\ n \in 0..Len(E2)
    /\ x \in 0..Len(u) /\ y \in 0..Len(u)
    /\ x <= E[i + 1].from /\ x <= E2[j + 1].from /\ E[i + 1].to <= y /\ E2[j + 1].to <= y
    /\ Rendered(w, E, u, v, L, i, x, m, y, r) /\ Rendered(w2, E2, u, v2, L, j, x, n, y, r)

LEMMA SameTextIs ==
    ASSUME NEW w, NEW E, NEW v, NEW i, NEW m, NEW w2, NEW E2, NEW v2, NEW j, NEW n, NEW u, NEW L, NEW x, NEW y, NEW r,
           SameText(w, E, v, i, m, w2, E2, v2, j, n, u, L, x, y, r)
    PROVE  /\ u \in Seq(L) /\ Len(u) \in Nat /\ Fit(E, u, v, L) /\ Fit(E2, u, v2, L) /\ Len(E) \in Nat /\ Len(E2) \in Nat
           /\ i \in Nat /\ j \in Nat /\ i + 1 \in 1..Len(E) /\ j + 1 \in 1..Len(E2) /\ m \in Nat /\ n \in Nat /\ i < m /\ j < n
           /\ x \in Nat /\ y \in 0..Len(u) /\ y \in Nat
           /\ E[i + 1].from \in 0..Len(u) /\ E[i + 1].to \in 0..Len(u) /\ E[i + 1].from <= E[i + 1].to
           /\ E2[j + 1].from \in 0..Len(u) /\ E2[j + 1].to \in 0..Len(u) /\ E2[j + 1].from <= E2[j + 1].to
           /\ \A l \in (E[i + 1].from + 1)..E[i + 1].to : u[l] \notin Lines(v)
           /\ \A l \in (E2[j + 1].from + 1)..E2[j + 1].to : u[l] \notin Lines(v2)
           /\ Lines(r) \subseteq Lines(v) /\ Lines(r) \subseteq Lines(v2)
           /\ Lines(Slice(u, x, E[i + 1].from)) \subseteq Lines(r)
           /\ Lines(Slice(u, x, E2[j + 1].from)) \subseteq Lines(r)
           /\ i + 1 < m => Lines(Slice(u, E[i + 1].to, E[i + 2].from)) \subseteq Lines(r)
           /\ i + 1 = m => Lines(Slice(u, E[i + 1].to, y)) \subseteq Lines(r)
           /\ x <= E[i + 1].from /\ x <= E2[j + 1].from /\ E[i + 1].to <= y /\ E2[j + 1].to <= y
           /\ m <= Len(E)
<1>1. /\ Worked(w, E, u, v, L) /\ Worked(w2, E2, u, v2, L)
      /\ i \in Nat /\ j \in Nat /\ i < m /\ j < n /\ m \in 0..Len(E) /\ n \in 0..Len(E2)
      /\ x \in 0..Len(u) /\ y \in 0..Len(u)
      /\ x <= E[i + 1].from /\ x <= E2[j + 1].from /\ E[i + 1].to <= y /\ E2[j + 1].to <= y
      /\ Rendered(w, E, u, v, L, i, x, m, y, r) /\ Rendered(w2, E2, u, v2, L, j, x, n, y, r)
  BY DEF SameText
<1>2. u \in Seq(L) /\ Len(u) \in Nat /\ Fit(E, u, v, L) /\ Fit(E2, u, v2, L) /\ Len(E) \in Nat /\ Len(E2) \in Nat
  BY <1>1, WorkedIs
<1>3. i + 1 \in 1..Len(E) /\ j + 1 \in 1..Len(E2) /\ m \in Nat /\ n \in Nat /\ x \in Nat /\ y \in Nat /\ m <= Len(E)
  BY <1>1, <1>2
<1>4. E[i + 1].from \in 0..Len(u) /\ E[i + 1].to \in 0..Len(u) /\ E[i + 1].from <= E[i + 1].to /\ Sound(E[i + 1], u, v, L)
  BY <1>2, <1>3, FitIs
<1>5. E2[j + 1].from \in 0..Len(u) /\ E2[j + 1].to \in 0..Len(u) /\ E2[j + 1].from <= E2[j + 1].to /\ Sound(E2[j + 1], u, v2, L)
  BY <1>2, <1>3, FitIs
<1>6. \A l \in (E[i + 1].from + 1)..E[i + 1].to : u[l] \notin Lines(v)
  BY <1>4 DEF Sound
<1>7. \A l \in (E2[j + 1].from + 1)..E2[j + 1].to : u[l] \notin Lines(v2)
  BY <1>5 DEF Sound
<1>8. /\ Lines(r) \subseteq Lines(v)
      /\ Lines(Slice(u, x, E[i + 1].from)) \subseteq Lines(r)
      /\ i + 1 < m => Lines(Slice(u, E[i + 1].to, E[i + 2].from)) \subseteq Lines(r)
      /\ i + 1 = m => Lines(Slice(u, E[i + 1].to, y)) \subseteq Lines(r)
  BY <1>1 DEF Rendered
<1>9. Lines(r) \subseteq Lines(v2) /\ Lines(Slice(u, x, E2[j + 1].from)) \subseteq Lines(r)
  BY <1>1 DEF Rendered
<1>10. i < m /\ j < n
  BY <1>1
<1> QED BY ONLY <1>1, <1>2, <1>3, <1>4, <1>5, <1>6, <1>7, <1>8, <1>9, <1>10

LEMMA StartsAgree ==
    ASSUME NEW w, NEW E, NEW v, NEW i, NEW m, NEW w2, NEW E2, NEW v2, NEW j, NEW n, NEW u, NEW L, NEW x, NEW y, NEW r,
           SameText(w, E, v, i, m, w2, E2, v2, j, n, u, L, x, y, r), E2[j + 1].from < E[i + 1].to
    PROVE  ~(E[i + 1].from < E2[j + 1].from)
<1> SUFFICES ASSUME E[i + 1].from < E2[j + 1].from PROVE FALSE
  OBVIOUS
<1> DEFINE a == E[i + 1]
           b == E2[j + 1]
           l == a.from + 1
<1>1. /\ u \in Seq(L) /\ Len(u) \in Nat /\ x \in Nat /\ x <= a.from
      /\ a.from \in 0..Len(u) /\ a.to \in 0..Len(u) /\ b.from \in 0..Len(u)
      /\ \A q \in (a.from + 1)..a.to : u[q] \notin Lines(v)
      /\ Lines(r) \subseteq Lines(v)
      /\ Lines(Slice(u, x, b.from)) \subseteq Lines(r)
  BY SameTextIs
<1>2. a.from < b.from /\ b.from < a.to
  OBVIOUS
<1> HIDE DEF a, b
<1>3. l \in (a.from + 1)..a.to /\ l \in (x + 1)..b.from
  BY <1>1, <1>2
<1>4. u[l] \in Lines(Slice(u, x, b.from))
  <2> HIDE DEF l
  <2>1. u \in Seq(L) /\ x \in Nat /\ b.from \in 0..Len(u)
    BY <1>1
  <2>2. \A q \in (x + 1)..b.from : u[q] \in Lines(Slice(u, x, b.from))
    BY ONLY <2>1, SliceIs
  <2> QED BY <1>3, <2>2
<1> QED BY <1>1, <1>3, <1>4

LEMMA EndsAgree ==
    ASSUME NEW w, NEW E, NEW v, NEW i, NEW m, NEW w2, NEW E2, NEW v2, NEW j, NEW n, NEW u, NEW L, NEW x, NEW y, NEW r,
           SameText(w, E, v, i, m, w2, E2, v2, j, n, u, L, x, y, r), E[i + 1].from = E2[j + 1].from
    PROVE  ~(E[i + 1].to < E2[j + 1].to)
<1> SUFFICES ASSUME E[i + 1].to < E2[j + 1].to PROVE FALSE
  OBVIOUS
<1> DEFINE a == E[i + 1]
           b == E2[j + 1]
           l == a.to + 1
           e == IF i + 1 < m THEN E[i + 2].from ELSE y
<1>1. /\ u \in Seq(L) /\ Len(u) \in Nat /\ Len(E) \in Nat /\ Fit(E, u, v, L)
      /\ i \in Nat /\ m \in Nat /\ i < m /\ m <= Len(E) /\ i + 1 \in 1..Len(E)
      /\ a.from \in 0..Len(u) /\ a.to \in 0..Len(u) /\ b.from \in 0..Len(u) /\ b.to \in 0..Len(u)
      /\ a.from <= a.to /\ y \in 0..Len(u) /\ b.to <= y
  BY SameTextIs
<1>2. /\ \A q \in (b.from + 1)..b.to : u[q] \notin Lines(v2)
      /\ Lines(r) \subseteq Lines(v2)
      /\ i + 1 < m => Lines(Slice(u, a.to, E[i + 2].from)) \subseteq Lines(r)
      /\ i + 1 = m => Lines(Slice(u, a.to, y)) \subseteq Lines(r)
  BY SameTextIs
<1>3. a.to < b.to /\ a.from = b.from
  OBVIOUS
<1>4. e \in 0..Len(u) /\ a.to < e
  <2>1. CASE i + 1 < m
    <3>1. i + 2 \in 1..Len(E) /\ i + 1 < i + 2
      BY <1>1, <2>1
    <3>2. E[i + 2].from \in 0..Len(u)
      BY <1>1, <3>1, FitIs
    <3>3. a.to < E[i + 2].from
      BY <1>1, <3>1 DEF Fit
    <3> QED BY <2>1, <3>2, <3>3
  <2>2. CASE ~(i + 1 < m)
    <3> HIDE DEF a, b
    <3> QED BY <1>1, <1>3, <2>2
  <2> QED BY <2>1, <2>2
<1>5. Lines(Slice(u, a.to, e)) \subseteq Lines(r)
  <2>1. CASE i + 1 < m
    BY <1>2, <2>1
  <2>2. CASE ~(i + 1 < m)
    <3>1. i + 1 = m
      BY <1>1, <2>2
    <3> QED BY <1>2, <2>2, <3>1
  <2> QED BY <2>1, <2>2
<1> HIDE DEF a, b, e
<1>6. l \in (b.from + 1)..b.to /\ l \in (a.to + 1)..e /\ a.to \in Nat
  BY <1>1, <1>3, <1>4, SMTT(30)
<1>7. u[l] \in Lines(Slice(u, a.to, e))
  <2> HIDE DEF l
  <2>1. u \in Seq(L) /\ a.to \in Nat /\ e \in 0..Len(u)
    BY <1>1, <1>4, <1>6
  <2>2. \A q \in (a.to + 1)..e : u[q] \in Lines(Slice(u, a.to, e))
    BY ONLY <2>1, SliceIs
  <2> QED BY <1>6, <2>2
<1> QED BY <1>2, <1>5, <1>6, <1>7

LEMMA RenderOne ==
    ASSUME NEW L, NEW u \in Seq(L), NEW F \in Seq(EditsOf(L, Len(u))), NEW x, NEW y, NEW n,
           Len(F) = 1, F[1] = [from |-> x, to |-> y, new |-> n]
    PROVE  Render(u, F, x, y) = n
<1>1. x \in Nat /\ y \in Nat /\ n \in Seq(L)
  <2>1. F[1] \in EditsOf(L, Len(u))
    <3>1. F \in Seq(EditsOf(L, Len(u))) /\ 1 \in 1..Len(F)
      OBVIOUS
    <3> QED BY ONLY <3>1, ElementOfSeq
  <2>2. Len(u) \in Nat
    BY LenProperties
  <2>3. F[1].from = x /\ F[1].to = y /\ F[1].new = n
    OBVIOUS
  <2> QED BY <2>1, <2>2, <2>3 DEF EditsOf
<1>2. u \in Seq(L) /\ F \in Seq(EditsOf(L, Len(u))) /\ x \in Nat
  BY <1>1
<1>3. PICK f : Rendering(f, u, F, x, L)
  BY ONLY <1>2, RenderingExists
<1>4. Render(u, F, x, y) = f[Len(F)] \o Slice(u, Behind(F, x), y)
  BY ONLY <1>2, <1>3, RenderIs
<1>5. Behind(F, x) = y /\ After(F, x, 1) = x /\ F[1].from = x /\ F[1].new = n
  BY DEF Behind, After
<1>6. f[0] = <<>> /\ f[1] = f[0] \o Slice(u, x, x) \o n
  <2>1. 1 \in 1..Len(F) /\ 1 - 1 = 0
    OBVIOUS
  <2> QED BY <1>3, <1>5, <2>1 DEF Rendering
<1>7. Slice(u, x, x) = <<>> /\ Slice(u, y, y) = <<>>
  BY <1>1, NoSlice
<1>8. f[1] = n
  BY <1>1, EmptySeq, ConcatEmptySeq, <1>6, <1>7
<1>9. n \o <<>> = n
  BY <1>1, ConcatEmptySeq
<1>10. Render(u, F, x, y) = f[1] \o Slice(u, y, y)
  BY <1>4, <1>5
<1> QED BY <1>7, <1>8, <1>9, <1>10

\* One side of a cluster that begins at x and ends at y.
OfCluster(w, E, u, v, L, i, z, x, m, y) ==
    /\ Worked(w, E, u, v, L) /\ Rests(E, u, i, z) /\ Before(E, i) /\ x \in z..Len(u) /\ x <= E[i + 1].from
    /\ Rests(E, u, m, y) /\ i <= m /\ x <= y

SideDone(w, E, u, v, L, i, z, x, m, y, r) ==
    /\ Slice(u, z, x) \in Seq(L) /\ Lines(Slice(u, z, x)) \subseteq Lines(v)
    /\ r \in Seq(L)
    /\ Upto(w, u, m, y) = Upto(w, u, i, z) \o (Slice(u, z, x) \o r)
    /\ Rendered(w, E, u, v, L, i, x, m, y, r)

LEMMA ClusterSide ==
    ASSUME NEW w, NEW E, NEW u, NEW v, NEW L, NEW i, NEW z, NEW x, NEW m, NEW y, OfCluster(w, E, u, v, L, i, z, x, m, y)
    PROVE  SideDone(w, E, u, v, L, i, z, x, m, y, Render(u, SubSeq(E, i + 1, m), x, y))
<1> DEFINE r == Render(u, SubSeq(E, i + 1, m), x, y)
<1>1. /\ Worked(w, E, u, v, L) /\ Rests(E, u, i, z) /\ Before(E, i) /\ x \in z..Len(u) /\ x <= E[i + 1].from
      /\ Rests(E, u, m, y) /\ i <= m /\ x <= y
  BY DEF OfCluster
<1>2. i < Len(E) => x <= E[i + 1].from
  BY <1>1
<1> DEFINE p == Slice(u, z, x)
           U == Upto(w, u, i, z)
           V == Upto(w, u, m, y)
<1>3. p \in Seq(L) /\ Upto(w, u, i, x) = U \o p /\ Rests(E, u, i, x)
  BY <1>1, <1>2, TakesBase
<1>4. Stretch(E, u, i, x, m, y)
  BY <1>1, <1>3 DEF Stretch
<1>5. Rendered(w, E, u, v, L, i, x, m, y, r)
  BY <1>1, <1>4, StretchRendered
<1>6. r \in Seq(L) /\ V = (U \o p) \o r
  BY <1>3, <1>5 DEF Rendered, Renders
<1>7. U \in Seq(L)
  BY <1>1, UptoIs
<1>8. Lines(p) \subseteq Lines(v)
  <2> HIDE DEF p
  <2> QED BY <1>1, <1>3, PartsOfOwn
<1> HIDE DEF p, U, V, r
<1>9. (U \o p) \o r = U \o (p \o r)
  <2>1. TextsOf(U, p, r, L)
    BY <1>3, <1>6, <1>7 DEF TextsOf
  <2> QED BY <2>1, Joined
<1>10. V = U \o (p \o r)
  BY <1>6, <1>9
<1>11. SideDone(w, E, u, v, L, i, z, x, m, y, r)
  BY <1>3, <1>5, <1>6, <1>8, <1>10 DEF p, U, V, SideDone
<1> QED BY <1>11 DEF r

\* Both sides have an edit, and they overlap.
TwoNext(w1, O, w2, T, u, v1, v2, L, i, j, z) ==
    /\ Markers \subseteq L /\ Worked(w1, O, u, v1, L) /\ Worked(w2, T, u, v2, L)
    /\ Rests(O, u, i, z) /\ Rests(T, u, j, z) /\ Before(O, i) /\ Before(T, j)
    /\ O[i + 1].from < T[j + 1].to /\ T[j + 1].from < O[i + 1].to

TwoDone(w1, O, w2, T, u, v1, v2, L, i, j, z, c, one, two) ==
    /\ c.o \in Nat /\ c.t \in Nat /\ c.end \in Nat /\ i < c.o /\ j < c.t
    /\ Rests(O, u, c.o, c.end) /\ Rests(T, u, c.t, c.end)
    /\ Slice(u, z, c.start) \in Seq(L)
    /\ Lines(Slice(u, z, c.start)) \subseteq Lines(v1) /\ Lines(Slice(u, z, c.start)) \subseteq Lines(v2)
    /\ Upto(w1, u, c.o, c.end) = Upto(w1, u, i, z) \o (Slice(u, z, c.start) \o one)
    /\ Upto(w2, u, c.t, c.end) = Upto(w2, u, j, z) \o (Slice(u, z, c.start) \o two)
    /\ BothSides(one, two, u, v1, v2, L, c.start, c.end)
    /\ one = two => O[i + 1] = T[j + 1]
    /\ O[i + 1] = T[j + 1] => /\ one = O[i + 1].new /\ two = O[i + 1].new /\ c.o = i + 1 /\ c.t = j + 1
                              /\ c.start = O[i + 1].from /\ c.end = O[i + 1].to

LEMMA TwoAreMeeting ==
    ASSUME NEW w1, NEW O, NEW w2, NEW T, NEW u, NEW v1, NEW v2, NEW L, NEW i, NEW j, NEW z,
           TwoNext(w1, O, w2, T, u, v1, v2, L, i, j, z)
    PROVE  Meeting(O, T, u, v1, v2, L, i, j) /\ z \in Nat /\ z <= O[i + 1].from /\ z <= T[j + 1].from
<1>1. /\ Worked(w1, O, u, v1, L) /\ Worked(w2, T, u, v2, L)
      /\ Rests(O, u, i, z) /\ Rests(T, u, j, z) /\ Before(O, i) /\ Before(T, j)
      /\ O[i + 1].from < T[j + 1].to /\ T[j + 1].from < O[i + 1].to
  BY DEF TwoNext
<1>2. Len(u) \in Nat /\ Len(O) \in Nat /\ Fit(O, u, v1, L)
  BY <1>1, WorkedIs
<1>3. Len(T) \in Nat /\ Fit(T, u, v2, L)
  BY <1>1, WorkedIs
<1>4. i \in 0..(Len(O) - 1) /\ z \in Nat /\ z <= O[i + 1].from
  BY <1>1, <1>2 DEF Rests, Before
<1>5. j \in 0..(Len(T) - 1) /\ z <= T[j + 1].from
  BY <1>1, <1>3 DEF Rests, Before
<1> QED BY <1>1, <1>2, <1>3, <1>4, <1>5 DEF Meeting

\* One edit by itself, rendered.
LEMMA OneRendered ==
    ASSUME NEW E, NEW u, NEW v, NEW L, u \in Seq(L), Len(u) \in Nat, Fit(E, u, v, L), NEW i, i \in Nat, i + 1 \in 1..Len(E)
    PROVE  Render(u, SubSeq(E, i + 1, i + 1), E[i + 1].from, E[i + 1].to) = E[i + 1].new
<1> DEFINE k == i + 1
           F == SubSeq(E, k, k)
           D == EditsOf(L, Len(u))
<1>1. E[k] \in D /\ k \in Int
  BY FitIs
<1>2. E[k] = [from |-> E[k].from, to |-> E[k].to, new |-> E[k].new]
  BY <1>1 DEF EditsOf
<1> HIDE DEF k, D
<1>3. F \in Seq(D) /\ Len(F) = 1 /\ F[1] = E[k]
  BY <1>1, SubSeqProperties
<1> DEFINE x == E[k].from
           y == E[k].to
           n == E[k].new
<1>4. F[1] = [from |-> x, to |-> y, new |-> n]
  BY <1>2, <1>3
<1>5. F \in Seq(EditsOf(L, Len(u))) /\ u \in Seq(L) /\ Len(F) = 1
  BY <1>3 DEF D
<1> HIDE DEF F, x, y, n
<1>6. Render(u, F, x, y) = n
  BY ONLY <1>4, <1>5, RenderOne
<1> QED BY <1>6 DEF F, x, y, n, k

LEMMA SameTextOf ==
    ASSUME NEW w, NEW E, NEW v, NEW i, NEW m, NEW w2, NEW E2, NEW v2, NEW j, NEW n, NEW u, NEW L, NEW x, NEW y, NEW r, NEW z,
           OfCluster(w, E, u, v, L, i, z, x, m, y), OfCluster(w2, E2, u, v2, L, j, z, x, n, y),
           i < m, j < n, E[i + 1].to <= y, E2[j + 1].to <= y,
           Rendered(w, E, u, v, L, i, x, m, y, r), Rendered(w2, E2, u, v2, L, j, x, n, y, r)
    PROVE  SameText(w, E, v, i, m, w2, E2, v2, j, n, u, L, x, y, r)
BY WorkedIs DEF OfCluster, Rests, SameText

LEMMA TwoTakes ==
    ASSUME NEW w1, NEW O, NEW w2, NEW T, NEW u, NEW v1, NEW v2, NEW L, NEW i, NEW j, NEW z,
           TwoNext(w1, O, w2, T, u, v1, v2, L, i, j, z)
    PROVE  \E c : /\ c = Cluster(O, T, First2(O, T, i, j))
                  /\ TwoDone(w1, O, w2, T, u, v1, v2, L, i, j, z, c,
                             Render(u, SubSeq(O, i + 1, c.o), c.start, c.end), Render(u, SubSeq(T, j + 1, c.t), c.start, c.end))
<1> DEFINE a == O[i + 1]
           b == T[j + 1]
<1>1. /\ Markers \subseteq L /\ Worked(w1, O, u, v1, L) /\ Worked(w2, T, u, v2, L)
      /\ Rests(O, u, i, z) /\ Rests(T, u, j, z) /\ Before(O, i) /\ Before(T, j)
      /\ a.from < b.to /\ b.from < a.to
  BY DEF TwoNext
<1>2. Meeting(O, T, u, v1, v2, L, i, j) /\ z \in Nat /\ z <= a.from /\ z <= b.from
  BY TwoAreMeeting
<1>3. PICK c \in Clusters(O, T, u, i, j) : /\ Cluster(O, T, First2(O, T, i, j)) = c
                                           /\ Ended(O, c.o, c) /\ Ended(T, c.t, c)
  BY <1>2, ClusterEnds
<1>4. i < c.o /\ Rests(O, u, c.o, c.end) /\ j < c.t /\ Rests(T, u, c.t, c.end)
  BY <1>2, <1>3, ClusterRests
<1>5. /\ Len(u) \in Nat /\ Len(O) \in Nat /\ Len(T) \in Nat /\ i \in Nat /\ j \in Nat
      /\ i + 1 \in 1..Len(O) /\ j + 1 \in 1..Len(T)
      /\ a.from \in 0..Len(u) /\ a.to \in 0..Len(u) /\ a.from <= a.to
      /\ b.from \in 0..Len(u) /\ b.to \in 0..Len(u) /\ b.from <= b.to
  BY <1>2, MeetingIs
<1>6. /\ c \in [o : i..Len(O), t : j..Len(T), start : 0..Len(u), end : 0..Len(u)]
      /\ c.start = Least(a.from, b.from) /\ a.to <= c.end /\ b.to <= c.end
      /\ SameRange(a, b) => c.end = a.to /\ c.o <= i + 1 /\ c.t <= j + 1
  BY DEF Clusters
<1> DEFINE x == c.start
           y == c.end
           m == c.o
           n == c.t
           one == Render(u, SubSeq(O, i + 1, m), x, y)
           two == Render(u, SubSeq(T, j + 1, n), x, y)
<1>7. /\ m \in i..Len(O) /\ n \in j..Len(T) /\ x \in 0..Len(u) /\ y \in 0..Len(u)
      /\ m \in Nat /\ n \in Nat /\ x \in Nat /\ y \in Nat
  BY <1>5, <1>6
<1>8. x = Least(a.from, b.from) /\ a.to <= y /\ b.to <= y /\ i < m /\ j < n /\ Rests(O, u, m, y) /\ Rests(T, u, n, y)
  BY <1>4, <1>6
<1>9. SameRange(a, b) => y = a.to /\ m = i + 1 /\ n = j + 1
  BY <1>4, <1>5, <1>6, <1>7
<1>10. u \in Seq(L) /\ Fit(O, u, v1, L) /\ Fit(T, u, v2, L)
  BY <1>1, WorkedIs
<1>11. x <= a.from /\ x <= b.from /\ (a.from = b.from => x = a.from) /\ x \in z..Len(u) /\ x <= y
  <2> HIDE DEF a, b, x, y, m, n
  <2>1. x <= a.from /\ x <= b.from /\ (a.from = b.from => x = a.from) /\ z <= x
    BY <1>2, <1>5, <1>8 DEF Least
  <2> QED BY <1>2, <1>5, <1>7, <1>8, <2>1
<1> HIDE DEF x, y, m, n
<1>12. OfCluster(w1, O, u, v1, L, i, z, x, m, y)
  BY <1>1, <1>5, <1>7, <1>8, <1>11 DEF OfCluster
<1>13. OfCluster(w2, T, u, v2, L, j, z, x, n, y)
  BY <1>1, <1>5, <1>7, <1>8, <1>11 DEF OfCluster
<1>14. one = Render(u, SubSeq(O, i + 1, m), x, y) /\ two = Render(u, SubSeq(T, j + 1, n), x, y)
  OBVIOUS
<1> HIDE DEF a, b
<1>24. SideDone(w1, O, u, v1, L, i, z, x, m, y, one)
  BY <1>12, ClusterSide
<1>25. SideDone(w2, T, u, v2, L, j, z, x, n, y, two)
  BY <1>13, ClusterSide
<1> USE DEF a, b
<1> HIDE DEF one, two
<1>15. /\ Slice(u, z, x) \in Seq(L) /\ Lines(Slice(u, z, x)) \subseteq Lines(v1)
       /\ one \in Seq(L)
       /\ Upto(w1, u, m, y) = Upto(w1, u, i, z) \o (Slice(u, z, x) \o one)
       /\ Rendered(w1, O, u, v1, L, i, x, m, y, one)
  BY <1>24 DEF SideDone
<1>16. /\ Lines(Slice(u, z, x)) \subseteq Lines(v2)
       /\ two \in Seq(L)
       /\ Upto(w2, u, n, y) = Upto(w2, u, j, z) \o (Slice(u, z, x) \o two)
       /\ Rendered(w2, T, u, v2, L, j, x, n, y, two)
  BY <1>25 DEF SideDone
<1>17. BothSides(one, two, u, v1, v2, L, x, y)
  BY <1>7, <1>10, SliceIs, <1>15, <1>16, <1>1 DEF Rendered, BothSides
<1>18. SameRange(a, b) => one = a.new /\ two = b.new /\ x = a.from /\ y = a.to /\ m = i + 1 /\ n = j + 1
  BY <1>9, <1>11, <1>5, <1>10, OneRendered, <1>14 DEF SameRange
<1>19. a = b => SameRange(a, b)
  BY DEF SameRange
<1>20. ASSUME one = two PROVE a = b
  <2>1. Rendered(w2, T, u, v2, L, j, x, n, y, one)
    BY <1>16, <1>20
  <2>2. SameText(w1, O, v1, i, m, w2, T, v2, j, n, u, L, x, y, one)
    BY <1>8, <1>12, <1>13, <1>15, <2>1, SameTextOf
  <2>3. SameText(w2, T, v2, j, n, w1, O, v1, i, m, u, L, x, y, one)
    BY <1>8, <1>12, <1>13, <1>15, <2>1, SameTextOf
  <2>4. ~(O[i + 1].from < T[j + 1].from)
    BY <1>1, <2>2, StartsAgree
  <2>5. ~(T[j + 1].from < O[i + 1].from)
    BY <1>1, <2>3, StartsAgree
  <2>6. O[i + 1].from = T[j + 1].from
    BY <1>5, <2>4, <2>5
  <2>7. ~(O[i + 1].to < T[j + 1].to)
    BY <2>2, <2>6, EndsAgree
  <2>8. ~(T[j + 1].to < O[i + 1].to)
    BY <2>3, <2>6, EndsAgree
  <2>9. O[i + 1].to = T[j + 1].to
    BY <1>5, <2>7, <2>8
  <2>10. a.new = b.new
    BY <1>18, <1>20, <2>6, <2>9 DEF SameRange
  <2>11. a \in EditsOf(L, Len(u)) /\ b \in EditsOf(L, Len(u))
    BY <1>5, <1>10, FitIs
  <2> QED BY <2>6, <2>9, <2>10, <2>11 DEF EditsOf
<1>21. a = b => one = a.new /\ two = a.new /\ m = i + 1 /\ n = j + 1 /\ x = a.from /\ y = a.to
  BY <1>18, <1>19
<1> HIDE DEF a, b
<1>22. TwoDone(w1, O, w2, T, u, v1, v2, L, i, j, z, c, one, two)
  BY <1>7, <1>8, <1>15, <1>16, <1>17, <1>20, <1>21 DEF TwoDone, x, y, m, n, a, b
<1>23. TwoDone(w1, O, w2, T, u, v1, v2, L, i, j, z, c,
               Render(u, SubSeq(O, i + 1, c.o), c.start, c.end), Render(u, SubSeq(T, j + 1, c.t), c.start, c.end))
  BY <1>14, <1>22 DEF x, y, m, n
<1> QED BY <1>3, <1>23
-----------------------------------------------------------------------------
(***************************************************************************)
(* The walk over the edits of both sides.                                  *)
(***************************************************************************)
BothWorked(w1, O, w2, T, u, v1, v2, L) ==
    Markers \subseteq L /\ Worked(w1, O, u, v1, L) /\ Worked(w2, T, u, v2, L)

\* What can be read of the text of k for a side is what the side has, d, but for what is gone; and
\* it is the text while there is no conflict.
OneRead(k, d, side, u, v1, v2, L) ==
    \E q : Piece(d, q, k.out, side, u, v1, v2, L) /\ (k.marked = 0 => q = k.out)

\* Of both sides the text of k has what they make of the base up to k.at.
Reached(k, w1, O, w2, T, u, v1, v2, L) ==
    /\ k \in Walks(L) /\ Rests(O, u, k.o, k.at) /\ Rests(T, u, k.t, k.at)
    /\ OneRead(k, Upto(w1, u, k.o, k.at), "ours", u, v1, v2, L)
    /\ OneRead(k, Upto(w2, u, k.t, k.at), "theirs", u, v1, v2, L)

\* One more piece.
LEMMA OneReadMore ==
    ASSUME NEW k, NEW d, NEW side, NEW u, NEW v1, NEW v2, NEW L, OneRead(k, d, side, u, v1, v2, L),
           NEW s, NEW e, NEW x, Piece(s, e, x, side, u, v1, v2, L),
           NEW k2, k2.out = k.out \o x, k2.marked = 0 => k.marked = 0 /\ e = x
    PROVE  OneRead(k2, d \o s, side, u, v1, v2, L)
BY PiecesJoin DEF OneRead

\* The walk k with one piece more, and the sides' next edits behind it.
Onward(k, x, o, t, at, marked) == [o |-> o, t |-> t, at |-> at, marked |-> marked, out |-> k.out \o x]

LEMMA OnwardReached ==
    ASSUME NEW w1, NEW O, NEW w2, NEW T, NEW u, NEW v1, NEW v2, NEW L, BothWorked(w1, O, w2, T, u, v1, v2, L),
           NEW k, Reached(k, w1, O, w2, T, u, v1, v2, L), NEW x, NEW o, NEW t, NEW at, NEW marked \in Nat,
           Rests(O, u, o, at), Rests(T, u, t, at),
           NEW s1, NEW e1, Upto(w1, u, o, at) = Upto(w1, u, k.o, k.at) \o s1, Piece(s1, e1, x, "ours", u, v1, v2, L),
           NEW s2, NEW e2, Upto(w2, u, t, at) = Upto(w2, u, k.t, k.at) \o s2, Piece(s2, e2, x, "theirs", u, v1, v2, L),
           marked = 0 => k.marked = 0 /\ e1 = x /\ e2 = x
    PROVE  Reached(Onward(k, x, o, t, at, marked), w1, O, w2, T, u, v1, v2, L)
<1> DEFINE k2 == Onward(k, x, o, t, at, marked)
<1>1. /\ k \in Walks(L)
      /\ OneRead(k, Upto(w1, u, k.o, k.at), "ours", u, v1, v2, L)
      /\ OneRead(k, Upto(w2, u, k.t, k.at), "theirs", u, v1, v2, L)
  BY DEF Reached
<1>2. k2.o = o /\ k2.t = t /\ k2.at = at /\ k2.marked = marked /\ k2.out = k.out \o x
  BY DEF Onward
<1>3. k2 \in Walks(L)
  BY <1>1, ConcatProperties, WorkedIs DEF Piece, Walks, BothWorked, Rests, Onward
<1> HIDE DEF k2
<1>4. OneRead(k2, Upto(w1, u, k.o, k.at) \o s1, "ours", u, v1, v2, L)
  BY <1>1, <1>2, OneReadMore
<1>5. OneRead(k2, Upto(w2, u, k.t, k.at) \o s2, "theirs", u, v1, v2, L)
  BY <1>1, <1>2, OneReadMore
<1>6. Reached(k2, w1, O, w2, T, u, v1, v2, L)
  BY <1>2, <1>3, <1>4, <1>5 DEF Reached
<1> QED BY <1>6 DEF k2

\* The edit that is next, taken.
TakenOurs(u, O, k) == Onward(k, Change(O, u, k.o, k.at), k.o + 1, k.t, O[k.o + 1].to, k.marked)
TakenTheirs(u, T, k) == Onward(k, Change(T, u, k.t, k.at), k.o, k.t + 1, T[k.t + 1].to, k.marked)

LEMMA TakeIs ==
    ASSUME NEW w, NEW E, NEW u, NEW v, NEW L, Worked(w, E, u, v, L), NEW k \in Walks(L)
    PROVE  /\ Rests(E, u, k.o, k.at) /\ Before(E, k.o) => Take(u, k, E[k.o + 1], "o") = TakenOurs(u, E, k)
           /\ Rests(E, u, k.t, k.at) /\ Before(E, k.t) => Take(u, k, E[k.t + 1], "t") = TakenTheirs(u, E, k)
<1>1. u \in Seq(L) /\ Len(u) \in Nat /\ Len(E) \in Nat /\ Fit(E, u, v, L)
  BY WorkedIs
<1>2. ASSUME NEW i, Rests(E, u, i, k.at), Before(E, i)
      PROVE  (k.out \o Slice(u, k.at, E[i + 1].from)) \o E[i + 1].new = k.out \o Change(E, u, i, k.at)
  <2>1. i + 1 \in 1..Len(E) /\ k.at \in Nat
    BY <1>1, <1>2 DEF Rests, Before
  <2> DEFINE e == E[i + 1]
             p == Slice(u, k.at, e.from)
             n == e.new
             s == k.out
  <2>2. e.from \in 0..Len(u) /\ n \in Seq(L)
    BY <1>1, <2>1, FitIs
  <2>3. p \in Seq(L)
    <3> HIDE DEF e
    <3> QED BY <1>1, <2>1, <2>2, SliceIs
  <2>4. TextsOf(s, p, n, L)
    BY <2>2, <2>3 DEF TextsOf, Walks
  <2> HIDE DEF p, n, s, e
  <2>5. (s \o p) \o n = s \o (p \o n)
    BY <2>4, Joined
  <2> QED BY <2>5 DEF p, n, s, e, Change
<1>3. ASSUME NEW side \in Sides, NEW i, i = k[side], Rests(E, u, i, k.at), Before(E, i)
      PROVE  Taken(Take(u, k, E[i + 1], side), u, k, E[i + 1], side, L)
  <2>1. i + 1 \in 1..Len(E)
    BY <1>1, <1>3 DEF Rests, Before
  <2>2. E[i + 1] \in EditsOf(L, Len(u))
    BY <1>1, <2>1, FitIs
  <2> QED BY <1>1, <2>2, TakeTyped
<1>4. ASSUME NEW e
      PROVE  Take(u, k, e, "o").t = k.t /\ Take(u, k, e, "t").o = k.o
  BY DEF Take, Walks
<1>5. \A r \in Walks(L) : r = [o |-> r.o, t |-> r.t, at |-> r.at, marked |-> r.marked, out |-> r.out]
  BY DEF Walks
<1>6. ASSUME Rests(E, u, k.o, k.at), Before(E, k.o) PROVE Take(u, k, E[k.o + 1], "o") = TakenOurs(u, E, k)
  <2> DEFINE e == E[k.o + 1]
             r == Take(u, k, e, "o")
  <2>1. Taken(r, u, k, e, "o", L)
    BY <1>3, <1>6 DEF Sides
  <2>2. r.t = k.t
    BY <1>4
  <2> HIDE DEF r
  <2>3. r \in Walks(L) /\ r.at = e.to /\ r.marked = k.marked /\ r.o = k.o + 1
        /\ r.out = (k.out \o Slice(u, k.at, e.from)) \o e.new
    BY <2>1 DEF Taken
  <2>4. r.out = k.out \o Change(E, u, k.o, k.at)
    BY <1>2, <1>6, <2>3
  <2>5. r = TakenOurs(u, E, k)
    BY <1>5, <2>2, <2>3, <2>4 DEF TakenOurs, Onward
  <2> QED BY <2>5 DEF r
<1>7. ASSUME Rests(E, u, k.t, k.at), Before(E, k.t) PROVE Take(u, k, E[k.t + 1], "t") = TakenTheirs(u, E, k)
  <2> DEFINE e == E[k.t + 1]
             r == Take(u, k, e, "t")
  <2>1. Taken(r, u, k, e, "t", L)
    BY <1>3, <1>7 DEF Sides
  <2>2. r.o = k.o
    BY <1>4
  <2> HIDE DEF r
  <2>3. r \in Walks(L) /\ r.at = e.to /\ r.marked = k.marked /\ r.t = k.t + 1
        /\ r.out = (k.out \o Slice(u, k.at, e.from)) \o e.new
    BY <2>1 DEF Taken
  <2>4. r.out = k.out \o Change(E, u, k.t, k.at)
    BY <1>2, <1>7, <2>3
  <2>5. r = TakenTheirs(u, E, k)
    BY <1>5, <2>2, <2>3, <2>4 DEF TakenTheirs, Onward
  <2> QED BY <2>5 DEF r
<1> QED BY <1>6, <1>7

LEMMA OursReached ==
    ASSUME NEW w1, NEW O, NEW w2, NEW T, NEW u, NEW v1, NEW v2, NEW L, BothWorked(w1, O, w2, T, u, v1, v2, L),
           NEW k, Reached(k, w1, O, w2, T, u, v1, v2, L), Before(O, k.o),
           Before(T, k.t) => O[k.o + 1].to <= T[k.t + 1].from
    PROVE  Reached(TakenOurs(u, O, k), w1, O, w2, T, u, v1, v2, L)
<1> DEFINE m == k.o
           n == k.t
           z == k.at
           to == O[m + 1].to
           x == Change(O, u, m, z)
<1>1. Worked(w1, O, u, v1, L) /\ Worked(w2, T, u, v2, L) /\ Rests(O, u, m, z) /\ Rests(T, u, n, z) /\ k.marked \in Nat
  BY DEF BothWorked, Reached, Walks
<1>2. Mine("ours", v1, v2) = v1 /\ Mine("theirs", v1, v2) = v2
  BY DEF Mine
<1>3. Still(T, u, n, z, to)
  <2>1. Len(u) \in Nat /\ Len(O) \in Nat /\ Fit(O, u, v1, L)
    BY <1>1, WorkedIs
  <2>2. m + 1 \in 1..Len(O) /\ z \in Nat /\ z <= O[m + 1].from
    BY <1>1, <2>1 DEF Rests, Before
  <2>3. to \in 0..Len(u) /\ O[m + 1].from \in Nat /\ O[m + 1].from <= to
    BY <2>1, <2>2, FitIs
  <2>4. to \in z..Len(u)
    <3> HIDE DEF to, m, z
    <3> QED BY <2>1, <2>2, <2>3
  <2> QED BY <2>4 DEF Still, Before
<1> HIDE DEF m, n, z
<1>4. OneNext(w1, O, m, w2, T, n, z, "ours", "theirs", u, v1, v2, L)
  <2>1. Before(O, m)
    BY DEF m
  <2> QED BY <1>1, <1>2, <1>3, <2>1 DEF OneNext
<1>5. OneDone(w1, O, m, w2, T, n, z, "ours", "theirs", u, v1, v2, L)
  BY <1>4, OneTakes
<1>6. /\ Rests(O, u, m + 1, to) /\ Rests(T, u, n, to)
      /\ Upto(w1, u, m + 1, to) = Upto(w1, u, m, z) \o x
      /\ Piece(x, x, x, "ours", u, v1, v2, L)
      /\ Upto(w2, u, n, to) = Upto(w2, u, n, z) \o Slice(u, z, to)
      /\ Piece(Slice(u, z, to), x, x, "theirs", u, v1, v2, L)
  BY <1>5 DEF OneDone
<1> HIDE DEF x, to
<1> DEFINE i == m + 1
           s == Slice(u, z, to)
           c == k.marked
<1> HIDE DEF i, s, c
<1>7. Reached(Onward(k, x, i, n, to, c), w1, O, w2, T, u, v1, v2, L)
  BY <1>1, <1>6, OnwardReached DEF i, s, c, m, n, z
<1> QED BY <1>7 DEF TakenOurs, i, c, x, to, m, n, z

LEMMA TheirsReached ==
    ASSUME NEW w1, NEW O, NEW w2, NEW T, NEW u, NEW v1, NEW v2, NEW L, BothWorked(w1, O, w2, T, u, v1, v2, L),
           NEW k, Reached(k, w1, O, w2, T, u, v1, v2, L), Before(T, k.t),
           Before(O, k.o) => T[k.t + 1].to <= O[k.o + 1].from
    PROVE  Reached(TakenTheirs(u, T, k), w1, O, w2, T, u, v1, v2, L)
<1> DEFINE m == k.o
           n == k.t
           z == k.at
           to == T[n + 1].to
           x == Change(T, u, n, z)
<1>1. Worked(w1, O, u, v1, L) /\ Worked(w2, T, u, v2, L) /\ Rests(O, u, m, z) /\ Rests(T, u, n, z) /\ k.marked \in Nat
  BY DEF BothWorked, Reached, Walks
<1>2. Mine("ours", v1, v2) = v1 /\ Mine("theirs", v1, v2) = v2
  BY DEF Mine
<1>3. Still(O, u, m, z, to)
  <2>1. Len(u) \in Nat /\ Len(T) \in Nat /\ Fit(T, u, v2, L)
    BY <1>1, WorkedIs
  <2>2. n + 1 \in 1..Len(T) /\ z \in Nat /\ z <= T[n + 1].from
    BY <1>1, <2>1 DEF Rests, Before
  <2>3. to \in 0..Len(u) /\ T[n + 1].from \in Nat /\ T[n + 1].from <= to
    BY <2>1, <2>2, FitIs
  <2>4. to \in z..Len(u)
    <3> HIDE DEF to, n, z
    <3> QED BY <2>1, <2>2, <2>3
  <2> QED BY <2>4 DEF Still, Before
<1> HIDE DEF m, n, z
<1>4. OneNext(w2, T, n, w1, O, m, z, "theirs", "ours", u, v1, v2, L)
  <2>1. Before(T, n)
    BY DEF n
  <2> QED BY <1>1, <1>2, <1>3, <2>1 DEF OneNext
<1>5. OneDone(w2, T, n, w1, O, m, z, "theirs", "ours", u, v1, v2, L)
  BY <1>4, OneTakes
<1>6. /\ Rests(T, u, n + 1, to) /\ Rests(O, u, m, to)
      /\ Upto(w2, u, n + 1, to) = Upto(w2, u, n, z) \o x
      /\ Piece(x, x, x, "theirs", u, v1, v2, L)
      /\ Upto(w1, u, m, to) = Upto(w1, u, m, z) \o Slice(u, z, to)
      /\ Piece(Slice(u, z, to), x, x, "ours", u, v1, v2, L)
  BY <1>5 DEF OneDone
<1> HIDE DEF x, to
<1> DEFINE i == n + 1
           s == Slice(u, z, to)
           c == k.marked
<1> HIDE DEF i, s, c
<1>7. Reached(Onward(k, x, m, i, to, c), w1, O, w2, T, u, v1, v2, L)
  BY <1>1, <1>6, OnwardReached DEF i, s, c, m, n, z
<1> QED BY <1>7 DEF TakenTheirs, i, c, x, to, m, n, z

\* The edits of both sides overlap: c is the cluster, one and two what the sides make of it.
LeftOf(u, O, k, c) == Render(u, SubSeq(O, k.o + 1, c.o), c.start, c.end)
RightOf(u, T, k, c) == Render(u, SubSeq(T, k.t + 1, c.t), c.start, c.end)

ClusterOf(O, T, k) == Cluster(O, T, First2(O, T, k.o, k.t))

\* What ByCluster adds to the text.
Woven2(u, k, c, one, two, style) ==
    Slice(u, k.at, c.start) \o IF one = two THEN one ELSE Conflict(u, one, two, c.start, c.end, style)

TakenBoth(u, O, T, k, style) ==
    Onward(k, Woven2(u, k, ClusterOf(O, T, k), LeftOf(u, O, k, ClusterOf(O, T, k)), RightOf(u, T, k, ClusterOf(O, T, k)), style),
           ClusterOf(O, T, k).o, ClusterOf(O, T, k).t, ClusterOf(O, T, k).end,
           k.marked + IF LeftOf(u, O, k, ClusterOf(O, T, k)) = RightOf(u, T, k, ClusterOf(O, T, k)) THEN 0 ELSE 1)

Overlap(O, T, k) ==
    /\ Before(O, k.o) /\ Before(T, k.t)
    /\ O[k.o + 1].from < T[k.t + 1].to /\ T[k.t + 1].from < O[k.o + 1].to

\* What TwoTakes says of it.
Clustered(w1, O, w2, T, u, v1, v2, L, k, c, one, two) ==
    /\ c = ClusterOf(O, T, k) /\ one = LeftOf(u, O, k, c) /\ two = RightOf(u, T, k, c)
    /\ TwoDone(w1, O, w2, T, u, v1, v2, L, k.o, k.t, k.at, c, one, two)

LEMMA ClusteredExists ==
    ASSUME NEW w1, NEW O, NEW w2, NEW T, NEW u, NEW v1, NEW v2, NEW L, BothWorked(w1, O, w2, T, u, v1, v2, L),
           NEW k, Reached(k, w1, O, w2, T, u, v1, v2, L), Overlap(O, T, k)
    PROVE  \E c, one, two : Clustered(w1, O, w2, T, u, v1, v2, L, k, c, one, two)
<1> DEFINE i == k.o
           j == k.t
           z == k.at
<1>1. TwoNext(w1, O, w2, T, u, v1, v2, L, i, j, z)
  BY DEF TwoNext, BothWorked, Reached, Overlap
<1> HIDE DEF i, j, z
<1>2. PICK c : /\ c = Cluster(O, T, First2(O, T, i, j))
               /\ TwoDone(w1, O, w2, T, u, v1, v2, L, i, j, z, c,
                          Render(u, SubSeq(O, i + 1, c.o), c.start, c.end), Render(u, SubSeq(T, j + 1, c.t), c.start, c.end))
  BY <1>1, TwoTakes
<1>3. Clustered(w1, O, w2, T, u, v1, v2, L, k, c, LeftOf(u, O, k, c), RightOf(u, T, k, c))
  BY <1>2 DEF Clustered, ClusterOf, LeftOf, RightOf, i, j, z
<1> QED BY <1>3

\* The piece of text that comes of it.
LEMMA WovenPiece ==
    ASSUME NEW one, NEW two, NEW u, NEW v1, NEW v2, NEW L, NEW x, NEW y, NEW style, NEW p,
           BothSides(one, two, u, v1, v2, L, x, y), NEW side \in {"ours", "theirs"},
           p \in Seq(L), Lines(p) \subseteq Lines(v1), Lines(p) \subseteq Lines(v2), NEW r,
           r = IF one = two THEN one ELSE Conflict(u, one, two, x, y, style)
    PROVE  Piece(p \o Mine(side, one, two), p \o Mine(side, one, two), p \o r, side, u, v1, v2, L)
<1> DEFINE s == Mine(side, one, two)
<1>1. Lines(p) \subseteq Lines(Mine(side, v1, v2))
  BY DEF Mine
<1>2. Piece(p, p, p, side, u, v1, v2, L)
  BY <1>1, PieceOwn
<1>3. Piece(s, s, r, side, u, v1, v2, L)
  <2>1. CASE one = two
    BY <2>1, PieceOwn DEF Mine, BothSides
  <2>2. CASE one # two
    BY <2>2, PieceConflict
  <2> QED BY <2>1, <2>2
<1> HIDE DEF s
<1>4. Piece(p \o s, p \o s, p \o r, side, u, v1, v2, L)
  BY <1>2, <1>3, PiecesJoin
<1> QED BY <1>4 DEF s

LEMMA BothReached ==
    ASSUME NEW w1, NEW O, NEW w2, NEW T, NEW u, NEW v1, NEW v2, NEW L, BothWorked(w1, O, w2, T, u, v1, v2, L),
           NEW k, Reached(k, w1, O, w2, T, u, v1, v2, L), Overlap(O, T, k), NEW style
    PROVE  Reached(TakenBoth(u, O, T, k, style), w1, O, w2, T, u, v1, v2, L)
<1>1. PICK c, one, two : Clustered(w1, O, w2, T, u, v1, v2, L, k, c, one, two)
  BY ClusteredExists
<1> DEFINE p == Slice(u, k.at, c.start)
           r == IF one = two THEN one ELSE Conflict(u, one, two, c.start, c.end, style)
           m == c.o
           n == c.t
           x == c.start
           y == c.end
           d == k.marked + IF one = two THEN 0 ELSE 1
           s1 == p \o one
           s2 == p \o two
           q == p \o r
<1>2. /\ Rests(O, u, m, y) /\ Rests(T, u, n, y)
      /\ p \in Seq(L) /\ Lines(p) \subseteq Lines(v1) /\ Lines(p) \subseteq Lines(v2)
      /\ Upto(w1, u, m, y) = Upto(w1, u, k.o, k.at) \o s1
      /\ Upto(w2, u, n, y) = Upto(w2, u, k.t, k.at) \o s2
      /\ BothSides(one, two, u, v1, v2, L, x, y)
  BY <1>1 DEF Clustered, TwoDone
<1>3. d \in Nat /\ (d = 0 => k.marked = 0 /\ s1 = q /\ s2 = q)
  <2>1. k.marked \in Nat
    BY DEF Reached, Walks
  <2>2. one = two => r = one /\ r = two
    OBVIOUS
  <2> HIDE DEF r
  <2> QED BY <2>1, <2>2
<1>4. r = IF one = two THEN one ELSE Conflict(u, one, two, x, y, style)
  OBVIOUS
<1> HIDE DEF p, r, x
<1>5. Mine("ours", one, two) = one /\ Mine("theirs", one, two) = two
  BY DEF Mine
<1>6. Piece(p \o Mine("ours", one, two), p \o Mine("ours", one, two), p \o r, "ours", u, v1, v2, L)
  BY <1>2, <1>4, WovenPiece
<1>7. Piece(p \o Mine("theirs", one, two), p \o Mine("theirs", one, two), p \o r, "theirs", u, v1, v2, L)
  BY <1>2, <1>4, WovenPiece
<1>8. Piece(s1, s1, q, "ours", u, v1, v2, L) /\ Piece(s2, s2, q, "theirs", u, v1, v2, L)
  BY <1>5, <1>6, <1>7
<1> HIDE DEF s1, s2, q, d, m, n, y
<1>9. Reached(Onward(k, q, m, n, y, d), w1, O, w2, T, u, v1, v2, L)
  BY <1>2, <1>3, <1>8, OnwardReached
<1>10. c = ClusterOf(O, T, k) /\ one = LeftOf(u, O, k, c) /\ two = RightOf(u, T, k, c)
  BY <1>1 DEF Clustered
<1>11. q = Woven2(u, k, c, one, two, style)
  BY <1>4 DEF q, p, x, y, Woven2
<1>12. TakenBoth(u, O, T, k, style) = Onward(k, q, m, n, y, d)
  BY <1>10, <1>11 DEF TakenBoth, m, n, y, d
<1> QED BY <1>9, <1>12

\* Whose turn it is.
Idle(O, T, k) == ~Before(O, k.o) /\ ~Before(T, k.t)

OursNext(O, T, k) == Before(O, k.o) /\ (Before(T, k.t) => O[k.o + 1].to <= T[k.t + 1].from)

TheirsNext(O, T, k) == Before(T, k.t) /\ (Before(O, k.o) => /\ T[k.t + 1].to <= O[k.o + 1].from
                                                           /\ T[k.t + 1].from < O[k.o + 1].to)

LEMMA Turns ==
    ASSUME NEW w1, NEW O, NEW w2, NEW T, NEW u, NEW v1, NEW v2, NEW L, BothWorked(w1, O, w2, T, u, v1, v2, L),
           NEW k \in Walks(L)
    PROVE  /\ Idle(O, T, k) \/ OursNext(O, T, k) \/ TheirsNext(O, T, k) \/ Overlap(O, T, k)
           /\ OursNext(O, T, k) => ~Idle(O, T, k) /\ ~TheirsNext(O, T, k) /\ ~Overlap(O, T, k)
           /\ TheirsNext(O, T, k) => ~Idle(O, T, k) /\ ~Overlap(O, T, k)
           /\ Overlap(O, T, k) => ~Idle(O, T, k)
           /\ OursNext(O, T, k) => O[k.o + 1] \in EditsOf(L, Len(u))
           /\ TheirsNext(O, T, k) => T[k.t + 1] \in EditsOf(L, Len(u))
           /\ Overlap(O, T, k) => O[k.o + 1] \in EditsOf(L, Len(u)) /\ T[k.t + 1] \in EditsOf(L, Len(u))
<1> DEFINE a == O[k.o + 1]
           b == T[k.t + 1]
<1>1. Len(u) \in Nat /\ Len(O) \in Nat /\ Fit(O, u, v1, L) /\ k.o \in Nat /\ k.t \in Nat
  BY WorkedIs DEF BothWorked, Walks
<1>2. Len(T) \in Nat /\ Fit(T, u, v2, L)
  BY WorkedIs DEF BothWorked
<1>3. Before(O, k.o) => a \in EditsOf(L, Len(u)) /\ a.from \in Nat /\ a.to \in Nat
  <2> SUFFICES ASSUME Before(O, k.o) PROVE a \in EditsOf(L, Len(u)) /\ a.from \in Nat /\ a.to \in Nat
    OBVIOUS
  <2>1. k.o + 1 \in 1..Len(O)
    BY <1>1 DEF Before
  <2> QED BY <1>1, <2>1, FitIs
<1>4. Before(T, k.t) => b \in EditsOf(L, Len(u)) /\ b.from \in Nat /\ b.to \in Nat
  <2> SUFFICES ASSUME Before(T, k.t) PROVE b \in EditsOf(L, Len(u)) /\ b.from \in Nat /\ b.to \in Nat
    OBVIOUS
  <2>1. k.t + 1 \in 1..Len(T)
    BY <1>1, <1>2 DEF Before
  <2> QED BY <1>1, <1>2, <2>1, FitIs
<1> DEFINE ho == Before(O, k.o)
           ht == Before(T, k.t)
<1>5. /\ Idle(O, T, k) <=> (~ho /\ ~ht)
      /\ OursNext(O, T, k) <=> (ho /\ (ht => a.to <= b.from))
      /\ TheirsNext(O, T, k) <=> (ht /\ (ho => b.to <= a.from /\ b.from < a.to))
      /\ Overlap(O, T, k) <=> (ho /\ ht /\ a.from < b.to /\ b.from < a.to)
  BY DEF Idle, OursNext, TheirsNext, Overlap
<1> HIDE DEF a, b, ho, ht
<1>6. (ho => a.from \in Nat /\ a.to \in Nat) /\ (ht => b.from \in Nat /\ b.to \in Nat)
  BY <1>3, <1>4 DEF ho, ht
<1>7. /\ Idle(O, T, k) \/ OursNext(O, T, k) \/ TheirsNext(O, T, k) \/ Overlap(O, T, k)
      /\ OursNext(O, T, k) => ~Idle(O, T, k) /\ ~TheirsNext(O, T, k) /\ ~Overlap(O, T, k)
      /\ TheirsNext(O, T, k) => ~Idle(O, T, k) /\ ~Overlap(O, T, k)
      /\ Overlap(O, T, k) => ~Idle(O, T, k)
  BY <1>5, <1>6
<1>8. /\ OursNext(O, T, k) => a \in EditsOf(L, Len(u))
      /\ TheirsNext(O, T, k) => b \in EditsOf(L, Len(u))
      /\ Overlap(O, T, k) => a \in EditsOf(L, Len(u)) /\ b \in EditsOf(L, Len(u))
  BY <1>3, <1>4, <1>5 DEF ho, ht
<1> QED BY <1>7, <1>8 DEF a, b

\* What a step of the walk is.
LEMMA WeaveTurns ==
    ASSUME NEW w1, NEW O, NEW w2, NEW T, NEW u, NEW v1, NEW v2, NEW L, BothWorked(w1, O, w2, T, u, v1, v2, L),
           NEW k \in Walks(L), NEW style
    PROVE  \A form : /\ Idle(O, T, k) => Weave(u, O, T, k, form, style) = k
                     /\ OursNext(O, T, k) => Weave(u, O, T, k, form, style) = Take(u, k, O[k.o + 1], "o")
                     /\ TheirsNext(O, T, k) => Weave(u, O, T, k, form, style) = Take(u, k, T[k.t + 1], "t")
                     /\ Overlap(O, T, k) => Weave(u, O, T, k, form, style) =
                                                IF form = "merge-file" THEN ByCluster(u, O, T, k, style)
                                                ELSE ByPair(u, O, T, k, style)
<1> DEFINE a == O[k.o + 1]
           b == T[k.t + 1]
           ho == k.o < Len(O)
           ht == k.t < Len(T)
<1>1. Len(u) \in Nat /\ Len(O) \in Nat /\ Len(T) \in Nat /\ k.o \in Nat /\ k.t \in Nat
  BY WorkedIs DEF BothWorked, Walks
<1>2. /\ OursNext(O, T, k) => a \in EditsOf(L, Len(u))
      /\ TheirsNext(O, T, k) => b \in EditsOf(L, Len(u))
      /\ Overlap(O, T, k) => a \in EditsOf(L, Len(u)) /\ b \in EditsOf(L, Len(u))
      /\ OursNext(O, T, k) \/ TheirsNext(O, T, k) \/ Overlap(O, T, k) \/ Idle(O, T, k)
  BY Turns
<1>3. /\ Idle(O, T, k) <=> (~ho /\ ~ht)
      /\ OursNext(O, T, k) <=> (ho /\ (ht => a.to <= b.from))
      /\ TheirsNext(O, T, k) <=> (ht /\ (ho => b.to <= a.from /\ b.from < a.to))
      /\ Overlap(O, T, k) <=> (ho /\ ht /\ a.from < b.to /\ b.from < a.to)
  BY DEF Idle, OursNext, TheirsNext, Overlap, Before
<1>4. \A e \in EditsOf(L, Len(u)) : e.from \in Nat /\ e.to \in Nat
  BY <1>1 DEF EditsOf
<1>5. ho /\ ht => a.from \in Nat /\ a.to \in Nat /\ b.from \in Nat /\ b.to \in Nat
  <2> SUFFICES ASSUME ho, ht PROVE a \in EditsOf(L, Len(u)) /\ b \in EditsOf(L, Len(u))
    <3> HIDE DEF a, b, ho, ht
    <3> QED BY <1>4
  <2>1. k.o + 1 \in 1..Len(O) /\ k.t + 1 \in 1..Len(T)
    BY <1>1
  <2>3. Fit(O, u, v1, L) /\ Fit(T, u, v2, L)
    BY WorkedIs DEF BothWorked
  <2>2. O \in Seq(EditsOf(L, Len(u))) /\ T \in Seq(EditsOf(L, Len(u)))
    BY <2>3 DEF Fit
  <2> QED BY <2>1, <2>2, ElementOfSeq
<1> SUFFICES ASSUME NEW form
             PROVE  /\ Idle(O, T, k) => Weave(u, O, T, k, form, style) = k
                    /\ OursNext(O, T, k) => Weave(u, O, T, k, form, style) = Take(u, k, O[k.o + 1], "o")
                    /\ TheirsNext(O, T, k) => Weave(u, O, T, k, form, style) = Take(u, k, T[k.t + 1], "t")
                    /\ Overlap(O, T, k) => Weave(u, O, T, k, form, style) =
                                               IF form = "merge-file" THEN ByCluster(u, O, T, k, style)
                                               ELSE ByPair(u, O, T, k, style)
  OBVIOUS
<1> DEFINE A == Take(u, k, a, "o")
           B == Take(u, k, b, "t")
           C == IF form = "merge-file" THEN ByCluster(u, O, T, k, style) ELSE ByPair(u, O, T, k, style)
<1>6. Weave(u, O, T, k, form, style) =
        CASE ~ho /\ ~ht -> k
          [] ho /\ (ht => a.to <= b.from) -> A
          [] ht /\ (ho => b.to <= a.from /\ a.to > b.from) -> B
          [] OTHER -> C
  BY DEF Weave
<1> HIDE DEF A, B, C, a, b, ho, ht
<1>7. Idle(O, T, k) => Weave(u, O, T, k, form, style) = k
  BY <1>3, <1>6
<1>8. OursNext(O, T, k) => Weave(u, O, T, k, form, style) = A
  BY <1>3, <1>5, <1>6
<1>9. TheirsNext(O, T, k) => Weave(u, O, T, k, form, style) = B
  BY <1>3, <1>5, <1>6
<1>10. Overlap(O, T, k) => Weave(u, O, T, k, form, style) = C
  BY <1>3, <1>5, <1>6
<1> QED BY <1>7, <1>8, <1>9, <1>10 DEF A, B, C, a, b

\* merge-file takes the cluster.
LEMMA ByClusterIs ==
    ASSUME NEW w1, NEW O, NEW w2, NEW T, NEW u, NEW v1, NEW v2, NEW L, BothWorked(w1, O, w2, T, u, v1, v2, L),
           NEW k, Reached(k, w1, O, w2, T, u, v1, v2, L), Overlap(O, T, k), NEW style
    PROVE  ByCluster(u, O, T, k, style) = TakenBoth(u, O, T, k, style)
<1>1. PICK c, one, two : Clustered(w1, O, w2, T, u, v1, v2, L, k, c, one, two)
  BY ClusteredExists
<1> DEFINE p == Slice(u, k.at, c.start)
           r == IF one = two THEN one ELSE Conflict(u, one, two, c.start, c.end, style)
           s == k.out
<1>2. c = ClusterOf(O, T, k) /\ one = LeftOf(u, O, k, c) /\ two = RightOf(u, T, k, c)
  BY <1>1 DEF Clustered
<1>3. p \in Seq(L) /\ BothSides(one, two, u, v1, v2, L, c.start, c.end)
  BY <1>1 DEF Clustered, TwoDone
<1>4. r \in Seq(L)
  BY <1>3, ConflictIs DEF BothSides
<1>5. s \in Seq(L)
  BY DEF Reached, Walks
<1> HIDE DEF p, r, s
<1>6. (s \o p) \o r = s \o (p \o r)
  <2>1. TextsOf(s, p, r, L)
    BY <1>3, <1>4, <1>5 DEF TextsOf
  <2> QED BY <2>1, Joined
<1> DEFINE d == k.marked + IF one = two THEN 0 ELSE 1
<1>7. ByCluster(u, O, T, k, style) = [o |-> c.o, t |-> c.t, at |-> c.end, marked |-> d, out |-> (s \o p) \o r]
  BY <1>2 DEF ByCluster, ClusterOf, First2, LeftOf, RightOf, s, p, r
<1>8. TakenBoth(u, O, T, k, style) = [o |-> c.o, t |-> c.t, at |-> c.end, marked |-> d, out |-> s \o (p \o r)]
  BY <1>2 DEF TakenBoth, Onward, Woven2, s, p, r
<1> QED BY <1>6, <1>7, <1>8

\* One step of merge-file: to where the sides are read in full, and on, unless all edits are taken.
LEMMA WeaveReached ==
    ASSUME NEW w1, NEW O, NEW w2, NEW T, NEW u, NEW v1, NEW v2, NEW L, BothWorked(w1, O, w2, T, u, v1, v2, L),
           NEW k, Reached(k, w1, O, w2, T, u, v1, v2, L), NEW style, NEW q, q = Weave(u, O, T, k, "merge-file", style)
    PROVE  /\ Reached(q, w1, O, w2, T, u, v1, v2, L)
           /\ Idle(O, T, k) => q = k
           /\ ~Idle(O, T, k) => q.o + q.t >= k.o + k.t + 1
           /\ q.marked >= k.marked
<1>1. k \in Walks(L) /\ Rests(O, u, k.o, k.at) /\ Rests(T, u, k.t, k.at)
  BY DEF Reached
<1>2. Worked(w1, O, u, v1, L) /\ Worked(w2, T, u, v2, L)
  BY DEF BothWorked
<1>3. k.o \in Nat /\ k.t \in Nat /\ k.marked \in Nat
  BY <1>1 DEF Walks
<1>4. /\ Idle(O, T, k) => q = k
      /\ OursNext(O, T, k) => q = Take(u, k, O[k.o + 1], "o")
      /\ TheirsNext(O, T, k) => q = Take(u, k, T[k.t + 1], "t")
      /\ Overlap(O, T, k) => q = ByCluster(u, O, T, k, style)
  BY <1>1, WeaveTurns
<1>5. /\ Idle(O, T, k) \/ OursNext(O, T, k) \/ TheirsNext(O, T, k) \/ Overlap(O, T, k)
      /\ OursNext(O, T, k) => ~Idle(O, T, k)
      /\ TheirsNext(O, T, k) => ~Idle(O, T, k)
      /\ Overlap(O, T, k) => ~Idle(O, T, k)
  BY <1>1, Turns
<1>6. CASE Idle(O, T, k)
  BY <1>3, <1>4, <1>6
<1>7. CASE OursNext(O, T, k)
  <2>1. Before(O, k.o) /\ (Before(T, k.t) => O[k.o + 1].to <= T[k.t + 1].from)
    BY <1>7 DEF OursNext
  <2>2. q = TakenOurs(u, O, k)
    BY <1>1, <1>2, <1>4, <1>7, <2>1, TakeIs
  <2>3. Reached(q, w1, O, w2, T, u, v1, v2, L)
    BY <2>1, <2>2, OursReached
  <2>4. q.o = k.o + 1 /\ q.t = k.t /\ q.marked = k.marked
    BY <2>2 DEF TakenOurs, Onward
  <2> QED BY <1>3, <1>5, <1>7, <2>3, <2>4
<1>8. CASE TheirsNext(O, T, k)
  <2>1. Before(T, k.t) /\ (Before(O, k.o) => T[k.t + 1].to <= O[k.o + 1].from)
    BY <1>8 DEF TheirsNext
  <2>2. q = TakenTheirs(u, T, k)
    BY <1>1, <1>2, <1>4, <1>8, <2>1, TakeIs
  <2>3. Reached(q, w1, O, w2, T, u, v1, v2, L)
    BY <2>1, <2>2, TheirsReached
  <2>4. q.o = k.o /\ q.t = k.t + 1 /\ q.marked = k.marked
    BY <2>2 DEF TakenTheirs, Onward
  <2> QED BY <1>3, <1>5, <1>8, <2>3, <2>4
<1>9. CASE Overlap(O, T, k)
  <2>1. q = TakenBoth(u, O, T, k, style)
    BY <1>4, <1>9, ByClusterIs
  <2>2. Reached(q, w1, O, w2, T, u, v1, v2, L)
    BY <1>9, <2>1, BothReached
  <2>3. PICK c, one, two : Clustered(w1, O, w2, T, u, v1, v2, L, k, c, one, two)
    BY <1>9, ClusteredExists
  <2>4. c = ClusterOf(O, T, k) /\ one = LeftOf(u, O, k, c) /\ two = RightOf(u, T, k, c)
    BY <2>3 DEF Clustered
  <2>5. c.o \in Nat /\ c.t \in Nat /\ k.o < c.o /\ k.t < c.t
    BY <2>3 DEF Clustered, TwoDone
  <2>6. q.o = c.o /\ q.t = c.t /\ q.marked = k.marked + IF one = two THEN 0 ELSE 1
    BY <2>1, <2>4 DEF TakenBoth, Onward
  <2>7. q.o + q.t >= k.o + k.t + 1 /\ q.marked >= k.marked
    BY <1>3, <2>5, <2>6
  <2> QED BY <1>5, <1>9, <2>2, <2>7
<1> QED BY <1>5, <1>6, <1>7, <1>8, <1>9

\* _merge_lines_three_way takes one edit of each side.
PairTaken(u, k, a) == [o |-> k.o + 1, t |-> k.t + 1, at |-> a.to, marked |-> k.marked,
                       out |-> (k.out \o Slice(u, k.at, a.from)) \o a.new]

LEMMA PairIs ==
    ASSUME NEW O, NEW T, NEW u, NEW L, Markers \subseteq L, u \in Seq(L), NEW k \in Walks(L), NEW style,
           O[k.o + 1] \in EditsOf(L, Len(u)), T[k.t + 1] \in EditsOf(L, Len(u))
    PROVE  /\ ByPair(u, O, T, k, style) \in Walks(L)
           /\ O[k.o + 1] = T[k.t + 1] => ByPair(u, O, T, k, style) = PairTaken(u, k, O[k.o + 1])
           /\ O[k.o + 1] # T[k.t + 1] => ByPair(u, O, T, k, style).marked = k.marked + 1
           /\ ByPair(u, O, T, k, style).marked >= k.marked
<1> DEFINE a == O[k.o + 1]
           b == T[k.t + 1]
           q == ByPair(u, O, T, k, style)
<1>1. a \in EditsOf(L, Len(u)) /\ b \in EditsOf(L, Len(u))
  OBVIOUS
<1>2. k.o \in Nat /\ k.t \in Nat /\ k.at \in Nat /\ k.marked \in Nat /\ k.out \in Seq(L)
  BY DEF Walks
<1>3. Len(u) \in Nat
  BY LenProperties
<1> DEFINE start == Least(a.from, b.from)
           end == Most(a.to, b.to)
<1>4. /\ a = b => q = [Take(u, k, a, "o") EXCEPT !.t = @ + 1]
      /\ a # b => q = [o |-> k.o + 1, t |-> k.t + 1, at |-> end, marked |-> k.marked + 1,
                       out |-> (k.out \o Slice(u, k.at, start)) \o Conflict(u, a.new, b.new, start, end, style)]
  BY DEF ByPair
<1> HIDE DEF a, b, q
<1>5. CASE a = b
  <2> DEFINE r == Take(u, k, a, "o")
  <2>1. Taken(r, u, k, a, "o", L)
    BY <1>1, TakeTyped DEF Sides
  <2>2. r.t = k.t
    BY DEF Take, Walks
  <2>3. q = [r EXCEPT !.t = @ + 1]
    BY <1>4, <1>5
  <2> HIDE DEF r
  <2>4. r \in Walks(L) /\ r.at = a.to /\ r.marked = k.marked /\ r.o = k.o + 1
        /\ r.out = (k.out \o Slice(u, k.at, a.from)) \o a.new
    BY <2>1 DEF Taken
  <2>5. r = [o |-> r.o, t |-> r.t, at |-> r.at, marked |-> r.marked, out |-> r.out]
    BY <2>4 DEF Walks
  <2>6. q = [o |-> r.o, t |-> r.t + 1, at |-> r.at, marked |-> r.marked, out |-> r.out]
    BY <2>3, <2>5
  <2>7. q = PairTaken(u, k, a)
    BY <2>2, <2>4, <2>6 DEF PairTaken
  <2>8. q \in Walks(L)
    <3>1. r \in Walks(L)
      BY <2>4
    <3>2. r.o \in Nat /\ r.t \in Nat /\ r.at \in Nat /\ r.marked \in Nat /\ r.out \in Seq(L)
      BY ONLY <3>1 DEF Walks
    <3>3. r.t + 1 \in Nat
      BY <3>2
    <3> QED BY ONLY <2>6, <3>2, <3>3 DEF Walks
  <2>9. q.marked = k.marked
    BY <2>4, <2>6
  <2>10. q.marked >= k.marked
    BY <1>2, <2>9
  <2> QED BY <1>5, <2>7, <2>8, <2>10 DEF q, a, b
<1>6. CASE a # b
  <2>1. /\ a.from \in 0..Len(u) /\ a.to \in 0..Len(u) /\ a.new \in Seq(L)
        /\ b.from \in 0..Len(u) /\ b.to \in 0..Len(u) /\ b.new \in Seq(L)
    BY <1>1 DEF EditsOf
  <2>2. start \in 0..Len(u) /\ end \in 0..Len(u) /\ start \in Nat /\ end \in Nat
    BY <1>3, <2>1 DEF Least, Most
  <2>3. q = [o |-> k.o + 1, t |-> k.t + 1, at |-> end, marked |-> k.marked + 1,
             out |-> (k.out \o Slice(u, k.at, start)) \o Conflict(u, a.new, b.new, start, end, style)]
    BY <1>4, <1>6
  <2> HIDE DEF start, end
  <2> DEFINE p == Slice(u, k.at, start)
             one == a.new
             two == b.new
             r == Conflict(u, one, two, start, end, style)
             s == k.out
  <2>4. p \in Seq(L)
    BY <1>2, <2>2, SliceIs
  <2>5. Slice(u, start, end) \in Seq(L) /\ Lines(Slice(u, start, end)) \subseteq Lines(u)
    BY <2>2, SliceIs
  <2> HIDE DEF one, two
  <2>6. BothSides(one, two, u, one, two, L, start, end)
    BY <2>1, <2>5 DEF BothSides, one, two
  <2>7. r \in Seq(L)
    BY <2>6, ConflictIs
  <2>9. s \in Seq(L)
    BY <1>2
  <2>10. q = [o |-> k.o + 1, t |-> k.t + 1, at |-> end, marked |-> k.marked + 1, out |-> (s \o p) \o r]
    BY <2>3 DEF one, two
  <2> HIDE DEF p, r, s
  <2>11. (s \o p) \o r \in Seq(L)
    <3>1. s \o p \in Seq(L)
      BY <2>4, <2>9, ConcatProperties
    <3> DEFINE t == s \o p
    <3>2. t \in Seq(L)
      BY <3>1
    <3> HIDE DEF t
    <3>3. t \o r \in Seq(L)
      BY <2>7, <3>2, ConcatProperties
    <3> QED BY <3>3 DEF t
  <2>12. q \in Walks(L)
    BY <1>2, <2>2, <2>10, <2>11 DEF Walks
  <2>13. q.marked = k.marked + 1
    BY <2>10
  <2>14. q.marked >= k.marked
    BY <1>2, <2>13
  <2> QED BY <1>6, <2>12, <2>13, <2>14 DEF q, a, b
<1> QED BY <1>5, <1>6

\* A step of _merge_lines_three_way.
LEMMA MergeTyped ==
    ASSUME NEW w1, NEW O, NEW w2, NEW T, NEW u, NEW v1, NEW v2, NEW L, BothWorked(w1, O, w2, T, u, v1, v2, L),
           NEW k \in Walks(L), NEW style, NEW q, q = Weave(u, O, T, k, "merge", style)
    PROVE  q \in Walks(L) /\ q.marked >= k.marked
<1>1. /\ Idle(O, T, k) => q = k
      /\ OursNext(O, T, k) => q = Take(u, k, O[k.o + 1], "o")
      /\ TheirsNext(O, T, k) => q = Take(u, k, T[k.t + 1], "t")
      /\ Overlap(O, T, k) => q = ByPair(u, O, T, k, style)
  BY WeaveTurns
<1>2. /\ Idle(O, T, k) \/ OursNext(O, T, k) \/ TheirsNext(O, T, k) \/ Overlap(O, T, k)
      /\ OursNext(O, T, k) => O[k.o + 1] \in EditsOf(L, Len(u))
      /\ TheirsNext(O, T, k) => T[k.t + 1] \in EditsOf(L, Len(u))
      /\ Overlap(O, T, k) => O[k.o + 1] \in EditsOf(L, Len(u)) /\ T[k.t + 1] \in EditsOf(L, Len(u))
  BY Turns
<1>3. u \in Seq(L) /\ Markers \subseteq L
  BY WorkedIs DEF BothWorked
<1>4. k.marked \in Nat
  BY DEF Walks
<1>5. CASE Idle(O, T, k)
  BY <1>1, <1>4, <1>5
<1>6. CASE OursNext(O, T, k)
  <2>1. Taken(q, u, k, O[k.o + 1], "o", L)
    BY <1>2, <1>6, <1>3, TakeTyped, <1>1 DEF Sides
  <2> QED BY <1>4, <2>1 DEF Taken
<1>7. CASE TheirsNext(O, T, k)
  <2>1. Taken(q, u, k, T[k.t + 1], "t", L)
    BY <1>2, <1>7, <1>3, TakeTyped, <1>1 DEF Sides
  <2> QED BY <1>4, <2>1 DEF Taken
<1>8. CASE Overlap(O, T, k)
  BY <1>1, <1>2, <1>8, <1>3, PairIs
<1> QED BY <1>2, <1>5, <1>6, <1>7, <1>8

\* Walks without a conflict are the same in either form.
Agree(k, m) == IF k.marked = 0 THEN m = k ELSE m.marked > 0

LEMMA StepsAgree ==
    ASSUME NEW w1, NEW O, NEW w2, NEW T, NEW u, NEW v1, NEW v2, NEW L, BothWorked(w1, O, w2, T, u, v1, v2, L),
           NEW k, Reached(k, w1, O, w2, T, u, v1, v2, L), NEW m \in Walks(L), Agree(k, m), NEW style, NEW style2,
           NEW k2, k2 = Weave(u, O, T, k, "merge-file", style), NEW m2, m2 = Weave(u, O, T, m, "merge", style2)
    PROVE  Agree(k2, m2)
<1>1. k \in Walks(L) /\ k.marked \in Nat /\ m.marked \in Nat
  BY DEF Reached, Walks
<1>2. k2.marked >= k.marked /\ k2 \in Walks(L)
  BY WeaveReached DEF Reached
<1>3. m2.marked >= m.marked /\ m2 \in Walks(L)
  BY MergeTyped
<1>4. k2.marked \in Nat /\ m2.marked \in Nat
  BY <1>2, <1>3 DEF Walks
<1>5. CASE k.marked # 0
  BY <1>5, <1>1, <1>2, <1>3, <1>4 DEF Agree
<1>6. CASE k.marked = 0
  <2>1. m = k
    BY <1>6 DEF Agree
  <2>2. /\ Idle(O, T, k) => k2 = k
        /\ OursNext(O, T, k) => k2 = Take(u, k, O[k.o + 1], "o")
        /\ TheirsNext(O, T, k) => k2 = Take(u, k, T[k.t + 1], "t")
        /\ Overlap(O, T, k) => k2 = ByCluster(u, O, T, k, style)
    BY <1>1, WeaveTurns
  <2>3. /\ Idle(O, T, k) => m2 = k
        /\ OursNext(O, T, k) => m2 = Take(u, k, O[k.o + 1], "o")
        /\ TheirsNext(O, T, k) => m2 = Take(u, k, T[k.t + 1], "t")
        /\ Overlap(O, T, k) => m2 = ByPair(u, O, T, k, style2)
    BY <1>1, <2>1, WeaveTurns
  <2>4. Idle(O, T, k) \/ OursNext(O, T, k) \/ TheirsNext(O, T, k) \/ Overlap(O, T, k)
    BY <1>1, Turns
  <2>5. CASE ~Overlap(O, T, k)
    <3>1. k2 = m2
      BY <2>2, <2>3, <2>4, <2>5
    <3>2. k2.marked = 0
      <4>1. CASE Idle(O, T, k)
        BY <1>6, <2>2, <4>1
      <4>2. CASE OursNext(O, T, k)
        <5>1. O[k.o + 1] \in EditsOf(L, Len(u)) /\ u \in Seq(L) /\ "o" \in Sides
          BY <1>1, <4>2, Turns, WorkedIs DEF BothWorked, Sides
        <5>2. Taken(Take(u, k, O[k.o + 1], "o"), u, k, O[k.o + 1], "o", L)
          BY <1>1, <5>1, TakeTyped
        <5> QED BY <1>6, <2>2, <4>2, <5>2 DEF Taken
      <4>3. CASE TheirsNext(O, T, k)
        <5>1. T[k.t + 1] \in EditsOf(L, Len(u)) /\ u \in Seq(L) /\ "t" \in Sides
          BY <1>1, <4>3, Turns, WorkedIs DEF BothWorked, Sides
        <5>2. Taken(Take(u, k, T[k.t + 1], "t"), u, k, T[k.t + 1], "t", L)
          BY <1>1, <5>1, TakeTyped
        <5> QED BY <1>6, <2>2, <4>3, <5>2 DEF Taken
      <4> QED BY <2>4, <2>5, <4>1, <4>2, <4>3
    <3> QED BY <3>1, <3>2 DEF Agree
  <2>6. CASE Overlap(O, T, k)
    <3>1. PICK c, one, two : Clustered(w1, O, w2, T, u, v1, v2, L, k, c, one, two)
      BY <2>6, ClusteredExists
    <3> DEFINE a == O[k.o + 1]
               b == T[k.t + 1]
    <3>2. /\ c = ClusterOf(O, T, k) /\ one = LeftOf(u, O, k, c) /\ two = RightOf(u, T, k, c)
          /\ one = two => a = b
          /\ a = b => one = a.new /\ two = a.new /\ c.o = k.o + 1 /\ c.t = k.t + 1 /\ c.start = a.from /\ c.end = a.to
      BY <3>1 DEF Clustered, TwoDone
    <3>3. k2 = [o |-> c.o, t |-> c.t, at |-> c.end, marked |-> k.marked + IF one = two THEN 0 ELSE 1,
                out |-> (k.out \o Slice(u, k.at, c.start))
                        \o IF one = two THEN one ELSE Conflict(u, one, two, c.start, c.end, style)]
      BY <2>2, <2>6, <3>2 DEF ByCluster, ClusterOf, First2, LeftOf, RightOf
    <3>4. a \in EditsOf(L, Len(u)) /\ b \in EditsOf(L, Len(u)) /\ u \in Seq(L) /\ Markers \subseteq L
      BY WorkedIs, <1>1, <2>6, Turns DEF BothWorked
    <3>5. /\ a = b => m2 = PairTaken(u, k, a)
          /\ a # b => m2.marked = k.marked + 1
      BY <1>1, <2>3, <2>6, <3>4, PairIs
    <3> HIDE DEF a, b
    <3>6. CASE one = two
      <4>1. a = b /\ one = a.new /\ c.o = k.o + 1 /\ c.t = k.t + 1 /\ c.start = a.from /\ c.end = a.to
        BY <3>2, <3>6
      <4>2. k2 = [o |-> k.o + 1, t |-> k.t + 1, at |-> a.to, marked |-> k.marked + 0,
                  out |-> (k.out \o Slice(u, k.at, a.from)) \o a.new]
        BY <3>3, <3>6, <4>1
      <4>3. k.marked + 0 = k.marked
        BY <1>1
      <4>4. k2 = PairTaken(u, k, a)
        BY <4>2, <4>3 DEF PairTaken
      <4>5. k2.marked = 0
        BY <1>6, <4>4 DEF PairTaken
      <4> QED BY <3>5, <4>1, <4>4, <4>5 DEF Agree
    <3>7. CASE one # two
      BY <3>2, <3>7, <3>3, <3>5, <1>1 DEF Agree
    <3> QED BY <3>6, <3>7
  <2> QED BY <2>5, <2>6
<1> QED BY <1>5, <1>6

\* The whole walk.
Weaving(g, X, u, O, T, form, style) ==
    /\ g \in [0..(Len(O) + Len(T)) -> X] /\ g[0] = Start
    /\ \A n \in 1..(Len(O) + Len(T)) : g[n] = Weave(u, O, T, g[n - 1], form, style)

WovenBy(g, u, O, T) == [text |-> g[Len(O) + Len(T)].out \o Slice(u, g[Len(O) + Len(T)].at, Len(u)),
                        conflicts |-> g[Len(O) + Len(T)].marked]

LEMMA WeavingExists ==
    ASSUME NEW X, Start \in X, NEW u, NEW O, NEW T, Len(O) + Len(T) \in Nat, NEW form, NEW style,
           \A k \in X : Weave(u, O, T, k, form, style) \in X
    PROVE  \E g : Weaving(g, X, u, O, T, form, style) /\ WovenEdits(u, O, T, form, style) = WovenBy(g, u, O, T)
<1> DEFINE N == Len(O) + Len(T)
           Step(k) == Weave(u, O, T, k, form, style)
           Def(g) == g = [n \in 0..N |-> IF n = 0 THEN Start ELSE Step(g[n - 1])]
           g == CHOOSE g : Def(g)
           h == [n \in 1..N |-> [k \in X |-> Step(k)]]
<1>1. N \in Nat /\ \A k \in X : Step(k) \in X
  OBVIOUS
<1>2. WovenEdits(u, O, T, form, style) = [text |-> g[N].out \o Slice(u, g[N].at, Len(u)), conflicts |-> g[N].marked]
  BY DEF WovenEdits
<1> HIDE DEF Step
<1>3. h \in Steps(X, N)
  <2> HIDE DEF N
  <2> QED BY <1>1 DEF Steps
<1>4. PICK f : Chain(f, X, N, Start, h)
  <2> HIDE DEF h, N
  <2> QED BY <1>1, <1>3, Iterated, Zenon
<1>5. f \in [0..N -> X] /\ f[0] = Start /\ \A n \in 1..N : f[n] = Step(f[n - 1])
  <2>1. f \in [0..N -> X] /\ f[0] = Start /\ \A n \in 1..N : f[n] = h[n][f[n - 1]]
    <3> HIDE DEF h
    <3> QED BY <1>4 DEF Chain
  <2>2. ASSUME NEW n \in 1..N PROVE f[n] = Step(f[n - 1])
    <3>1. n - 1 \in 0..N
      <4> HIDE DEF N
      <4> QED BY <1>1
    <3>2. f[n - 1] \in X /\ f[n] = h[n][f[n - 1]]
      <4> HIDE DEF h, N
      <4> QED BY <2>1, <3>1
    <3> QED BY <3>2
  <2> QED BY <2>1, <2>2
<1>6. Def(f)
  <2> DEFINE e(n) == Step(f[n - 1])
  <2> HIDE DEF N
  <2>1. \A n \in 0..N : f[n] = IF n = 0 THEN Start ELSE e(n)
    BY <1>1, <1>5
  <2>2. f = [n \in 0..N |-> f[n]]
    BY <1>5
  <2> HIDE DEF e
  <2>3. f = [n \in 0..N |-> IF n = 0 THEN Start ELSE e(n)]
    BY <2>1, <2>2
  <2> QED BY <2>3 DEF e
<1>7. Def(g)
  <2> HIDE DEF Def
  <2> QED BY <1>6
<1> HIDE DEF g
<1>8. \A n \in 0..N : g[n] = IF n = 0 THEN Start ELSE Step(g[n - 1])
  <2> DEFINE e(n) == Step(g[n - 1])
  <2>1. g = [n \in 0..N |-> IF n = 0 THEN Start ELSE e(n)]
    BY <1>7
  <2> HIDE DEF Def, e, N
  <2>2. \A n \in 0..N : g[n] = IF n = 0 THEN Start ELSE e(n)
    BY <2>1
  <2> QED BY <2>2 DEF e
<1> HIDE DEF Def, h
<1>9. g[N] = f[N]
  <2> DEFINE S == {n \in 0..N : g[n] = f[n]}
  <2> HIDE DEF N
  <2>1. 0 \in S
    BY <1>1, <1>5, <1>8
  <2>2. ASSUME NEW n \in 0..(N - 1), n \in S PROVE n + 1 \in S
    <3>1. n + 1 \in 1..N /\ (n + 1) - 1 = n /\ n + 1 \in 0..N /\ n + 1 # 0
      BY <1>1
    <3>2. f[n + 1] = Step(f[n])
      BY <1>5, <3>1
    <3>3. g[n + 1] = Step(g[n])
      BY <1>8, <3>1
    <3> QED BY <2>2, <3>1, <3>2, <3>3
  <2>3. \A n \in 0..N : n \in S
    <3> HIDE DEF S
    <3> QED BY <1>1, <2>1, <2>2, UpTo
  <2>4. N \in 0..N
    BY <1>1
  <2> QED BY <2>3, <2>4
<1>10. Weaving(f, X, u, O, T, form, style)
  BY <1>5 DEF Weaving, Step
<1>11. WovenEdits(u, O, T, form, style) = WovenBy(f, u, O, T)
  BY <1>2, <1>9 DEF WovenBy
<1> QED BY <1>10, <1>11

\* At the start nothing has been read.
LEMMA StartReached ==
    ASSUME NEW w1, NEW O, NEW w2, NEW T, NEW u, NEW v1, NEW v2, NEW L, BothWorked(w1, O, w2, T, u, v1, v2, L)
    PROVE  Reached(Start, w1, O, w2, T, u, v1, v2, L) /\ Start \in Walks(L)
<1>1. Start.o = 0 /\ Start.t = 0 /\ Start.at = 0 /\ Start.marked = 0 /\ Start.out = <<>>
  BY DEF Start
<1>2. <<>> \in Seq(L)
  BY EmptySeq
<1>3. Start \in Walks(L)
  BY <1>2 DEF Start, Walks
<1>4. ASSUME NEW w, NEW E, NEW v, Worked(w, E, u, v, L) PROVE Rests(E, u, 0, 0) /\ Upto(w, u, 0, 0) = <<>>
  <2>1. u \in Seq(L) /\ Len(u) \in Nat /\ Len(E) \in Nat /\ Fit(E, u, v, L) /\ w[0].out = <<>> /\ w[0].at = 0
    BY <1>4, WorkedIs
  <2>2. Rests(E, u, 0, 0)
    <3>1. 0 \in 0..Len(E) /\ 0 \in 0..Len(u)
      BY <2>1
    <3>2. ASSUME 0 < Len(E) PROVE 0 <= E[0 + 1].from
      <4>1. 1 \in 1..Len(E) /\ 0 + 1 = 1
        BY <2>1, <3>2
      <4>2. E[1].from \in Nat
        BY <2>1, <4>1, FitIs
      <4> QED BY <4>1, <4>2
    <3> QED BY <3>1, <3>2 DEF Rests
  <2>3. Slice(u, 0, 0) = <<>>
    BY NoSlice
  <2>4. Upto(w, u, 0, 0) = <<>> \o <<>>
    BY <2>1, <2>3 DEF Upto
  <2>5. <<>> \o <<>> = <<>>
    BY <1>2, ConcatEmptySeq
  <2> QED BY <2>2, <2>4, <2>5
<1>5. Worked(w1, O, u, v1, L) /\ Worked(w2, T, u, v2, L)
  BY DEF BothWorked
<1>6. ASSUME NEW side PROVE OneRead(Start, <<>>, side, u, v1, v2, L)
  <2>1. Lines(<<>>) \subseteq Lines(Mine(side, v1, v2))
    BY NoLines
  <2> DEFINE s == <<>>
  <2>2. s \in Seq(L) /\ Lines(s) \subseteq Lines(Mine(side, v1, v2)) /\ Start.out = s
    BY <1>1, <1>2, <2>1
  <2> HIDE DEF s
  <2>3. Piece(s, s, s, side, u, v1, v2, L)
    BY <2>2, PieceOwn
  <2>4. OneRead(Start, s, side, u, v1, v2, L)
    BY <2>2, <2>3 DEF OneRead
  <2> QED BY <2>4 DEF s
<1>7. Rests(O, u, 0, 0) /\ Upto(w1, u, 0, 0) = <<>>
  BY <1>4, <1>5
<1>8. Rests(T, u, 0, 0) /\ Upto(w2, u, 0, 0) = <<>>
  BY <1>4, <1>5
<1> QED BY <1>1, <1>3, <1>6, <1>7, <1>8 DEF Reached

\* The texts that the two forms of the walk end with.
FileIs(r, u, v1, v2, L) ==
    \A side \in {"ours", "theirs"} : \E q : /\ Piece(Mine(side, v1, v2), q, r.text, side, u, v1, v2, L)
                                            /\ r.conflicts = 0 => q = r.text

FormsAgree(file, merged) ==
    /\ (file.conflicts = 0) = (merged.conflicts = 0)
    /\ merged.conflicts = 0 => merged.text = file.text

\* The walk of merge-file, step by step.
Filed(g, w1, O, w2, T, u, v1, v2, L, style) ==
    Weaving(g, {k \in Walks(L) : Reached(k, w1, O, w2, T, u, v1, v2, L)}, u, O, T, "merge-file", style)

\* All edits are taken in the end.
LEMMA AllTaken ==
    ASSUME NEW w1, NEW O, NEW w2, NEW T, NEW u, NEW v1, NEW v2, NEW L, BothWorked(w1, O, w2, T, u, v1, v2, L),
           NEW style, NEW g, Filed(g, w1, O, w2, T, u, v1, v2, L, style)
    PROVE  Idle(O, T, g[Len(O) + Len(T)])
<1> DEFINE N == Len(O) + Len(T)
           X == {k \in Walks(L) : Reached(k, w1, O, w2, T, u, v1, v2, L)}
           S == {n \in 0..N : Idle(O, T, g[n]) \/ g[n].o + g[n].t >= n}
<1>1. Len(O) \in Nat /\ Len(T) \in Nat /\ N \in Nat
  BY WorkedIs DEF BothWorked
<1>2. g \in [0..N -> X] /\ g[0] = Start /\ \A n \in 1..N : g[n] = Weave(u, O, T, g[n - 1], "merge-file", style)
  BY DEF Filed, Weaving
<1>3. \A k \in X : Reached(k, w1, O, w2, T, u, v1, v2, L) /\ k.o \in 0..Len(O) /\ k.t \in 0..Len(T)
  BY DEF Reached, Rests
<1> HIDE DEF X, N
<1>4. 0 \in S
  BY <1>1, <1>2 DEF Start
<1>5. ASSUME NEW n \in 0..(N - 1), n \in S PROVE n + 1 \in S
  <2>1. n + 1 \in 1..N /\ (n + 1) - 1 = n /\ n + 1 \in 0..N /\ n \in 0..N /\ n \in Nat
    BY <1>1
  <2>2. g[n + 1] = Weave(u, O, T, g[n], "merge-file", style)
    BY <1>2, <2>1
  <2> DEFINE k == g[n]
             q == g[n + 1]
  <2>3. k \in X /\ q \in X
    BY <1>2, <2>1
  <2> HIDE DEF k, q
  <2>4. q = Weave(u, O, T, k, "merge-file", style)
    BY <2>2 DEF k, q
  <2>5. Reached(k, w1, O, w2, T, u, v1, v2, L)
    BY <1>3, <2>3
  <2>6. (Idle(O, T, k) => q = k) /\ (~Idle(O, T, k) => q.o + q.t >= k.o + k.t + 1)
    BY <2>4, <2>5, WeaveReached
  <2>7. k.o \in Nat /\ k.t \in Nat /\ q.o \in Nat /\ q.t \in Nat
    BY <1>1, <1>3, <2>3
  <2>8. Idle(O, T, k) \/ k.o + k.t >= n
    BY <1>5 DEF k
  <2>9. Idle(O, T, q) \/ q.o + q.t >= n + 1
    BY <2>1, <2>6, <2>7, <2>8
  <2> QED BY <2>1, <2>9 DEF q
<1>6. Idle(O, T, g[N]) \/ g[N].o + g[N].t >= N
  <2>1. \A n \in 0..N : n \in S
    <3> HIDE DEF S
    <3> QED BY <1>1, <1>4, <1>5, UpTo
  <2>2. N \in 0..N
    BY <1>1
  <2> QED BY <2>1, <2>2
<1>7. g[N].o \in 0..Len(O) /\ g[N].t \in 0..Len(T)
  BY <1>1, <1>2, <1>3
<1> DEFINE a == Len(O)
           b == Len(T)
           i == g[N].o
           j == g[N].t
<1>8. a \in Nat /\ b \in Nat /\ i \in 0..a /\ j \in 0..b /\ (Idle(O, T, g[N]) \/ i + j >= a + b)
  BY <1>1, <1>6, <1>7 DEF N
<1>9. Idle(O, T, g[N]) <=> (~(i < a) /\ ~(j < b))
  BY DEF Idle, Before
<1> HIDE DEF a, b, i, j
<1>10. Idle(O, T, g[N])
  BY <1>8, <1>9
<1> QED BY <1>10 DEF N

\* The text of the side is at its end.
LEMMA AllRead ==
    ASSUME NEW w, NEW E, NEW u, NEW v, NEW L, Worked(w, E, u, v, L), NEW i, NEW x, Rests(E, u, i, x), ~Before(E, i)
    PROVE  Upto(w, u, i, x) \o Slice(u, x, Len(u)) = v /\ Slice(u, x, Len(u)) \in Seq(L) /\ Lines(Slice(u, x, Len(u))) \subseteq Lines(v)
<1>1. Len(u) \in Nat /\ Len(E) \in Nat
  BY WorkedIs
<1>2. i = Len(E) /\ x \in 0..Len(u)
  BY <1>1 DEF Rests, Before
<1> DEFINE y == Len(u)
<1>3. y \in x..Len(u) /\ (i < Len(E) => y <= E[i + 1].from)
  BY <1>1, <1>2
<1> HIDE DEF y
<1>4. Slice(u, x, y) \in Seq(L) /\ Upto(w, u, i, y) = Upto(w, u, i, x) \o Slice(u, x, y) /\ Rests(E, u, i, y)
  BY <1>3, TakesBase
<1>5. Upto(w, u, i, y) = v
  BY <1>2 DEF Worked, Upto, y
<1>6. Lines(Slice(u, x, y)) \subseteq Lines(v)
  <2> DEFINE s == Slice(u, x, y)
  <2>1. s \in Seq(L) /\ Upto(w, u, i, y) = Upto(w, u, i, x) \o s
    BY <1>4
  <2> HIDE DEF s
  <2>2. Lines(s) \subseteq Lines(v)
    BY <1>4, <2>1, PartsOfOwn
  <2> QED BY <2>2 DEF s
<1> QED BY <1>4, <1>5, <1>6 DEF y

\* What merge-file makes, whatever the style: of it each side can be read.
LEMMA FiledIs ==
    ASSUME NEW w1, NEW O, NEW w2, NEW T, NEW u, NEW v1, NEW v2, NEW L, BothWorked(w1, O, w2, T, u, v1, v2, L),
           NEW style, NEW g, Filed(g, w1, O, w2, T, u, v1, v2, L, style)
    PROVE  FileIs(WovenBy(g, u, O, T), u, v1, v2, L)
<1> DEFINE k == g[Len(O) + Len(T)]
           s == Slice(u, k.at, Len(u))
           r == WovenBy(g, u, O, T)
<1>1. Worked(w1, O, u, v1, L) /\ Worked(w2, T, u, v2, L)
  BY DEF BothWorked
<1>2. Reached(k, w1, O, w2, T, u, v1, v2, L)
  BY <1>1, WorkedIs DEF Filed, Weaving
<1>3. Idle(O, T, k)
  BY AllTaken
<1>4. r.text = k.out \o s /\ r.conflicts = k.marked
  BY DEF WovenBy
<1> HIDE DEF k, r
<1>5. Rests(O, u, k.o, k.at) /\ Rests(T, u, k.t, k.at) /\ ~Before(O, k.o) /\ ~Before(T, k.t)
  BY <1>2, <1>3 DEF Reached, Idle
<1>6. Upto(w1, u, k.o, k.at) \o s = v1 /\ s \in Seq(L) /\ Lines(s) \subseteq Lines(v1)
  BY <1>1, <1>5, AllRead
<1>7. Upto(w2, u, k.t, k.at) \o s = v2 /\ Lines(s) \subseteq Lines(v2)
  BY <1>1, <1>5, AllRead
<1> HIDE DEF s
<1>8. ASSUME NEW side \in {"ours", "theirs"}, NEW d, OneRead(k, d, side, u, v1, v2, L), d \o s = Mine(side, v1, v2)
      PROVE  \E q : Piece(Mine(side, v1, v2), q, r.text, side, u, v1, v2, L) /\ (r.conflicts = 0 => q = r.text)
  <2>1. PICK q : Piece(d, q, k.out, side, u, v1, v2, L) /\ (k.marked = 0 => q = k.out)
    BY <1>8 DEF OneRead
  <2>2. Piece(s, s, s, side, u, v1, v2, L)
    BY <1>6, <1>7, PieceOwn DEF Mine
  <2>3. Piece(d \o s, q \o s, k.out \o s, side, u, v1, v2, L)
    BY <2>1, <2>2, PiecesJoin
  <2>4. Piece(Mine(side, v1, v2), q \o s, r.text, side, u, v1, v2, L)
    BY <1>4, <1>8, <2>3
  <2>5. r.conflicts = 0 => q \o s = r.text
    BY <1>4, <2>1
  <2> QED BY <2>4, <2>5
<1>9. OneRead(k, Upto(w1, u, k.o, k.at), "ours", u, v1, v2, L) /\ OneRead(k, Upto(w2, u, k.t, k.at), "theirs", u, v1, v2, L)
  BY <1>2 DEF Reached
<1>10. Mine("ours", v1, v2) = v1 /\ Mine("theirs", v1, v2) = v2
  BY DEF Mine
<1>11. \E q : Piece(Mine("ours", v1, v2), q, r.text, "ours", u, v1, v2, L) /\ (r.conflicts = 0 => q = r.text)
  BY <1>6, <1>8, <1>9, <1>10
<1>12. \E q : Piece(Mine("theirs", v1, v2), q, r.text, "theirs", u, v1, v2, L) /\ (r.conflicts = 0 => q = r.text)
  BY <1>7, <1>8, <1>9, <1>10
<1>13. FileIs(r, u, v1, v2, L)
  BY <1>11, <1>12 DEF FileIs
<1> QED BY <1>13 DEF r

LEMMA FiledExists ==
    ASSUME NEW w1, NEW O, NEW w2, NEW T, NEW u, NEW v1, NEW v2, NEW L, BothWorked(w1, O, w2, T, u, v1, v2, L), NEW style
    PROVE  \E g : Filed(g, w1, O, w2, T, u, v1, v2, L, style) /\ WovenEdits(u, O, T, "merge-file", style) = WovenBy(g, u, O, T)
<1> DEFINE X == {k \in Walks(L) : Reached(k, w1, O, w2, T, u, v1, v2, L)}
<1>1. Start \in X
  BY StartReached
<1>2. ASSUME NEW k \in X PROVE Weave(u, O, T, k, "merge-file", style) \in X
  BY WeaveReached DEF Reached
<1>3. Len(O) + Len(T) \in Nat
  BY WorkedIs DEF BothWorked
<1> HIDE DEF X
<1>4. \E g : Weaving(g, X, u, O, T, "merge-file", style) /\ WovenEdits(u, O, T, "merge-file", style) = WovenBy(g, u, O, T)
  BY <1>1, <1>2, <1>3, WeavingExists
<1> QED BY <1>4 DEF X, Filed

\* The two forms of the walk, step by step.
LEMMA WovenAgree ==
    ASSUME NEW w1, NEW O, NEW w2, NEW T, NEW u, NEW v1, NEW v2, NEW L, BothWorked(w1, O, w2, T, u, v1, v2, L),
           NEW style, NEW style2
    PROVE  FormsAgree(WovenEdits(u, O, T, "merge-file", style), WovenEdits(u, O, T, "merge", style2))
<1> DEFINE N == Len(O) + Len(T)
           X == Walks(L)
<1>1. Len(O) \in Nat /\ Len(T) \in Nat /\ N \in Nat
  BY WorkedIs DEF BothWorked
<1>2. PICK g : Filed(g, w1, O, w2, T, u, v1, v2, L, style) /\ WovenEdits(u, O, T, "merge-file", style) = WovenBy(g, u, O, T)
  BY FiledExists
<1>3. PICK h : Weaving(h, X, u, O, T, "merge", style2) /\ WovenEdits(u, O, T, "merge", style2) = WovenBy(h, u, O, T)
  <2>1. Start \in X
    BY StartReached
  <2>2. ASSUME NEW k \in X PROVE Weave(u, O, T, k, "merge", style2) \in X
    BY MergeTyped
  <2> HIDE DEF X
  <2> QED BY <1>1, <2>1, <2>2, WeavingExists
<1>4. /\ g[0] = Start /\ \A n \in 0..N : Reached(g[n], w1, O, w2, T, u, v1, v2, L)
      /\ \A n \in 1..N : g[n] = Weave(u, O, T, g[n - 1], "merge-file", style)
  BY <1>2 DEF Filed, Weaving
<1>5. /\ h[0] = Start /\ \A n \in 0..N : h[n] \in Walks(L)
      /\ \A n \in 1..N : h[n] = Weave(u, O, T, h[n - 1], "merge", style2)
  BY <1>3 DEF Weaving
<1> DEFINE S == {n \in 0..N : Agree(g[n], h[n])}
<1> HIDE DEF N, X
<1>6. 0 \in S
  BY <1>1, <1>4, <1>5 DEF Agree, Start
<1>7. ASSUME NEW n \in 0..(N - 1), n \in S PROVE n + 1 \in S
  <2>1. n + 1 \in 1..N /\ (n + 1) - 1 = n /\ n + 1 \in 0..N /\ n \in 0..N
    BY <1>1
  <2> DEFINE k == g[n]
             k2 == g[n + 1]
             m == h[n]
             m2 == h[n + 1]
  <2>2. k2 = Weave(u, O, T, k, "merge-file", style)
    BY <1>4, <2>1
  <2>3. m2 = Weave(u, O, T, m, "merge", style2)
    BY <1>5, <2>1
  <2>4. Reached(k, w1, O, w2, T, u, v1, v2, L) /\ m \in Walks(L) /\ Agree(k, m)
    BY <1>4, <1>5, <1>7, <2>1
  <2> HIDE DEF k, k2, m, m2
  <2>5. Agree(k2, m2)
    BY <2>2, <2>3, <2>4, StepsAgree
  <2> QED BY <2>1, <2>5 DEF k2, m2
<1>8. Agree(g[N], h[N]) /\ g[N].marked \in Nat
  <2>1. \A n \in 0..N : n \in S
    <3> HIDE DEF S
    <3> QED BY <1>1, <1>6, <1>7, UpTo
  <2>2. N \in 0..N
    BY <1>1
  <2>3. g[N] \in Walks(L)
    BY <1>4, <2>2 DEF Reached
  <2> QED BY <2>1, <2>2, <2>3 DEF Walks
<1> DEFINE file == WovenEdits(u, O, T, "merge-file", style)
           merged == WovenEdits(u, O, T, "merge", style2)
<1>9. /\ file = [text |-> g[N].out \o Slice(u, g[N].at, Len(u)), conflicts |-> g[N].marked]
      /\ merged = [text |-> h[N].out \o Slice(u, h[N].at, Len(u)), conflicts |-> h[N].marked]
  BY <1>2, <1>3 DEF WovenBy, N
<1> HIDE DEF file, merged
<1>11. /\ file.conflicts = g[N].marked /\ merged.conflicts = h[N].marked
       /\ g[N] = h[N] => file.text = merged.text
  BY <1>9
<1>10. FormsAgree(file, merged)
  BY <1>8, <1>11 DEF Agree, FormsAgree
<1> QED BY <1>10 DEF file, merged
-----------------------------------------------------------------------------
\* The lines that may be in a merge of three texts.
LinesFor(b, o, t) == ((Lines(b) \cup Lines(o)) \cup Lines(t)) \cup Markers

\* What the mergers make of three texts, unless both sides have one text.
LEMMA Merges ==
    ASSUME NEW b \in Texts, NEW o \in Texts, NEW t \in Texts, o # t, NEW style
    PROVE  /\ FileIs(MergeFile(b, o, t, style), b, o, t, LinesFor(b, o, t))
           /\ FormsAgree(MergeFile(b, o, t, style), MergeText(b, o, t))
<1> DEFINE L == LinesFor(b, o, t)
           O == Edits(b, o)
           T == Edits(b, t)
<1>1. b \in Seq(L) /\ o \in Seq(L) /\ t \in Seq(L) /\ Alike(b, o) /\ Alike(b, t) /\ Markers \subseteq L
  <2>1. b \in Seq(Lines(b)) /\ o \in Seq(Lines(o)) /\ t \in Seq(Lines(t)) /\ Alike(b, o) /\ Alike(b, t)
    BY TextsAreTexts
  <2>2. Lines(b) \subseteq L /\ Lines(o) \subseteq L /\ Lines(t) \subseteq L /\ Markers \subseteq L
    BY DEF LinesFor
  <2> HIDE DEF L
  <2> QED BY <2>1, <2>2, SeqMonotonic
<1> HIDE DEF L
<1>2. PICK w1 : Worked(w1, O, b, o, L)
  BY <1>1, WorkedExists
<1>3. PICK w2 : Worked(w2, T, b, t, L)
  BY <1>1, WorkedExists
<1>4. BothWorked(w1, O, w2, T, b, o, t, L)
  BY <1>1, <1>2, <1>3 DEF BothWorked
<1>5. MergeFile(b, o, t, style) = WovenEdits(b, O, T, "merge-file", style)
  <2>1. CASE t = b
    BY OneSideWoven, <2>1 DEF MergeFile, Woven
  <2>2. CASE t # b /\ o = b
    BY OneSideWoven, <2>2 DEF MergeFile, Woven
  <2>3. CASE t # b /\ o # b
    BY <2>3 DEF MergeFile, Woven
  <2> QED BY <2>1, <2>2, <2>3
<1>6. MergeText(b, o, t) = WovenEdits(b, O, T, "merge", "merge")
  BY DEF MergeText, Woven
<1> HIDE DEF O, T
<1>7. PICK g : Filed(g, w1, O, w2, T, b, o, t, L, style) /\ WovenEdits(b, O, T, "merge-file", style) = WovenBy(g, b, O, T)
  BY <1>4, FiledExists
<1>8. FileIs(WovenBy(g, b, O, T), b, o, t, L)
  BY <1>4, <1>7, FiledIs
<1>9. FormsAgree(WovenEdits(b, O, T, "merge-file", style), WovenEdits(b, O, T, "merge", "merge"))
  BY <1>4, WovenAgree
<1> QED BY <1>5, <1>6, <1>7, <1>8, <1>9 DEF L

\* A side that can be read of a text.
LEMMA ReadWithin ==
    ASSUME NEW v, NEW q, NEW text, NEW side, NEW u, NEW v1, NEW v2, NEW L, Piece(v, q, text, side, u, v1, v2, L)
    PROVE  /\ Within(Survivors(v, Lost(u, v1, v2)), q)
           /\ Lines(q) \cap Deletions(u, Mine(side, v1, v2)) = {}
           /\ Unmarked(u, v1, v2) => Pick(text, side) = q
<1> DEFINE s == Survivors(v, Lost(u, v1, v2))
<1>1. /\ v \in Seq(L) /\ q \in Seq(L) /\ text \in Seq(L) /\ Embeds(s, q)
      /\ Lines(q) \cap Deletions(u, Mine(side, v1, v2)) = {}
      /\ Unmarked(u, v1, v2) => Yields(text, side, L, q)
  BY DEF Piece
<1>2. s \in Seq(L)
  BY <1>1, SurvivorsJoin
<1> HIDE DEF s
<1>3. Within(s, q)
  BY <1>1, <1>2, EmbedsWithin
<1>4. ASSUME Unmarked(u, v1, v2) PROVE Pick(text, side) = q
  <2> DEFINE e == <<>>
  <2>1. e \in Seq(L) /\ e \o q = q
    BY <1>1, EmptySeq, ConcatEmptySeq
  <2>2. Yields(text, side, L, q)
    BY <1>1, <1>4
  <2>3. Picks([in |-> "both", text |-> e], text, side, L, [in |-> "both", text |-> e \o q])
    BY <2>1, <2>2 DEF Yields
  <2> DEFINE r == [in |-> "both", text |-> q]
  <2>4. Picks([in |-> "both", text |-> <<>>], text, side, L, r)
    BY <2>1, <2>3
  <2>5. r.text = q
    OBVIOUS
  <2> HIDE DEF e, r
  <2>6. Pick(text, side) = r.text
    BY <2>4, PickIs
  <2> QED BY <2>5, <2>6
<1> QED BY <1>1, <1>3, <1>4 DEF s

\* Where both sides have one text, merge-file has that text.
LEMMA SameSides ==
    ASSUME NEW b \in Texts, NEW o \in Texts, NEW style, NEW side
    PROVE  Piece(o, o, MergeFile(b, o, o, style).text, side, b, o, o, LinesFor(b, o, o))
<1>1. MergeFile(b, o, o, style).text = o
  BY DEF MergeFile
<1>2. o \in Seq(LinesFor(b, o, o))
  BY TextsAreTexts, SeqMonotonic DEF LinesFor
<1>3. Lines(o) \subseteq Lines(Mine(side, o, o))
  BY DEF Mine
<1> DEFINE L == LinesFor(b, o, o)
<1> HIDE DEF L
<1>4. Piece(o, o, o, side, b, o, o, L)
  BY <1>2, <1>3, PieceOwn DEF L
<1> QED BY <1>1, <1>4 DEF L

\* What BothSidesSurvive says of three texts.
Survive(b, o, t) ==
    /\ FormsAgree(MergeFile(b, o, t, "merge"), MergeText(b, o, t)) \/ o = t
    /\ MergeText(b, o, t).conflicts = 0 /\ o # t =>
          /\ Lines(MergeText(b, o, t).text) \cap Lost(b, o, t) = {}
          /\ Within(Survivors(o, Lost(b, o, t)), MergeText(b, o, t).text)
          /\ Within(Survivors(t, Lost(b, o, t)), MergeText(b, o, t).text)
    /\ Unmarked(b, o, t) =>
          \A style \in {"merge", "diff3"}, side \in {"ours", "theirs"} :
              /\ Within(Survivors(Mine(side, o, t), Lost(b, o, t)), Pick(MergeFile(b, o, t, style).text, side))
              /\ Lines(Pick(MergeFile(b, o, t, style).text, side)) \cap Deletions(b, Mine(side, o, t)) = {}

LEMMA TextsSurvive == ASSUME NEW b \in Texts, NEW o \in Texts, NEW t \in Texts PROVE Survive(b, o, t)
<1> DEFINE L == LinesFor(b, o, t)
           g == Lost(b, o, t)
           merged == MergeText(b, o, t)
           file == MergeFile(b, o, t, "merge")
<1>1. CASE o = t
  <2> SUFFICES ASSUME Unmarked(b, o, t), NEW style \in {"merge", "diff3"}, NEW side \in {"ours", "theirs"}
               PROVE  /\ Within(Survivors(Mine(side, o, t), g), Pick(MergeFile(b, o, t, style).text, side))
                      /\ Lines(Pick(MergeFile(b, o, t, style).text, side)) \cap Deletions(b, Mine(side, o, t)) = {}
    BY <1>1 DEF Survive
  <2> DEFINE text == MergeFile(b, o, t, style).text
  <2>1. Piece(o, o, text, side, b, o, t, L)
    BY <1>1, SameSides
  <2> HIDE DEF text, L, g
  <2>2. /\ Within(Survivors(o, Lost(b, o, t)), o)
        /\ Lines(o) \cap Deletions(b, Mine(side, o, t)) = {}
        /\ Pick(text, side) = o
    BY <2>1, ReadWithin
  <2>3. Mine(side, o, t) = o
    BY <1>1 DEF Mine
  <2> QED BY <2>2, <2>3 DEF text, g
<1>2. CASE o # t
  <2>1. \A style : FileIs(MergeFile(b, o, t, style), b, o, t, L)
    BY <1>2, Merges
  <2>2. FormsAgree(file, merged)
    BY <1>2, Merges
  <2>3. ASSUME merged.conflicts = 0
        PROVE  Lines(merged.text) \cap g = {} /\ Within(Survivors(o, g), merged.text) /\ Within(Survivors(t, g), merged.text)
    <3>1. file.conflicts = 0 /\ merged.text = file.text
      BY <2>2, <2>3 DEF FormsAgree
    <3>2. FileIs(file, b, o, t, L)
      BY <2>1
    <3> HIDE DEF L, g, merged, file
    <3>3. PICK q1 : Piece(Mine("ours", o, t), q1, file.text, "ours", b, o, t, L) /\ q1 = file.text
      BY <3>1, <3>2 DEF FileIs
    <3>4. PICK q2 : Piece(Mine("theirs", o, t), q2, file.text, "theirs", b, o, t, L) /\ q2 = file.text
      BY <3>1, <3>2 DEF FileIs
    <3>5. Mine("ours", o, t) = o /\ Mine("theirs", o, t) = t
      BY DEF Mine
    <3>6. Within(Survivors(o, Lost(b, o, t)), q1) /\ Lines(q1) \cap Deletions(b, o) = {}
      BY <3>3, <3>5, ReadWithin
    <3>7. Within(Survivors(t, Lost(b, o, t)), q2) /\ Lines(q2) \cap Deletions(b, t) = {}
      BY <3>4, <3>5, ReadWithin
    <3>8. Lines(merged.text) \cap g = {}
      BY <3>1, <3>3, <3>4, <3>6, <3>7 DEF g, Lost
    <3> QED BY <3>1, <3>3, <3>4, <3>6, <3>7, <3>8 DEF g
  <2>4. ASSUME Unmarked(b, o, t), NEW style, NEW side \in {"ours", "theirs"}
        PROVE  /\ Within(Survivors(Mine(side, o, t), g), Pick(MergeFile(b, o, t, style).text, side))
               /\ Lines(Pick(MergeFile(b, o, t, style).text, side)) \cap Deletions(b, Mine(side, o, t)) = {}
    <3> DEFINE text == MergeFile(b, o, t, style).text
               v == Mine(side, o, t)
    <3>1. PICK q : Piece(v, q, text, side, b, o, t, L)
      BY <2>1 DEF FileIs
    <3> HIDE DEF text, v, L, g
    <3>2. /\ Within(Survivors(v, Lost(b, o, t)), q)
          /\ Lines(q) \cap Deletions(b, Mine(side, o, t)) = {}
          /\ Pick(text, side) = q
      BY <2>4, <3>1, ReadWithin
    <3> QED BY <3>2 DEF text, v, g
  <2> HIDE DEF L
  <2> QED BY <1>2, <2>2, <2>3, <2>4 DEF Survive
<1> QED BY <1>1, <1>2

\* The two mergers of texts agree on what merges cleanly; a clean merge has all lines of either side,
\* in its order, but those that the other deleted, and none that either deleted; and of a conflict of
\* merge-file each side can be taken so, in either style, if no line reads like a marker.
\* (_merge_lines_three_way, merge_file_data, _render_cluster)
THEOREM SidesSurvive == Spec => []BothSidesSurvive
<1>1. TypeOK => BothSidesSurvive
  <2> SUFFICES ASSUME TypeOK, NEW p \in Paths
               PROVE  LET base == TextOf(trees.base[p])
                          ours == TextOf(trees.ours[p])
                          theirs == TextOf(trees.theirs[p])
                          merged == MergeText(base, ours, theirs)
                          file == MergeFile(base, ours, theirs, "merge")
                          gone == Deletions(base, ours) \cup Deletions(base, theirs)
                          Kept(side) == Survivors(side, gone)
                      IN  /\ (file.conflicts = 0) = (merged.conflicts = 0) \/ ours = theirs
                          /\ merged.conflicts = 0 /\ ours # theirs =>
                                /\ merged.text = file.text
                                /\ Lines(merged.text) \cap gone = {}
                                /\ Within(Kept(ours), merged.text) /\ Within(Kept(theirs), merged.text)
                          /\ Markers \cap (Lines(base) \cup Lines(ours) \cup Lines(theirs)) = {} =>
                                \A style \in {"merge", "diff3"}, side \in {"ours", "theirs"} :
                                    LET own == IF side = "ours" THEN ours ELSE theirs
                                        picked == Pick(MergeFile(base, ours, theirs, style).text, side)
                                    IN  Within(Kept(own), picked) /\ Lines(picked) \cap Deletions(base, own) = {}
    BY DEF BothSidesSurvive
  <2> DEFINE b == TextOf(trees.base[p])
             o == TextOf(trees.ours[p])
             t == TextOf(trees.theirs[p])
  <2>1. b \in Texts /\ o \in Texts /\ t \in Texts
    BY TreeIs DEF TextOf, Texts, Blobs, TypeOK
  <2> HIDE DEF b, o, t
  <2>2. Survive(b, o, t)
    BY <2>1, TextsSurvive
  <2> QED BY <2>2 DEF Survive, FormsAgree, Lost, Unmarked, Mine, b, o, t
<1> QED BY <1>1, TypeCorrect, PTL
=============================================================================

-------------------------------- MODULE Dag --------------------------------
(***************************************************************************)
(* The history of a repository as the graph queries see it: commits in the *)
(* order they were made, each with its parents, its committer time, its    *)
(* place in the order of object ids and its tree; and the shallow file,    *)
(* whose commits count as roots. merge-base and its modes are computed     *)
(* here, each the way its function computes it.                            *)
(***************************************************************************)
EXTENDS Naturals, Sequences, FiniteSets

CONSTANTS None

ASSUME NoneIsNoCommit == None \notin Nat

VARIABLES log,     \* the parents of every commit, in order
          shallow, \* the commits named by the shallow file
          setting  \* what else commits have: [time, oid, tree], each a sequence

Commits == DOMAIN log
ElementsOf(s) == {s[i] : i \in DOMAIN s}
Least(S) == CHOOSE x \in S : \A y \in S : x <= y
Greatest(S) == CHOOSE x \in S : \A y \in S : x >= y

\* The elements of S, the least first in an order that is total on S.
SortedBy(S, Less(_, _)) ==
    [i \in 1..Cardinality(S) |-> CHOOSE x \in S : Cardinality({y \in S : Less(y, x)}) = i - 1]

(***************************************************************************)
(* Walks. All of them stop at a shallow commit.                            *)
(***************************************************************************)
\* parent_oids
Visible(c) == IF c \in shallow THEN <<>> ELSE log[c]

FirstOf(s) == IF s = <<>> THEN <<>> ELSE <<s[1]>>
Followed(c, firstParent) == IF firstParent THEN FirstOf(Visible(c)) ELSE Visible(c)

\* _walk
Walk(starts, firstParent) ==
    LET from[c \in Commits] == {c} \cup UNION {from[p] : p \in ElementsOf(Followed(c, firstParent))}
    IN  UNION {from[c] : c \in starts}

Ancestors(c) == Walk({c}, FALSE)
ProperAncestors(c) == Walk(ElementsOf(Visible(c)), FALSE)

\* ancestor_distances: [ancestor -> edges of the shortest way to it]
Distances(start) ==
    LET from[c \in Commits] == {<<c, 0>>} \cup {<<w[1], w[2] + 1>> : w \in UNION {from[p] : p \in ElementsOf(Visible(c))}}
        ways == from[start]
    IN  [c \in {w[1] : w \in ways} |-> Least({w[2] : w \in {v \in ways : v[1] = c}})]

IsAncestor(a, b) == a \in DOMAIN Distances(b)

(***************************************************************************)
(* merge-base                                                              *)
(***************************************************************************)
SumOf(s) == LET sum[i \in 0..Len(s)] == IF i = 0 THEN 0 ELSE sum[i - 1] + s[i] IN sum[Len(s)]

\* Best bases by their greatest distance, then the sum of distances, then the object id.
Ranked(best, maps) ==
    LET far(c) == Greatest({maps[i][c] : i \in DOMAIN maps})
        sum(c) == SumOf([i \in DOMAIN maps |-> maps[i][c]])
        Nearer(a, b) == \/ far(a) < far(b)
                        \/ far(a) = far(b) /\ sum(a) < sum(b)
                        \/ far(a) = far(b) /\ sum(a) = sum(b) /\ setting.oid[a] < setting.oid[b]
    IN  SortedBy(best, Nearer)

\* merge_bases: the common ancestors that no other one descends from.
MergeBases(a, b) ==
    LET maps == <<Distances(a), Distances(b)>>
        common == DOMAIN maps[1] \cap DOMAIN maps[2]
        dominated == UNION {(common \cap DOMAIN Distances(c)) \ {c} : c \in common}
    IN  Ranked(common \ dominated, maps)

\* _generation: a shallow commit is a root.
Generation(c) ==
    LET gen[x \in Commits] == 1 + Greatest({0} \cup {gen[p] : p \in ElementsOf(Visible(x))})
    IN  gen[c]

\* Candidates by their object ids alone (a faulty NewestFirst).
ByOidAlone(a, b) == setting.oid[a] < setting.oid[b]

NewestFirst(a, b) == \/ Generation(a) > Generation(b)
                     \/ Generation(a) = Generation(b) /\ setting.oid[a] < setting.oid[b]

\* _best_common: newest generation first, each candidate that no best one before it reaches.
BestCommon(common, maps) ==
    LET order == SortedBy(common, NewestFirst)
        best[i \in 0..Len(order)] ==
            IF i = 0 THEN {}
            ELSE IF order[i] \in UNION {ProperAncestors(c) : c \in best[i - 1]} THEN best[i - 1]
            ELSE best[i - 1] \cup {order[i]}
    IN  Ranked(best[Len(order)], maps)

\* The distances from a merge of several commits that nobody made.
Merged(maps) ==
    [c \in UNION {DOMAIN maps[i] : i \in DOMAIN maps} |->
        1 + Least({maps[i][c] : i \in {j \in DOMAIN maps : c \in DOMAIN maps[j]}})]

\* merge_bases_many
MergeBasesMany(revisions) ==
    IF Len(revisions) = 2 THEN MergeBases(revisions[1], revisions[2])
    ELSE LET left  == Distances(revisions[1])
             right == Merged([i \in 1..(Len(revisions) - 1) |-> Distances(revisions[i + 1])])
         IN  BestCommon(DOMAIN left \cap DOMAIN right, <<left, right>>)

\* octopus_merge_bases
Octopus(revisions) ==
    LET maps == [i \in DOMAIN revisions |-> Distances(revisions[i])]
    IN  BestCommon({c \in Commits : \A i \in DOMAIN maps : c \in DOMAIN maps[i]}, maps)

\* independent_commits
Independent(S) == {c \in S : \A d \in S \ {c} : c \notin DOMAIN Distances(d)}

\* fork_point: the only best base of a commit and the tips a ref has had, if it was such a tip.
ForkPoint(commit, tips) ==
    LET bases == MergeBasesMany(<<commit>> \o tips)
    IN  IF Len(bases) = 1 /\ bases[1] \in ElementsOf(tips) THEN bases[1] ELSE None

(***************************************************************************)
(* Repository's own: they do not look at the shallow file.                 *)
(***************************************************************************)
\* _ancestor_distances
StoredDistances(start) ==
    LET from[c \in Commits] == {<<c, 0>>} \cup {<<w[1], w[2] + 1>> : w \in UNION {from[p] : p \in ElementsOf(log[c])}}
        ways == from[start]
    IN  [c \in {w[1] : w \in ways} |-> Least({w[2] : w \in {v \in ways : v[1] = c}})]

\* _find_merge_base: least total distance, then least greatest distance; any of those.
RepositoryBases(a, b) ==
    LET da == StoredDistances(a)
        db == StoredDistances(b)
        far(c) == Greatest({da[c], db[c]})
        common == DOMAIN da \cap DOMAIN db
        Nearer(c, d) == \/ da[c] + db[c] < da[d] + db[d]
                        \/ da[c] + db[c] = da[d] + db[d] /\ far(c) <= far(d)
    IN  {c \in common : \A d \in common : Nearer(c, d)}

\* The commits ahead_behind counts on one side: those met before the base.
CountedUntil(start, stop) ==
    LET from[c \in Commits] == IF c = stop THEN {} ELSE {c} \cup UNION {from[p] : p \in ElementsOf(log[c])}
    IN  from[start]

\* ahead_behind: what is counted on either side, whichever base _find_merge_base picks.  Where the
\* histories share no commit there is no base, and nothing is counted on either side.
AheadBehind(a, b) ==
    LET bases == RepositoryBases(a, b)
    IN  IF bases = {} THEN {<<{}, {}>>} ELSE {<<CountedUntil(a, base), CountedUntil(b, base)>> : base \in bases}
=============================================================================

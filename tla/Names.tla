------------------------------- MODULE Names -------------------------------
(***************************************************************************)
(* The names of commits: name-rev finds the best way from a ref to a       *)
(* commit and writes it as main~2^2, which the revision grammar reads back.*)
(* A way is the sequence of parent numbers taken from the tip of a ref,    *)
(* counted from 0; a suffix is a sequence of [op, n].  And the refs of     *)
(* commits: for-each-ref, branch --contains and --merged, and describe.    *)
(* A ref is [tip, priority, annotated], tip the commit it peels to.        *)
(***************************************************************************)
EXTENDS Dag

(***************************************************************************)
(* name-rev                                                                *)
(***************************************************************************)
\* Whether one way comes before another of the same length.
Precedes(v, w) == \E i \in DOMAIN v : v[i] < w[i] /\ \A j \in 1..(i - 1) : v[j] = w[j]

\* Every way from a commit to each commit below it.
Ways(tip) ==
    LET from[c \in Commits] ==
            {<<c, <<>>>>} \cup UNION {{<<w[1], <<i - 1>> \o w[2]>> : w \in from[Visible(c)[i]]} :
                                      i \in DOMAIN Visible(c)}
    IN  from[tip]

\* The way the breadth-first walk finds: shortest, first parents first.
WayTo(tip, c) ==
    LET ways == {w[2] : w \in {v \in Ways(tip) : v[1] = c}}
    IN  CHOOSE w \in ways : \A v \in ways : Len(w) < Len(v) \/ (Len(w) = Len(v) /\ ~Precedes(v, w))

\* _candidate_names: of the refs a commit can be reached from, those with the shortest way, tags
\* before branches before the rest. (The code goes on to the shorter, then the lesser text.)
BestNames(c, refs) ==
    LET reaching == {r \in refs : c \in Ancestors(r.tip)}
        Rank(r) == <<Len(WayTo(r.tip, c)), r.priority>>
        Better(r, s) == Rank(r)[1] < Rank(s)[1] \/ (Rank(r)[1] = Rank(s)[1] /\ Rank(r)[2] < Rank(s)[2])
    IN  {[ref |-> r, way |-> WayTo(r.tip, c)] : r \in {s \in reaching : ~\E t \in reaching : Better(t, s)}}

Plain(i) == [op |-> "^", n |-> i]

\* Counting parents from 0 in the text as well (a faulty Parent).
ParentFrom0(i) == Plain(i)

\* The suffix for a parent that is not the first.
Parent(i) == Plain(i + 1)

\* _format_path: runs of first parents as ~n, any other parent as ^k. An annotated tag adds ^0.
Suffix(name) ==
    LET text[i \in 0..Len(name.way)] ==
            IF i = 0 THEN IF name.ref.annotated THEN <<Plain(0)>> ELSE <<>>
            ELSE LET before == text[i - 1]
                 IN  CASE name.way[i] # 0 -> Append(before, Parent(name.way[i]))
                       [] name.way[i] = 0 /\ i > 1 /\ name.way[i - 1] = 0 ->
                              [before EXCEPT ![Len(before)].n = @ + 1]
                       [] OTHER -> Append(before, [op |-> "~", n |-> 1])
    IN  text[Len(name.way)]

(***************************************************************************)
(* _resolve_commit_expression: None for an expression that is refused.     *)
(***************************************************************************)
\* ~n: n times the first parent.
FirstParent(c, n) ==
    LET after[i \in 0..n] ==
            IF i = 0 THEN c
            ELSE IF after[i - 1] = None THEN None
            ELSE IF after[i - 1] \in shallow \/ log[after[i - 1]] = <<>> THEN None
            ELSE log[after[i - 1]][1]
    IN  after[n]

\* ^n: the n-th parent; ^0 is the commit itself.
NthParent(c, n) == IF n = 0 THEN c
                   ELSE IF c \in shallow \/ n > Len(log[c]) THEN None ELSE log[c][n]

Resolve(tip, suffix) ==
    LET at[i \in 0..Len(suffix)] ==
            IF i = 0 THEN tip
            ELSE IF at[i - 1] = None THEN None
            ELSE IF suffix[i].op = "~" THEN FirstParent(at[i - 1], suffix[i].n)
            ELSE NthParent(at[i - 1], suffix[i].n)
    IN  at[Len(suffix)]

\* resolve_commit, a grammar of its own that knows no shallow commits. An annotated tag is
\* peeled before the suffix is read.
StoredParent(c, k) == IF c = None THEN None ELSE IF k > Len(log[c]) THEN None ELSE log[c][k]

StoredFirst(c, n) ==
    LET after[i \in 0..n] == IF i = 0 THEN c ELSE StoredParent(after[i - 1], 1) IN after[n]

ResolveCommit(tip, suffix) ==
    LET at[i \in 0..Len(suffix)] ==
            IF i = 0 THEN tip
            ELSE IF suffix[i].op = "~" THEN StoredFirst(at[i - 1], suffix[i].n)
            ELSE IF suffix[i].n = 0 THEN at[i - 1] ELSE StoredParent(at[i - 1], suffix[i].n)
    IN  at[Len(suffix)]

\* _resolve_revision, the one most commands read: no ^0, and no annotated tag.
ResolveRevision(ref, suffix) ==
    IF ref.annotated \/ \E i \in DOMAIN suffix : suffix[i] = Plain(0) THEN None
    ELSE ResolveCommit(ref.tip, suffix)

(***************************************************************************)
(* Refs by the commits they reach                                          *)
(***************************************************************************)
\* for-each-ref: a filter is [contains, noContains, merged, noMerged, pointsAt], None if not given.
NoFilter == [contains |-> None, noContains |-> None, merged |-> None, noMerged |-> None, pointsAt |-> None]

\* Every object on the way from a ref to its commit.
PointsAt(ref) == {<<"commit", ref.tip>>} \cup IF ref.annotated THEN {<<"tag", ref.tip>>} ELSE {}

EachRef(refs, f) ==
    {r \in refs : /\ (f.contains # None => IsAncestor(f.contains, r.tip))
                  /\ (f.noContains # None => ~IsAncestor(f.noContains, r.tip))
                  /\ (f.merged # None => r.tip \in DOMAIN Distances(f.merged))
                  /\ (f.noMerged # None => r.tip \notin DOMAIN Distances(f.noMerged))
                  /\ (f.pointsAt # None => f.pointsAt \in PointsAt(r))}

\* A search from a commit, breadth first, all parents followed: the number of edges to the
\* first hit, None if there is none. (In a shallow clone it fails at a parent that is missing.)
Search(start, hits) ==
    LET pops == 2 * Len(log) + 1
        at[n \in 0..pops] ==
            IF n = 0 THEN [queue |-> <<<<start, 0>>>>, seen |-> {}, found |-> None]
            ELSE LET s == at[n - 1]
                     c == s.queue[1][1]
                     d == s.queue[1][2]
                     below == [i \in DOMAIN log[c] |-> <<log[c][i], d + 1>>]
                 IN  IF s.found # None \/ s.queue = <<>> THEN s
                     ELSE IF c \in hits THEN [s EXCEPT !.found = d]
                     ELSE IF c \in s.seen THEN [s EXCEPT !.queue = Tail(@)]
                     ELSE [s EXCEPT !.queue = Tail(@) \o below, !.seen = @ \cup {c}]
    IN  at[pops].found

\* branch --contains, --no-contains, --merged, --no-merged: what is searched for from where.
Reaches(target, tip) == Search(tip, {target}) # None

ListedBranches(branches, f) ==
    {b \in branches : /\ (f.contains # None => Reaches(f.contains, b.tip))
                      /\ (f.noContains # None => ~Reaches(f.noContains, b.tip))
                      /\ (f.merged # None => Reaches(b.tip, f.merged))
                      /\ (f.noMerged # None => ~Reaches(b.tip, f.noMerged))}

\* describe: the edges to the nearest tag, 0 at a tagged commit.
Describe(c, tagged) == Search(c, tagged)
=============================================================================

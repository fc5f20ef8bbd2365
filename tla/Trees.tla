------------------------------- MODULE Trees -------------------------------
(***************************************************************************)
(* Trees of files, as commits, the index and the worktree hold them, and   *)
(* what Repository computes from them: the three-way merge of two trees,   *)
(* the checkout of one, the history that commits span.                     *)
(***************************************************************************)
EXTENDS Naturals, Sequences, FiniteSets

CONSTANTS Paths,
          Contents,          \* what a file may contain, conflict markers included
          Gone,              \* there is no such file
          Marked,            \* a file with conflict markers
          None,
          LineMerge(_, _, _) \* the line merge of base, ours and theirs, Marked on conflict

ASSUME MarkersAreContent == Marked \in Contents

ASSUME GoneIsNoContent == Gone \notin Contents

\* Whether a path needs the merge of its lines.
BothChanged(b, o, t) == o # t /\ o # b /\ t # b

\* What changed both ways is merged into lines: never into no file.
ASSUME LineMergesAreContent ==
    \A b, o, t \in Contents \cup {Gone} : BothChanged(b, o, t) => LineMerge(b, o, t) \in Contents

Tree == [Paths -> Contents \cup {Gone}]

EmptyTree == [p \in Paths |-> Gone]

PathsOf(t) == {p \in Paths : t[p] # Gone}

(***************************************************************************)
(* _apply_three_way                                                        *)
(***************************************************************************)
Clashes(base, ours, theirs) ==
    {p \in Paths : /\ BothChanged(base[p], ours[p], theirs[p])
                   /\ LineMerge(base[p], ours[p], theirs[p]) = Marked}

\* Taking our side whenever only they changed a path (a faulty Chosen).
ChosenOurs(b, o, t) == IF BothChanged(b, o, t) THEN LineMerge(b, o, t) ELSE o

Chosen(b, o, t) ==
    CASE BothChanged(b, o, t) -> LineMerge(b, o, t)
      [] ~BothChanged(b, o, t) /\ o = b -> t
      [] OTHER -> o

\* The merged index: a path in conflict keeps its entry.
Merged(base, ours, theirs, index) ==
    [p \in Paths |-> IF p \in Clashes(base, ours, theirs) \/ {base[p], ours[p], theirs[p]} = {Gone}
                     THEN index[p] ELSE Chosen(base[p], ours[p], theirs[p])]

\* The worktree: a path in conflict gets the markers.
MergedFiles(base, ours, theirs, worktree) ==
    [p \in Paths |-> IF {base[p], ours[p], theirs[p]} = {Gone}
                     THEN worktree[p] ELSE Chosen(base[p], ours[p], theirs[p])]

(***************************************************************************)
(* _replace_worktree_from_commit: the files of t are written, the others   *)
(* among tracked removed, everything else left alone.                      *)
(***************************************************************************)
Restored(t, tracked, worktree) ==
    [p \in Paths |-> CASE t[p] # Gone -> t[p]
                       [] t[p] = Gone /\ p \in tracked -> Gone
                       [] OTHER -> worktree[p]]

(***************************************************************************)
(* History. Commits are numbered in the order they are made; log is the    *)
(* sequence of [tree, parents, msg].                                       *)
(***************************************************************************)
Parents(log, c) == {log[c].parents[i] : i \in DOMAIN log[c].parents}

\* [commits -> their distance from c], for the ancestors of c: the walk of _ancestor_distances.
Distances(log, c) ==
    LET Next(S) == UNION {Parents(log, x) : x \in S}
        level[d \in 0..Len(log)] == IF d = 0 THEN {c} ELSE Next(level[d - 1])
        reached == UNION {level[d] : d \in 0..Len(log)}
    IN  [x \in reached |-> CHOOSE d \in 0..Len(log) :
                              x \in level[d] /\ \A e \in 0..Len(log) : x \in level[e] => d <= e]

\* The commits in the history of any of S, themselves included.
History(log, S) ==
    LET upTo[d \in 0..Len(log)] ==
            IF d = 0 THEN S ELSE LET below == upTo[d - 1]
                                 IN  below \cup UNION {Parents(log, x) : x \in below}
    IN  upTo[Len(log)]

\* _find_merge_base: a common ancestor at the least total distance, None without one.
\* (Ties are broken by set order in the code: any of the nearest.)
MergeBases(log, a, b) ==
    LET da == Distances(log, a)
        db == Distances(log, b)
        Far(c) == IF da[c] >= db[c] THEN da[c] ELSE db[c]
        Nearer(c, d) == \/ da[c] + db[c] < da[d] + db[d]
                        \/ da[c] + db[c] = da[d] + db[d] /\ Far(c) <= Far(d)
        common == DOMAIN da \cap DOMAIN db
    IN  IF common = {} THEN {None} ELSE {c \in common : \A d \in common : Nearer(c, d)}

\* The first-parent commits from c down to stop, excluded: all of them if it is not met.
FirstParents(log, c, stop) ==
    LET path[i \in 1..Len(log)] ==
            IF i = 1 THEN c
            ELSE IF path[i-1] \in {None, stop} \/ log[path[i-1]].parents = <<>> THEN None
            ELSE log[path[i-1]].parents[1]
        len == Cardinality({i \in 1..Len(log) : path[i] \notin {None, stop}})
    IN  [i \in 1..len |-> path[i]]

\* Whether that walk ends at stop.
OnFirstParents(log, c, stop) ==
    stop \in {None, c} \/ \E i \in DOMAIN FirstParents(log, c, stop) :
                    log[FirstParents(log, c, stop)[i]].parents # <<>>
                    /\ log[FirstParents(log, c, stop)[i]].parents[1] = stop

Linear(log, path) == \A i \in DOMAIN path : Len(log[path[i]].parents) <= 1
=============================================================================

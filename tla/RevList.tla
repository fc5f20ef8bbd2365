------------------------------ MODULE RevList ------------------------------
(***************************************************************************)
(* rev-list and log over the history of Dag. A query is a record           *)
(*   [pos, neg : sets of commits,   \* REV, ^REV, A..B                     *)
(*    sym : <<>> or <<A, B>>,       \* A...B, the only revision then       *)
(*    side : "none", "both", "left" or "right",                            *)
(*    firstParent, topo, reverse : BOOLEAN,                                *)
(*    skip, count,                  \* count 0 is no limit                 *)
(*    oldest : None or a number,                                           *)
(*    minParents, maxParents,       \* None is no limit                    *)
(*    maxAge, minAge]               \* None is no limit                    *)
(* and each function of the rev_list modules makes its list from it.       *)
(***************************************************************************)
EXTENDS Dag

(***************************************************************************)
(* Selection and order                                                     *)
(***************************************************************************)
Selected(q) ==
    IF q.sym # <<>>
    THEN LET left  == Walk({q.sym[1]}, q.firstParent)
             right == Walk({q.sym[2]}, q.firstParent)
         IN  (left \ right) \cup (right \ left)
    ELSE Walk(q.pos, q.firstParent) \ Walk(q.neg, q.firstParent)

\* The newest first, then by object id.
Before(a, b) == \/ setting.time[a] > setting.time[b]
                \/ setting.time[a] = setting.time[b] /\ setting.oid[a] < setting.oid[b]

DateOrder(S) == SortedBy(S, Before)

\* The first of those that are ready.
Foremost(S) == DateOrder(S)[1]

\* _topological_order: of the commits whose children are all out, the newest. A shallow commit's
\* stored parents count here.
TopoOrder(S) ==
    LET Children(c) == {d \in S : c \in ElementsOf(log[d])}
        out[i \in 0..Cardinality(S)] ==
            IF i = 0 THEN <<>>
            ELSE LET done == out[i - 1]
                     gone == ElementsOf(done)
                 IN  Append(done, Foremost({c \in S \ gone : Children(c) \subseteq gone}))
    IN  out[Cardinality(S)]

Ordered(S, topo) == IF topo THEN TopoOrder(S) ELSE DateOrder(S)

(***************************************************************************)
(* Limits                                                                  *)
(***************************************************************************)
\* The elements of s that are in S, in the order of s.
Within(s, S) ==
    LET kept[i \in 0..Len(s)] ==
            IF i = 0 THEN <<>>
            ELSE IF s[i] \in S THEN Append(kept[i - 1], s[i]) ELSE kept[i - 1]
    IN  kept[Len(s)]

From(s, n) == SubSeq(s, n + 1, Len(s))
Upto(s, n) == IF n = 0 \/ n > Len(s) THEN s ELSE SubSeq(s, 1, n)
Reversed(s) == [i \in DOMAIN s |-> s[Len(s) + 1 - i]]
Turned(s, q) == IF q.reverse THEN Reversed(s) ELSE s

\* Limiting the reversed list (a faulty Limited).
LimitedLast(s, q) == Upto(From(Turned(s, q), q.skip), q.count)

Limited(s, q) == Turned(Upto(From(s, q.skip), q.count), q)

\* _tail: the last n; nothing for 0.
Tailed(s, q) == Turned(From(s, IF q.oldest > Len(s) THEN 0 ELSE Len(s) - q.oldest), q)

(***************************************************************************)
(* The streams of commits, each filter on top of the last                  *)
(***************************************************************************)
Whole(q) == [q EXCEPT !.skip = 0, !.count = 0, !.reverse = FALSE]

\* rev_list
RevList(q) == Limited(Ordered(Selected(q), q.topo), q)

\* The side of a commit in A...B.
Side(c, q) == IF c \in Walk({q.sym[1]}, q.firstParent) THEN "left" ELSE "right"
OfSide(s, q) == IF q.side \in {"left", "right"} THEN Within(s, {c \in Commits : Side(c, q) = q.side}) ELSE s

\* rev_list_sides
RevListSides(q) == Limited(OfSide(RevList(Whole(q)), q), q)

Base(q) == IF q.side = "none" THEN RevList(Whole(q)) ELSE RevListSides(Whole(q))

\* _matches: the parents that are shown.
HasParents(c, q) == /\ Len(Visible(c)) >= q.minParents
                    /\ q.maxParents = None \/ Len(Visible(c)) <= q.maxParents

FiltersParents(q) == q.minParents > 0 \/ q.maxParents # None

OfParents(s, q) == Within(s, {c \in Commits : HasParents(c, q)})

\* rev_list_parent_filter
ParentFilter(q) == Limited(OfParents(Base(q), q), q)

Filtered(q) == IF FiltersParents(q) THEN ParentFilter(Whole(q)) ELSE Base(q)

\* rev_list_oldest
Oldest(q) == Tailed(Filtered(q), q)

\* _matches_age
HasAge(c, q) == /\ q.maxAge = None \/ setting.time[c] > q.maxAge
                /\ q.minAge = None \/ setting.time[c] < q.minAge

FiltersAge(q) == q.maxAge # None \/ q.minAge # None

OfAge(s, q) == Within(s, {c \in Commits : HasAge(c, q)})

\* _limit, which takes either limit.
Cut(s, q) == IF q.oldest # None THEN Tailed(s, q) ELSE Limited(s, q)

\* rev_list_age_filter
AgeFilter(q) == Cut(OfAge(Filtered(q), q), q)

\* Which of the functions the command calls: the first whose option is given.
Mode(q) == CASE FiltersAge(q) -> "age"
             [] ~FiltersAge(q) /\ q.oldest # None -> "oldest"
             [] ~FiltersAge(q) /\ q.oldest = None /\ FiltersParents(q) -> "parents"
             [] OTHER -> "plain"

PlainOrSided(q) == IF q.side = "none" THEN RevList(q) ELSE RevListSides(q)

\* The stream the command prints.
Stream(q) == CASE Mode(q) = "age" -> AgeFilter(q)
               [] Mode(q) = "oldest" -> Oldest(q)
               [] Mode(q) = "parents" -> ParentFilter(q)
               [] Mode(q) = "plain" -> PlainOrSided(q)

(***************************************************************************)
(* --children                                                              *)
(***************************************************************************)
ChildrenOf(c, q) == {d \in Commits : c \in ElementsOf(Followed(d, q.firstParent))}

\* Children among the commits that limits leave (a faulty Children).
ChildrenShown(c, q) == Within(RevList(q), ChildrenOf(c, q))

\* _child_map: from the whole walk, before any filter or limit.
Children(c, q) == Within(RevList(Whole(q)), ChildrenOf(c, q))

\* rev_list_children leaves the sides alone; the filtered forms do not.
ListChildren(q) == RevList(q)
SidedChildren(q) == OfSide(ListChildren(Whole(q)), q)
ParentFilterChildren(q) == Limited(OfParents(SidedChildren(q), q), q)
ShownChildren(q) == IF FiltersParents(q) THEN ParentFilterChildren(Whole(q)) ELSE SidedChildren(q)
OldestChildren(q) == Tailed(ShownChildren(q), q)
AgeFilterChildren(q) == Cut(OfAge(ShownChildren(q), q), q)

ChildStream(q) == CASE Mode(q) = "age" -> AgeFilterChildren(q)
                    [] Mode(q) = "oldest" -> OldestChildren(q)
                    [] Mode(q) = "parents" -> ParentFilterChildren(q)
                    [] Mode(q) = "plain" -> ListChildren(q)

(***************************************************************************)
(* --boundary                                                              *)
(***************************************************************************)
Forward(q) == [q EXCEPT !.reverse = FALSE]

\* The boundary of the range, whatever is shown (a faulty BoundaryOf).
BoundaryOfRange(shown, q) ==
    Ordered((UNION {ElementsOf(Followed(c, q.firstParent)) : c \in Selected(q)}) \ Selected(q), q.topo)

\* The parents of the commits shown that are not shown.
BoundaryOf(shown, q) ==
    Ordered((UNION {ElementsOf(Followed(c, q.firstParent)) : c \in shown}) \ shown, q.topo)

WithBoundary(s, q) == Turned(s \o BoundaryOf(ElementsOf(s), q), q)

\* rev_list_boundary and its filtered forms
ListBoundary(q) == WithBoundary(PlainOrSided(Forward(q)), q)
ParentFilterBoundary(q) == WithBoundary(ParentFilter(Forward(q)), q)
OldestBoundary(q) == WithBoundary(Oldest(Forward(q)), q)
AgeFilterBoundary(q) == WithBoundary(AgeFilter(Forward(q)), q)

BoundaryStream(q) == CASE Mode(q) = "age" -> AgeFilterBoundary(q)
                       [] Mode(q) = "oldest" -> OldestBoundary(q)
                       [] Mode(q) = "parents" -> ParentFilterBoundary(q)
                       [] Mode(q) = "plain" -> ListBoundary(q)

\* boundary_children
BoundaryChildren(c, q) == Within(BoundaryStream(q), ElementsOf(Stream(q)) \cap ChildrenOf(c, q))

(***************************************************************************)
(* --objects                                                               *)
(***************************************************************************)
\* reachable_objects, from commits: a tree is the set of its blobs.
Content(c) == {<<"commit", c>>, <<"tree", setting.tree[c]>>} \cup {<<"blob", b>> : b \in setting.tree[c]}

ReachableObjects(S, firstParent) == UNION {Content(c) : c \in Walk(S, firstParent)}

\* Excluding what either side has of A...B (a faulty ExclusionRoots).
EitherSide(q) == IF q.sym = <<>> THEN q.neg ELSE ElementsOf(q.sym)

\* _object_exclusion_roots
ExclusionRoots(q) ==
    IF q.sym = <<>> THEN q.neg
    ELSE Walk({q.sym[1]}, q.firstParent) \cap Walk({q.sym[2]}, q.firstParent)

\* The content of the commits shown, less everything below the excluded ones.
ObjectsOf(s, q) ==
    (UNION {Content(c) : c \in ElementsOf(s)}) \ ReachableObjects(ExclusionRoots(q), q.firstParent)

\* rev_list_named_objects and its filtered forms
ListObjects(q) == ObjectsOf(RevList(q), q)
ParentFilterObjects(q) == ObjectsOf(ParentFilter(q), q)
OldestObjects(q) == ObjectsOf(Oldest(q), q)
AgeFilterObjects(q) == ObjectsOf(AgeFilter(q), q)

\* No side may be given with --objects.
Objects(q) == CASE Mode(q) = "age" -> AgeFilterObjects(q)
                [] Mode(q) = "oldest" -> OldestObjects(q)
                [] Mode(q) = "parents" -> ParentFilterObjects(q)
                [] Mode(q) = "plain" -> ListObjects(q)

\* rev_list_object_edges: the stored parents outside the whole walk.
ObjectEdges(q) ==
    LET walk == Selected(q)
    IN  (UNION {ElementsOf(IF q.firstParent THEN FirstOf(log[c]) ELSE log[c]) : c \in walk}) \ walk

\* select_pack_objects
PackObjects(pos, neg) == ReachableObjects(pos, FALSE) \ ReachableObjects(neg, FALSE)

(***************************************************************************)
(* Repository.log                                                          *)
(***************************************************************************)
\* A commit that is left out ends the walk (a faulty LogNext).
LogNextIfKept(c, firstParent, kept) ==
    IF c \in shallow \/ ~kept THEN <<>> ELSE IF firstParent THEN FirstOf(log[c]) ELSE log[c]

\* What the walk goes on to: a commit that the filters leave out still leads on, to all of its
\* parents.
LogNext(c, firstParent, kept) ==
    IF c \in shallow THEN <<>> ELSE IF kept /\ firstParent THEN FirstOf(log[c]) ELSE log[c]

\* The walk of log, breadth first, for the commits that the filters keep. (A commit has two parents at most, which bounds the queue.)
LogWalk(start, firstParent, kept) ==
    LET run[i \in 0..(2 * Len(log) + 1)] ==
            IF i = 0 THEN [queue |-> <<start>>, seen |-> <<>>]
            ELSE LET was == run[i - 1]
                     c == Head(was.queue)
                 IN  CASE was.queue = <<>> -> was
                       [] was.queue # <<>> /\ c \in ElementsOf(was.seen) ->
                              [was EXCEPT !.queue = Tail(@)]
                       [] OTHER -> [queue |-> Tail(was.queue) \o LogNext(c, firstParent, c \in kept),
                                    seen  |-> Append(was.seen, c)]
    IN  Within(run[2 * Len(log) + 1].seen, kept)

\* topo_order: first come, first served among the commits whose children are all out.
LogOrder(s) ==
    LET listed == ElementsOf(s)
        Pending(c, out) == {d \in listed : c \in ElementsOf(log[d])} \ ElementsOf(out)
        Free(out) == {c \in listed : Pending(c, out) = {}}
        run[i \in 0..Len(s)] ==
            IF i = 0 THEN [ready |-> Within(s, Free(<<>>)), out |-> <<>>]
            ELSE LET was == run[i - 1]
                     c == Head(was.ready)
                     out == Append(was.out, c)
                 IN  IF was.ready = <<>> THEN was
                     ELSE [ready |-> Tail(was.ready) \o Within(log[c], Free(out)), out |-> out]
    IN  run[Len(s)].out

Log(start, firstParent, topo, count, kept) ==
    LET walked == LogWalk(start, firstParent, kept)
    IN  Upto(IF topo THEN LogOrder(walked) ELSE walked, count)
=============================================================================

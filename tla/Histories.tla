----------------------------- MODULE Histories -----------------------------
(***************************************************************************)
(* Every history a repository can come to have, and what its queries say   *)
(* of it. A history grows by commits, merges and commits on another branch *)
(* among them; the repository may be a shallow clone of one; a tag is put  *)
(* on some commit; the commit-graph is written and grows old. The queries  *)
(* change nothing: they are asked in every state.                          *)
(***************************************************************************)
EXTENDS RevList, Names

CONSTANTS Settings, \* the settings to start from
          Filters   \* the filters of the queries asked

\* An object id names one commit.
ASSUME OidsAreDistinct ==
    \A s \in Settings : /\ s.commits \in Nat /\ s.oid \in [1..s.commits -> Nat]
                        /\ \A c, d \in 1..s.commits : s.oid[c] = s.oid[d] => c = d

ASSUME TimesAreNumbers == \A s \in Settings : s.time \in [1..s.commits -> Nat]

\* A filter leaves the limits alone, which are what the properties put on.
ASSUME FiltersAreTyped ==
    \A f \in Filters :
        /\ DOMAIN f \subseteq {"side", "firstParent", "topo", "oldest", "minParents", "maxParents", "maxAge", "minAge"}
        /\ \A x \in DOMAIN f \cap {"firstParent", "topo"} : f[x] \in BOOLEAN
        /\ "oldest" \in DOMAIN f => f.oldest \in Nat

VARIABLES tag,  \* the commit the tag names, None without one
          graph \* the commit-graph file: [commit -> generation]

vars == <<log, shallow, setting, tag, graph>>

Newest == Len(log)

(***************************************************************************)
(* What changes the history                                                *)
(***************************************************************************)
\* commit-tree, for up to two parents: commit and merge write no others. The new commit becomes
\* the branch.
Commit(parents) ==
    /\ Len(log) < setting.commits
    /\ parents = <<>> => Cardinality({c \in Commits : log[c] = <<>>}) < setting.roots
    /\ log' = Append(log, parents)
    /\ UNCHANGED <<shallow, setting, tag, graph>>

\* A clone of some depth: all commits arrive, and the one that many first parents down is shallow.
Clone(depth) ==
    /\ log # <<>> /\ setting.clones /\ shallow = {} /\ graph = <<>>
    /\ LET trace[d \in 1..depth] == IF d = 1 THEN Newest
                                    ELSE IF log[trace[d - 1]] = <<>> THEN trace[d - 1]
                                    ELSE log[trace[d - 1]][1]
       IN  shallow' = {trace[depth]}
    /\ UNCHANGED <<log, setting, tag, graph>>

Tag ==
    /\ log # <<>> /\ setting.tags /\ tag = None
    /\ tag' = Newest
    /\ UNCHANGED <<log, shallow, setting, graph>>

(***************************************************************************)
(* The commit-graph                                                        *)
(***************************************************************************)
Dependencies(c) == ElementsOf(log[c])

\* _compute_generations: a parent outside the graph counts as a root.
Generations(S) ==
    LET External(c) == IF log[c] = <<>> THEN 0 ELSE 1
        gen[c \in S] == 1 + Greatest({External(c)} \cup {gen[p] : p \in Dependencies(c) \cap S})
    IN  gen

Tips == {Newest} \cup ({tag} \ {None})

\* collect_commit_graph_commits, and the write.
WriteGraph ==
    /\ log # <<>> /\ setting.graphs /\ graph = <<>>
    /\ graph' = Generations(Walk(Tips, FALSE))
    /\ UNCHANGED <<log, shallow, setting, tag>>

(***************************************************************************)
(* Specification                                                           *)
(***************************************************************************)
Init ==
    /\ setting \in Settings
    /\ log = <<>> /\ shallow = {} /\ tag = None /\ graph = <<>>

Next ==
    \/ Commit(<<>>)
    \/ \E c \in Commits : Commit(<<c>>)
    \/ \E c, d \in Commits : c # d /\ Commit(<<c, d>>)
    \/ \E depth \in 1..Len(log) : Clone(depth)
    \/ Tag
    \/ WriteGraph

Spec == Init /\ [][Next]_vars

(***************************************************************************)
(* The queries asked: the newest commit and any other, in each kind of     *)
(* range. The histories of other pairs are those of smaller states; no     *)
(* query looks at the tag or at the commit-graph.                          *)
(***************************************************************************)
Between(pos, neg, sym) ==
    [pos |-> pos, neg |-> neg, sym |-> sym, side |-> IF sym = <<>> THEN "none" ELSE "both",
     firstParent |-> FALSE, topo |-> FALSE, reverse |-> FALSE, skip |-> 0, count |-> 0,
     oldest |-> None, minParents |-> 0, maxParents |-> None, maxAge |-> None, minAge |-> None]

Asked == log # <<>> /\ tag = None /\ graph = <<>>

Ranges == IF ~Asked THEN {}
          ELSE {Between({Newest}, {}, <<>>)}
               \cup {Between({Newest}, {c}, <<>>) : c \in 1..(Newest - 1)}
               \cup {Between({}, {}, <<Newest, c>>) : c \in 1..(Newest - 1)}

WithFilter(q, f) == [x \in DOMAIN q |-> IF x \in DOMAIN f THEN f[x] ELSE q[x]]

\* A side is asked of A...B alone.
Queries == {WithFilter(q, f) : q \in Ranges, f \in {g \in Filters : "side" \notin DOMAIN g}}
           \cup {WithFilter(q, f) : q \in {r \in Ranges : r.sym # <<>>}, f \in {g \in Filters : "side" \in DOMAIN g}}

(***************************************************************************)
(* Properties                                                              *)
(***************************************************************************)
\* The members of S that no other one descends from.
Maximal(S) == {c \in S : \A d \in S \ {c} : c \notin Ancestors(d)}

\* Whatever way they are computed, merge bases are the common ancestors that no other common
\* ancestor descends from: of two commits, of one and a merge of others, of all of them; and a
\* fork point lies above every tip of the ref that the commit descends from.
\* (merge_bases, merge_bases_many, octopus_merge_bases, independent_commits, fork_point)
BasesAreBest ==
    Asked => \A b \in Commits :
        LET c == Newest
            B == Ancestors(b)
            C == Ancestors(c)
        IN  /\ ElementsOf(MergeBases(b, c)) = Maximal(B \cap C)
            /\ IsAncestor(b, c) <=> (MergeBases(b, c) = <<b>>)
            /\ \A a \in 1..(b - 1) :
                  LET A == Ancestors(a)
                      point == ForkPoint(c, <<a, b>>)
                  IN  /\ ElementsOf(MergeBasesMany(<<c, a, b>>)) = Maximal(C \cap (A \cup B))
                      /\ ElementsOf(MergeBasesMany(<<a, b, c>>)) = Maximal(A \cap (B \cup C))
                      /\ ElementsOf(Octopus(<<a, b, c>>)) = Maximal(A \cap B \cap C)
                      /\ Independent({a, b, c}) = Maximal({a, b, c})
                      /\ point # None => point \in C /\ \A t \in {a, b} : t \in C => t \in Ancestors(point)

\* Pages put together are the list, reversing and taking the oldest come last, and with
\* --topo-order no commit precedes one below it: whichever of the five functions answers.
\* (rev_list, rev_list_sides, rev_list_parent_filter, rev_list_oldest, rev_list_age_filter)
StreamsArePaged ==
    \A q \in {r \in Queries : r.oldest = None} :
        LET whole == Stream(q)
            Page(m, n) == Stream([q EXCEPT !.skip = m, !.count = n])
        IN  /\ \A m \in 0..Len(log), n \in 1..2 :
                  /\ Page(m, 0) = Page(m, n) \o Page(m + n, 0) /\ Len(Page(m, n)) <= n
                  /\ Stream([q EXCEPT !.skip = m, !.count = n, !.reverse = TRUE]) = Reversed(Page(m, n))
            /\ \A n \in 0..2 :
                  Stream([q EXCEPT !.oldest = n]) = From(whole, IF Len(whole) > n THEN Len(whole) - n ELSE 0)
            /\ q.topo => \A i, j \in DOMAIN whole :
                             i < j => whole[i] \notin IF q.firstParent THEN ElementsOf(Visible(whole[j]))
                                                                       ELSE ProperAncestors(whole[j])

\* Annotating commits with their children does not change which are listed, and limits do not
\* change the children: those of the walk that the commit is a parent of. (The functions of
\* rev_list_children and of the filters; a side alone excepted, see SidesAreKept.)
ChildrenAgree ==
    \A q \in Queries :
        LET page == [q EXCEPT !.skip = 1, !.count = 2, !.reverse = TRUE]
        IN  /\ q.side \in {"none", "both"} => ChildStream(page) = Stream(page)
            /\ \A c \in ElementsOf(Stream(page)) :
                   ElementsOf(Children(c, page)) = {d \in Selected(q) : c \in ElementsOf(Followed(d, q.firstParent))}

\* The commits shown and their boundary leave no gap: every parent of a shown commit is shown
\* or boundary, and without limits what the boundary stands for is all the rest of the history.
\* (rev_list_boundary and its filtered forms)
BoundaryCloses ==
    \A q \in Queries :
        LET page == [q EXCEPT !.count = 2]
            shown == ElementsOf(Stream(page))
            edge == ElementsOf(BoundaryStream(page)) \ shown
        IN  /\ \A c \in shown : ElementsOf(Followed(c, q.firstParent)) \subseteq shown \cup edge
            /\ \A c \in edge : BoundaryChildren(c, page) # <<>>
            /\ Len(BoundaryStream(page)) = Cardinality(shown \cup edge)
            /\ q.sym = <<>> /\ Stream(q) # <<>> /\ ElementsOf(Stream(q)) = Selected(q) =>
                   Selected(q) \cup Walk(ElementsOf(BoundaryStream(q)) \ Selected(q), q.firstParent) = Walk(q.pos, q.firstParent)

\* Someone who has the excluded history and is sent the objects has the whole of the included
\* one, and is sent nothing twice; a page brings no commit but its own.
\* (rev_list_objects, its filtered forms, select_pack_objects)
ObjectsSuffice ==
    \A q \in {r \in Queries : r.side \in {"none", "both"}} :
        LET had == ReachableObjects(ExclusionRoots(q), q.firstParent)
            page == [q EXCEPT !.count = 2]
            wanted == IF q.sym = <<>> THEN q.pos ELSE ElementsOf(q.sym)
        IN  /\ ElementsOf(Stream(q)) = Selected(q) =>
                   /\ had \cup Objects(q) = had \cup ReachableObjects(wanted, q.firstParent)
                   /\ ~q.firstParent /\ q.sym = <<>> => Objects(q) = PackObjects(q.pos, q.neg)
            /\ had \cap Objects(q) = {}
            /\ {c \in Commits : <<"commit", c>> \in Objects(page)} = ElementsOf(Stream(page))

Refs == {[tip |-> Newest, priority |-> 1, annotated |-> FALSE]}
        \cup IF tag = None THEN {} ELSE {[tip |-> tag, priority |-> 0, annotated |-> setting.annotated]}

\* log lists what rev-list selects, each commit once, and with topo_order no parent first; the
\* refs for-each-ref finds by a commit are those whose histories hold it, or that lie in its own;
\* branch finds the same, and describe counts the edges of a shortest way to a tag - each by a
\* walk of its own. Of two histories that share a commit ahead_behind counts no commit too few on
\* either side, and where nothing was merged none too many; of two that share none it counts nothing
\* at all. The commit-graph, however the history went on, orders every line of descent it was written
\* for. (Repository.log, query_refs, Repository.branch, Repository.describe,
\* Repository.ahead_behind, CommitGraph._compute_generations)
WalksAgree ==
    /\ \A c \in DOMAIN graph : \A a \in ProperAncestors(c) : a \in DOMAIN graph /\ graph[a] < graph[c]
    /\ \A c \in Commits :
        /\ \A most \in {1, 2} : \A topo \in BOOLEAN :
              LET kept == {x \in Commits : Len(log[x]) <= most}
                  listed == Log(c, FALSE, topo, 0, kept)
              IN  /\ ElementsOf(listed) = Ancestors(c) \cap kept
                  /\ Len(listed) = Cardinality(ElementsOf(listed))
                  /\ topo => \A i, j \in DOMAIN listed : i < j => listed[i] \notin ElementsOf(log[listed[j]])
        /\ ElementsOf(Log(c, TRUE, FALSE, 0, Commits)) = Walk({c}, TRUE)
        /\ shallow = {} => \A b \in Commits : \A counted \in AheadBehind(c, b) :
              LET mine == Ancestors(c) \ Ancestors(b)
                  theirs == Ancestors(b) \ Ancestors(c)
              IN  IF Ancestors(c) \cap Ancestors(b) = {} THEN counted = <<{}, {}>>
                  ELSE /\ mine \subseteq counted[1] /\ theirs \subseteq counted[2]
                       /\ (\A d \in Commits : Len(log[d]) < 2) => counted = <<mine, theirs>>
        /\ \A f \in {[NoFilter EXCEPT !.contains = c], [NoFilter EXCEPT !.noMerged = c],
                     [NoFilter EXCEPT !.merged = Newest, !.noContains = c]} :
              LET found == EachRef(Refs, f)
              IN  /\ found = {r \in Refs : /\ (f.contains = c => c \in Ancestors(r.tip))
                                          /\ (f.merged = Newest => r.tip \in Ancestors(Newest))
                                          /\ (f.noMerged = c => r.tip \notin Ancestors(c))
                                          /\ (f.noContains = c => c \notin Ancestors(r.tip))}
                  /\ shallow = {} => found = ListedBranches(Refs, f)
        /\ shallow = {} /\ tag # None =>
              LET edges == Describe(c, {tag})
              IN  IF tag \in Ancestors(c) THEN edges = Distances(c)[tag] ELSE edges = None

\* A commit has a name if and only if a ref reaches it, and the name leads back to it, past no
\* shallow commit, in both grammars of the plumbing; Repository's takes every name but those
\* from annotated tags. (name_rev._candidate_names, revision._resolve_commit_expression,
\* resolve_commit, Repository._resolve_revision)
NamesResolve ==
    log # <<>> => \A c \in Commits :
        /\ (BestNames(c, Refs) = {}) <=> (c \notin Walk(Tips, FALSE))
        /\ \A n \in BestNames(c, Refs) :
              /\ Resolve(n.ref.tip, Suffix(n)) = c
              /\ ResolveCommit(n.ref.tip, Suffix(n)) = c
              /\ ResolveRevision(n.ref, Suffix(n)) = IF n.ref.annotated THEN None ELSE c

\* PHASE131.md: a side filter keeps the commits of that side alone, however they are printed.
SidesAreKept ==
    \A q \in Queries : q.side \in {"left", "right"} =>
        \A c \in ElementsOf(ChildStream(q)) : Side(c, q) = q.side

\* The help of log --first-parent: only the first parent of a merge is followed.
LogFollowsFirstParents ==
    \A c \in Commits : LET kept == {x \in Commits : Len(log[x]) <= 1}
                       IN  ElementsOf(Log(c, TRUE, FALSE, 0, kept)) \subseteq Walk({c}, TRUE)

\* ahead_behind's docstring: the commits reachable from the one but not from the other.
\* They are too many behind a merge, and none at all of unrelated histories.
AheadBehindCounts ==
    \A a, b \in Commits : \A counted \in AheadBehind(a, b) :
        /\ Cardinality(counted[1]) = Cardinality(Ancestors(a) \ Ancestors(b))
        /\ Cardinality(counted[2]) = Cardinality(Ancestors(b) \ Ancestors(a))
=============================================================================

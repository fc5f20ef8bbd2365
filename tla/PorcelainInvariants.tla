------------------------ MODULE PorcelainInvariants ------------------------
(***************************************************************************)
(* What the porcelain commands keep true between any two of their writes:  *)
(* the inductive invariants of Porcelain, and the operators in which the   *)
(* effects of its commands are stated. Their proofs are in PorcelainProofs. *)
(***************************************************************************)
EXTENDS Porcelain

(***************************************************************************)
(* The history of commits: the least set that has them and their parents.  *)
(***************************************************************************)
\* Commits are made after their parents.
Dated(h) == Len(h) \in Nat /\ \A c \in 1..Len(h) : Parents(h, c) \subseteq 1..(c - 1)

Closed(h, T) == \A x \in T : Parents(h, x) \subseteq T

\* The first m steps of the walk that History makes.
Walks(h, S, w, m) ==
    /\ w \in [0..m -> SUBSET (1..Len(h))]
    /\ w[0] = S
    /\ \A d \in 1..m : w[d] = w[d - 1] \cup UNION {Parents(h, x) : x \in w[d - 1]}

\* The parent that FirstParents follows, if it goes on.
NextUp(h, stop, x) == IF x \in {None, stop} \/ h[x].parents = <<>> THEN None ELSE h[x].parents[1]

\* The first m steps of the walk that FirstParents makes.
Climbs(h, c, stop, w, m) ==
    /\ w \in [1..m -> 1..Len(h) \cup {None}]
    /\ \A i \in 1..m : w[i] = IF i = 1 THEN c ELSE NextUp(h, stop, w[i - 1])

(***************************************************************************)
(* The distances of commits, and the merge bases they decide on.           *)
(***************************************************************************)
\* The first m levels that Distances walks through.
Levels(h, c, w, m) ==
    /\ w \in [0..m -> SUBSET (1..Len(h))]
    /\ w[0] = {c}
    /\ \A d \in 1..m : w[d] = UNION {Parents(h, x) : x \in w[d - 1]}

(***************************************************************************)
(* Types.  A command's writes keep the files what their readers expect.    *)
(***************************************************************************)
\* Writes that leave a rebase its state, and all writes.
Holding(C) ==
    [at : {"head"}, to : Branches \cup C]
    \cup [at : {"branch"}, to : [Branches -> C \cup {None}]]
    \cup [at : {"index"}, to : Indexes]
    \cup [at : {"worktree"}, to : Tree]
    \cup [at : {"mergeHead", "mergeOrig", "stash"}, to : C \cup {None}]
    \cup [at : {"conflicts"}, to : SUBSET Paths]
    \cup [at : {"cherry"}, to : Picks(C) \cup {None}]
    \cup [at : {"rebase"}, to : Rebases(C)]
    \cup [at : {"bisect"}, to : Bisects(C) \cup {None}]

Writes(C) == Holding(C) \cup [at : {"rebase"}, to : {None}]

TypeInv ==
    /\ Recorded(log)
    /\ files \in FilesOver(Commits)
    /\ job \in [cmd : {job.cmd}, todo : Seq(Writes(Commits)), then : {"end", "replay"}]
    /\ work \in Tree \cup {None}
    /\ job.then = "replay" =>
          /\ job.todo \in Seq(Holding(Commits))
          /\ files.rebase # None \/ \E i \in DOMAIN job.todo : job.todo[i].at = "rebase"

Outcomes == [clashes : SUBSET Paths, index : Indexes, worktree : Tree]

Entry == [tree : Tree, parents : Seq(Nat), msg : Nat \cup {None}]

(***************************************************************************)
(* Every command starts with writes of the right types.                    *)
(***************************************************************************)
More == 1..(Len(log) + 1)

(***************************************************************************)
(* The stack of stashes.                                                   *)
(***************************************************************************)
\* The first m places that Stashes looks at.
Entries(w, m) ==
    /\ w \in [1..m -> Commits \cup {None}]
    /\ \A i \in 1..m : w[i] = IF i = 1 THEN files.stash
                              ELSE IF w[i - 1] = None THEN None ELSE Previous(w[i - 1])

One(c) == IF c = None THEN <<>> ELSE <<c>>

\* What a push puts on the stack, and what it leaves of the index and the worktree.
StashIndex == Record(files.index.staged, One(HeadSha), None)
StashTop == Record(files.worktree, One(HeadSha) \o <<NewCommit>> \o One(files.stash), NewCommit + 1)

\* What a push writes after the stack: the worktree and the index, nothing else.
Cleans(s) == s \in Seq([at : {"worktree"}, to : Tree] \cup [at : {"index"}, to : Indexes])

(***************************************************************************)
(* What a push is to keep.  The entry is on the stack before any file of   *)
(* the worktree goes; what is written after that is the worktree and the   *)
(* index, never the stack again.                                           *)
(***************************************************************************)
StashInv ==
    work # None =>
        /\ job.then = "end"
        /\ \/ files.worktree = work /\ job.todo = <<>>
           \/ /\ files.worktree = work
              /\ \E c \in Commits : \E s : /\ job.todo = Put("stash", c) \o s
                                           /\ Cleans(s) /\ TreeAt(c) = work
           \/ /\ files.stash # None /\ TreeAt(files.stash) = work
              /\ Cleans(job.todo)

(***************************************************************************)
(* What is not forgotten.  A command's writes are safe from some files on  *)
(* when every one of them keeps all commits within reach.  The pairs of    *)
(* files and writes still to do that are safe are closed under doing the   *)
(* first write: any such set shows that its members are safe.              *)
(***************************************************************************)
Tip(v) == IF v.head \in Branches THEN v.branch[v.head] ELSE v.head

Original(v) == IF v.rebase = None THEN None ELSE v.rebase.original

Roots(v) == ({Tip(v)} \cup {v.branch[b] : b \in Branches} \cup {v.stash, v.mergeHead, Original(v)}) \ {None}

Written(v, w) == [v EXCEPT ![w.at] = w.to]

Keeps(h, v, u) ==
    v.rebase = None \/ u.rebase # None => History(h, Roots(v)) \subseteq History(h, Roots(u))

Keeping(h, X) ==
    \A v, s : <<v, s>> \in X /\ s # <<>> =>
        Keeps(h, v, Written(v, Head(s))) /\ <<Written(v, Head(s)), Tail(s)>> \in X

Safe(h, v, s) == \E X : Keeping(h, X) /\ <<v, s>> \in X

\* Writes that leave everything within reach: to files that name no commit, and to the state
\* of a rebase with the same original.
Gentle(o, C) ==
    [at : {"index"}, to : Indexes]
    \cup [at : {"worktree"}, to : Tree]
    \cup [at : {"mergeOrig"}, to : C \cup {None}]
    \cup [at : {"conflicts"}, to : SUBSET Paths]
    \cup [at : {"cherry"}, to : Picks(C) \cup {None}]
    \cup [at : {"rebase"}, to : {x \in Rebases(C) : x.original = o}]

Alike(u, v) ==
    u.head = v.head /\ u.branch = v.branch /\ u.stash = v.stash /\ u.mergeHead = v.mergeHead
    /\ Original(u) = Original(v) /\ (u.rebase = None <=> v.rebase = None)

\* Moving the branch HEAD names, or HEAD itself, from some files.
MoveOf(v, c) == IF v.head \in Branches THEN Put("branch", [v.branch EXCEPT ![v.head] = c]) ELSE Put("head", c)

Moved(v, c) == IF v.head \in Branches THEN [v EXCEPT !["branch"] = [v.branch EXCEPT ![v.head] = c]]
               ELSE [v EXCEPT !["head"] = c]

\* Concatenation under a name of its own: a prover takes it as it is.
Cat(s, t) == s \o t

\* The entries that put HEAD, and the commit being merged, below the new commit.
Joining(e) ==
    /\ e \in Entry /\ e.parents \in Seq(Commits)
    /\ \/ e.parents = HeadAndMergeHead
       \/ files.mergeHead = None /\ HeadSha # None /\ \E y \in Commits : e.parents = <<HeadSha, y>>

(***************************************************************************)
(* The commands that lose none start with writes that are safe, and so is  *)
(* what is left of them after each.                                        *)
(***************************************************************************)
KeepInv == job.cmd \in Preserving => Safe(log, files, job.todo)

(***************************************************************************)
(* Where the writes of a command lead.                                     *)
(***************************************************************************)
\* From the files v the writes s lead to u.
Leads(v, s, u) ==
    \E c : /\ c[0] = v /\ c[Len(s)] = u
           /\ \A k \in 1..Len(s) : c[k] = Written(c[k - 1], s[k])

Names == {"head", "branch", "index", "worktree", "mergeHead", "mergeOrig", "conflicts", "cherry", "rebase",
          "bisect", "stash"}

\* u is v but for one file.
But(v, u, f, x) ==
    /\ u \in FilesOver(Nat)
    /\ u[f] = x
    /\ \A g \in Names \ {f} : u[g] = v[g]

(***************************************************************************)
(* What an operation in progress leaves alone, and what brings it back.    *)
(***************************************************************************)
Operations == {"merge", "cherry-pick", "rebase", "bisect"}

\* What an abort is to bring back.
Aim(e) == [op |-> e.op, head |-> e.head, tip |-> e.tip, tree |-> TreeAt(e.tip)]

\* No state file is there: nothing can be aborted, continued or concluded.
Calm(v) == v.mergeHead = None /\ v.cherry = None /\ v.rebase = None /\ v.bisect = None

Heading(a, v) == v.head = a.head /\ Tip(v) = a.tip

\* Only the operation's own state file may be there; it names where the operation began, and
\* HEAD has not moved, or (rebase, bisect) the state file knows where it was.
Held(a, v) ==
    /\ a.op # "merge" => v.mergeHead = None
    /\ a.op # "cherry-pick" => v.cherry = None
    /\ a.op # "rebase" => v.rebase = None
    /\ a.op # "bisect" => v.bisect = None
    /\ a.op = "merge" => Heading(a, v) /\ v.mergeOrig \in {None, a.tip}
    /\ a.op = "cherry-pick" => Heading(a, v) /\ (v.cherry = None \/ v.cherry.before = a.tip)
    /\ a.op = "rebase" => /\ v.head = a.head /\ a.head \in Branches
                          /\ v.rebase = None \/ (v.rebase.branch = a.head /\ v.rebase.original = a.tip)
    /\ a.op = "bisect" => /\ v.index.unmerged = {}
                          /\ IF a.head \in Branches THEN v.branch[a.head] = a.tip ELSE a.head = a.tip
                          /\ v.bisect = None \/ (v.bisect.head = a.head /\ v.bisect.sha = a.tip)

\* The writes that keep it so.
Fits(a, w) ==
    \/ w.at \in {"worktree", "conflicts"}
    \/ w.at = "index" /\ (a.op # "bisect" \/ w.to.unmerged = {})
    \/ a.op = "merge" /\ w.at = "mergeHead"
    \/ a.op = "merge" /\ w.at = "mergeOrig" /\ w.to \in {None, a.tip}
    \/ a.op = "cherry-pick" /\ w.at = "cherry" /\ (w.to = None \/ w.to.before = a.tip)
    \/ a.op = "rebase" /\ w.at \in {"branch", "mergeOrig"}
    \/ a.op = "rebase" /\ w.at \in {"mergeHead", "cherry"} /\ w.to = None
    \/ a.op = "rebase" /\ w.at = "head" /\ w.to = a.head
    \/ a.op = "rebase" /\ w.at = "rebase" /\ (w.to = None \/ (w.to.branch = a.head /\ w.to.original = a.tip))
    \/ a.op = "bisect" /\ w.at = "head"
    \/ a.op = "bisect" /\ w.at = "bisect" /\ (w.to = None \/ (w.to.head = a.head /\ w.to.sha = a.tip))

Fitting(a) == {w \in Writes(Nat) : Fits(a, w)}

StateFiles == {"mergeHead", "cherry", "rebase", "bisect"}

Quiet == {w \in Writes(Nat) : w.at \notin StateFiles}

\* Everything is as it was: what an abort is for.
Back(a, v) ==
    /\ Heading(a, v) /\ Calm(v) /\ v.conflicts = {}
    /\ v.index = [staged |-> a.tree, unmerged |-> {}]
    /\ \A p \in PathsOf(a.tree) : v.worktree[p] = a.tree[p]

\* An operation and the writes still to do.  While it is open and when it is aborted nothing
\* disturbs it, and an abort leads back; a conclusion leaves no state.
Stands(a, how, v, s, then) ==
    /\ how # "finished" => \/ Calm(v) /\ a.op \in {"merge", "cherry-pick"} /\ s \in Seq(Quiet)
                           \/ Held(a, v) /\ s \in Seq(Fitting(a))
    /\ how = "aborted" => then = "end" /\ \E u : Leads(v, s, u) /\ Back(a, u)
    /\ how = "finished" => then = "end" /\ \E u : Leads(v, s, u) /\ Calm(u)

\* It was begun on nothing an earlier one had left, and not cut short while it was being concluded.
Counts(e) == e # None /\ e.fresh /\ e.cut # "at its end"

Live == Counts(begun)

Begun(C) == [op : Operations, how : {"open", "aborted", "finished"}, head : Branches \cup C, tip : C,
             base : C \cup {None}, theirs : C \cup {None}, touched : SUBSET Paths,
             cut : {"never", "before", "at its end"}, fresh : BOOLEAN]

BegunTyped == begun \in Begun(Commits) \cup {None}

AbortInv == Live => Stands(Aim(begun), begun.how, files, job.todo, job.then)

Standing == BegunTyped /\ AbortInv

(***************************************************************************)
(* Which writes those are.                                                 *)
(***************************************************************************)
\* The user's own files: worktree, index and conflicts.
Working == {w \in Writes(Nat) : w.at \in {"worktree", "index", "conflicts"}}

\* Of those, the ones that leave no more unmerged entries than there are.
Mild(v) == {w \in Working : w.at = "index" => w.to.unmerged \subseteq v.index.unmerged}

(***************************************************************************)
(* Where clearing a state, replacing the files and committing lead.        *)
(***************************************************************************)
\* The write s of x to the file f, or none of it, leads from v to u.
Reaches(v, s, f, x, u) ==
    /\ Leads(v, s, u) /\ u \in FilesOver(Nat)
    /\ \A g \in Names \ {f} : u[g] = v[g]
    /\ u[f] = IF s = <<>> THEN v[f] ELSE x

\* Clear has led from v to u, and the unmerged entries of the index i are gone if there was a state.
Cleared(v, f, i, u) ==
    /\ Leads(v, Clear(f, i), u) /\ u \in FilesOver(Nat)
    /\ u[f] = None
    /\ \A g \in Names \ {f, "index"} : u[g] = v[g]
    /\ v.index = i /\ files[f] # None => u.index = [staged |-> i.staged, unmerged |-> {}]

MergeCleared(v, i, u) ==
    /\ Leads(v, ClearMerge(i), u) /\ u \in FilesOver(Nat)
    /\ u.mergeHead = None /\ u.mergeOrig = None /\ u.conflicts = {}
    /\ \A g \in Names \ {"mergeHead", "mergeOrig", "conflicts", "index"} : u[g] = v[g]
    /\ v.index = i /\ files.mergeHead # None => u.index = [staged |-> i.staged, unmerged |-> {}]

\* The aim of an operation that is begun now.
Target(op) == [op |-> op, head |-> files.head, tip |-> HeadSha, tree |-> TreeAt(HeadSha)]

(***************************************************************************)
(* What a merge and a rebase lead to when nothing is cut short.            *)
(***************************************************************************)
\* The tree of a commit of h.
TreeIn(h, c) == IF c = None THEN EmptyTree ELSE h[c].tree

\* q is the way by first parents from c down to base, which is not on it.
Line(h, c, base, q) ==
    /\ q \in Seq(1..Len(h)) /\ Len(q) >= 1 /\ q[1] = c
    /\ \A i \in 1..Len(q) : q[i] # base
    /\ \A i \in 1..(Len(q) - 1) : h[q[i]].parents # <<>> /\ h[q[i]].parents[1] = q[i + 1]
    /\ IF base = None THEN h[q[Len(q)]].parents = <<>>
       ELSE h[q[Len(q)]].parents # <<>> /\ h[q[Len(q)]].parents[1] = base

\* The tree that the commits of q have led to when n of them are still to be picked.
Last(h, base, q, n) == IF n < Len(q) THEN h[q[n + 1]].tree ELSE TreeIn(h, base)

\* What a replay of the commits before those n has made of path p.
Right(h, e, q, n, p, x) ==
    /\ TreeIn(h, e.theirs)[p] = TreeIn(h, e.base)[p] => x = Last(h, e.base, q, n)[p]
    /\ (\A i \in 1..Len(q) : h[q[i]].tree[p] = TreeIn(h, e.base)[p]) => x = TreeIn(h, e.theirs)[p]

\* A rebase on its way: n commits are pending. Between two of them the index is that of HEAD;
\* where it stopped it has a current commit, and the user may have changed what was touched.
Along(h, e, v, then) ==
    \E q : \E n \in 0..Len(q) :
        /\ Line(h, e.tip, e.base, q)
        /\ v.rebase.pending = [i \in 1..n |-> q[n + 1 - i]]
        /\ \A p \in Paths \ e.touched : Right(h, e, q, n, p, v.index.staged[p])
        /\ v.head \in Branches
        /\ then = "end" => v.rebase.current # None
        /\ then = "replay" => /\ v.rebase.current = None
                              /\ v.index.staged = TreeIn(h, Tip(v))

\* BothSidesTaken, of the files v.
Taken(h, e, v) ==
    \E q : Line(h, e.tip, e.base, q) /\ \A p \in Paths \ e.touched : Right(h, e, q, 0, p, TreeIn(h, Tip(v))[p])

MergeEnds(h, e, v) ==
    /\ v.rebase = None
    /\ IF e.how = "finished" THEN v.mergeHead = None /\ {e.tip, e.theirs} \subseteq History(h, {Tip(v)})
       ELSE v.mergeHead = None \/ (v.mergeHead = e.theirs /\ Tip(v) = e.tip)

RebaseEnds(h, e, v, then) ==
    /\ v.mergeHead = None
    /\ e.how = "open" /\ v.rebase # None => Along(h, e, v, then)
    /\ e.how # "open" => v.rebase = None
    /\ v.rebase = None => then = "end"
    /\ e.how = "finished" => Taken(h, e, v)

\* Where an operation has led to when the writes of a command are made.
EndsWell(h, e, v, then) ==
    /\ v \in FilesOver(Nat) /\ v.cherry = None /\ v.bisect = None
    /\ e.op = "merge" => MergeEnds(h, e, v)
    /\ e.op = "rebase" => RebaseEnds(h, e, v, then)

Watched(e) == e # None /\ e.cut = "never" /\ e.op \in {"merge", "rebase"}

WholeInv ==
    Watched(begun) => \E u : Leads(files, job.todo, u) /\ EndsWell(log, begun, u, job.then)

(***************************************************************************)
(* From any of the files X, the writes s lead to some of Y.                *)
(***************************************************************************)
Moves(X, s, Y) == s \in Seq(Writes(Nat)) /\ \A v \in X : \E u \in Y : Leads(v, s, u)

\* The files in a state of affairs: no cherry-pick and no bisection, a merge of m and a rebase r.
Frame(m, r) == {v \in FilesOver(Nat) : v.mergeHead = m /\ v.cherry = None /\ v.bisect = None /\ v.rebase = r}

\* The same, with HEAD at h, which is the commit c, and with t staged.
Spot(h, c, t, m, r) == {v \in Frame(m, r) : v.head = h /\ Tip(v) = c /\ v.index.staged = t}

\* The writes that leave all of that.
Light(t) == {w \in Writes(Nat) : \/ w.at \in {"worktree", "conflicts", "mergeOrig", "stash"}
                                 \/ w.at = "index" /\ w.to.staged = t}

\* Where HEAD is when it has moved.
Onward(h, c) == IF h \in Branches THEN h ELSE c

\* The current files, and where HEAD is.
Here == Spot(files.head, HeadSha, files.index.staged, files.mergeHead, files.rebase)

=============================================================================

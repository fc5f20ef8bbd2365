----------------------------- MODULE Porcelain -----------------------------
(***************************************************************************)
(* The commands of Repository that change HEAD, branches, the index, the   *)
(* worktree and the state files of an operation in progress: commit,       *)
(* merge, cherry-pick, rebase, revert, bisect, reset, checkout and stash.  *)
(* One command runs at a time. It reads what it needs, then writes its     *)
(* files one after the other (job.todo), and may be cut short before any   *)
(* of them: a kill, an OSError, a hook that fails. A rebase goes on to its *)
(* next commit when the writes of the last one are done (job.then). A      *)
(* command that is refused changes nothing and is no step.                 *)
(***************************************************************************)
EXTENDS Trees

CONSTANTS Branches,
          Typed,         \* what the user may put in a file
          Scenarios      \* the [log, files] to start from, with the commands that may be given
                         \* and how many of them, of edits (staging included) and of crashes

ASSUME TypedIsContent == Typed \subseteq Contents \cup {Gone}

VARIABLES files, \* HEAD, branches, index, worktree and state files
          log,   \* the commits made so far
          job,   \* the command running: what it has still to write
          begun, \* the operation begun last, and how it stands
          work,  \* the worktree a stash is to keep
          left   \* the commands, their number, and the edits and crashes there may still be

vars == <<files, log, job, begun, work, left>>

(***************************************************************************)
(* What the files may hold when the commits of C have been made            *)
(***************************************************************************)
Indexes == [staged : Tree, unmerged : SUBSET Paths]

Picks(C) == [source : C, before : C]

Rebases(C) == [branch : Branches, original : C, onto : C, pending : Seq(C), current : C \cup {None}]

Bisects(C) == [head : Branches \cup C, sha : C, bad : C \cup {None}, good : C \cup {None}]

FilesOver(C) == [head       : Branches \cup C,
                 branch     : [Branches -> C \cup {None}],
                 index      : Indexes,
                 worktree   : Tree,
                 mergeHead  : C \cup {None},
                 mergeOrig  : C \cup {None},
                 conflicts  : SUBSET Paths,
                 cherry     : Picks(C) \cup {None},
                 rebase     : Rebases(C) \cup {None},
                 bisect     : Bisects(C) \cup {None},
                 stash      : C \cup {None}]

\* A commit has a tree, and parents made before it.
Recorded(h) ==
    /\ h \in Seq([tree : Tree, parents : Seq(Nat), msg : Nat \cup {None}])
    /\ \A c \in 1..Len(h) : Parents(h, c) \subseteq 1..(c - 1)

ASSUME NamesAreNoCommits == Branches \cap Nat = {} /\ None \notin Branches \cup Nat

ASSUME NoneIsNoState == None \notin Picks(Nat) \cup Rebases(Nat) \cup Bisects(Nat)

ASSUME ScenariosAreTyped ==
    \A s \in Scenarios : Recorded(s.log) /\ s.files \in FilesOver(1..Len(s.log))

Idle == [cmd |-> "none", todo |-> <<>>, then |-> "end"]

Put(file, value) == <<[at |-> file, to |-> value]>>

HeadSha == IF files.head \in Branches THEN files.branch[files.head] ELSE files.head

TreeAt(c) == IF c = None THEN EmptyTree ELSE log[c].tree
ParentTree(c) == IF log[c].parents = <<>> THEN EmptyTree ELSE TreeAt(log[c].parents[1])

(***************************************************************************)
(* status, and the guards made of it                                       *)
(***************************************************************************)
Staged == files.index.staged # TreeAt(HeadSha)
Unstaged == \E p \in PathsOf(files.index.staged) : files.worktree[p] # files.index.staged[p]
Untracked == PathsOf(files.worktree) \ (PathsOf(files.index.staged) \cup files.index.unmerged)

Clean == ~Staged /\ ~Unstaged /\ Untracked = {} /\ files.conflicts = {}

\* _operation_name
Operation == CASE files.mergeHead # None -> "merge"
               [] files.mergeHead = None /\ files.cherry # None -> "cherry-pick"
               [] files.mergeHead = None /\ files.cherry = None /\ files.rebase # None -> "rebase"
               [] files.mergeHead = None /\ files.cherry = None /\ files.rebase = None
                  /\ files.bisect # None -> "bisect"
               [] OTHER -> "none"

Ready == Operation = "none" /\ Clean

(***************************************************************************)
(* The writes commands are made of                                         *)
(***************************************************************************)
\* The index of a tree; stages 1, 2 and 3 stay as they are.
Index(t) == [files.index EXCEPT !.staged = t]

\* _replace_worktree_from_commit
Replace(t, tracked) ==
    Put("worktree", Restored(t, tracked, files.worktree)) \o Put("index", Index(t))

ReplaceTracked(t) == Replace(t, PathsOf(files.index.staged))

SetBranch(b, c) == Put("branch", [files.branch EXCEPT ![b] = c])

\* The branch HEAD names, or else HEAD itself.
MoveHead(c) == IF files.head \in Branches THEN SetBranch(files.head, c) ELSE Put("head", c)

\* Leaving the unmerged entries behind (a faulty Clear).
ClearAlone(file, index) == IF files[file] = None THEN <<>> ELSE Put(file, None)

\* A state file is removed if it is there, and the unmerged entries with it.
Clear(file, index) ==
    IF files[file] = None THEN <<>>
    ELSE Put(file, None) \o IF index.unmerged = {} THEN <<>> ELSE Put("index", [index EXCEPT !.unmerged = {}])

\* _clear_merge_state: three files, and the unmerged entries if there was a merge.
ClearMerge(index) ==
    (IF files.mergeHead = None THEN <<>> ELSE Put("mergeHead", None))
    \o (IF files.mergeOrig = None THEN <<>> ELSE Put("mergeOrig", None))
    \o (IF files.conflicts = {} THEN <<>> ELSE Put("conflicts", {}))
    \o IF files.mergeHead # None /\ index.unmerged # {}
       THEN Put("index", [index EXCEPT !.unmerged = {}]) ELSE <<>>

ClearConflicts == IF files.conflicts = {} THEN <<>> ELSE Put("conflicts", {})

\* Clearing a conflict when its path is staged or removed.
ClearConflict(p) == IF p \in files.conflicts THEN Put("conflicts", files.conflicts \ {p}) ELSE <<>>

\* _index_matches_head
Matches(index) == index.staged = TreeAt(HeadSha)

Record(t, parents, msg) == [tree |-> t, parents |-> parents, msg |-> msg]
NewCommit == Len(log) + 1

\* commit() once its checks have passed: the branch, then the state it concludes.
Committed(index) == MoveHead(NewCommit) \o ClearMerge(index) \o Clear("cherry", index)

\* _apply_three_way: the worktree, then the index.
ThreeWay(base, theirs) ==
    LET ours == TreeAt(HeadSha)
    IN  [clashes  |-> Clashes(base, ours, theirs),
         index    |-> Index(Merged(base, ours, theirs, files.index.staged)),
         worktree |-> MergedFiles(base, ours, theirs, files.worktree)]

Applied(r) == Put("worktree", r.worktree) \o Put("index", r.index)

\* populate_merge_conflict_stages: stage 0 of the paths in conflict gives way to 1, 2 and 3.
WithStages(r) == [staged |-> [p \in Paths |-> IF p \in r.clashes THEN Gone ELSE r.index.staged[p]],
                  unmerged |-> r.index.unmerged \cup r.clashes]

(***************************************************************************)
(* Starting a command, writing its files, being cut short                  *)
(***************************************************************************)
MayStart(cmd) == job = Idle /\ cmd \in left.allowed /\ left.commands > 0

Run(cmd, todo, then, new) ==
    /\ job' = [cmd |-> cmd, todo |-> todo, then |-> then]
    /\ log' = log \o new
    /\ left' = [left EXCEPT !.commands = @ - 1]
    /\ UNCHANGED files

\* The operation a command begins, and what it is bound to leave behind. fresh: no earlier one that
\* was cut short left its merge-orig or unmerged entries, which no guard looks at.
Begins(op, base, theirs) ==
    begun' = [op |-> op, how |-> "open", head |-> files.head, tip |-> HeadSha,
              base |-> base, theirs |-> theirs, touched |-> {}, cut |-> "never",
              fresh |-> files.mergeOrig = None /\ files.index.unmerged = {}]

\* A command that ends it, or one that has nothing to do with it.
Ends(how) == begun' = IF begun = None THEN None ELSE [begun EXCEPT !.how = how]
Unrelated == begun' = None

Simple(cmd, todo) == Run(cmd, todo, "end", <<>>) /\ work' = None

Step ==
    /\ job.todo # <<>>
    /\ files' = [files EXCEPT ![Head(job.todo).at] = Head(job.todo).to]
    /\ job' = IF Len(job.todo) = 1 /\ job.then = "end" THEN Idle
              ELSE [job EXCEPT !.todo = Tail(@)]
    /\ UNCHANGED <<log, begun, work, left>>

Interrupted ==
    /\ job # Idle /\ left.crashes > 0
    /\ job' = Idle
    /\ left' = [left EXCEPT !.crashes = @ - 1]
    /\ begun' = IF begun = None THEN None
                ELSE [begun EXCEPT !.how = "open",
                                   !.cut = IF begun.how = "finished" \/ @ = "at its end" THEN "at its end"
                                           ELSE "before"]
    /\ UNCHANGED <<files, log, work>>

(***************************************************************************)
(* The user at work: editing files, staging and unstaging them             *)
(***************************************************************************)
MayEdit == job = Idle /\ left.edits > 0

Touches(S) == begun' = IF begun = None \/ begun.how # "open" THEN None
                       ELSE [begun EXCEPT !.touched = @ \cup S]

Edit(p, c) ==
    /\ MayEdit /\ c # files.worktree[p]
    /\ files' = [files EXCEPT !.worktree[p] = c]
    /\ left' = [left EXCEPT !.edits = @ - 1]
    /\ Touches({p}) /\ work' = None
    /\ UNCHANGED <<log, job>>

RunEdit(cmd, S, todo) ==
    /\ MayEdit
    /\ job' = [cmd |-> cmd, todo |-> todo, then |-> "end"]
    /\ left' = [left EXCEPT !.edits = @ - 1]
    /\ Touches(S) /\ work' = None
    /\ UNCHANGED <<files, log>>

\* The index with one path at stage 0 only.
With(index, p, c) == [staged |-> [index.staged EXCEPT ![p] = c], unmerged |-> index.unmerged \ {p}]

Add(p) ==
    /\ files.worktree[p] # Gone
    /\ RunEdit("add", {p}, Put("index", With(files.index, p, files.worktree[p])) \o ClearConflict(p))

Rm(p, cached) ==
    /\ p \in PathsOf(files.index.staged) \cup files.index.unmerged \cup files.conflicts
    /\ RunEdit("rm", {p}, Put("index", With(files.index, p, Gone)) \o ClearConflict(p)
                        \o IF cached THEN <<>> ELSE Put("worktree", [files.worktree EXCEPT ![p] = Gone]))

Mv(p, q) ==
    /\ p # q /\ files.worktree[p] # Gone /\ files.worktree[q] = Gone
    /\ files.index.staged[p] # Gone
    /\ LET removed == With(files.index, p, Gone)
       IN  RunEdit("mv", {p, q}, Put("worktree", [files.worktree EXCEPT ![q] = files.worktree[p], ![p] = Gone])
                            \o Put("index", removed)
                            \o Put("index", With(removed, q, files.worktree[p])))

(***************************************************************************)
(* commit                                                                  *)
(***************************************************************************)
\* HEAD, and the commit being merged unless it is HEAD.
HeadAndMergeHead ==
    (IF HeadSha = None THEN <<>> ELSE <<HeadSha>>)
    \o IF files.mergeHead \in {None, HeadSha} THEN <<>> ELSE <<files.mergeHead>>

MayCommit == files.rebase = None /\ files.conflicts = {}

\* What commit() refuses as nothing to commit.
Nothing(t) == IF HeadSha = None THEN t = EmptyTree
              ELSE files.mergeHead = None /\ t = TreeAt(HeadSha)

\* A commit in the middle of a merge or a cherry-pick concludes it.
Concludes == IF Operation \in {"merge", "cherry-pick"} THEN Ends("finished") ELSE Unrelated

Commit ==
    /\ MayStart("commit") /\ MayCommit /\ ~Nothing(files.index.staged)
    /\ Run("commit", Committed(files.index), "end",
           <<Record(files.index.staged, HeadAndMergeHead, NewCommit)>>)
    /\ Concludes /\ work' = None

Amend ==
    /\ MayStart("amend") /\ MayCommit /\ HeadSha # None
    /\ Run("amend", Committed(files.index), "end",
           <<Record(files.index.staged, log[HeadSha].parents, log[HeadSha].msg)>>)
    /\ Unrelated /\ work' = None

\* commit(only_paths): the index is set aside and saved as HEAD plus the path, and put back
\* after the commit; if that commit is refused, or cut short, it is not put back.
CommitOnly(p) ==
    LET alone    == With([files.index EXCEPT !.staged = TreeAt(HeadSha)], p, files.worktree[p])
        after    == IF files.mergeHead = None /\ files.cherry = None THEN alone.unmerged ELSE {}
        back     == [staged   |-> [x \in Paths |-> IF x = p \/ files.index.staged[x] = Gone
                                                  THEN alone.staged[x] ELSE files.index.staged[x]],
                     unmerged |-> after]
        accepted == files.rebase = None /\ files.conflicts \subseteq {p} /\ ~Nothing(alone.staged)
        isolated == Put("index", alone) \o ClearConflict(p)
    IN  /\ MayStart("commit_only") /\ files.worktree[p] # Gone
        /\ IF accepted
           THEN Run("commit_only", isolated \o Committed(alone) \o Put("index", back), "end",
                    <<Record(alone.staged, HeadAndMergeHead, NewCommit)>>)
           ELSE Run("commit_only", isolated, "end", <<>>)
        /\ Unrelated /\ work' = None

(***************************************************************************)
(* merge                                                                   *)
(***************************************************************************)
Merge(theirs, squash) ==
    LET ours == HeadSha
        Into(base) ==
            LET r == ThreeWay(TreeAt(base), TreeAt(theirs))
                merged == Applied(r) \o Committed(r.index)
            IN  CASE base = ours /\ ~squash ->
                        Run("merge", ReplaceTracked(TreeAt(theirs)) \o MoveHead(theirs), "end", <<>>)
                  [] r.clashes # {} ->
                        Run("merge", Applied(r) \o Put("index", WithStages(r))
                                     \o Put("mergeHead", theirs) \o Put("mergeOrig", ours)
                                     \o Put("conflicts", r.clashes), "end", <<>>)
                  \* A squash leaves the commit to the user; commit() refuses an unchanged tree.
                  [] r.clashes = {} /\ (squash \/ (base # ours /\ Matches(r.index))) ->
                        Run("merge", Applied(r), "end", <<>>)
                  [] OTHER ->
                        Run("merge", merged, "end",
                            <<Record(r.index.staged, <<ours, theirs>>, NewCommit)>>)
    IN  /\ MayStart("merge") /\ Ready
        /\ ours # None /\ theirs \notin {None, ours}
        /\ \E base \in MergeBases(log, ours, theirs) :
              base # theirs /\ Into(base) /\ Begins("merge", base, theirs)
        /\ work' = None

MergeAbort ==
    LET original == IF files.mergeOrig = None THEN HeadSha ELSE files.mergeOrig
    IN  /\ MayStart("merge_abort") /\ files.mergeHead # None
        /\ Run("merge_abort", ReplaceTracked(TreeAt(original)) \o ClearMerge(Index(TreeAt(original))),
               "end", <<>>)
        /\ Ends("aborted") /\ work' = None

(***************************************************************************)
(* cherry-pick and revert                                                  *)
(***************************************************************************)
Conflicted(r) == Applied(r) \o Put("conflicts", r.clashes) \o Put("index", WithStages(r))

CherryPick(c, noCommit) ==
    LET r == ThreeWay(ParentTree(c), TreeAt(c))
    IN  /\ MayStart("cherry_pick") /\ Ready
        /\ HeadSha # None /\ Len(log[c].parents) <= 1
        /\ CASE r.clashes # {} ->
                   Run("cherry_pick", Conflicted(r) \o Put("cherry", [source |-> c, before |-> HeadSha]),
                       "end", <<>>)
             [] r.clashes = {} /\ (Matches(r.index) \/ noCommit) ->
                   Run("cherry_pick", Applied(r), "end", <<>>)
             [] OTHER ->
                   Run("cherry_pick", Applied(r) \o Committed(r.index), "end",
                       <<Record(r.index.staged, HeadAndMergeHead, log[c].msg)>>)
        /\ Begins("cherry-pick", None, c) /\ work' = None

CherryContinue ==
    /\ MayStart("cherry_continue") /\ files.cherry # None /\ files.conflicts = {}
    /\ IF HeadSha = None \/ Matches(files.index)
       THEN Run("cherry_continue", Clear("cherry", files.index), "end", <<>>)
       ELSE Run("cherry_continue", Committed(files.index), "end",
                <<Record(files.index.staged, HeadAndMergeHead, log[files.cherry.source].msg)>>)
    /\ Ends("finished") /\ work' = None

CherryAbort ==
    /\ MayStart("cherry_abort") /\ files.cherry # None
    /\ LET before == TreeAt(files.cherry.before)
       IN  Run("cherry_abort", ReplaceTracked(before) \o Clear("cherry", Index(before)) \o ClearConflicts,
               "end", <<>>)
    /\ Ends("aborted") /\ work' = None

\* A revert in conflict leaves no state: neither conflicts nor stages.
Revert(c) ==
    LET r == ThreeWay(TreeAt(c), ParentTree(c))
    IN  /\ MayStart("revert") /\ Ready
        /\ HeadSha # None /\ Len(log[c].parents) <= 1
        /\ IF r.clashes # {} \/ Matches(r.index)
           THEN Run("revert", Applied(r), "end", <<>>)
           ELSE Run("revert", Applied(r) \o Committed(r.index), "end",
                    <<Record(r.index.staged, HeadAndMergeHead, NewCommit)>>)
        /\ Unrelated /\ work' = None

(***************************************************************************)
(* rebase                                                                  *)
(***************************************************************************)
\* Moving the branch before the state is written (a faulty StateFirst).
MoveFirst(state, moved) == moved \o state

StateFirst(state, moved) == state \o moved

\* Picking the same commit again (a faulty Rest).
All(pending) == pending

Rest(pending) == Tail(pending)

Rebase(onto) ==
    LET b == files.head
        Onto(base) ==
            LET path == FirstParents(log, HeadSha, base)
                state == [branch   |-> b,
                          original |-> HeadSha,
                          onto     |-> onto,
                          pending  |-> [i \in DOMAIN path |-> path[Len(path) + 1 - i]],
                          current  |-> None]
                moved == ReplaceTracked(TreeAt(onto)) \o SetBranch(b, onto)
            IN  \/ base = HeadSha /\ Run("rebase", moved, "end", <<>>)
                \/ /\ base # HeadSha /\ OnFirstParents(log, HeadSha, base) /\ Linear(log, path)
                   /\ Run("rebase", StateFirst(Put("rebase", state), moved), "replay", <<>>)
    IN  /\ MayStart("rebase") /\ Ready
        /\ b \in Branches /\ HeadSha # None /\ onto \notin {None, HeadSha}
        /\ \E base \in MergeBases(log, HeadSha, onto) :
              base # onto /\ Onto(base) /\ Begins("rebase", base, onto)
        /\ work' = None

NotStopped == Put("rebase", [files.rebase EXCEPT !.current = None])

\* _continue_rebase, first the commit it had stopped at.
RebaseContinue ==
    /\ MayStart("rebase_continue") /\ files.rebase # None
    /\ LET source == files.rebase.current
       IN  CASE source = None ->
                  Run("rebase_continue", <<>>, "replay", <<>>)
             [] source # None /\ files.conflicts = {} /\ Matches(files.index) ->
                  Run("rebase_continue", NotStopped, "replay", <<>>)
             [] source # None /\ files.conflicts = {} /\ ~Matches(files.index) ->
                  Run("rebase_continue", Committed(files.index) \o NotStopped, "replay",
                      <<Record(files.index.staged, HeadAndMergeHead, log[source].msg)>>)
             [] OTHER -> FALSE
    /\ UNCHANGED begun /\ work' = None

\* _continue_rebase, then every pending commit: one round of its loop. (What commit() checks
\* holds: no commit is picked while there are conflicts.)
Replay ==
    LET source == Head(files.rebase.pending)
        picking == [files.rebase EXCEPT !.pending = Rest(@), !.current = source]
        picked == Put("rebase", [picking EXCEPT !.current = None])
        r == ThreeWay(ParentTree(source), TreeAt(source))
        Then(todo, then, new) ==
            /\ job' = [job EXCEPT !.todo = Put("rebase", picking) \o todo, !.then = then]
            /\ log' = log \o new
    IN  /\ job.then = "replay" /\ job.todo = <<>> /\ files.rebase.pending # <<>>
        /\ CASE r.clashes # {} ->
                   Then(Conflicted(r), "end", <<>>)
             [] r.clashes = {} /\ Matches(r.index) ->
                   Then(Applied(r) \o picked, "replay", <<>>)
             [] OTHER ->
                   Then(Applied(r) \o Committed(r.index) \o picked, "replay",
                        <<Record(r.index.staged, HeadAndMergeHead, log[source].msg)>>)
        /\ UNCHANGED <<files, begun, work, left>>

EndReplay ==
    /\ job.then = "replay" /\ job.todo = <<>> /\ files.rebase.pending = <<>>
    /\ job' = [job EXCEPT !.todo = Clear("rebase", files.index), !.then = "end"]
    /\ Ends("finished")
    /\ UNCHANGED <<files, log, work, left>>

RebaseSkip ==
    LET index == [staged |-> TreeAt(HeadSha), unmerged |-> {}]
    IN  /\ MayStart("rebase_skip") /\ HeadSha # None
        /\ files.rebase # None /\ files.rebase.current # None
        /\ Run("rebase_skip", Put("index", [files.index EXCEPT !.unmerged = {}])
                              \o Put("worktree", Restored(index.staged, PathsOf(files.index.staged),
                                                         files.worktree))
                              \o Put("index", index) \o ClearConflicts \o NotStopped, "replay", <<>>)
        /\ Unrelated /\ work' = None

RebaseAbort ==
    /\ MayStart("rebase_abort") /\ files.rebase # None
    /\ LET s == files.rebase
           original == TreeAt(s.original)
       IN  Run("rebase_abort", ReplaceTracked(original) \o SetBranch(s.branch, s.original)
                               \o Put("head", s.branch) \o Clear("rebase", Index(original))
                               \o ClearConflicts, "end", <<>>)
    /\ Ends("aborted") /\ work' = None

(***************************************************************************)
(* bisect                                                                  *)
(***************************************************************************)
\* The commit to test: the middle of the suspects, counted from the bad end.
Candidate(bad, good) ==
    LET path == FirstParents(log, bad, good)
    IN  path[Len(path) \div 2 + 1]

\* _bisect_next: the candidate is checked out before the state is written.
BisectNext(state) ==
    LET c == Candidate(state.bad, state.good)
    IN  (IF state.bad = None \/ state.good = None THEN <<>>
         ELSE ReplaceTracked(TreeAt(c)) \o Put("head", c))
        \o Put("bisect", state)

Bisectable(bad, good) ==
    bad = None \/ good = None \/ (bad # good /\ OnFirstParents(log, bad, good))

BisectStart(bad, good) ==
    /\ MayStart("bisect_start") /\ Ready
    /\ HeadSha # None /\ Bisectable(bad, good)
    /\ Run("bisect_start",
           BisectNext([head |-> files.head, sha |-> HeadSha, bad |-> bad, good |-> good]), "end", <<>>)
    /\ Begins("bisect", None, None) /\ work' = None

BisectMark(kind, c) ==
    LET state == [files.bisect EXCEPT ![kind] = c]
    IN  /\ MayStart("bisect_mark") /\ files.bisect # None /\ Clean
        /\ c # None /\ Bisectable(state.bad, state.good)
        /\ Run("bisect_mark", BisectNext(state), "end", <<>>)
        /\ UNCHANGED begun /\ work' = None

BisectReset ==
    /\ MayStart("bisect_reset") /\ files.bisect # None /\ Clean
    /\ Run("bisect_reset", ReplaceTracked(TreeAt(files.bisect.sha)) \o Put("head", files.bisect.head)
                           \o Put("bisect", None), "end", <<>>)
    /\ Ends("aborted") /\ work' = None

(***************************************************************************)
(* reset, checkout and branches                                            *)
(***************************************************************************)
Reset(mode, c) ==
    LET t == TreeAt(c)
        hard == Replace(t, PathsOf(files.index.staged)) \o ClearMerge(Index(t))
                \o Clear("cherry", Index(t)) \o Clear("rebase", Index(t))
    IN  /\ MayStart("reset")
        /\ Operation = "none" \/ (mode = "hard" /\ Operation # "bisect")
        /\ Simple("reset", MoveHead(c) \o CASE mode = "soft" -> <<>>
                                             [] mode = "mixed" -> Put("index", Index(t))
                                             [] mode = "hard" -> hard)
        /\ Unrelated

ResetPath(p, c) ==
    /\ MayStart("reset_path") /\ Operation = "none"
    /\ p \in PathsOf(TreeAt(c)) \cup PathsOf(files.index.staged)
    /\ Simple("reset_path", Put("index", [files.index EXCEPT !.staged[p] = TreeAt(c)[p]]))
    /\ Unrelated

\* Restoring one path does not resolve its conflict.
CheckoutPath(p, c) ==
    /\ MayStart("checkout_path") /\ TreeAt(c)[p] # Gone
    /\ Simple("checkout_path", Put("worktree", [files.worktree EXCEPT ![p] = TreeAt(c)[p]])
                               \o Put("index", [files.index EXCEPT !.staged[p] = TreeAt(c)[p]]))
    /\ Touches({p})

\* checkout of a branch, or of a commit: whatever is in progress, and whatever is not committed.
Checkout(head, c) ==
    /\ MayStart("checkout")
    /\ Simple("checkout", ReplaceTracked(TreeAt(c)) \o Put("head", head))
    /\ Unrelated

CheckoutOrphan(b) ==
    /\ MayStart("checkout_orphan") /\ b # files.head
    /\ Simple("checkout_orphan", Put("head", b))
    /\ Unrelated

\* branch: creating one moves HEAD to it, and nothing else.
CreateBranch(b, c) ==
    /\ MayStart("branch")
    /\ Simple("branch", SetBranch(b, c) \o Put("head", b))
    /\ Unrelated

RenameBranch(b, new) ==
    LET both == [files.branch EXCEPT ![new] = files.branch[b]]
    IN  /\ MayStart("branch_rename") /\ files.branch[b] # None /\ files.branch[new] = None
        /\ Simple("branch_rename", Put("branch", both)
                                   \o (IF files.head = b THEN Put("head", new) ELSE <<>>)
                                   \o Put("branch", [both EXCEPT ![b] = None]))
        /\ Unrelated

\* Deleting the current branch moves HEAD to another at the same commit, or to the commit.
DeleteBranch(b) ==
    LET twins == {x \in Branches \ {b} : files.branch[x] = files.branch[b]}
        Away(head) == Simple("branch_delete", Put("head", head) \o SetBranch(b, None))
    IN  /\ MayStart("branch_delete") /\ files.branch[b] # None
        /\ CASE b # files.head -> Simple("branch_delete", SetBranch(b, None))
             [] b = files.head /\ twins # {} -> \E x \in twins : Away(x)
             [] OTHER -> Away(files.branch[b])
        /\ Unrelated

(***************************************************************************)
(* stash                                                                   *)
(***************************************************************************)
\* _prev_stash_sha: the last parent, unless it is the commit of the index (None for its message).
Previous(c) ==
    LET parents == log[c].parents
    IN  CASE Len(parents) >= 3 -> parents[3]
          [] Len(parents) = 2 /\ log[parents[2]].msg # None -> parents[2]
          [] OTHER -> None

\* stash_list, newest first.
Stashes ==
    LET at[i \in 1..Len(log)] == IF i = 1 THEN files.stash
                                ELSE IF at[i-1] = None THEN None ELSE Previous(at[i-1])
        depth == Cardinality({i \in 1..Len(log) : at[i] # None})
    IN  [i \in 1..depth |-> at[i]]

\* The paths status reports as staged.
StagedPaths == {p \in Paths : files.index.staged[p] # TreeAt(HeadSha)[p]}

\* Emptying the worktree before the stack has the new entry (a faulty SavedFirst).
ResetFirst(saved, reset) == reset \o saved

SavedFirst(saved, reset) == saved \o reset

\* The files left behind by a push: everything, only what is not staged, or what is staged.
\* Every file of the snapshot is removed or restored, untracked ones too.
StashPush(how) ==
    LET head == TreeAt(HeadSha)
        One(c) == IF c = None THEN <<>> ELSE <<c>>
        index == Record(files.index.staged, One(HeadSha), None)
        stash == Record(files.worktree, One(HeadSha) \o <<NewCommit>> \o One(files.stash), NewCommit + 1)
        unstaged == [p \in Paths |-> IF p \in StagedPaths THEN head[p] ELSE files.worktree[p]]
        kept == [p \in Paths |-> IF p \in StagedPaths /\ files.index.staged[p] # Gone
                                 THEN files.index.staged[p] ELSE head[p]]
        cleaned == Put("worktree", Restored(head, Paths, files.worktree)) \o Put("index", Index(head))
    IN  /\ MayStart("stash_push")
        /\ files.conflicts = {} /\ (Staged \/ Unstaged \/ Untracked # {})
        /\ how = "staged" => Staged
        /\ Run("stash_push",
               SavedFirst(Put("stash", NewCommit + 1),
                          CASE how = "all" -> cleaned
                            [] how = "keep_index" -> cleaned \o Put("worktree", kept) \o Put("index", Index(kept))
                            [] how = "staged" -> Put("worktree", unstaged) \o Put("index", Index(head))),
               "end", <<index, stash>>)
        /\ Unrelated /\ work' = files.worktree

\* The worktree becomes that of the stash, whatever HEAD is now.
Unstash(t) == Put("worktree", Restored(t, PathsOf(files.index.staged), files.worktree))

StashPop ==
    /\ MayStart("stash_pop") /\ files.stash # None /\ Clean
    /\ Simple("stash_pop", Unstash(TreeAt(files.stash)) \o Put("stash", Previous(files.stash)))
    /\ Unrelated

\* With restore_index, the index takes over what its commit held and the worktree still has;
\* an entry made without a HEAD and on no other has the commit of its index for its only parent.
StashApply(i, restoreIndex) ==
    LET t == TreeAt(Stashes[i])
        indexed == Len(log[Stashes[i]].parents) >= 2
        after == Restored(t, PathsOf(files.index.staged), files.worktree)
        held == TreeAt(log[Stashes[i]].parents[2])
        index == [staged   |-> [p \in Paths |-> IF held[p] # Gone /\ after[p] # Gone
                                                THEN held[p] ELSE files.index.staged[p]],
                  unmerged |-> files.index.unmerged \ PathsOf(held)]
    IN  /\ MayStart("stash_apply") /\ Clean
        /\ Simple("stash_apply", Unstash(t) \o IF restoreIndex /\ indexed THEN Put("index", index) ELSE <<>>)
        /\ Unrelated

\* stash_drop: the stack becomes the newest entry that is not dropped, and all below it.
Dropped(i) == CASE Len(Stashes) = 1 -> None
                [] Len(Stashes) > 1 /\ i = 1 -> Stashes[2]
                [] OTHER -> Stashes[1]

StashDrop(i) ==
    /\ MayStart("stash_drop")
    /\ Simple("stash_drop", Put("stash", Dropped(i)))
    /\ Unrelated

\* stash_branch: a branch at HEAD, checked out over any local change; then apply and drop,
\* if no untracked file stands in the way.
StashBranch(b, i) ==
    LET head == TreeAt(HeadSha)
        clean == Restored(head, PathsOf(files.index.staged), files.worktree)
        stash == TreeAt(Stashes[i])
        applied == Put("worktree", Restored(stash, PathsOf(head), clean)) \o Put("stash", Dropped(i))
    IN  /\ MayStart("stash_branch") /\ HeadSha # None
        /\ Simple("stash_branch",
                  SetBranch(b, HeadSha) \o Put("head", b) \o ReplaceTracked(head)
                  \o IF clean = head /\ files.conflicts = {} THEN applied ELSE <<>>)
        /\ Unrelated

StashClear == MayStart("stash_clear") /\ files.stash # None
              /\ Simple("stash_clear", Put("stash", None)) /\ Unrelated

Untrack == MayStart("clean") /\ Untracked # {}
           /\ Simple("clean", Put("worktree", [p \in Paths |-> IF p \in Untracked THEN Gone
                                                              ELSE files.worktree[p]]))
           /\ Unrelated

(***************************************************************************)
(* Specification                                                           *)
(***************************************************************************)
Init ==
    /\ \E s \in Scenarios : files = s.files /\ log = s.log /\ left = s.left
    /\ job = Idle
    /\ begun = None
    /\ work = None

\* What a command may name: HEAD and the branches, and the commits below them.
Tips == ({HeadSha} \cup {files.branch[b] : b \in Branches}) \ {None}
Named == History(log, Tips)

Editing ==
    \/ \E p \in Paths : \E c \in Typed : Edit(p, c)
    \/ \E p \in Paths : Add(p) \/ \E cached \in BOOLEAN : Rm(p, cached)
    \/ \E p, q \in Paths : Mv(p, q)

Committing == Commit \/ Amend \/ \E p \in Paths : CommitOnly(p)

Merging == \/ \E c \in Tips, squash \in BOOLEAN : Merge(c, squash)
           \/ MergeAbort

Picking == \/ \E c \in Named, noCommit \in BOOLEAN : CherryPick(c, noCommit)
           \/ CherryContinue \/ CherryAbort
           \/ \E c \in Named : Revert(c)

Rebasing == \/ \E c \in Tips : Rebase(c)
            \/ RebaseContinue \/ RebaseSkip \/ RebaseAbort

Bisecting == \/ \E bad, good \in Named \cup {None} : BisectStart(bad, good)
             \/ \E kind \in {"bad", "good"} : \E c \in Named : BisectMark(kind, c)
             \/ BisectReset

Moving == \/ \E mode \in {"soft", "mixed", "hard"} : \E c \in Named : Reset(mode, c)
          \/ \E p \in Paths : \E c \in Tips : ResetPath(p, c) \/ CheckoutPath(p, c)
          \/ \E c \in Named : Checkout(c, c)
          \/ \E b \in Branches : files.branch[b] # None /\ Checkout(b, files.branch[b])
          \/ \E b \in Branches : CheckoutOrphan(b) \/ DeleteBranch(b)
          \/ \E b \in Branches : \E c \in Tips : CreateBranch(b, c)
          \/ \E b, new \in Branches : RenameBranch(b, new)

Stashing == \/ \E how \in {"all", "keep_index", "staged"} : StashPush(how)
            \/ StashPop \/ StashClear \/ Untrack
            \/ \E i \in DOMAIN Stashes, restoreIndex \in BOOLEAN : StashApply(i, restoreIndex)
            \/ \E i \in DOMAIN Stashes : StashDrop(i) \/ \E b \in Branches : StashBranch(b, i)

Work == Step \/ Replay \/ EndReplay

Next == Work \/ Interrupted \/ Editing \/ Committing \/ Merging \/ Picking \/ Rebasing
        \/ Bisecting \/ Moving \/ Stashing

\* A command that was started is run by the process, whatever the user does not do.
Spec == Init /\ [][Next]_vars /\ WF_vars(Work)

(***************************************************************************)
(* Properties                                                              *)
(***************************************************************************)
Commits == 1..Len(log)

\* Every file holds what its readers expect, and a commit only names older ones.
TypeOK ==
    /\ files \in FilesOver(Commits)
    /\ Recorded(log)
    /\ job.then \in {"end", "replay"}
    /\ job.then = "replay" /\ job.todo = <<>> => files.rebase # None
    /\ work \in Tree \cup {None}

\* An abort, or the end of a bisect, puts everything back: HEAD, its branch, the index, the
\* tracked files, and no trace of the operation, whatever was edited or staged meanwhile and
\* wherever a command of the operation was cut short, one that was concluding it excepted.
\* (Repository.merge_abort, cherry_pick_abort, rebase_abort, bisect_reset)
AbortRestores ==
    job = Idle /\ begun # None /\ begun.how = "aborted" /\ begun.fresh /\ begun.cut # "at its end" =>
        /\ files.head = begun.head /\ HeadSha = begun.tip
        /\ files.index = [staged |-> TreeAt(begun.tip), unmerged |-> {}]
        /\ ~Unstaged
        /\ Operation = "none" /\ files.conflicts = {}

\* A path that upstream left alone ends as the branch had it, one that every commit of the
\* branch left alone ends as upstream has it, unless the user staged something else.
BothSidesTaken ==
    \A p \in Paths \ begun.touched :
        LET base == TreeAt(begun.base)[p]
            path == FirstParents(log, begun.tip, begun.base)
            result == TreeAt(HeadSha)[p]
        IN  /\ TreeAt(begun.theirs)[p] = base => result = TreeAt(begun.tip)[p]
            /\ (\A i \in DOMAIN path : TreeAt(path[i])[p] = base) =>
                   result = TreeAt(begun.theirs)[p]

\* An operation that stopped at conflicts and was concluded, with nothing cut short, did what
\* it set out to: a merge joins both histories, a rebase brings every change of the branch.
ConclusionsAreWhole ==
    job = Idle /\ begun # None /\ begun.how = "finished" /\ begun.cut = "never" =>
        /\ begun.op = "merge" => {begun.tip, begun.theirs} \subseteq History(log, {HeadSha})
        /\ begun.op = "rebase" => BothSidesTaken

\* What a push is to keep is in the worktree or on top of the stash at every moment.
StashKeepsTheWork ==
    work # None => \/ files.worktree = work
                   \/ files.stash # None /\ TreeAt(files.stash) = work

\* The commits somebody can get back to: by a branch, the stash, or a state file.
Kept == LET Some(c) == {c} \ {None}
            roots == Tips \cup Some(files.stash) \cup Some(files.mergeHead)
                     \cup IF files.rebase = None THEN {} ELSE {files.rebase.original}
        IN  History(log, roots)

Preserving == {"commit", "commit_only", "merge", "cherry_pick", "cherry_continue", "revert", "rebase",
               "rebase_continue", "stash_push", "branch_rename"}

\* The commands that make history lose none: no write of theirs, and no crash between two,
\* leaves a commit out of reach, until a rebase that is done forgets the original branch.
NothingIsForgotten ==
    [][job.cmd \in Preserving /\ (files.rebase = None \/ files'.rebase # None) => Kept \subseteq Kept']_vars

\* A command that has started ends: the loop of a rebase runs out of commits.
CommandsEnd == job # Idle ~> job = Idle

\* Rebase's docstring, crash or not: the commits of the branch are replayed.
RebaseReplaysEverything ==
    job = Idle /\ begun # None /\ begun.how = "finished" /\ begun.op = "rebase" => BothSidesTaken

\* cherry_pick_abort's docstring: the original HEAD is restored.
AbortRestoresHead ==
    job = Idle /\ begun # None /\ begun.how = "aborted" /\ begun.op = "cherry-pick" =>
        HeadSha = begun.tip

\* stash_drop's docstring: the entry is removed from the stack.
StashDropRemoves ==
    [][job.cmd = "stash_drop" /\ job' = Idle /\ left' = left
           => Len(Stashes') = Len(Stashes) - 1]_vars
=============================================================================

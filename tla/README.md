# TLA+ verification of pygit-sha256

`src/pygit/` is a Git-like version control system in Python: SHA-256 objects, loose and
packed; refs, loose and packed; reflogs; an index; the porcelain (commit, merge, rebase,
stash, bisect …), the plumbing, the history queries, and fetch and push over smart HTTP.
There are no threads and no lock files. What is hard about it is that

* every command changes several files of `.pygit/` one after the other, so that a reader in
  another process, an `OSError`, or a kill may meet any prefix of the changes;
* several commands may run at once on one repository, and others push to the server;
* many commands start from what an earlier, perhaps interrupted, command left behind;
* the same question (a merge, a merge base, the commits of a range, what is different in
  the worktree) is answered by several functions written apart.

The modules here model commands as sequences of file operations and check what holds at
every prefix; the queries are functions of the state, checked against definitions and
against each other. TLC checks small instances; TLAPS proves, for all values of the constants, what
the runs check of refs, sessions, branch commands, object maintenance, the porcelain, remotes,
the index and history: all but liveness.

## 1. Inventory

| component | source | state | operations | what makes it correct | modelled in |
|---|---|---|---|---|---|
| ref transactions | `ref_transaction.py` | loose ref files, `packed-refs`, `logs/`, `HEAD` | `update-ref` batches, `symbolic-ref` set / delete | all or nothing between operations; exact rollback; no symbolic cycles; logs follow refs | `RefImage`, `RefPlan`, `RefTransaction`; abstractly `RefMap` |
| update-ref sessions | `ref_transaction.update_refs`, `ref_batch.py` | queue, `explicit`, `prepared`, `no-deref`, rejections | option, start, prepare, commit, abort, commands, EOF | a commit is planned on the refs as they are then; rejections belong to their transaction | `UpdateRefSession` |
| packed refs | `packed_refs.py` | `packed-refs`, loose ref files | `pack_refs`, `remove_packed_refs` | packing changes no value a reader sees | `PackRefs`, `RefImage` |
| ref store | `refs.py`, `branch_checkout.py`, `branch_*_previous_cli.py`, `checkout_previous_cli.py` | the same files, branch sections of the config | create, reset, rename, move, copy, delete, check out and pack branches, `@{-N}` | what fails is undone, what is moved survives, HEAD keeps its commit | `BranchMoves` |
| object store | `store.py`, `pack.py` | loose objects, packs, indexes, multi-pack-index | write, read, exists, enumerate | an object that has a copy can be read | `ObjectStore` |
| maintenance | `gc.py`, `repack.py`, `prune.py`, `prune_packed.py`, `reflog_expire.py`, `multi_pack_index*.py`, `fsck.py` | the object store, the reflogs | gc, repack, prune, prune-packed, reflog expire, midx write / expire / repack | nothing a root or a log record leads to is lost | `ObjectMaintenance` |
| porcelain | `repo.py` | `HEAD`, branches, index, worktree, `MERGE_HEAD`, `CHERRY_PICK_HEAD`, rebase, bisect and stash state | commit, merge, cherry-pick, revert, rebase, reset, checkout, stash, bisect, branch, clean | an abort leads back to the start, a conclusion is whole, no commit and no stashed work is lost | `Trees`, `Porcelain` |
| merging | `merge_tree.py`, `merge_file.py`, `read_tree_merge.py`, `repo.py` | none | three-way merges of trees and texts | both sides survive; the implementations agree | `MergeLines`, `MergeTrees` |
| index | `index.py`, `index_plumbing.py`, `checkout_index.py`, `diff_plumbing.py`, `tree_plumbing.py`, `status_*.py`, `repo.py` | entries, conflict stages, worktree | update-index, read-tree, checkout-index, write-tree, add, rm, mv, and the views of them | updates of the worktree lose no work; the views tell one story | `IndexPlumbing` |
| history | `revision.py`, `graph_query.py`, `rev_list*.py`, `name_rev.py`, `fork_point.py`, `commit_graph.py`, `repo.py` | commits, shallow file, tags, commit-graph | merge-base and its modes, rev-list and its filters, log, describe, for-each-ref, name-rev, revision grammars | agree with their definitions and with each other | `Dag`, `RevList`, `Names`, `Histories` |
| remotes | `remote.py`, `repo.py` | two repositories, `native-map.json`, tracking refs, remote sections | clone, fetch, pull, push, remote add / rename / remove / prune | objects arrive before the names that need them; no push drops history | `RemoteSync` |
| bundles, alternates | `bundle.py`, `alternates.py` | files | export, import; lookup in other object directories | — | not modelled |
| helpers | `hooks.py`, `config.py`, `rerere.py`, `notes.py`, `sparse.py`, `lfs.py`, `worktree.py`, submodules | small files | get / set | — | not modelled |
| command line | `cli.py`, `entrypoint.py`, `launcher.py`, `*_cli.py` … | none | parsing, dispatch, formatting | — | not modelled |

Interaction. The porcelain writes objects through the store, moves refs through the ref
store (not through transactions), appends reflogs, saves the index and writes the worktree.
Maintenance takes its roots from refs, index, shallow file and reflogs, and removes what
nothing leads to. Remotes add objects and move tracking refs. `update-ref`, `symbolic-ref`
and `pack-refs` work on the same files as the ref store. None of them excludes another.

The behaviours that are hard to test, each at its line and with the properties that cover
it, are the `hazards` of `PROJECT.json`.

## 2. Modules

*Refs.* `RefImage` is the ref files and how they are read: `Raw` (loose over packed),
`Physical` (the walk over at most 32 symbolic files), `Resolved`, and packed-records
removal. `RefPlan` is the planner of `update-ref` and the guards of `symbolic-ref`.
`RefMap` is the abstract specification: a map from names to values on which an accepted
batch, or symbolic edit, takes effect in one step. `RefTransaction` is `_apply_updates`,
one file operation per step, with `OSError` → `Restore` and `Crash`; it refines `RefMap`
(`BatchesAreAtomic`), mapping the abstract map to the image of the files between
operations and to the image before the operation during one. `UpdateRefSession` is the
command stream of `update-ref --stdin`, plain and `--batch-updates`; a publication is one
step there, as `RefTransaction` shows it may be taken, and other processes commit between
commands. `PackRefs` is `pack_refs`: select, snapshot, write `packed-refs`, unlink loose
files, rollback, crash, and other processes replacing loose refs at any moment.
`BranchMoves` is the branch commands as lists of writes (`job.todo`) planned from the files
as found and made one at a time; a write raises where a directory is in the way of a file
or a file in the way of a directory, or when the disk fails. `branch -m` and `-c` of a
previous checkout restore their snapshots; the other commands stop where they are.

*Objects.* `ObjectStore` has loose objects, packs, indexes, the multi-pack-index, `Reads`
and `Exists` as `store.py` decides them, `Closure`, `Connected` and `Healthy` as `fsck.py`
does. A pack is named by the set of its objects because `PackWriter` is deterministic.
`ObjectMaintenance` is one maintenance process running the `Pipeline` of a command, stage
by stage and file by file; `Interrupted` may end it anywhere. `Write` and `Move` are the
other commands, `TimePasses` the retention periods.

*Porcelain.* `Trees` has the three-way merge of trees, the checkout of one and the walks of
`Repository` over history. `Porcelain` has its commands: each reads what it needs and then
makes its writes one by one (`job.todo`); `Interrupted` may come before any write; a rebase
plans the replay of its next commit when the writes of the last are done (`job.then`). The
ghosts `begun` (the operation in progress, where it began, how it ended) and `work` (what a
stash took) serve the properties.

*Index and merging.* `MergeLines` is the merge of texts in both its forms: by cluster of
edits (`merge_file_data`) and by pair of edits (`_merge_lines_three_way`). `MergeTrees` is
the decision per path in its three forms: `read-tree -m`, `merge-tree`, and
`_apply_three_way`. `IndexPlumbing` is the commands on the index: one step builds and saves
an index whole, the writes to the worktree are made in path order and those before a
failure stay. Its views (`diff-files`, `diff-index`, `ls-files`, `status`,
`checkout-index --temp`) are functions of the state.

*History.* `Dag` is the history as `graph_query.py` and `revision.py` see it, the shallow
file included, with merge bases each the way its function computes them; `RevList` the
functions of the `rev_list*.py` modules and `Repository.log`, for a query that is a record
of filters; `Names` is name-rev, describe, for-each-ref, `branch --contains` and the three
revision grammars. `Histories` lets every history grow commit by commit and asks the
queries in every state.

*Remotes.* `RemoteSync` has the processes of one repository, which share its files, and a
server that others push to. A command reads its files and the advertisement, then makes its
requests and writes one by one, and may be cut short before any of them. Native (SHA-1) and
local (SHA-256) names are contents, so equal objects are equal values; an object is a
record that carries all that is `under` it, as the hash it is named by covers. An annotated
tag and a signed commit lose on import what the code drops. `Converted` is the conversion
both importer and exporter do, from the objects known upwards.

Operators marked *a faulty …* (`CandidateAlone`, `RenderEdits` …) say what a plausible
mistake would do and are used by no action: each shows that the property named with it in
`PROJECT.json` (`mutants`) notices the mistake.

`MC…` modules hold the instances, `…Proofs` modules the theorems. `PorcelainInvariants` has the
inductive invariants of `PorcelainProofs` and the notions they are made of.

## 3. Runs

| run | question | bounds, and why they are enough |
|---|---|---|
| `ref_transaction` | is a batch atomic, is its rollback exact, do logs follow refs, whatever fails | 3 names and HEAD, 3 objects, 17 batches that meet symbolic refs, packed copies, a detached HEAD and expectations, 9 symbolic edits, an `OSError` at any step, 2 operations (the second starts from what the first left) |
| `symref_depth` | what does a call refused for depth after its write leave, with failures and crashes | one chain of 32 files and the name that makes it 33, written by batches, set and deleted |
| `pack_refs` | does packing change what anyone reads, and what can a concurrent update lose | every mode (all, includes, excludes, prune), loose over stale packed, 2 concurrent updates, 2 invocations, kills |
| `update_ref_session` | do sessions commit whole revalidated transactions | streams of 4 commands and controls (start, command, prepare, commit need 4), 1 foreign commit |
| `branches` | is a failed branch command undone, is anything lost by one that is killed | `main`, `a` and `a/b` (one name beneath another), `a` loose, packed, or loose over older packed; 2 commits, 3 commands, 1 failing write, with or without a kill of its undoing, or 1 kill, `@{-1}` and `@{-2}` |
| `object_maintenance` | does any maintenance command, or two in a row, lose an object or a record | 4 objects (two commits and their trees, one commit once on a branch), 2 branches with reflogs and an index root without, 3 layouts (scattered, abandoned branch, overlapping packs), 2 commands, 2 steps by others (write what is already there, then use it), 1 lapse of the grace periods |
| `porcelain` | do aborts restore, are conclusions whole, is anything forgotten, does every command end | two branches that diverged, a free name, 2 paths; 5 scenarios of 2 or 3 commands with up to 2 edits by the user and 1 kill: conflicts and none, bisecting, stashing, and every command once before and after every other |
| `plumbing` | do the mergers and the views agree, do updates of the worktree lose work | every merge of texts over 3 base lines and 2 added ones, and of modes, binary contents and an added line; `d`, `d/x` and `x`, 5 groups of commands, 2 or 3 commands, up to 2 edits |
| `histories` | do the queries agree with their definitions and each other | every history of 5 commits from one root, of 4 from two roots, of 4 with a clone, a tag and a commit-graph; clocks that go back, object ids against the order of creation, 8 filters: criss-cross merges need 5 commits, a gap in a walk by time 4 |
| `remote` | do names have their objects, does a push drop history, is what fetch claims true | 2 processes (symmetric), 6 scenarios of 2 or 3 commands, up to 2 commits, 1 change on the server and 1 kill, plain, signed and tagged contents, 2 remotes |
| `gc_ends_healthy`, `annotated_tag_fetch` | the findings below | the smallest instance that shows each |

All configurations disable TLC's deadlock check because every behaviour ends when its
bounds are used up (an ended session, no commands left); within the bounds an operation
that has begun can always take a step.

Fairness. `Porcelain` assumes `WF_vars(Work)`: a command that has begun is run by its
process to its end, as nothing in the code waits for another process; nothing is assumed of
the user, who need not start one. `CommandsEnd` is what can fail under it: the loop of a
rebase must run out of commits. No other run assumes fairness: their properties are safety
properties, and their commands have no loop but over a list fixed when they start.

### What they show

*Refs.* Between operations readers see each batch whole or not at all, in every mix of
direct and symbolic commands (`BatchesAreAtomic`); during an operation a ref shows its old
or planned value or, for a ref being deleted or made symbolic, the packed copy its file was
shadowing (`ReadersSeeOldOrNew`); an `OSError` restores everything (`RollbackIsExact`); the
last log record is the value of the ref (`LogEndsWithValue`); a batch cannot assemble a
symbolic cycle from harmless writes (`ResolvableAtRest`). Of what is refused at the depth
limit, one call is refused too late: `set_symbolic_ref` has written a 33rd file by then, and
nothing undoes it; that file and the packed copy of its name are all that changes
(`LateRefusalsAreContained`). Packing is invisible at every step and after every crash but one
during its rollback, for each ref no other process touches (`PackingIsInvisible`). There are two
ways to lose an update of another process: pruning unlinks the ref it replaced, or the rollback
writes its snapshots of all selected refs over it, unlinked or not. In the rollback, and for
good after a kill there, a ref that was unlinked may be missing although nobody touched it. A
ref that does not read as asked for is one of these (`OnlyOverwrittenUpdatesAreLost`).

*Sessions.* A transaction that was prepared, or whose commands were checked as they came,
is refused at its commit only when another process interfered
(`CheckedTransactionsCommit`); queue and rejections are the commands read since the
transaction began (`TransactionOwnsItsCommands`); commits are revalidated
(`CommitsAreRevalidated`).

*Branches.* A move or copy that fails puts every file back, unless one branch lies beneath
the other, a file lies where the source's ref or log would need a directory, or a copy lands
on the unborn branch of HEAD (`FailureRestores`); a branch being
moved has its commit, history and config under one of its names at every moment
(`SourceSurvives`); HEAD resolves to its commit through the writes of a command that is
not about HEAD and of its rollback, with one exception (`HeadKeeps`): when a move of the current branch is
undone, `_restore_paths` puts HEAD back on the old name before the ref of that name, so HEAD
leads to no commit in between (or to a packed value the ref's file hid), and a kill there, or
a rollback that stops, leaves it so. Logs tell how refs got where they are (`LogsTell`).

*Objects.* Everything a root or log record leads to stays readable, and to the end of a gc
also what its own expiry let go (`ProtectedStaysReadable`), apart from objects a concurrent
command came upon and used without writing them: `store.write` keeps the age of an existing
file, so a prune that has already planned may take it. Only prune ever loses an object,
reachable or not (`OnlyPruneLosesObjects`), although packs, indexes and the
multi-pack-index are replaced file by file; during multi-pack-index maintenance its entries
lead to packs that exist (`MappedCopiesExist`); records leave the logs by the cutoffs only
(`OnlyExpiryDropsRecords`).

*Porcelain.* Aborting puts back HEAD, branch, index and files whatever came before, if the
operation began with nothing left of an earlier one cut short (an old `MERGE_ORIG` or
unmerged entries, which no guard looks at and an abort would go by) and no command was cut
short while it concluded this one (`AbortRestores`); a merge or
rebase that stopped at conflicts and was concluded brought both sides
(`ConclusionsAreWhole`); what a stash is to keep is in the worktree or on the stack at every
moment (`StashKeepsTheWork`); the commands that make history put no commit out of reach,
killed anywhere (`NothingIsForgotten`).

*Index and merging.* What one merger settles the others settle alike, but for one text
under two modes (`MergeWaysAgree`); a clean merge has all lines of either side but what the other
deleted, in its order, and a conflict can be resolved to either side (`BothSidesSurvive`); a forced checkout makes the worktree
what the index says or shows why not (`ForcedCheckout`); read-tree -u takes only contents
that HEAD has (`UpdateLosesNoWork`); the views tell one story (`ViewsAgree`).

*History.* All ways to a merge base agree with the definition (`BasesAreBest`); limits,
order, children, boundary and objects of rev-list fit together (`StreamsArePaged`,
`ChildrenAgree`, `BoundaryCloses`, `ObjectsSuffice`); log, for-each-ref, branch, describe
and the commit-graph agree with reachability, and so does ahead_behind of histories that share a
commit, up to merges; of histories that share none it counts (0, 0) (`WalksAgree`); names resolve to what they
name in each grammar (`NamesResolve`).

*Remotes.* What fetch says it has, it has, while no two native objects are one commit
(`HavesAreClosed`); every name has its objects after every write (`NamesAreStored`);
tracking refs name what was there (`TrackingWasThere`); a push that is not forced keeps
history (`UnforcedPushKeepsHistory`).

### Findings

* `GcEndsHealthy`: gc of a healthy, undisturbed repository can leave one that its own fsck
  rejects, and that every later gc and repack refuses: prune decides by age object by
  object, so an old blob goes while a recent unreachable tree that names it stays.
* `FetchFindsItsObjects`: an annotated tag is imported as the commit it names, and
  `native-map.json` keeps one of the two native names; the next fetch announces it, and
  looks up what the server then leaves out in vain.

### Other departures

These definitions state what a docstring or a note of the repository says and the code does
not keep. No configuration lists them; to see a counterexample, put the definition in the
place of the properties of the configuration.

| definition | configuration | what happens |
|---|---|---|
| `DeletionHidesPackedValue` | `RefTransaction.cfg` with `Faults = {"oserror", "crash"}`, `MaxRounds = 1` | while a ref is deleted, its older packed value shows |
| `RefusalChangesNothing` | `SymrefDepth.cfg` with `Faults = {"oserror"}` | a chain of 33 files is refused after it was written |
| `ExistsAgreesWithRead` | `ObjectMaintenance.cfg` with `MaxSteps = 0`, `MaxTimes = 0` | behind a stale multi-pack-index `exists` raises for objects `read` finds |
| `OrphansAreIgnored` | the same | the orphan pack of an interrupted repack blocks later maintenance |
| `RebaseReplaysEverything` | `Porcelain.cfg` | a rebase killed before HEAD moved, and continued, replays the branch where it was and leaves upstream out |
| `AbortRestoresHead` | `Porcelain.cfg` | a commit killed before it cleared the cherry-pick stays when the cherry-pick is aborted |
| `StashDropRemoves` | `Porcelain.cfg` | dropping an entry other than the newest leaves the stack as it was |
| `MoveRestores` | `BranchMoves.cfg` | a move that fails over a name beneath the other does not restore it; nor one of a packed `a/b` while there is a file `a`, as the rollback stops at that file |
| `AddAddConflicts` | `Plumbing.cfg` | a path both sides added merges with no conflict |
| `IdenticalEditsOnce` | `Plumbing.cfg` | where the modes differ on the two sides, a line that both inserted is in the merge twice: `_apply_three_way` compares whole entries, and two insertions at one place, equal or not, follow each other |
| `SidesAreKept`, `LogFollowsFirstParents`, `AheadBehindCounts` | `Histories.cfg` | `--children` ignores a side filter; a filtered first-parent log follows second parents; merges make ahead and behind count too many, and unrelated histories none |

Each module's `TypeOK`, and `RollbackIsPossible` and `RecordsCoverLooseRefs` of the proofs,
can be added to any configuration in the same way, and hold.

## 4. Proofs

Assumptions: the named `ASSUME`s of the modules only. Names, objects and sentinels are
distinct; batches, commands, files, requests and scenarios have their types; the bounds are
naturals. Maintenance starts on a typed database that has what roots and logs lead to, as
`fsck` requires (`StatesAreComplete`); branch commands on disks that are trees of files
(`StartsAreDisks`) whose logs tell their refs (`StartsTell`), a name beneath a name beneath
a third being beneath that (`UnderIsOrder`); the merge of two contents is a content
(`LineMergesAreContent`). The branches and tags of a server are finitely many, and its
branch begins with a commit without parents (`FiniteNames`, `Beginnings`). On the index:
the paths are the members of a finite order, lying beneath is a strict order on them, and joining
two of them is a path or nothing (`OrderIsOfPaths`, `BeneathIsOrder`, `JoinsArePaths`); contents
are texts, no line twice in one, and the lines two of them share in one order, for which difflib
finds the edits that `Edits` says (`ContentsAreTexts`). An object id names one commit
(`OidsAreDistinct`). TLC evaluates each of them for its instance. Two theorems on
transactions have hypotheses about the refs found at first, as the code repairs nothing
(`InitialRefsResolve`, `InitialLogsEnd`); `MCRefTransaction` assumes both of its instance.

* `RefTransactionProofs`: `TypeCorrect` (`TypeOK`). `RollbackAlwaysPossible`
  (`RollbackIsPossible`) is the inductive argument: while an operation runs, a path outside
  its snapshots is as it was found, each snapshot holds what was found, and everything yet
  to be written has a snapshot; each action writes only a path of that footprint.
  `RollbackExact` (`RollbackIsExact`) follows: the rollback removes a snapshot as it
  restores it, so when none is left every path is as it was found.
  `Atomic` (`BatchesAreAtomic`): the publisher refines `RefMap` as long as
  the process is not killed (`"crash" \notin Faults`; after a kill it does not). What readers
  see between operations is the image of the files at rest and of the files found while an
  operation runs. `BatchInv` says that the plan is one `RefMap` accepts, with one change per
  ref; which loose files are as planned and which as found; and that `packed-refs` is as
  found until it loses the records that would show through. When the logs are done, and also
  when logging raises, the image is the projection of the plan (`ShowsProjection`); a
  rollback ends where it began. The operators `RefMap` plans with are shown equal to those
  of `RefPlan` one by one. `ReadersSee` (`ReadersSeeOldOrNew`) holds after kills too: each
  file is as found or as planned whatever the others are (`EachOldOrNew`).
  `NoCyclesAtRest` and `Resolvable` (`ResolvableAtRest`): a cycle is a nonempty set of
  symbolic refs each of which names one of them. Only a command that makes a ref symbolic
  can close one, and it is refused then; the rest of a batch takes links away. Without a
  cycle at most 32 refs are resolved within 31 hops, as fewer refs lie beyond each hop than
  beyond the one before. With more refs a longer chain may be stored, as `symref_depth`
  shows. `LogsFollowRefs` (`LogEndsWithValue`): the values of the changed refs and their
  logs are followed together through the apply and log stages (`LogInv`). These three too
  are about a process that is not killed.
* `RefCommandsProofs`, of pack-refs: `PackTypesKept` (`PackTypeOK`); `PackingInvisible` and `RecordsCover` from one inductive
  invariant. `PackingIsInvisible` alone is not inductive: that unlinking a loose file is
  harmless rests on what `packed-refs` holds by then, and that on what `records` held
  before it was written (`RecordsCoverLooseRefs`), and a rollback needs in addition that
  the snapshots hold the values asked for. `OnlyOverwrittenAreLost`
  (`OnlyOverwrittenUpdatesAreLost`) is about other processes at work, failures and kills
  anywhere. Its strengthening: a selected ref keeps a loose file until `packed-refs` is written,
  and the records of the refs not selected are those of `packed-refs` (`LooseStays`); there is a
  snapshot of every selected ref until the rollback begins with `packed-refs`, and its
  snapshot has the other records as they are (`SnapshotsHold`).
* `RefCommandsProofs`, of sessions: `CheckedCommit` (`CheckedTransactionsCommit`) and
  `TransactionOwns` (`TransactionOwnsItsCommands`), inductive together with the types of
  the queues. The base of every transaction is that an empty queue plans on any refs
  (`EmptyQueueIsPlanned`); each command of a checked transaction was planned with all
  before it, and only `moved` lets the refs differ from those it was planned on.
  `CommitsRevalidate` (`CommitsAreRevalidated`): a queue that plans on the refs of the moment
  has no faulty command, and the batch it makes has the same commands in the order of
  their names, so `RefMap` accepts it; that planning stops at the first fault is shown with
  the least one.
* `BranchMovesProofs`: `TypeCorrect`, `SourceAlwaysSurvives` (`SourceSurvives`),
  `FailuresAreUndone` (`FailureRestores`), `LogsAreTold` (`LogsTell`) and `HeadIsKept`
  (`HeadKeeps`). The plan of a command is a list of writes, and no invariant names its
  prefixes one by one; `Passes` says instead that the writes lead from disk to disk, each
  of which is good: shaped, a tree (no file above another), with the source alive and what
  is not the command's untouched. A plan that was made passes up to the write that must
  raise, if there is one (`Fine`, `Dead`), and a step takes the first disk off. For a
  rollback, `Back` says which snapshots bring the disk back to the one the command found;
  it stops only at a file where a directory is needed (`StuckIs`). The proof showed which
  failures the code does not restore: hence `Restorable` in the property. `HeadIsKept` asks of each
  disk of a plan that HEAD leads to its commit (`HeadThere`), and of each disk
  of a rollback that it does, or that HEAD is back too early (`HeadBack`).
* `ObjectMaintenanceProofs`: `OnlyPruneLoses` (`OnlyPruneLosesObjects`). However stale the
  multi-pack-index is, what is readable is what is loose or in a complete pair
  (`StoredIsReadable`), so a step loses nothing while those stay. That they do is not
  provable from the property alone: `StageInv` says what each stage relies on from its plan
  to its last file. The new pack is not indexed yet, or is in place and contains all that
  go; each object of an expiring pack is in a pair that stays; a target that may be
  uninstalled has only spare copies; the loose files prune unlinks are aged, those of
  prune-packed are packed. Other commands only add loose objects, which keeps all of it.
  `MappedCopies` (`MappedCopiesExist`): the index in place and the one kept
  aside both lead to pairs that stay (`MidxInv`).
  `OnlyExpiryDrops` (`OnlyExpiryDropsRecords`), from what the plan and the
  undo copies of the logs hold while other commands append (`LogInv`); and `ProtectedStays`
  (`ProtectedStaysReadable`), which needs four facts at once (`SafeInv`): records leaving
  the logs are remembered as roots of the run; what a command wrote itself is young; the
  chosen victims are wanted again only if found; and what is kept is readable or found. The
  closure under links is treated by its definition as the smallest closed set.
* `PorcelainProofs`: `TypeCorrect` (`TypeOK`): every command, the loop of a rebase included,
  plans writes of the kinds their files hold, and commits that name older ones. That
  replaying ends, and that the walks over history stay in it, is shown by least
  counterexamples. `StashKeepsIt` (`StashKeepsTheWork`): the entry is written before the
  worktree is reset, and an apply puts all of it in the worktree before a pop drops it
  (`StashInv`). `NothingForgotten` (`NothingIsForgotten`): a planned list of writes is safe
  (`Safe`, the largest relation that allows it) if no prefix of it drops what is reachable,
  unless it ends a rebase; each plan of the commands that make history is safe where it was
  made (`KeepInv`).
  `AbortsRestore` (`AbortRestores`): from its first write until it ends,
  an operation's own state file is the only one and names where the operation began
  (`Standing`); every other command is refused or its writes keep to that (`Fits`); the
  writes of an abort `Lead` back to HEAD, branch, index and files as they were, and those of
  a conclusion to a state with no operation, whatever the user edited between.
  `ConclusionsWhole` (`ConclusionsAreWhole`): the property speaks of the end only, so
  `WholeInv` says where the writes still planned lead to (`EndsWell`); `Moves(X, s, Y)`, that
  the writes `s` take any files in `X` to files in `Y`, puts a plan together from its parts.
  A rebase is `Along` its line, the way by first parents from the old tip to the base: with
  `n` commits still pending, each path upstream left alone is as the last picked commit has
  it, and each one the branch never changed is as upstream has it (`Right`). A pick keeps
  that (`PickIsRight`): a path of which either was claimed is changed on one side only, so
  it is in no conflict, and the merge takes that side.
* `RemoteSyncProofs`: `TypeCorrect`, `MapsAreClosed` (`HavesAreClosed`),
  `StoredWithHistory` (`NamesAreStored`), `TrackingIsPast` (`TrackingWasThere`) and
  `PushKeepsHistory` (`UnforcedPushKeepsHistory`), from one invariant (`IInv`). None of them
  is inductive alone: what a fetch or a push writes was settled when it began, so the
  invariant says of every job that what it has still to write is right for the objects
  stored, the objects on the server and what its branches have been by now (`Task`,
  `Pending`). These three only grow, whatever other processes, other users and kills do, and
  nothing pending is made wrong by more of them (`TaskGrows`): this is what makes any
  interleaving harmless. Objects go first, so the rest of a list counts on them. A push
  that is being sent is right once the server has what is under the new value, which
  accepting it ensures. Below that are the conversions, recursive functions over an object's
  history: every nonempty set of objects of a history has a lowest one (`Lowest`), which
  serves for induction. The history of an import is the import of the history
  (`ImportedHistory`), whatever was known (`ImportedKnown`); an export imported is the commit
  again (`ExportedComesBack`); a walk meets every object of a history or one known above it
  (`WalkedCovers`), which is why the map is closed and why the old value of an unforced push
  is under the new one (`SentKeepsOld`). The case of two native objects that become one
  commit, where `HavesAreClosed` promises nothing, is carried along as `PlainOn`.

* `IndexPlumbingProofs`: `TypeCorrect` (`TypeOK`), in which the worktree is a tree: only a
  directory has anything beneath it (`Worktrees`). `Written` is a recursive function over the
  order of the paths; `WrittenSteps` gives its results one write after another, and what holds of
  the first and passes from each to the next holds of the last (`UpTo`). `LosesNoWork`
  (`UpdateLosesNoWork`): in a worktree that `_ensure_clean_worktree` let pass every file has the
  contents of HEAD (`CleanIsHead`), so whatever a write replaces, or a removal takes, is there.
  `Forced` (`ForcedCheckout`): after some writes (`Halfway`) each path that was due is as the
  index has it, or is still what it was, and a write fails only at something that was in the way
  before the first (`InTheWay`); an earlier write can be in the way of a later one only if the
  index has a path beneath another. `Views` (`ViewsAgree`): the topmost of a set of directories
  exists, as one with the least number of directories above it (`TopmostExists`), which is why
  collapsing each untracked file to its outermost untracked directory gives what the walk of
  `ls-files --directory` gives (`CollapsesAgree`); the code of a conflict is read off its stages
  (`CodesAre`), and `TempSides` compares it with the stages `checkout-index --temp` writes.
  `MergersAgree` (`MergeWaysAgree`): the mergers of trees differ where one side left the text
  alone, as merge-tree then takes the other side and merge still weaves. So the theorem needs
  that weaving the edits of one text into its base makes that text (`OneSideChanged`): after
  the edits found up to some line of the base, the text so far and the base up to that line
  are the text up to the place of the line in it (`WalkMakes`). The recursions of `Edits` and
  `WovenEdits` are given as their results one after another (`Iterated`, `EditsFound`,
  `WovenIs`); an edit once found stays (`FoundFirst`). `SidesSurvive` (`BothSidesSurvive`): for
  each side, every stretch of the woven text is the side's own, or a change of the other's in
  place of lines one of them deleted, or a conflict that reads as the side's stretch (`Piece`),
  and such pieces join (`PiecesJoin`). The walk keeps what each side makes of the base so far
  as one such piece (`Reached`): an edit alone (`OneTakes`), or a cluster with both sides
  rendered in full (`TwoTakes`). A cluster takes in every edit that overlaps it (`ClusterEnds`),
  and what `Render` gives of a side is exactly what the side has there (`StretchRendered`).
  That the two forms of the walk agree rests on one fact: the sides of a cluster read the same
  only if both made one and the same edit (`StartsAgree`, `EndsAgree`), so `merge-file`, which
  compares the rendered texts, and `_merge_lines_three_way`, which compares the edits, find the
  same conflicts (`StepsAgree`). The theorems on merges are, like the model, of texts that
  repeat no line and move none against one another (`ContentsAreTexts`): between others the
  edits depend on which lines difflib chooses to keep.

* `HistoriesProofs`: `BasesBest` (`BasesAreBest`). Descent is a partial order that the numbers
  of the commits extend (`AncestorsDescend`, `AncestorsBelow`), whatever is shallow, and
  `Distances` measures just what lies below a commit (`DistancesDomain`). A list sorted by a
  total order of a finite set holds each member once, in order (`Places`, `SortedIs`); object
  ids break every tie, so both orders of candidates are total. `_best_common` goes from later
  generations to earlier ones: what lies below another candidate lies below a maximal one
  (`MaximalAbove`), which is of a later generation (`GenerationFalls`) and was met before
  (`BestSoFar`). That the recursive functions exist is one lemma for all (`RecursionDefines`).
  The lists: `StreamsPaged` (`StreamsArePaged`), `ChildrenAlike` (`ChildrenAgree`),
  `BoundariesClose` (`BoundaryCloses`) and `ObjectsEnough` (`ObjectsSuffice`) rest on one
  reduction. Whichever of the functions answers, and in whatever order it filters and limits,
  it answers the ordered walk, filtered by side, parents and age, then cut, then turned
  (`StreamIs`). A filter keeps the order and repeats nothing (`WithinIs`, `Listing`); cutting
  `m` and then `n` off a list is cutting `m + n` off it (`PagesJoin`), and the cut of a
  reversed page is taken before it is turned. `TopoOrder` always finds a commit all of whose
  children are out, the one of the largest number left (`ReadyIs`), so it puts out every
  commit, once, after its children (`TopoOrderLists`); and as a range is closed upwards - below a
  commit of it that is left out, nothing is in it (`SelectedEnds`) - after all in it that descend from
  it (`TopoAncestors`). Walks are treated as the least sets closed under the parents followed
  (`WalkStaysIn`, `WalkHolds`, `WalkGoesOn`): every way from an excluded start into a listing
  leaves it through the boundary (`BoundaryStandsFor`), and what was asked for and is not
  listed was excluded (`ExcludedIs`), so its objects are there (`ObjectsComplete`).
  `NamesLeadBack` (`NamesResolve`): of the ways to a commit there is a first of the shortest
  (`ShortestFirst`), and it passes commits, each a parent of the one before (`WaysLead`). What
  an item of a suffix does is said once, as a relation (`ItemLeads`): the text built for a way
  leads along it, an item replaced by a longer one included (`SuffixLeads`), and each grammar goes
  where a suffix leads (`ItemsFollow`, `ReadingsResolve`).
  `WalksAllAgree` (`WalksAgree`) is about what the code computes with queues. A queue keeps its
  promise if all that leads on from what was seen is seen or waiting (`LogWell`, `Frontier`): at the
  end nothing waits, so what was seen is closed, and is the whole walk (`LogWalkIs`, `SearchIs`). It
  ends because a commit is seen once and adds two parents at most, which is an invariant of the
  histories (`ParentsOK`). In the order of `--topo-order` what waits is just what may come next
  (`Queued`); it is never empty too soon, by `ReadyIs` again. Breadth first is shortest first, so
  the search of `describe` stops at the fewest edges (`SearchForOne`). Ahead and behind count
  what a walk meets before the base, if there is one (`CountedCover`), and without merges the base
  has all below it (`AheadIs`). That a generation lies above those of all parents is kept by every commit
  made after the graph was written (`GraphOK`).

What the proofs changed in the model: `stash_apply` restores the index only from an entry
that has it (`len(parents) >= 2`), `cherry_continue` is among the commands that make history,
other processes in a session commit only while HEAD can be read, and `Restorable` and
`begun.fresh` say when a move and an abort can put things back. An object of `RemoteSync`
has what is `under` it, instead of a recursive operator that finds it. `ForcedCheckout` failed
to be provable of a checkout that fails: `update-index --index-info` adds a path without
looking for one beneath it, so an index can have both `d` and `d/x`, and writing the one
is then what stops the other, although the worktree shows nothing in the way. The property says
so now (`Blocking(Tracked)`). `MergeWaysAgree` could not be proved of one text under two modes,
as it is not so (`IdenticalEditsOnce`).

Out of the provers' reach: liveness, ENABLED, recursive operators, and induction by the
library's theorems. Least elements replace it where a proof needed it: what is defined by
recursion over the positions of a sequence is reasoned about through its least
counterexample (`LeastOf`, `UpTo`).
The modules with theorems therefore use no `RECURSIVE` operator: the 32-step walk is
composed by doubling, and walks, queues, conversions, clusters and writes are recursive functions.
`Pick`, `Within` and `Survivors`, which state what can be read of a merged text, are recursive functions
over its lines too, as the provers have no definition of `FoldLeft` and `SelectSeq`; what they
read of two texts one after the other is what they read of each (`ReadNext`, `SurvivorsJoin`, `PicksJoin`).

Only model-checked: `CommandsEnd` (liveness) and `LateRefusalsAreContained`.

## 5. Not modelled

* Encodings (objects, packs, the `-z` stream, reflog lines, index, commit-graph), damaged
  files and the checks that skip or refuse them, name validation, messages.
* Refs: two publishers interleaved, and torn in-place writes. The code promises nothing for
  either. Temporary files are invisible, as `os.replace` makes them; a write in place is
  one step.
* Maintenance: `repack -a` without `-d`, `.keep` files, selection of packs by size, a
  second maintenance process, alternates.
* Porcelain: autosquash and `rebase_todo`, `stash_create` and `stash_store`, sparse
  checkout, end-of-line and LFS filters, rerere, `filter_branch`, ignored files, file modes.
  A hook that fails is an interruption. Commands write HEAD's log in `BranchMoves` only.
* Index: sizes and times of the stat cache, links and submodules in the worktree, `mv` of a
  directory, `checkout-index --prefix`, ignore rules; a concurrent or torn save.
* Branches: the worktree of a checkout (`Porcelain` has it), packing file by file
  (`PackRefs` has it).
* History: pathspecs, patterns on messages and authors, formats.
* Remotes: bundles, HTTP and pkt-line framing, deltas, SSH, shallow depth.
* Helpers and command line: small files without multi-step state, external programs,
  parsing and output.

## 6. What could come next

1. Merges of texts that repeat or move lines, with difflib's choice of what to keep.
2. Two maintenance processes; `remove_packed_refs` racing `pack_refs`.
3. `Alternates`, `Bundle`, `rebase_todo`, sparse checkout.

--------------------------- MODULE IndexPlumbing ---------------------------
(***************************************************************************)
(* The commands that work on the index by hand: update-index, read-tree    *)
(* (-m, -u, --prefix), checkout-index, write-tree and the add, rm and mv   *)
(* of Repository, with the views of diff-files, diff-index, ls-files and   *)
(* status. A command builds the new index and saves it whole: it is one    *)
(* step. Its writes to the worktree are made one by one in the order of    *)
(* the paths, and a command that fails among them leaves those it made.    *)
(* Sizes and times are left out, and links and submodules in the worktree. *)
(***************************************************************************)
EXTENDS MergeTrees

CONSTANTS Order,       \* the paths, sorted
          Join(_, _),  \* the path of that name in a directory; None if it is out of Paths
          Directory,   \* a directory of the worktree
          None,
          Contents,    \* what a file may contain
          Typed,       \* what the user may put in a file
          Given,       \* the entries named on a command line
          Scenarios    \* trees, index and worktree to start from, and what may be done to them

ASSUME OrderIsOfPaths == Order \in Seq(Paths) /\ {Order[i] : i \in DOMAIN Order} = Paths

\* What lies in a directory lies in those above it.
ASSUME BeneathIsOrder == \A p, q, r \in Paths : /\ ~Beneath(p, p)
                                                /\ Beneath(p, q) /\ Beneath(q, r) => Beneath(p, r)

ASSUME JoinsArePaths == None \notin Paths /\ \A p, q \in Paths : Join(p, q) \in Paths \cup {None}

ASSUME NoneIsNoSet == \A ps \in SUBSET Paths : ps # None

Blobs == [oid : Contents, mode : File]

Tree == [Paths -> Blobs \cup {Gone}]

ASSUME SentinelsAreDistinct == Gone # Directory /\ {Gone, Directory} \cap (Contents \cup Blobs) = {}

ASSUME BlobsAreGiven == Typed \cup Given \subseteq Blobs /\ None \notin File

ASSUME ContentsAreTexts == \A u, v \in Contents : u \in Seq(Lines(u)) /\ Alike(u, v)

Stagings == [Paths -> [1..3 -> Blobs \cup {Gone}]]

\* A worktree: what is not gone lies in directories.
Worktrees == {w \in [Paths -> Blobs \cup {Gone, Directory}] :
                 \A p, q \in Paths : w[p] # Gone /\ Beneath(p, q) => w[q] = Directory}

Commands == {"cacheinfo", "index-info", "force-remove", "update-index", "read-tree", "read-tree --prefix",
             "read-tree -u", "read-tree --prefix -u", "read-tree -m", "read-tree -m3", "write-tree",
             "checkout-index", "add", "rm", "mv"}

\* What last says of a command, or of the user.
Names == Commands \cup {"checkout-index -a", "checkout-index -a -f", "edit", "none"}

ASSUME ScenariosAreTyped == \A s \in Scenarios :
    /\ s.entries \in Tree /\ s.worktree \in Worktrees
    /\ s.trees \in [base : Tree, ours : Tree, theirs : Tree]
    /\ s.allowed \in SUBSET Commands /\ s.commands \in Nat /\ s.edits \in Nat

VARIABLES entries,  \* stage 0
          unmerged, \* stages 1, 2 and 3
          worktree,
          trees,    \* base, ours (that of HEAD) and theirs
          last,     \* the last command and whether it succeeded
          left      \* the commands there may still be, and the edits

vars == <<entries, unmerged, worktree, trees, last, left>>

Stages == 1..3
NoStages == [s \in Stages |-> Gone]
NoneUnmerged == [p \in Paths |-> NoStages]

Unmerged == {p \in Paths : unmerged[p] # NoStages}
Tracked == PathsOf(entries) \cup Unmerged

(***************************************************************************)
(* The worktree                                                            *)
(***************************************************************************)
Dirs(p) == {q \in Paths : Beneath(p, q)}

IsFile(w, p) == w[p] \notin {Gone, Directory}

Files(w) == {p \in Paths : IsFile(w, p)}

CanWrite(w, p) == w[p] # Directory /\ \A q \in Dirs(p) : ~IsFile(w, q)

Put(w, p, e) == [q \in Paths |-> IF q = p THEN e ELSE IF q \in Dirs(p) THEN Directory ELSE w[q]]

\* _restore_tree makes a file executable, and never takes that from it.
Restore(w, p, e) ==
    Put(w, p, IF IsFile(w, p) /\ w[p].mode = "100755" THEN [e EXCEPT !.mode = "100755"] ELSE e)

\* _remove_worktree_file: directories stay.
Removed(w, ps) == [p \in Paths |-> IF p \in ps /\ IsFile(w, p) THEN Gone ELSE w[p]]

\* checkout-index: the mode is that of the entry.
CheckOut(w, p, e) == Put(w, p, e)

\* The write of p, after r: restored, or checked out.
WriteNext(r, p, ps, t, force, restores) ==
    IF p \notin ps \/ ~r.ok THEN r
    ELSE IF ~CanWrite(r.files, p) \/ (IsFile(r.files, p) /\ ~force) THEN [r EXCEPT !.ok = FALSE]
    ELSE [r EXCEPT !.files = IF restores THEN Restore(r.files, p, t[p]) ELSE CheckOut(r.files, p, t[p])]

\* The files of ps written in order, up to the first that cannot be.
Written(w, ps, t, force, restores) ==
    LET upTo[i \in 0..Len(Order)] ==
            IF i = 0 THEN [files |-> w, ok |-> TRUE]
            ELSE WriteNext(upTo[i - 1], Order[i], ps, t, force, restores)
    IN  upTo[Len(Order)]

(***************************************************************************)
(* diff-index, diff-files, ls-files and status                             *)
(***************************************************************************)
Oid(e) == IF e \in {Gone, Directory} THEN e ELSE e.oid

DiffCached(t) == {p \in Paths : t[p] # entries[p]}

DiffFiles == {p \in PathsOf(entries) : worktree[p] # entries[p]}

DiffIndex(t) == {p \in PathsOf(t) \cup PathsOf(entries) : worktree[p] # t[p]}

Deleted == {p \in PathsOf(entries) : worktree[p] = Gone}

\* _is_modified: the content or the mode.
Modified == {p \in PathsOf(entries) : worktree[p] # Gone /\ worktree[p] # entries[p]}

Others == Files(worktree) \ Tracked

\* The directories that --directory shows instead of what is in them.
WhollyUntracked == {d \in Paths : /\ worktree[d] = Directory
                                  /\ \A p \in Tracked : p # d /\ ~Beneath(p, d)}

Topmost(ds) == {d \in ds : ~\E e \in ds : Beneath(d, e)}

NonEmpty(d) == \E p \in Files(worktree) : Beneath(p, d)

OthersDirectory(noEmpty) ==
    LET shown == Topmost({d \in WhollyUntracked : noEmpty => NonEmpty(d)})
    IN  [dirs |-> shown, files |-> {p \in Others : ~\E d \in shown : Beneath(p, d)}]

Killed == {p \in Others : \E q \in Tracked : Beneath(q, p) \/ Beneath(p, q)}

\* status reads the file of every entry, and fails on a directory.
StatusFails == \E p \in PathsOf(entries) : worktree[p] = Directory

Staged == {p \in Paths : Oid(trees.ours[p]) # Oid(entries[p])}
Unstaged == {p \in PathsOf(entries) : Oid(worktree[p]) # Oid(entries[p])}
Untracked == Others

\* Untracked files are not looked at (a faulty Clean).
CleanIndex(tracked) == ~StatusFails /\ Staged = {} /\ Unstaged = {}

\* _ensure_clean_worktree
Clean(tracked) == ~StatusFails /\ Staged = {} /\ Unstaged = {} /\ Files(worktree) \subseteq tracked

\* Entries in stages 1, 2 and 3 are forgotten (a faulty Collapsed).
CollapsedByEntries(ps) ==
    LET Above(p) == {d \in Dirs(p) : \A q \in PathsOf(entries) : q # d /\ ~Beneath(q, d)}
    IN  [dirs |-> UNION {Topmost(Above(p)) : p \in ps}, files |-> {p \in ps : Above(p) = {}}]

\* _collapse_paths: the first directory above that has nothing tracked stands for the path.
Collapsed(ps) ==
    LET Above(p) == {d \in Dirs(p) : \A q \in Tracked : q # d /\ ~Beneath(q, d)}
    IN  [dirs |-> UNION {Topmost(Above(p)) : p \in ps}, files |-> {p \in ps : Above(p) = {}}]

\* The XY of a path in stages 1, 2 and 3.
ConflictCode(stages) ==
    LET present == {s \in Stages : stages[s] # Gone}
        Is(ss) == present = ss
    IN  CASE Is({1}) -> <<"D", "D">> [] Is({2}) -> <<"A", "U">> [] Is({3}) -> <<"U", "A">>
          [] Is({1, 2}) -> <<"U", "D">> [] Is({1, 3}) -> <<"D", "U">>
          [] Is({2, 3}) -> <<"A", "A">> [] Is(Stages) -> <<"U", "U">>

Letter(old, new) == CASE old = new -> " "
                      [] old # new /\ old = Gone -> "A"
                      [] old # new /\ new = Gone -> "D"
                      [] OTHER -> "M"

\* status_records: an unmerged path shows its stages, and an untracked one ?? whatever is staged.
Code(p) ==
    IF p \in Unmerged THEN ConflictCode(unmerged[p])
    ELSE IF p \in Untracked THEN <<"?", "?">>
    ELSE <<Letter(Oid(trees.ours[p]), Oid(entries[p])),
           IF entries[p] = Gone THEN " " ELSE Letter(Oid(entries[p]), Oid(worktree[p]))>>

StatusPaths == {p \in Paths : Code(p) # <<" ", " ">>}

(***************************************************************************)
(* Commands. One that fails before it saves the index changes nothing but  *)
(* what it wrote to the worktree.                                          *)
(***************************************************************************)
MayRun(cmd) == cmd \in left.allowed /\ left.commands > 0

Spend == left' = [left EXCEPT !.commands = @ - 1] /\ UNCHANGED trees

Done(cmd) == last' = [cmd |-> cmd, ok |-> TRUE]
Failed(cmd) == last' = [cmd |-> cmd, ok |-> FALSE]

Index(e, u) == entries' = e /\ unmerged' = u

\* The index changed, the worktree not.
Saved(cmd, e, u) == Index(e, u) /\ UNCHANGED worktree /\ Done(cmd) /\ Spend

Unsaved(cmd, w) == worktree' = w /\ UNCHANGED <<entries, unmerged>> /\ Failed(cmd) /\ Spend

\* _drop_path
Without(f, p, nothing) == [f EXCEPT ![p] = nothing]

\* _check_path_conflict
Conflicts(paths, p) == \E q \in paths \ {p} : Beneath(p, q) \/ Beneath(q, p)

(***************************************************************************)
(* update-index                                                            *)
(***************************************************************************)
\* --cacheinfo: stage 0 is set, the other stages stay.
CacheInfo(p, e) ==
    /\ MayRun("cacheinfo")
    /\ ~Conflicts(Tracked, p)
    /\ Saved("cacheinfo", [entries EXCEPT ![p] = e], unmerged)

\* --index-info: one stage.
IndexInfo(p, s, e) ==
    /\ MayRun("index-info")
    /\ ~Conflicts(Tracked, p)
    /\ Saved("index-info", entries, [unmerged EXCEPT ![p][s] = e])

\* --force-remove, and --index-info with mode 0: every stage.
ForceRemove(p) ==
    /\ MayRun("force-remove")
    /\ p \in Tracked
    /\ Saved("force-remove", Without(entries, p, Gone), Without(unmerged, p, NoStages))

\* update-index --add --remove --chmod <path>: what the worktree has.
UpdateIndex(p, add, remove, chmod) ==
    /\ MayRun("update-index")
    /\ \/ /\ worktree[p] = Gone
          /\ p \in Tracked /\ remove
          /\ Saved("update-index", Without(entries, p, Gone), Without(unmerged, p, NoStages))
       \/ /\ IsFile(worktree, p)
          /\ p \in Tracked \/ add
          /\ ~Conflicts(Tracked, p)
          /\ Saved("update-index",
                   [entries EXCEPT ![p] = IF chmod = None THEN worktree[p]
                                          ELSE [worktree[p] EXCEPT !.mode = chmod]],
                   Without(unmerged, p, NoStages))

(***************************************************************************)
(* read-tree                                                               *)
(***************************************************************************)
\* read-tree <tree>, read-tree --empty: the conflict stages go too.
ReadTree(t) == MayRun("read-tree") /\ Saved("read-tree", t, NoneUnmerged)

Prefixed(d, t) == [p \in Paths |-> IF \E q \in PathsOf(t) : Join(d, q) = p
                                   THEN t[CHOOSE q \in PathsOf(t) : Join(d, q) = p] ELSE Gone]

\* Refused over an entry, and beneath one.
MayPrefix(d, t) ==
    LET new == PathsOf(Prefixed(d, t))
    IN  /\ PathsOf(t) # {} /\ \A q \in PathsOf(t) : Join(d, q) # None
        /\ new \cap PathsOf(entries) = {}
        /\ \A p \in new : Dirs(p) \cap (PathsOf(entries) \cup new) = {}

\* read-tree --prefix=d <tree>
ReadTreePrefix(d, t) ==
    LET new == Prefixed(d, t)
    IN  /\ MayRun("read-tree --prefix")
        /\ MayPrefix(d, t)
        /\ Saved("read-tree --prefix",
                 [p \in Paths |-> IF new[p] # Gone THEN new[p] ELSE entries[p]], unmerged)

\* read-tree -u <tree>: the conflict stages are forgotten; from a clean worktree, the files of the
\* index that the tree has not are removed, then those of the tree written.
ReadTreeUpdate(t) ==
    LET r == Written(Removed(worktree, PathsOf(entries) \ PathsOf(t)), PathsOf(t), t, TRUE, TRUE)
    IN  /\ MayRun("read-tree -u")
        /\ Clean(PathsOf(entries))
        /\ IF r.ok THEN /\ worktree' = r.files
                        /\ Index(t, NoneUnmerged)
                        /\ Done("read-tree -u") /\ Spend
           ELSE Unsaved("read-tree -u", r.files)

\* read-tree --prefix=d -u <tree>: the directory is made first.
ReadTreePrefixUpdate(d, t) ==
    LET new == Prefixed(d, t)
        r == Written(worktree, PathsOf(new), new, TRUE, TRUE)
    IN  /\ MayRun("read-tree --prefix -u")
        /\ Clean(Tracked)
        /\ MayPrefix(d, t)
        /\ IF r.ok THEN /\ worktree' = r.files
                        /\ Index([p \in Paths |-> IF new[p] # Gone THEN new[p] ELSE entries[p]], unmerged)
                        /\ Done("read-tree --prefix -u") /\ Spend
           ELSE Unsaved("read-tree --prefix -u", r.files)

\* A path whose staged change would be overwritten.
Overwritten(h, m, p) == ~(entries[p] = h[p] \/ h[p] = m[p] \/ entries[p] = m[p])

\* An empty index is filled from a tree that did not change.
InitialCheckout(h, m, p) == PathsOf(entries) = {} /\ h[p] = m[p] /\ m[p] # Gone

TwoWay(h, m) ==
    [p \in Paths |-> IF InitialCheckout(h, m, p) \/ entries[p] = h[p] THEN m[p] ELSE entries[p]]

\* read-tree -m <h> <m>
ReadTreeTwoWay(h, m) ==
    /\ MayRun("read-tree -m")
    /\ Unmerged = {}
    /\ Blocking(PathsOf(h) \cup PathsOf(m) \cup PathsOf(entries)) = {}
    /\ \A p \in Paths : ~Overwritten(h, m, p)
    /\ Saved("read-tree -m", TwoWay(h, m), NoneUnmerged)

\* read-tree -m [--aggressive] <base> <ours> <theirs>: the index is replaced.
ReadTreeThreeWay(aggressive) ==
    LET Settles(p) == Resolved(trees.base[p], trees.ours[p], trees.theirs[p], aggressive)
    IN  /\ MayRun("read-tree -m3")
        /\ Blocking(PathsOf(trees.base) \cup PathsOf(trees.ours) \cup PathsOf(trees.theirs)) = {}
        /\ Saved("read-tree -m3",
                 [p \in Paths |-> IF Settles(p)
                                  THEN Resolution(trees.base[p], trees.ours[p], trees.theirs[p])
                                  ELSE Gone],
                 [p \in Paths |-> IF Settles(p) THEN NoStages
                                  ELSE <<trees.base[p], trees.ours[p], trees.theirs[p]>>])

\* write-tree: refused while a path is unmerged. The tree becomes the one to read next.
WriteTree ==
    /\ MayRun("write-tree")
    /\ Unmerged = {} /\ Blocking(PathsOf(entries)) = {}
    /\ trees' = [trees EXCEPT !.theirs = entries]
    /\ left' = [left EXCEPT !.commands = @ - 1]
    /\ Done("write-tree") /\ UNCHANGED <<entries, unmerged, worktree>>

(***************************************************************************)
(* checkout-index                                                          *)
(***************************************************************************)
At(stage) == IF stage = 0 THEN entries ELSE [p \in Paths |-> unmerged[p][stage]]

Matching(paths, names) == {p \in paths : \E n \in names : p = n \/ Beneath(p, n)}

AllMatch(paths, names) == \A n \in names : Matching(paths, {n}) # {}

\* The paths of --all, or of names that all match.
Selections(t) == {PathsOf(t)} \cup {Matching(PathsOf(t), names) : names \in
                                       {ns \in SUBSET Paths : ns # {} /\ AllMatch(PathsOf(t), ns)}}

\* checkout-index: entry by entry, up to the first that cannot be written.
CheckoutIndex(stage, paths, force, noCreate) ==
    LET todo == {p \in paths : noCreate => worktree[p] # Gone}
        r == Written(worktree, todo, At(stage), force, FALSE)
    IN  /\ MayRun("checkout-index")
        /\ worktree' = r.files
        /\ UNCHANGED <<entries, unmerged>>
        /\ last' = [cmd |-> IF stage = 0 /\ paths = PathsOf(entries) /\ ~noCreate
                            THEN IF force THEN "checkout-index -a -f" ELSE "checkout-index -a"
                            ELSE "checkout-index", ok |-> r.ok]
        /\ Spend

\* checkout-index --temp, of one stage or, with --stage=all, of the three of a conflict: the paths
\* that get files, None when a name matches nothing. Under --stage=all a name may match paths that
\* are not in conflict; these get none. No names stand for --all.
TempPaths(stages, names) ==
    LET from == UNION {PathsOf(At(s)) : s \in stages}
        known == IF stages = Stages THEN Tracked ELSE from
    IN  IF ~AllMatch(known, names) THEN None
        ELSE IF names = {} THEN from ELSE Matching(from, names)

\* The contents written for a path, each to a file of its own.
TempFiles(stages, p) == {<<s, At(s)[p].oid>> : s \in {r \in stages : At(r)[p] # Gone}}

(***************************************************************************)
(* add, rm and mv of Repository                                            *)
(***************************************************************************)
\* add: a file, or every file in a directory; each settles its path.
Add(p) ==
    LET found == IF IsFile(worktree, p) THEN {p} ELSE {q \in Files(worktree) : Beneath(q, p)}
    IN  /\ MayRun("add")
        /\ worktree[p] # Gone
        /\ Saved("add", [q \in Paths |-> IF q \in found THEN worktree[q] ELSE entries[q]],
                 [q \in Paths |-> IF q \in found THEN NoStages ELSE unmerged[q]])

\* rm: the index is saved before the file is unlinked, which fails for a directory.
Rm(p, cached) ==
    /\ MayRun("rm")
    /\ p \in Tracked
    /\ Index(Without(entries, p, Gone), Without(unmerged, p, NoStages))
    /\ worktree' = IF cached THEN worktree ELSE Removed(worktree, {p})
    /\ last' = [cmd |-> "rm", ok |-> cached \/ worktree[p] # Directory]
    /\ Spend

\* mv of a file, into a directory when dst is one: dst gets what the file has now.
Mv(src, dst, force) ==
    LET to == IF worktree[dst] = Directory THEN Join(dst, src) ELSE dst
    IN  /\ MayRun("mv")
        /\ IsFile(worktree, src) /\ entries[src] # Gone
        /\ to \notin {None, src}
        /\ CanWrite(worktree, to) /\ (worktree[to] # Gone => force)
        /\ ~Beneath(to, src)
        /\ worktree' = Removed(Put(worktree, to, worktree[src]), {src})
        /\ Index([Without(entries, src, Gone) EXCEPT ![to] = worktree[src]],
                 Without(Without(unmerged, src, NoStages), to, NoStages))
        /\ Done("mv") /\ Spend

(***************************************************************************)
(* The user                                                                *)
(***************************************************************************)
Edited(w) ==
    /\ left.edits > 0
    /\ worktree' = w
    /\ left' = [left EXCEPT !.edits = @ - 1]
    /\ last' = [cmd |-> "edit", ok |-> TRUE]
    /\ UNCHANGED <<entries, unmerged, trees>>

WriteFile(p, e) == CanWrite(worktree, p) /\ Edited(Put(worktree, p, e))

DeleteFile(p) == IsFile(worktree, p) /\ Edited(Removed(worktree, {p}))

\* A directory goes with all that is in it; or a file gives way to a directory.
DeleteDirectory(d) ==
    /\ worktree[d] = Directory
    /\ Edited([p \in Paths |-> IF p = d \/ Beneath(p, d) THEN Gone ELSE worktree[p]])

MakeDirectory(d) ==
    /\ IsFile(worktree, d) \/ worktree[d] = Gone
    /\ \A q \in Dirs(d) : ~IsFile(worktree, q)
    /\ Edited(Put(worktree, d, Directory))

(***************************************************************************)
(* The specification                                                       *)
(***************************************************************************)
Init == \E s \in Scenarios :
    /\ entries = s.entries /\ unmerged = NoneUnmerged
    /\ worktree = s.worktree /\ trees = s.trees
    /\ last = [cmd |-> "none", ok |-> TRUE]
    /\ left = [allowed |-> s.allowed, commands |-> s.commands, edits |-> s.edits]

TreeNames == {"base", "ours", "theirs"}

UpdateIndexCommand == \E p \in Paths :
    \/ \E e \in Given : CacheInfo(p, e) \/ \E s \in Stages : IndexInfo(p, s, e)
    \/ ForceRemove(p)
    \/ \E add, remove \in BOOLEAN, chmod \in {None} \cup File : UpdateIndex(p, add, remove, chmod)

ReadTreeCommand ==
    \/ ReadTree(EmptyTree)
    \/ \E n \in TreeNames : ReadTree(trees[n]) \/ ReadTreeUpdate(trees[n])
    \/ \E n \in TreeNames, d \in Paths :
            ReadTreePrefix(d, trees[n]) \/ ReadTreePrefixUpdate(d, trees[n])
    \/ \E h, m \in TreeNames : ReadTreeTwoWay(trees[h], trees[m])
    \/ \E aggressive \in BOOLEAN : ReadTreeThreeWay(aggressive)

CheckoutIndexCommand == \E s \in 0..3, force, noCreate \in BOOLEAN :
    \E paths \in Selections(At(s)) : CheckoutIndex(s, paths, force, noCreate)

PorcelainCommand == \E p \in Paths :
    \/ Add(p)
    \/ \E cached \in BOOLEAN : Rm(p, cached)
    \/ \E dst \in Paths, force \in BOOLEAN : Mv(p, dst, force)

User == \E p \in Paths :
    \/ \E e \in Typed : WriteFile(p, e)
    \/ DeleteFile(p) \/ DeleteDirectory(p) \/ MakeDirectory(p)

Next == UpdateIndexCommand \/ ReadTreeCommand \/ WriteTree \/ CheckoutIndexCommand
        \/ PorcelainCommand \/ User

Spec == Init /\ [][Next]_vars

TypeOK ==
    /\ entries \in Tree
    /\ unmerged \in Stagings
    /\ worktree \in Worktrees
    /\ trees \in [base : Tree, ours : Tree, theirs : Tree]
    /\ last \in [cmd : Names, ok : BOOLEAN]
    /\ left \in [allowed : SUBSET Commands, commands : Nat, edits : Nat]

(***************************************************************************)
(* Properties                                                              *)
(***************************************************************************)
\* checkout-index --all --force makes the worktree what the index says, modes included; and when it
\* fails, something shows why: a file that ls-files --killed lists, a directory where an entry
\* belongs, or an index with paths both at a name and beneath it.
ForcedCheckout == [][
    last'.cmd = "checkout-index -a -f" /\ left' # left =>
        IF last'.ok THEN DiffFiles' = {}
        ELSE \/ Killed # {} \/ Blocking(Tracked) # {}
             \/ \E p \in PathsOf(entries) : worktree[p] = Directory]_vars

\* read-tree -u, done or failed half-way, takes from the worktree only contents that HEAD has; with
\* --prefix, as long as no path is unmerged.
UpdateLosesNoWork == [][
    LET updated == \/ last'.cmd = "read-tree -u"
                   \/ last'.cmd = "read-tree --prefix -u" /\ Unmerged = {}
    IN  updated /\ left' # left =>
            \A p \in Files(worktree) : \/ Oid(worktree'[p]) = Oid(worktree[p])
                                       \/ Oid(trees.ours[p]) = Oid(worktree[p])]_vars

\* The views of the worktree tell one story: status --untracked-files=normal lists what ls-files
\* --others --directory --no-empty-directory does, the paths of status are those its lists have
\* and those that are unmerged, and a clean worktree with nothing unmerged differs from HEAD in
\* modes alone. checkout-index --temp --stage=all takes the names that status has for conflicts and
\* gives each of them the sides its code speaks of: ours and theirs unless deleted.
ViewsAgree ==
    /\ Collapsed(Untracked) = OthersDirectory(TRUE)
    /\ ~StatusFails => /\ StatusPaths = Staged \cup Unstaged \cup Untracked \cup Unmerged
                       /\ Unstaged \subseteq DiffFiles
    /\ Clean(Tracked) /\ Unmerged = {} => \A p \in DiffIndex(trees.ours) : Oid(worktree[p]) = Oid(trees.ours[p])
    /\ \A p \in Paths :
          /\ (TempPaths(Stages, {p}) = None) <=> (TempPaths({0}, {p}) = None /\ Matching(Unmerged, {p}) = {})
          /\ p \in Unmerged =>
                LET taken == {f[1] : f \in TempFiles(Stages, p)}
                IN  /\ p \in TempPaths(Stages, {}) \cap TempPaths(Stages, {p})
                    /\ (2 \in taken) <=> (Code(p)[1] # "D" /\ Code(p) # <<"U", "A">>)
                    /\ (3 \in taken) <=> (Code(p)[2] # "D" /\ Code(p) # <<"A", "U">>)

\* Where read-tree -m settles a path, merge-tree and merge settle it the same way; and where
\* merge-tree merges a path, merge gets the same text, unless both sides have one text and only
\* their modes differ: merge-tree takes that text, merge what IdenticalEditsOnce is about.
MergeWaysAgree == \A p \in Paths :
    LET b == trees.base[p]  o == trees.ours[p]  t == trees.theirs[p]
    IN  /\ Resolved(b, o, t, TRUE) => /\ MergeEntry(b, o, t) = Settled(Resolution(b, o, t))
                                     /\ Apply(b, o, t) = Settled(Resolution(b, o, t))
        /\ ~Resolved(b, o, t, TRUE) /\ MergeEntry(b, o, t).clash = "none" /\ o.oid # t.oid =>
               /\ Apply(b, o, t).clash = "none"
               /\ Apply(b, o, t).entry.oid = MergeEntry(b, o, t).entry.oid

\* s without the lines that are gone.
Survivors(s, gone) ==
    LET kept[n \in 0..Len(s)] ==
            IF n = 0 THEN <<>> ELSE IF s[n] \in gone THEN kept[n - 1] ELSE Append(kept[n - 1], s[n])
    IN  kept[Len(s)]

\* Whether s can be read in t, lines left out.
Within(s, t) ==
    LET read[n \in 0..Len(t)] ==
            IF n = 0 THEN 0
            ELSE LET i == read[n - 1] IN IF i < Len(s) /\ s[i + 1] = t[n] THEN i + 1 ELSE i
    IN  read[Len(t)] = Len(s)

Deletions(base, side) == Lines(base) \ Lines(side)

\* The two mergers of texts agree on what merges cleanly. A clean merge has all lines of either side
\* but those that the other deleted, in the order of that side, and none that either deleted; and in
\* a conflict of merge-file each side can be taken so, if no line of a text reads like a marker.
\* (_merge_lines_three_way, merge_file_data, _render_cluster)
BothSidesSurvive == \A p \in Paths :
    LET base == TextOf(trees.base[p])
        ours == TextOf(trees.ours[p])
        theirs == TextOf(trees.theirs[p])
        merged == MergeText(base, ours, theirs)
        file == MergeFile(base, ours, theirs, "merge")
        gone == Deletions(base, ours) \cup Deletions(base, theirs)
        Kept(side) == Survivors(side, gone)
    IN  /\ (file.conflicts = 0) = (merged.conflicts = 0) \/ ours = theirs
        /\ merged.conflicts = 0 /\ ours # theirs =>
              /\ merged.text = file.text
              /\ Lines(merged.text) \cap gone = {}
              /\ Within(Kept(ours), merged.text) /\ Within(Kept(theirs), merged.text)
        /\ Markers \cap (Lines(base) \cup Lines(ours) \cup Lines(theirs)) = {} =>
              \A style \in {"merge", "diff3"}, side \in {"ours", "theirs"} :
                  LET own == IF side = "ours" THEN ours ELSE theirs
                      picked == Pick(MergeFile(base, ours, theirs, style).text, side)
                  IN  Within(Kept(own), picked) /\ Lines(picked) \cap Deletions(base, own) = {}

\* INTERNALS.md:222 on the merge of lines: "Identical overlapping edits: Both sides made the same change",
\* "applied once". Sides that have one text have made the same changes, so merge ends with that text.
IdenticalEditsOnce == \A p \in Paths :
    LET b == trees.base[p]  o == trees.ours[p]  t == trees.theirs[p]
    IN  Gone \notin {b, o, t} /\ o.oid = t.oid =>
            /\ Apply(b, o, t).clash = "none"
            /\ Apply(b, o, t).entry.oid = o.oid

\* PHASE129.md:15: "add/add and modify/delete conflicts have the expected asymmetric stage sets". A path that both
\* sides add with different contents is in conflict.
AddAddConflicts == \A p \in Paths :
    trees.base[p] = Gone /\ Gone \notin {trees.ours[p], trees.theirs[p]}
    /\ trees.ours[p].oid # trees.theirs[p].oid
    => Apply(Gone, trees.ours[p], trees.theirs[p]).clash # "none"
=============================================================================

---------------------------- MODULE BranchMoves ----------------------------
(***************************************************************************)
(* Branches as files: the loose refs, packed-refs, HEAD, the reflogs and   *)
(* the branch sections of the config, and the commands that create, reset, *)
(* rename, move, copy, delete, check out and pack branches.  A command     *)
(* plans its writes from the files as it finds them and makes them one at  *)
(* a time.  A write raises when it meets a directory where it wants a file *)
(* or a file where it wants a directory, or when the disk fails; a kill    *)
(* ends the command before any write.  branch -m and -c of a previous      *)
(* checkout (@{-N}) snapshot the files they list and put them back, one at *)
(* a time, when a write raises; the other commands stop where they are.    *)
(***************************************************************************)
EXTENDS Naturals, Sequences, SequencesExt

CONSTANTS Names, Under,     \* branch names; <<m, n>> \in Under: m lies beneath n, as a/b beneath a
          Oids, None,
          Dir,              \* what a path holds that is a directory
          Starts,           \* the disks to start from
          Allowed,          \* the commands that may be given
          MaxCommands, MaxMishaps, MaxSelector

ASSUME UnderIsOrder ==
    /\ Under \subseteq Names \X Names
    /\ \A n \in Names : <<n, n>> \notin Under
    /\ \A l, m, n \in Names : <<l, m>> \in Under /\ <<m, n>> \in Under => <<l, n>> \in Under

ASSUME Distinct == Names \cap Oids = {} /\ {None, Dir} \cap (Names \cup Oids) = {} /\ None # Dir

ASSUME Bounds == MaxCommands \in Nat /\ MaxMishaps \in Nat

VARIABLES disk, \* what every path holds
          job,  \* the command that runs: its writes, and those that would undo it
          last, \* the command begun last, the disk it found and how it ended
          left  \* the commands, and the disk errors and kills, there may still be

vars == <<disk, job, last, left>>

(***************************************************************************)
(* The paths under .pygit                                                  *)
(***************************************************************************)
Config == <<"config", None>>
Packed == <<"packed-refs", None>>
HeadFile == <<"HEAD", None>>
Loose(n) == <<"refs", n>>
Log(ref) == <<"logs", ref>>   \* Log(None) is logs/HEAD

Files == {Config, Packed, HeadFile, Log(None)} \cup {Loose(n) : n \in Names} \cup {Log(n) : n \in Names}

Over(dir, path) == dir[1] = path[1] /\ <<path[2], dir[2]>> \in Under

(***************************************************************************)
(* What the paths hold                                                     *)
(***************************************************************************)
Settings == {None} \cup UNION {{d[Config][n] : n \in Names} : d \in Starts}

\* What a record says happened: a checkout, one recorded by an older version, or anything else.
Messages == [kind : {"other"}]
            \cup [kind : {"legacy"}, to : Names \cup Oids]
            \cup [kind : {"moved"}, from : Names \cup Oids, to : Names \cup Oids]

Records == [old : Oids \cup {None, Dir}, new : Oids \cup {None, Dir}, msg : Messages]

Holds(path) ==
    IF path = Config THEN [Names -> Settings]
    ELSE IF path = Packed THEN [Names -> Oids \cup {None}]
    ELSE IF path = HeadFile THEN Names \cup Oids
    ELSE IF path[1] = "refs" THEN Oids
    ELSE Seq(Records)

ASSUME NothingIsNoFile == \A f \in Files : {None, Dir} \cap Holds(f) = {}

\* Refs and logs may be missing, and those of branches may be directories.
Kept(path) == Holds(path) \cup (IF path[1] \in {"refs", "logs"} THEN {None} ELSE {})

MayHold(path) ==
    Kept(path) \cup (IF path[1] \in {"refs", "logs"} /\ path[2] \in Names THEN {Dir} ELSE {})

Shaped(d) == d = [f \in Files |-> d[f]] /\ \A f \in Files : d[f] \in MayHold(f)

\* What lies above something is a directory.
IsTree(d) == \A f, g \in Files : Over(f, g) /\ d[g] # None => d[f] = Dir

ASSUME StartsAreDisks == \A d \in Starts : Shaped(d) /\ IsTree(d)

\* The disk after a write: the directories above a file are made, those an unlink empties pruned.
After(d, w) ==
    [f \in Files |->
        IF f = w.at THEN w.to
        ELSE IF ~Over(f, w.at) THEN d[f]
        ELSE IF w.to # None THEN Dir
        ELSE IF w.prune /\ \A g \in Files \ {w.at} : Over(f, g) => d[g] = None \/ Over(g, w.at) THEN None
        ELSE d[f]]

(***************************************************************************)
(* Reading                                                                 *)
(***************************************************************************)
\* get_branch: the loose ref, or else the packed one; reading a directory raises.
Value(d, n) == IF d[Loose(n)] # None THEN d[Loose(n)] ELSE d[Packed][n]
HeadValue(d) == IF d[HeadFile] \in Names THEN Value(d, d[HeadFile]) ELSE d[HeadFile]

Readable(d, n) == Value(d, n) # Dir
Exists(d, n) == Value(d, n) \in Oids
Branches(d) == {n \in Names : d[Loose(n)] \in Oids \/ d[Packed][n] # None}

History(d, ref) == IF d[Log(ref)] \in {None, Dir} THEN <<>> ELSE d[Log(ref)]

\* show_reflog: the records of a log, the newest first; and REF@{k}, what the k-th of these led to,
\* None beyond the log's end. A missing log is an empty one.
Shown(d, ref) == Reverse(History(d, ref))

Selected(d, ref, k) == LET shown == Shown(d, ref) IN IF k < Len(shown) THEN shown[k + 1].new ELSE None

\* expand_previous_checkout. A record of "moving from X to Y" names X; one of the older
\* "moving to Y" is read with the help of the record before it, or of the branch that has
\* the commit it came from.  None: there is no such checkout.
BranchFor(d, oid) ==
    LET matches == {n \in Branches(d) : Value(d, n) = oid}
    IN  IF \E n \in Names : matches = {n} THEN CHOOSE n \in matches : TRUE ELSE None

Expand(d, k) ==
    LET checkouts == SelectSeq(Shown(d, None), LAMBDA r : r.msg.kind \in {"moved", "legacy"})
        entry == checkouts[k]
        before == IF k < Len(checkouts) THEN checkouts[k + 1].msg.to ELSE None
    IN  IF k > Len(checkouts) THEN None
        ELSE IF entry.msg.kind = "moved" THEN entry.msg.from
        ELSE IF before \in Names /\ Value(d, before) = entry.old THEN before
        ELSE IF BranchFor(d, entry.old) # None THEN BranchFor(d, entry.old)
        ELSE entry.old

(***************************************************************************)
(* The writes commands are made of.  A plan is the writes so far and the   *)
(* disk they lead to.                                                      *)
(***************************************************************************)
Plan(d) == [disk |-> d, writes |-> <<>>]

Do(p, w) == [disk |-> After(p.disk, w), writes |-> Append(p.writes, w)]
Put(p, path, to) == Do(p, [at |-> path, to |-> to, prune |-> FALSE])
Unlink(p, path) == IF p.disk[path] = None THEN p ELSE Do(p, [at |-> path, to |-> None, prune |-> TRUE])

Note == [kind |-> "other"]
Legacy(to) == [kind |-> "legacy", to |-> to]

\* _native_checkout_message
Moving(d, to) == [kind |-> "moved", from |-> d[HeadFile], to |-> to]

\* _append_reflog
Logged(p, ref, old, new, msg, force) ==
    IF old = new /\ ~force THEN p
    ELSE Put(p, Log(ref), Append(History(p.disk, ref), [old |-> old, new |-> new, msg |-> msg]))

\* set_head_symbolic, set_head_detached
SetHead(p, to, msg) ==
    LET q == Put(p, HeadFile, to)
        was == HeadValue(p.disk)
    IN  IF p.disk[HeadFile] = to /\ was = HeadValue(q.disk) THEN q
        ELSE Logged(q, None, was, HeadValue(q.disk), msg, p.disk[HeadFile] # to)

\* Moving the branch HEAD is on without a record for HEAD (a faulty SetBranch).
SetBranchAlone(p, n, oid) == Logged(Put(p, Loose(n), oid), n, Value(p.disk, n), oid, Note, FALSE)

\* set_branch: the ref, its record, and HEAD's if HEAD is on it.
SetBranch(p, n, oid) ==
    LET q == Logged(Put(p, Loose(n), oid), n, Value(p.disk, n), oid, Note, FALSE)
    IN  IF p.disk[HeadFile] = n THEN Logged(q, None, Value(p.disk, n), oid, Note, FALSE) ELSE q

\* delete_branch: the loose ref, then the packed one. The log stays.
DeleteBranch(p, n) ==
    LET q == Unlink(p, Loose(n))
    IN  IF q.disk[Packed][n] = None THEN q ELSE Put(q, Packed, [q.disk[Packed] EXCEPT ![n] = None])

SetConfig(p, n, v) ==
    IF p.disk[Config][n] = v THEN p ELSE Put(p, Config, [p.disk[Config] EXCEPT ![n] = v])

\* The history of a branch takes the place of another's, and the same-commit record follows.
TakeHistory(p, n, history, oid) ==
    LET q == IF history # <<>> \/ p.disk[Log(n)] # None
             THEN Put(p, Log(n), IF history # <<>> THEN history ELSE None) ELSE p
    IN  Logged(q, n, oid, oid, Note, TRUE)

(***************************************************************************)
(* Moving and copying a branch named by @{-N}                              *)
(***************************************************************************)
\* _move_branch_config: the destination keeps a value it has.
MoveConfig(p, old, new) ==
    IF old = new \/ p.disk[Config][old] = None THEN p
    ELSE LET q == IF p.disk[Config][new] = None THEN SetConfig(p, new, p.disk[Config][old]) ELSE p
         IN  SetConfig(q, old, None)

\* The old ref goes before HEAD leaves it (a faulty MoveHead).
MoveHeadLast(p, old, new) ==
    LET q == DeleteBranch(p, old) IN IF p.disk[HeadFile] = old THEN SetHead(q, new, Note) ELSE q

\* HEAD follows the branch, and then the old ref goes.
MoveHead(p, old, new) ==
    DeleteBranch(IF p.disk[HeadFile] = old THEN SetHead(p, new, Note) ELSE p, old)

\* The old log goes before the new one is written (a faulty MoveLog).
MoveLogFirst(p, old, new, history, oid) == TakeHistory(Unlink(p, Log(old)), new, history, oid)

MoveLog(p, old, new, history, oid) == Unlink(TakeHistory(p, new, history, oid), Log(old))

\* What raises whatever the disk holds.
Refusal == [at |-> Config, to |-> Dir, prune |-> FALSE]

\* _move_branch_ref: the refs, HEAD, then the logs.  The branch HEAD waits on is not forced,
\* and a directory not read as the log; by then the config has moved.
Move(d, old, new, force) ==
    LET oid == Value(d, old)
        p == MoveConfig(Plan(d), old, new)
        q == SetBranch(IF Exists(d, new) THEN DeleteBranch(p, new) ELSE p, new, oid)
    IN  IF d[Log(old)] = Dir \/ (force /\ d[HeadFile] = new) THEN [p EXCEPT !.writes = Append(@, Refusal)]
        ELSE IF old = new THEN Logged(p, new, oid, oid, Note, TRUE)
        ELSE MoveLog(MoveHead(q, old, new), old, new, History(d, old), oid)

\* _copy_branch_config: as above, and the source keeps its own.
CopyConfig(p, source, dest) ==
    IF p.disk[Config][dest] = None THEN SetConfig(p, dest, p.disk[Config][source]) ELSE p

\* _copy_branch_atomically: the ref, the log, then the config.
Copy(d, source, dest) ==
    LET oid == Value(d, source)
    IN  CopyConfig(TakeHistory(SetBranch(Plan(d), dest, oid), dest, History(d, source), oid), source, dest)

\* The files put back, without HEAD's log (a faulty MovePaths).
MovePathsWithoutHeadLog(old, new) ==
    <<Config, Packed, HeadFile, Loose(old), Loose(new), Log(old), Log(new)>>

\* _rename_mutation_paths, _copy_mutation_paths: the files put back when a write raises.
MovePaths(old, new) ==
    <<Config, Packed, HeadFile, Log(None), Loose(old), Loose(new), Log(old), Log(new)>>

CopyPaths(dest) == <<Config, Packed, Loose(dest), Log(dest)>>

\* _snapshot_paths: a directory is no file, and counts as nothing there.
Snapshot(d, paths) ==
    [i \in DOMAIN paths |->
        [at |-> paths[i], to |-> IF d[paths[i]] = Dir THEN None ELSE d[paths[i]], prune |-> FALSE]]

(***************************************************************************)
(* Commands.  One that is refused, or raises before its first write, is no *)
(* step.                                                                   *)
(***************************************************************************)
Idle == [cmd |-> "none", todo |-> <<>>, undo |-> <<>>, undoing |-> FALSE]

Begin(cmd, src, dst, p, undo) ==
    /\ job = Idle /\ cmd \in Allowed /\ left.commands > 0
    /\ p.writes # <<>>
    /\ job' = [cmd |-> cmd, todo |-> p.writes, undo |-> undo, undoing |-> FALSE]
    /\ last' = [cmd |-> cmd, src |-> src, dst |-> dst, disk |-> disk, how |-> "running",
                whole |-> last.whole]
    /\ left' = [left EXCEPT !.commands = @ - 1]
    /\ UNCHANGED disk

Simple(cmd, src, dst, p) == Begin(cmd, src, dst, p, <<>>)

\* commit: the branch HEAD is on, or HEAD itself.
Commit(oid) ==
    LET p == Plan(disk)
    IN  /\ HeadValue(disk) \notin {Dir, oid}
        /\ Simple("commit", None, None,
                  IF disk[HeadFile] \in Names THEN SetBranch(p, disk[HeadFile], oid) ELSE SetHead(p, oid, Note))

\* branch NAME, checkout -b NAME: at HEAD or at another branch. One that exists is moved there.
Create(n, oid) ==
    /\ oid = HeadValue(disk) \/ \E m \in Names : oid = Value(disk, m)
    /\ oid \in Oids
    /\ Readable(disk, n)
    /\ Simple("create", None, n, SetHead(SetBranch(Plan(disk), n, oid), n, Moving(disk, n)))

\* branch -m OLD NEW: neither the log nor the config follows.
Rename(old, new) ==
    LET p == SetBranch(Plan(disk), new, Value(disk, old))
    IN  /\ Exists(disk, old) /\ Value(disk, new) = None
        /\ Simple("rename", old, new, MoveHead(p, old, new))

\* branch -d NAME: HEAD goes to the first other branch with the same commit, or is detached.
Delete(n) ==
    LET same == {m \in Branches(disk) \ {n} : Value(disk, m) = Value(disk, n)}
        p == Plan(disk)
    IN  IF disk[HeadFile] # n THEN Simple("delete", n, None, DeleteBranch(p, n))
        ELSE /\ \A m \in Branches(disk) \cup {n} : Readable(disk, m)
             /\ IF same # {} THEN \E m \in same : Simple("delete", n, None, DeleteBranch(SetHead(p, m, Note), n))
                ELSE Simple("delete", n, None,
                            DeleteBranch(IF Exists(disk, n) THEN SetHead(p, Value(disk, n), Note) ELSE p, n))

\* The commit a branch name or a commit stands for.
Resolved(x) == IF x \in Names THEN Value(disk, x) ELSE x

\* branch [-f] NAME @{-N}
CreateFrom(n, k) ==
    LET oid == Resolved(Expand(disk, k))
    IN  /\ oid \in Oids
        /\ Readable(disk, n)
        /\ Exists(disk, n) => disk[HeadFile] # n
        /\ Simple("create from", None, n, SetBranch(Plan(disk), n, oid))

\* checkout TARGET, and checkout @{-N} with what it expands to: on the branch of that name, or else detached.
Checkout(x) ==
    /\ x \in Names \cup Oids
    /\ Resolved(x) \in Oids /\ HeadValue(disk) # Dir
    /\ Simple("checkout", None, None, SetHead(Plan(disk), x, Moving(disk, x)))

\* checkout --detach @{-N}
Detach(k) ==
    LET x == Expand(disk, k)
    IN  /\ Resolved(x) \in Oids /\ HeadValue(disk) # Dir
        /\ Simple("detach", None, None, SetHead(Plan(disk), Resolved(x), Moving(disk, x)))

\* checkout --orphan NAME
Orphan(n) ==
    /\ HeadValue(disk) # Dir
    /\ Simple("orphan", None, None, SetHead(Plan(disk), n, Note))

\* branch -m/-M @{-N} NEW
MovePrevious(k, new, force) ==
    LET old == Expand(disk, k)
    IN  /\ old \in Names /\ Exists(disk, old) /\ Readable(disk, new)
        /\ ~force => Value(disk, new) = None
        /\ Exists(disk, new) => disk[HeadFile] # new
        /\ Begin("move", old, new, Move(disk, old, new, force), Snapshot(disk, MovePaths(old, new)))

\* branch -c/-C @{-N} DEST: a copy onto itself is allowed.
CopyPrevious(k, dest, force) ==
    LET source == Expand(disk, k)
    IN  /\ source \in Names /\ Exists(disk, source) /\ Readable(disk, dest)
        /\ disk[Log(source)] # Dir
        /\ Exists(disk, dest) /\ dest # source => force /\ disk[HeadFile] # dest
        /\ Begin("copy", source, dest, Copy(disk, source, dest), Snapshot(disk, CopyPaths(dest)))

\* pack-refs --all --prune, whose steps are PackRefs': here in one.
Pack ==
    /\ job = Idle /\ "pack" \in Allowed /\ left.commands > 0
    /\ \E n \in Names : disk[Loose(n)] \in Oids
    /\ disk' = [f \in Files |->
                   IF f = Packed THEN [n \in Names |-> IF disk[Loose(n)] \in Oids THEN disk[Loose(n)]
                                                       ELSE disk[Packed][n]]
                   ELSE IF f[1] = "refs" THEN None ELSE disk[f]]
    /\ last' = [cmd |-> "pack", src |-> None, dst |-> None, disk |-> disk, how |-> "done", whole |-> last.whole]
    /\ left' = [left EXCEPT !.commands = @ - 1]
    /\ UNCHANGED job

(***************************************************************************)
(* Carrying a command out                                                  *)
(***************************************************************************)
\* A directory where a file is wanted, a file where a directory is, or a HEAD nothing can be
\* read from when it is to be moved or recorded.
Blocked(d, path) == d[path] = Dir \/ \E f \in Files : Over(f, path) /\ d[f] \notin {None, Dir}

Raises(d, w) ==
    \/ w = Refusal
    \/ Blocked(d, w.at)
    \/ w.at \in {HeadFile, Log(None)} /\ HeadValue(d) = Dir

Finish(how) ==
    /\ job' = Idle
    /\ last' = [last EXCEPT !.how = how, !.whole = @ /\ (how = "done" \/ (how = "restored" /\ last.cmd = "move"))]

Write ==
    /\ job.todo # <<>> /\ ~job.undoing
    /\ ~Raises(disk, job.todo[1])
    /\ disk' = After(disk, job.todo[1])
    /\ IF Len(job.todo) = 1 THEN Finish("done")
       ELSE job' = [job EXCEPT !.todo = Tail(@)] /\ UNCHANGED last
    /\ UNCHANGED left

Fail ==
    /\ job.todo # <<>> /\ ~job.undoing
    /\ \/ Raises(disk, job.todo[1]) /\ UNCHANGED left
       \/ left.mishaps > 0 /\ left' = [left EXCEPT !.mishaps = @ - 1]
    /\ IF job.undo = <<>> THEN Finish("raised")
       ELSE job' = [job EXCEPT !.todo = job.undo, !.undoing = TRUE] /\ UNCHANGED last
    /\ UNCHANGED disk

\* _restore_paths: unlinking what is not there is no error.
PutBack ==
    /\ job.undoing
    /\ IF Blocked(disk, job.todo[1].at) THEN Finish("stuck") /\ UNCHANGED disk
       ELSE /\ disk' = After(disk, job.todo[1])
            /\ IF Len(job.todo) = 1 THEN Finish("restored")
               ELSE job' = [job EXCEPT !.todo = Tail(@)] /\ UNCHANGED last
    /\ UNCHANGED left

\* The process is killed. In a rollback that is part of the mishap that began it.
Crash ==
    /\ job # Idle
    /\ \/ left.mishaps > 0 /\ left' = [left EXCEPT !.mishaps = @ - 1]
       \/ job.undoing /\ UNCHANGED left
    /\ Finish("killed")
    /\ UNCHANGED disk

Init ==
    /\ disk \in Starts
    /\ job = Idle
    /\ last = [cmd |-> "none", src |-> None, dst |-> None, disk |-> disk, how |-> "done", whole |-> TRUE]
    /\ left = [commands |-> MaxCommands, mishaps |-> MaxMishaps]

Selectors == 1 .. MaxSelector

Next ==
    \/ \E oid \in Oids : Commit(oid)
    \/ \E n \in Names, oid \in Oids : Create(n, oid)
    \/ \E old, new \in Names : Rename(old, new)
    \/ \E n \in Names : Delete(n) \/ Orphan(n)
    \/ \E n \in Names, k \in Selectors : CreateFrom(n, k)
    \/ \E x \in Names \cup Oids : Checkout(x)
    \/ \E k \in Selectors : Detach(k)
    \/ \E n \in Names, k \in Selectors, force \in BOOLEAN : MovePrevious(k, n, force) \/ CopyPrevious(k, n, force)
    \/ Pack
    \/ Write \/ Fail \/ PutBack \/ Crash

Spec == Init /\ [][Next]_vars

(***************************************************************************)
(* Properties                                                              *)
(***************************************************************************)
IsWrite(w) == w = Refusal \/ \E f \in Files : w \in [at : {f}, to : Kept(f), prune : BOOLEAN]

TypeOK ==
    /\ Shaped(disk) /\ IsTree(disk)
    /\ DOMAIN job = {"cmd", "todo", "undo", "undoing"} /\ job.undoing \in BOOLEAN
    /\ \A i \in 1..Len(job.todo) : IsWrite(job.todo[i])
    /\ \A i \in 1..Len(job.undo) : IsWrite(job.undo[i])
    /\ DOMAIN last = {"cmd", "src", "dst", "disk", "how", "whole"}
    /\ {last.src, last.dst} \subseteq Names \cup {None}
    /\ Shaped(last.disk) /\ IsTree(last.disk)
    /\ left \in [commands : Nat, mishaps : Nat]

\* The files two disks hold are the same; directories left behind are not looked at.
SameFiles(d, e) ==
    \A f \in Files : d[f] = e[f] \/ (d[f] \in {None, Dir} /\ e[f] \in {None, Dir})

\* Neither branch of the command lies beneath the other.
Apart == <<last.src, last.dst>> \notin Under /\ <<last.dst, last.src>> \notin Under

\* What can be put back: a move between branches that are apart, unless a file is where the
\* ref or the log of the source would need a directory (the rollback then stops there); a
\* copy, but to the branch HEAD waits on, as HEAD's log is not among the files put back.
Restorable ==
    \/ /\ last.cmd = "move" /\ Apart
       /\ \A f \in Files : Over(f, Loose(last.src)) \/ Over(f, Log(last.src)) => last.disk[f] \in {None, Dir}
    \/ last.cmd = "copy" /\ ~(last.disk[HeadFile] = last.dst /\ ~Exists(last.disk, last.dst))

\* A move or a copy that failed has put back every file it changed: refs, packed refs, HEAD, the
\* logs and the config, whatever write it failed at, if it can be put back at all.
FailureRestores == last.how \in {"restored", "stuck"} /\ Restorable => SameFiles(disk, last.disk)

\* A branch that is moved is never lost: at every moment, before, during and after its writes,
\* while they are undone and when the move is killed, the old name or the new one has its commit,
\* one of them its history, and one of them its config.
SourceSurvives ==
    last.cmd = "move" =>
        LET names == {last.src, last.dst}
        IN  /\ \E n \in names : Value(disk, n) = Value(last.disk, last.src)
            /\ \E n \in names : IsPrefix(History(last.disk, last.src), History(disk, n))
            /\ last.disk[Config][last.src] # None => \E n \in names : disk[Config][n] # None

\* A command that is not about HEAD, begun where HEAD is on a commit. (A branch made beneath the
\* one HEAD is on hides it, if that is packed.)
Steady ==
    /\ last.cmd \in {"move", "copy", "rename", "delete", "create from", "pack"}
    /\ HeadValue(last.disk) \in Oids
    /\ <<last.dst, last.disk[HeadFile]>> \notin Under

\* The rollback of a move puts HEAD back on the source before the source's ref is put back: in
\* between, and for good if it is killed or stops there, HEAD leads to a branch that is not there
\* yet, or to the packed value its file hid.
BackTooEarly ==
    /\ last.cmd = "move" /\ (job.undoing \/ last.how \in {"killed", "stuck"})
    /\ disk[HeadFile] = last.src /\ last.disk[HeadFile] = last.src
    /\ disk[Loose(last.src)] # last.disk[Loose(last.src)]

\* Through every write of such a command, where it raises or is killed, and through the writes that
\* undo it, HEAD resolves to the commit it was on when the command began, but for the moment of the
\* rollback above: a rename or a move takes HEAD along before the old name goes, a delete sends it
\* elsewhere first, a reset leaves the current branch alone.
HeadKeeps == Steady => HeadValue(disk) = HeadValue(last.disk) \/ BackTooEarly

\* What there is of a branch, even where a directory hides it, and what HEAD stands for then.
Stored(d, n) == IF d[Loose(n)] \in Oids THEN d[Loose(n)] ELSE d[Packed][n]
StoredHead(d) == IF d[HeadFile] \in Names THEN Stored(d, d[HeadFile]) ELSE d[HeadFile]

\* Each record starts from what the one before it led to, unless the ref was new then.
Links(d, ref) ==
    LET shown == Shown(d, ref)
    IN  \A k \in 1 .. Len(shown) - 1 : shown[k].old \in {None, Selected(d, ref, k)}

Tells(d, ref, value) == Links(d, ref) /\ (Shown(d, ref) # <<>> => Selected(d, ref, 0) = value)

Told(d) ==
    /\ Tells(d, None, StoredHead(d))
    /\ \A n \in Names : Links(d, n) /\ (Stored(d, n) # None => Tells(d, n, Stored(d, n)))

ASSUME StartsTell == \A d \in Starts : Told(d)

\* Between commands none of which was left half done (a copy undone counts as that), the logs tell
\* how the refs got where they are: HEAD@{0} is HEAD and n@{0} branch n, and each record starts from
\* what the one before it led to, unless the branch was new then.
LogsTell == job = Idle /\ last.whole => Told(disk)

\* PHASE415.md: any exception during a move restores the files before the error is returned.
MoveRestores == last.cmd = "move" /\ last.how \in {"restored", "stuck"} => SameFiles(disk, last.disk)
=============================================================================

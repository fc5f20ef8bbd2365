----------------------------- MODULE RemoteSync -----------------------------
(***************************************************************************)
(* clone, fetch, pull, push and the management of remotes, by processes    *)
(* that share one repository, against a Git server that others push to.    *)
(* The server's objects have SHA-1 names, the repository's SHA-256 names:  *)
(* both are contents here, so equal objects are equal values.              *)
(* native-map.json maps a commit to the native object it came from or was  *)
(* sent as. A command reads its files and the advertisement at once, then  *)
(* makes its requests and writes its files one by one (job.todo), and may  *)
(* be cut short before any of them. One that is refused before that has    *)
(* changed nothing and is no step. Trees and blobs go with their commits.  *)
(***************************************************************************)
EXTENDS Naturals, FiniteSets, SequencesExt

CONSTANTS Procs, Branches, Tags, Remotes, None,
          Foreign,       \* what others make: plain and signed commits, annotated tags
          Scenarios      \* the tip of the server's branch, the remotes of its clone (none before a clone),
                         \* the commands allowed; how many commits, changes on the server, commands, crashes

ASSUME ForeignKinds == Foreign \subseteq {"plain", "signed", "tag"}
ASSUME FiniteNames == IsFiniteSet(Branches) /\ IsFiniteSet(Tags)

VARIABLES server,   \* branches and tags, what the branches have been, every object it has had
          objects,  \* the commits stored
          heads,    \* refs/heads
          current,  \* the branch HEAD names
          tracking, \* refs/remotes
          tags,     \* refs/tags
          config,   \* the remotes of config.json
          map,      \* native-map.json
          job,      \* what each process is doing
          left      \* the commands allowed, and how many of each may still come

local == <<objects, heads, current, tracking, tags, config, map>>
vars == <<server, local, job, left>>

(***************************************************************************)
(* Objects. A native tag has the object it names as its only parent. An    *)
(* object is named by a hash of its contents, the names of its parents     *)
(* among them, and so stands for all that is under it.                     *)
(***************************************************************************)
Object(kind, id, parents) ==
    [kind |-> kind, id |-> id, parents |-> parents,
     under |-> Range(parents) \cup UNION {m.under : m \in Range(parents)}]

History(n) == {n} \cup n.under

\* The server's branch begins with a commit that has no parents; what follows, others or the processes make.
ASSUME Beginnings ==
    \A x \in Scenarios : /\ x.branch \in Branches /\ x.remotes \subseteq Remotes
                         /\ \E kind \in Foreign \ {"tag"} : x.tip = Object(kind, x.tip.id, <<>>)

Closure(set) == UNION {History(n) : n \in set}
Natives(refs) == Range(refs) \ {None}

\* What becomes of n where that of the objects in known is known: a tag becomes its commit, the
\* headers of a signature are dropped.
Converted(n, kind, known) ==
    LET made[m \in History(n)] ==
            IF m \in DOMAIN known THEN known[m]
            ELSE IF m.kind = "tag" THEN made[m.parents[1]]
            ELSE Object(kind, m.id, [i \in DOMAIN m.parents |-> made[m.parents[i]]])
    IN  made[n]

\* A conversion goes down to the objects known.
Walked(n, known) ==
    LET met[m \in History(n)] == {m} \cup IF m \in known THEN {} ELSE UNION {met[d] : d \in Range(m.parents)}
    IN  met[n]

\* f, and g for what f does not say (dict.update).
Over(f, g) == [x \in DOMAIN f \cup DOMAIN g |-> IF x \in DOMAIN f THEN f[x] ELSE g[x]]

\* NativeImporter, which looks up in the pack what is not known already.
Imported(n, known) == Converted(n, "pygit", known)
LookedUp(n, known) == Walked(n, DOMAIN known) \ DOMAIN known

\* NativeExporter: an object the receiver is believed to have goes by the name in the map.
Exported(c, m, haves) == Converted(c, "plain", [h \in haves |-> m[h]])

Inverted(m) == [n \in Range(m) |-> CHOOSE c \in DOMAIN m : m[c] = n]

\* The map is keyed by commit: of the objects that became one commit the last converted stays,
\* a tag after the commit it names.
Remaps(m, new, known) ==
    LET commits == {Imported(n, known) : n \in new}
        last(c) == {n \in new : /\ Imported(n, known) = c
                                /\ \A t \in new : t.kind = "tag" => t.parents[1] # n}
    IN  {Over(f, m) : f \in {g \in [commits -> new] : \A c \in commits : g[c] \in last(c)}}

(***************************************************************************)
(* The server                                                              *)
(***************************************************************************)
Advertised == Over(server.branches, server.tags)

Pointed(branches) ==
    [server EXCEPT !.branches = branches,
                   !.objects = @ \cup Closure(Natives(branches)),
                   !.past = [b \in Branches |-> @[b] \cup ({branches[b]} \ {None})]]

Tips == Natives(server.branches) \cup Natives(server.tags)

\* upload-pack: a want must be reachable; what the haves reach stays out of the pack.
Serves(wants) == wants \subseteq Closure(Tips)
Pack(wants, haves) == Closure(wants) \ Closure(haves \cap server.objects)

\* receive-pack: the ref still has the old value, and the new one, which is an object, and everything
\* it is to reach is there.
Accepts(b, old, new, pack) ==
    /\ server.branches[b] = old /\ new # None
    /\ History(new) \subseteq server.objects \cup pack
    /\ \A n \in History(new) : \A m \in Range(n.parents) : m.kind # "tag"

(***************************************************************************)
(* Commands: what they read, then what they write                          *)
(***************************************************************************)
Idle == [at |-> "end", todo |-> <<>>, then |-> <<>>]

Write(file, key, value) == <<[file |-> file, key |-> key, value |-> value]>>

Spend(what) == left[what] > 0 /\ left' = [left EXCEPT ![what] = @ - 1]

May(cmd) == cmd \in left.allowed

Begin(p, task) == job[p] = Idle /\ Spend("commands") /\ job' = [job EXCEPT ![p] = task]

Stop(p) == job' = [job EXCEPT ![p] = Idle]

\* The writes that are left; what a pull or a clone does after them.
Writing(p, todo, then) ==
    job' = [job EXCEPT ![p] = IF todo = <<>> /\ then = <<>> THEN Idle
                              ELSE [at |-> "write", todo |-> todo, then |-> then]]

\* After the objects and the map: the refs in the order advertised, then the whole config read before.
RefWrites(r, adv, known) ==
    LET refs(names) == SetToSeq({x \in names : adv[x] # None})
        sha(x) == Imported(adv[x], known)
        branchWrite(b) == [file |-> "tracking", key |-> <<r, b>>, value |-> sha(b)]
        tagWrite(t) == [file |-> "tag", key |-> t, value |-> sha(t)]
        heads_ == refs(Branches)
        tags_ == refs(Tags)
    IN  [i \in DOMAIN heads_ |-> branchWrite(heads_[i])] \o [i \in DOMAIN tags_ |-> tagWrite(tags_[i])]

\* fetch: when every advertised object is known there is nothing to transfer.
FetchTask(r, remotes, then) ==
    [at |-> "fetch", remote |-> r, adv |-> Advertised, map |-> map[r], config |-> remotes,
     then |-> then]

Fetch(p, r) ==
    /\ r \in config /\ Natives(Advertised) # {}
    /\ Begin(p, FetchTask(r, config, <<>>))
    /\ UNCHANGED <<server, local>>

\* pull: the branch to merge is the one HEAD names when it starts.
Pull(p, r) ==
    /\ r \in config /\ Natives(Advertised) # {}
    /\ Begin(p, FetchTask(r, config, <<"merge", r, current>>))
    /\ UNCHANGED <<server, local>>

\* clone: an empty repository gets a remote first.
Clone(p, r) ==
    /\ config = {} /\ objects = {} /\ Natives(Advertised) # {}
    /\ config' = {r}
    /\ Begin(p, FetchTask(r, {r}, <<"adopt", r>>))
    /\ UNCHANGED <<server, objects, heads, current, tracking, tags, map>>

\* Objects are stored before the map names them, the map written before the refs.
MapFirst(stored, mapped, refs) == mapped \o refs \o stored

StoreFirst(stored, mapped, refs) == stored \o mapped \o refs

\* Every object converted goes into the map, not only (a faulty one) what the refs name.
TipsOnly(new, wants) == new \cap wants

Recorded(new, wants) == new

Transfer(p) ==
    LET j == job[p]
        known == Inverted(j.map)
        wants == Natives(j.adv)
        refs == RefWrites(j.remote, j.adv, known) \o Write("config", None, j.config)
        new == UNION {LookedUp(n, known) : n \in wants}
        stored == Write("objects", None, {Imported(n, known) : n \in new})
    IN  /\ j.at = "fetch"
        /\ UNCHANGED <<server, local, left>>
        /\ \/ new = {} /\ Writing(p, refs, j.then)
           \/ /\ new # {} /\ Serves(wants) /\ new \subseteq Pack(wants, Range(j.map))
              /\ \E m \in Remaps(j.map, Recorded(new, wants), known) :
                     Writing(p, StoreFirst(stored, Write("map", j.remote, m), refs), j.then)
           \/ /\ new # {} /\ Serves(wants) /\ ~ new \subseteq Pack(wants, Range(j.map))
              /\ job' = [job EXCEPT ![p] = [Idle EXCEPT !.at = "missing"]]
           \/ new # {} /\ ~ Serves(wants) /\ Stop(p)

\* push: unless forced, what the branch has on the server must be known and an ancestor.
MayPush(force, h, old, internal) == old = None \/ force \/ internal \cap History(h) # {}

Push(p, r, force) ==
    LET h == heads[current]
        old == server.branches[current]
        internal == IF old = None THEN {} ELSE {c \in DOMAIN map[r] : map[r][c] = old}
        haves == Closure(internal) \cap DOMAIN map[r]
        walked == Walked(h, haves)
        names == [c \in walked |-> Exported(c, map[r], haves)]
    IN  /\ r \in config /\ h # None
        /\ MayPush(force, h, old, internal) /\ names[h] # old
        /\ Begin(p, [at |-> "send", remote |-> r, force |-> force, branch |-> current, head |-> h,
                     old |-> old, new |-> names[h], pack |-> {names[c] : c \in walked \ haves},
                     map |-> Over(names, map[r])])
        /\ UNCHANGED <<server, local>>

\* The value the server is told to replace is the one the check has seen.
Rediscovered(j) == server.branches[j.branch]

Expected(j) == j.old

\* The tracking ref gets the commit that was sent.
HeadNow(j) == heads[j.branch]

Sent(j) == j.head

\* An answer that says "ng" stops the push.
Reported(accepted) == accepted

PushSend(p) ==
    LET j == job[p]
        accepted == Accepts(j.branch, Expected(j), j.new, j.pack)
    IN  /\ j.at = "send"
        /\ server' = IF accepted THEN Pointed([server.branches EXCEPT ![j.branch] = j.new]) ELSE server
        /\ IF Reported(accepted)
           THEN Writing(p, Write("map", j.remote, j.map)
                             \o Write("tracking", <<j.remote, j.branch>>, Sent(j)), <<>>)
           ELSE Stop(p)
        /\ UNCHANGED <<local, left>>

(***************************************************************************)
(* Managing remotes                                                        *)
(***************************************************************************)
Manage(p, todo) ==
    /\ Begin(p, [at |-> "write", todo |-> todo, then |-> <<>>])
    /\ UNCHANGED <<server, local>>

AddRemote(p, r) == Manage(p, Write("config", None, config \cup {r}))

RemoveRemote(p, r) ==
    /\ r \in config
    /\ Manage(p, Write("config", None, config \ {r}) \o Write("untrack", r, Branches)
                 \o Write("map", r, <<>>))

RenameRemote(p, r, s) ==
    /\ r \in config /\ s \notin config
    /\ Manage(p, Write("config", None, (config \ {r}) \cup {s}) \o Write("move", r, s)
                 \o Write("remap", r, s))

Tracked(r) == {b \in Branches : tracking[r][b] # None}

PruneRemote(p, r) ==
    LET stale == SetToSeq({b \in Tracked(r) : server.branches[b] = None})
    IN  /\ r \in config /\ stale # <<>>
        /\ Manage(p, [i \in DOMAIN stale |-> [file |-> "untrack", key |-> r, value |-> {stale[i]}]])

(***************************************************************************)
(* Writing one file                                                        *)
(***************************************************************************)
NewTracking(w) ==
    CASE w.file = "tracking" -> [tracking EXCEPT ![w.key[1]][w.key[2]] = w.value]
      [] w.file = "untrack" -> [tracking EXCEPT ![w.key] = [b \in Branches |-> IF b \in w.value THEN None ELSE @[b]]]
      [] w.file = "move" -> IF Tracked(w.key) = {} THEN tracking
                            ELSE [tracking EXCEPT ![w.value] = tracking[w.key],
                                                  ![w.key] = [b \in Branches |-> None]]
      [] OTHER -> tracking

NewMap(w) ==
    CASE w.file = "map" -> [map EXCEPT ![w.key] = w.value]
      [] w.file = "remap" /\ map[w.key] # <<>> -> [map EXCEPT ![w.value] = map[w.key], ![w.key] = <<>>]
      [] OTHER -> map

\* rename_remote stops when the new name has tracking refs already; the config is written by then.
Blocked(w) == w.file = "move" /\ Tracked(w.key) # {} /\ Tracked(w.value) # {}

WriteFile(p) ==
    LET j == job[p]
        w == Head(j.todo)
    IN  /\ j.at = "write" /\ j.todo # <<>>
        /\ IF Blocked(w) THEN Stop(p) /\ UNCHANGED local
           ELSE /\ objects' = IF w.file = "objects" THEN objects \cup w.value ELSE objects
                /\ heads' = IF w.file = "head" THEN [heads EXCEPT ![w.key] = w.value] ELSE heads
                /\ current' = IF w.file = "current" THEN w.value ELSE current
                /\ tags' = IF w.file = "tag" THEN [tags EXCEPT ![w.key] = w.value] ELSE tags
                /\ config' = IF w.file = "config" THEN w.value ELSE config
                /\ tracking' = NewTracking(w)
                /\ map' = NewMap(w)
                /\ Writing(p, Tail(j.todo), j.then)
        /\ UNCHANGED <<server, left>>

(***************************************************************************)
(* What follows the writes: pull merges, clone checks a branch out         *)
(***************************************************************************)
\* The branch HEAD names by now moves; a merge that is refused or in conflict moves nothing.
Merge(p, ours, theirs) ==
    \/ theirs \in History(ours) /\ Stop(p) /\ UNCHANGED left
    \/ /\ theirs \notin History(ours) /\ ours \in History(theirs)
       /\ Writing(p, Write("head", current, theirs), <<>>) /\ UNCHANGED left
    \/ /\ theirs \notin History(ours) /\ ours \notin History(theirs) /\ Spend("commits")
       /\ LET c == Object("pygit", left.commits, <<ours, theirs>>)
          IN  Writing(p, Write("objects", None, {c}) \o Write("head", current, c), <<>>)
    \/ Stop(p) /\ UNCHANGED left

AfterPull(p) ==
    LET j == job[p]
        theirs == tracking[j.then[2]][j.then[3]]
        ours == heads[current]
    IN  /\ j.at = "write" /\ j.todo = <<>> /\ j.then # <<>> /\ j.then[1] = "merge"
        /\ IF theirs = None \/ ours = None THEN Stop(p) /\ UNCHANGED left ELSE Merge(p, ours, theirs)
        /\ UNCHANGED <<server, local>>

\* The branch asked for, or the one the server's HEAD names; it may not be there.
AfterClone(p) ==
    LET j == job[p]
    IN  /\ j.at = "write" /\ j.todo = <<>> /\ j.then # <<>> /\ j.then[1] = "adopt"
        /\ \E b \in Branches :
              LET sha == tracking[j.then[2]][b]
              IN  IF sha = None THEN Stop(p)
                  ELSE Writing(p, Write("head", b, sha) \o Write("current", None, b), <<>>)
        /\ UNCHANGED <<server, local, left>>

(***************************************************************************)
(* The rest of the repository, the others, and crashes                     *)
(***************************************************************************)
Commit(p) ==
    /\ job[p] = Idle /\ Spend("commits")
    /\ LET h == heads[current]
           c == Object("pygit", left.commits, IF h = None THEN <<>> ELSE <<h>>)
       IN  objects' = objects \cup {c} /\ heads' = [heads EXCEPT ![current] = c]
    /\ UNCHANGED <<server, current, tracking, tags, config, map, job>>

\* checkout, of a new branch at HEAD if there is none of that name.
Checkout(p, b) ==
    /\ job[p] = Idle /\ b # current /\ heads[current] # None /\ Spend("commands")
    /\ current' = b
    /\ heads' = IF heads[b] = None THEN [heads EXCEPT ![b] = heads[current]] ELSE heads
    /\ UNCHANGED <<server, objects, tracking, tags, config, map, job>>

OthersCommit(b) ==
    \E kind \in Foreign \ {"tag"} :
        LET tip == server.branches[b]
            n == Object(kind, left.commits, IF tip = None THEN <<>> ELSE <<tip>>)
        IN  server' = Pointed([server.branches EXCEPT ![b] = n]) /\ Spend("commits")

\* A branch is made or forced to a commit there is, or deleted.
OthersMove(b) ==
    /\ Spend("server")
    /\ \E n \in {m \in server.objects : m.kind # "tag"} \cup {None} :
          n # server.branches[b] /\ server' = Pointed([server.branches EXCEPT ![b] = n])

OthersTag(t) ==
    /\ Spend("server")
    /\ \E b \in Branches :
          LET tip == server.branches[b]
              tagged == IF "tag" \in Foreign THEN Object("tag", t, <<tip>>) ELSE tip
          IN  /\ tip # None
              /\ server' = [server EXCEPT !.tags[t] = tagged, !.objects = @ \cup {tagged}]

Others ==
    /\ \E b \in Branches, t \in Tags : OthersCommit(b) \/ OthersMove(b) \/ OthersTag(t)
    /\ UNCHANGED <<local, job>>

\* The process is killed, or the answer of the server is lost.
Crash(p) == job[p] # Idle /\ Stop(p) /\ Spend("crashes") /\ UNCHANGED <<server, local>>

Command(p) ==
    \E r \in Remotes :
        \/ May("clone") /\ Clone(p, r)
        \/ May("fetch") /\ Fetch(p, r)
        \/ May("pull") /\ Pull(p, r)
        \/ May("push") /\ \E force \in BOOLEAN : Push(p, r, force)
        \/ May("remote") /\ \/ AddRemote(p, r) \/ RemoveRemote(p, r) \/ PruneRemote(p, r)
                             \/ \E s \in Remotes : RenameRemote(p, r, s)

Work(p) == Transfer(p) \/ PushSend(p) \/ WriteFile(p) \/ AfterPull(p) \/ AfterClone(p)

NoBranches == [b \in Branches |-> None]

\* Nothing yet, but for the tip others have pushed to a branch, or the clone made of it.
Start(x) ==
    LET c == Imported(x.tip, <<>>)
    IN  /\ server = [branches |-> [NoBranches EXCEPT ![x.branch] = x.tip], tags |-> [t \in Tags |-> None],
                     objects |-> History(x.tip), past |-> [b \in Branches |-> IF b = x.branch THEN {x.tip} ELSE {}]]
        /\ current = x.branch /\ tags = [t \in Tags |-> None] /\ left = x.left
        /\ job = [p \in Procs |-> Idle]
        /\ IF x.remotes = {}
           THEN /\ objects = {} /\ config = {} /\ heads = NoBranches
                /\ tracking = [r \in Remotes |-> NoBranches] /\ map = [r \in Remotes |-> <<>>]
           ELSE /\ objects = {c} /\ config = x.remotes /\ heads = [NoBranches EXCEPT ![x.branch] = c]
                /\ tracking = [r \in Remotes |-> IF r \in x.remotes THEN [NoBranches EXCEPT ![x.branch] = c] ELSE NoBranches]
                /\ map = [r \in Remotes |-> IF r \in x.remotes THEN [k \in {c} |-> x.tip] ELSE <<>>]

Init == \E x \in Scenarios : Start(x)

Next == Others \/ \E p \in Procs :
            Command(p) \/ Work(p) \/ Crash(p) \/ Commit(p) \/ (May("checkout") /\ \E b \in Branches : Checkout(p, b))

Spec == Init /\ [][Next]_vars

(***************************************************************************)
(* Properties                                                              *)
(***************************************************************************)
IsObject(n) == n.kind \in {"pygit", "plain", "signed", "tag"} /\ IsFiniteSet(Range(n.parents))

TypeOK ==
    /\ \A n \in server.objects \cup objects : IsObject(n)
    /\ Tips \subseteq server.objects /\ config \subseteq Remotes /\ current \in Branches
    /\ \A r \in Remotes : Range(map[r]) \subseteq server.objects
    /\ \A p \in Procs : job[p].at \in {"end", "fetch", "missing", "send", "write"}

\* Unless it is forced, a push never takes a commit away from a branch of the server, whoever pushed it
\* since the push read the advertisement (the ancestor check and the old value sent in Repository.push).
UnforcedPushKeepsHistory ==
    [][\A p \in Procs :
          (job[p].at = "send" /\ job'[p].at = "write" /\ ~ job[p].force /\ server.branches[job[p].branch] # None)
              => server.branches[job[p].branch] \in History(server'.branches[job[p].branch])]_vars

\* While no two native objects are the same commit, whatever native object the map names it names the
\* history of too: what the server leaves out of a pack for it is known (Repository.fetch, _write_native_map).
Plain == \A m, n \in server.objects : Imported(m, <<>>) = Imported(n, <<>>) => m = n

HavesAreClosed == Plain => \A r \in Remotes : Closure(Range(map[r])) \subseteq Range(map[r])

\* Every commit a ref or the map names is stored with its history, after every write of every command,
\* and the map is right about what it is natively.
NamesAreStored ==
    /\ Closure(Natives(heads) \cup Natives(tags) \cup UNION {Natives(tracking[r]) \cup DOMAIN map[r] : r \in Remotes})
           \subseteq objects
    /\ \A r \in Remotes : \A c \in DOMAIN map[r] : Imported(map[r][c], <<>>) = c

\* A tracking ref names what the branch has been on the server, also when HEAD or the server moves during
\* the push or the fetch that sets it.
TrackingWasThere ==
    \A r \in Remotes, b \in Branches :
        tracking[r][b] # None => \E n \in server.past[b] : Imported(n, <<>>) = tracking[r][b]

\* "Fetch branches and tags from a smart HTTP remote.": what the server leaves out of the pack for what
\* fetch says it has, is known. (Not so: of an annotated tag and its commit the map keeps one.)
FetchFindsItsObjects == \A p \in Procs : job[p].at # "missing"
=============================================================================

------------------------- MODULE ObjectMaintenance -------------------------
(***************************************************************************)
(* gc, repack, reflog expire, prune, prune-packed and the multi-pack-index *)
(* commands: one maintenance process at a time, rewriting the object       *)
(* database file by file, while other commands write objects and move      *)
(* references and may be met at any point, and while the process itself    *)
(* may be cut short before any of its file operations.                     *)
(***************************************************************************)
EXTENDS ObjectStore

CONSTANTS Refs,         \* everything fsck takes roots from: references, HEAD, index, shallow
          Logged,       \* those of them with a reflog
          Nameable,     \* what each may name: branches commits, the index what is staged
          InitialStates,\* the (db, aged, refs, logs) to start from
          MaxRuns,      \* maintenance commands
          MaxSteps,     \* writes and reference moves by other commands
          MaxTimes      \* times the grace periods elapse

ASSUME LoggedAreRefs == Logged \subseteq Refs

ASSUME NameableAreObjects == Nameable \in [Refs -> SUBSET Objects]

\* How old a log record is: "stale" is past the cutoff for unreachable records, "old" past
\* the general one as well.
Ages == {"fresh", "stale", "old"}
Record == [oids : SUBSET Objects, age : Ages]

ASSUME StatesAreTyped == \A i \in InitialStates :
    /\ DbTypes(i.db) /\ i.aged \subseteq i.db.loose
    /\ i.refs \in [Refs -> Objects] /\ i.logs \in [Logged -> SUBSET Record]

\* What the roots and logs lead to is there to begin with.
ASSUME StatesAreComplete == \A i \in InitialStates :
    Closure({i.refs[r] : r \in Refs} \cup UNION {rec.oids : rec \in UNION {i.logs[r] : r \in Logged}})
        \subseteq Readable(i.db)

VARIABLES db,        \* the object database
          aged,      \* the loose objects older than the prune cutoff
          refs,      \* [Refs -> Objects]
          logs,      \* [Logged -> SUBSET Record]
          m,         \* the maintenance process
          session,   \* what the other command running now has written
          found,     \* objects it relied on that it only came upon: loose already, or unprotected
          late,      \* the moves of roots, as records, made while expire was rewriting logs
          outcome,   \* whether a command was refused, or gc ended unhealthy
          count      \* [runs, steps, times], for the bounds

vars == <<db, aged, refs, logs, m, session, found, late, outcome, count>>

Pipeline ==
    [gc           |-> <<"repack-ad", "expire", "prune", "verify">>,
     repack       |-> <<"repack">>,
     repack_d     |-> <<"repack-d">>,
     expire       |-> <<"expire">>,
     prune        |-> <<"prune">>,
     prune_packed |-> <<"prune-packed">>,
     midx_write   |-> <<"midx-write">>,
     midx_from    |-> <<"midx-from">>,
     midx_expire  |-> <<"midx-expire">>,
     midx_repack  |-> <<"midx-repack">>]

Jobs == DOMAIN Pipeline
MidxStages == {"midx-expire", "midx-repack"}

Idle == [pc |-> "idle", todo |-> <<>>, target |-> {}, created |-> FALSE, packs |-> {},
         loose |-> {}, rewrite |-> {}, plan |-> <<>>, undo |-> <<>>, roots |-> {},
         midx |-> NoMidx]

At(pc) == m.pc = pc
Stage == Head(m.todo)

\* The next stage of the pipeline, or the end of the command.
Advanced(p) == IF Len(p.todo) = 1 THEN Idle
               ELSE [Idle EXCEPT !.pc = "stage", !.todo = Tail(p.todo), !.roots = p.roots]

Roots == {refs[r] : r \in Refs}
LogOids == UNION {rec.oids : rec \in UNION {logs[r] : r \in Logged}}
Reachable == Closure(Roots)
Protected == Closure(Roots \cup LogOids)

(***************************************************************************)
(* What each stage reads before its first change.                          *)
(***************************************************************************)
\* _retained_objects: refs, index and shallow roots, every reflog, and the extra heads.
Retained == Closure(Roots \cup LogOids \cup m.roots)

\* Expiring a record as soon as one of its objects is unreachable (a faulty Expires).
ExpiresPartlyUnreachable(rec) ==
    \/ rec.age = "old"
    \/ rec.age = "stale" /\ ~(rec.oids \subseteq Reachable)

\* _entry_is_unreachable and the two cutoffs.
Expires(rec) ==
    \/ rec.age = "old"
    \/ rec.age = "stale" /\ rec.oids # {} /\ rec.oids \cap Reachable = {}

\* Every pack that shares an object with another (a faulty Unreferenced).
UnreferencedOrContained(x) == {p \in x.packs : \E q \in x.packs : p # q /\ p \cap q # {}}

\* The packs of the multi-pack-index that no entry selects.
Unreferenced(x) == x.packs \ {x.at[o] : o \in DOMAIN x.at}

\* Whether the stage gets past its own verification.
CanPlan(s) ==
    CASE s \in {"repack", "repack-d", "repack-ad"} -> Healthy(db, Roots)
      [] s = "expire" -> Connected(db, Roots)
      [] s = "prune" -> Connected(db, Roots) /\ Retained \subseteq Readable(db)
      [] s = "prune-packed" -> TRUE
      [] s = "verify" -> Healthy(db, Roots)
      [] s = "midx-write" -> db.idxs # {} /\ db.idxs \subseteq db.packs
      [] s = "midx-from" -> Pairs(db) # {}
      [] s \in MidxStages -> db.midx # NoMidx /\ Covered(db) \subseteq Pairs(db)

\* garbage_collect plans every stage before it starts the first.
Preflight(j) == j = "gc" => Healthy(db, Roots) /\ Closure(LogOids) \subseteq Readable(db)

(***************************************************************************)
(* Starting, refusing, and being cut short.                                *)
(***************************************************************************)
Start(j) ==
    /\ At("idle") /\ count.runs < MaxRuns /\ Preflight(j)
    /\ m' = [Idle EXCEPT !.pc = "stage", !.todo = Pipeline[j]]
    /\ found' = IF session = {} THEN found \ Readable(db) ELSE found
    /\ outcome' = "fine"
    /\ count' = [count EXCEPT !.runs = @ + 1]
    /\ late' = {}
    /\ UNCHANGED <<db, aged, refs, logs, session>>

RefuseStart(j) ==
    /\ At("idle") /\ count.runs < MaxRuns /\ ~Preflight(j)
    /\ outcome' = "refused"
    /\ count' = [count EXCEPT !.runs = @ + 1]
    /\ UNCHANGED <<db, aged, refs, logs, m, session, found, late>>

RefuseStage ==
    /\ At("stage") /\ ~CanPlan(Stage)
    /\ outcome' = CASE Stage = "verify" -> "unhealthy"
                    [] Stage \in MidxStages \cup {"midx-write", "midx-from"} -> "fine" \* there is nothing to index
                    [] OTHER -> "refused"
    /\ m' = Idle
    /\ UNCHANGED <<db, aged, refs, logs, session, found, late, count>>

\* A crash, or an OSError at a step that has no cleanup.
Interrupted ==
    /\ m # Idle
    /\ m' = Idle
    /\ UNCHANGED <<db, aged, refs, logs, session, found, late, outcome, count>>

\* A step of the maintenance process: it touches only the database and the logs.
Proceed(p) == m' = p /\ UNCHANGED <<refs, session, found, late, outcome, count>>

Verify == At("stage") /\ Stage = "verify" /\ CanPlan(Stage)
          /\ Proceed(Advanced(m)) /\ UNCHANGED <<db, aged, logs>>

(***************************************************************************)
(* repack                                                                  *)
(***************************************************************************)
Deletes(s) == s \in {"repack-d", "repack-ad"}
Selection(s) == IF s = "repack-ad" THEN Reachable ELSE Reachable \ Packed(db)

\* The old pairs that share an object with the new pack (a faulty Removable).
RemovableOverlapping(target) == {p \in Pairs(db) : p \cap target # {}} \ {target}

\* The old pairs wholly contained in the new pack.
Removable(target) == {p \in Pairs(db) : p \subseteq target} \ {target}

RepackPlan ==
    /\ At("stage") /\ Stage \in {"repack", "repack-d", "repack-ad"} /\ CanPlan(Stage)
    /\ LET target == Selection(Stage)
           doomed == IF Deletes(Stage) THEN Removable(target) ELSE {}
       IN Proceed(IF target = {} THEN Advanced(m)
                  ELSE [m EXCEPT !.pc = IF target \in db.packs THEN "drop" ELSE "install",
                                 !.target = target, !.packs = doomed])
    /\ UNCHANGED <<db, aged, logs>>

InstallPack ==
    /\ At("install")
    /\ db' = [db EXCEPT !.packs = @ \cup {m.target}]
    /\ Proceed([m EXCEPT !.pc = "index", !.created = TRUE])
    /\ UNCHANGED <<aged, logs>>

InstallIdx ==
    /\ At("index")
    /\ db' = [db EXCEPT !.idxs = @ \cup {m.target}]
    /\ Proceed([m EXCEPT !.pc = IF Stage = "midx-repack" THEN "prefer" ELSE "drop"])
    /\ UNCHANGED <<aged, logs>>

\* os.replace of the index raises: the pack is unlinked and the error propagates.
InstallIdxFails ==
    /\ At("index")
    /\ db' = [db EXCEPT !.packs = @ \ {m.target}]
    /\ Proceed(Idle)
    /\ UNCHANGED <<aged, logs>>

DropIdx(p) ==
    /\ At("drop") /\ p \in m.packs /\ p \in db.idxs
    /\ db' = [db EXCEPT !.idxs = @ \ {p}]
    /\ Proceed([m EXCEPT !.pc = "drop-pack", !.packs = @ \ {p}, !.target = p])
    /\ UNCHANGED <<aged, logs>>

DropPack ==
    /\ At("drop-pack")
    /\ db' = [db EXCEPT !.packs = @ \ {m.target}]
    /\ Proceed([m EXCEPT !.pc = "drop"])
    /\ UNCHANGED <<aged, logs>>

Dropped ==
    /\ At("drop") /\ m.packs = {}
    /\ Proceed(IF Deletes(Stage) THEN [m EXCEPT !.pc = "packed"] ELSE Advanced(m))
    /\ UNCHANGED <<db, aged, logs>>

(***************************************************************************)
(* prune-packed and prune                                                  *)
(***************************************************************************)
\* Only objects of complete pairs are trusted to be packed.
Duplicates == db.loose \cap Packed(db)

PrunePackedPlan ==
    /\ \/ At("packed")
       \/ At("stage") /\ Stage = "prune-packed"
    /\ Proceed([m EXCEPT !.pc = "unlink", !.loose = Duplicates])
    /\ UNCHANGED <<db, aged, logs>>

PrunePlan ==
    /\ At("stage") /\ Stage = "prune" /\ CanPlan(Stage)
    /\ Proceed([m EXCEPT !.pc = "unlink", !.loose = (db.loose \cap aged) \ Retained])
    /\ UNCHANGED <<db, aged, logs>>

Unlink(o) ==
    /\ At("unlink") /\ o \in m.loose
    /\ db' = [db EXCEPT !.loose = @ \ {o}]
    /\ aged' = aged \ {o}
    /\ Proceed([m EXCEPT !.loose = @ \ {o}])
    /\ UNCHANGED logs

Unlinked ==
    /\ At("unlink") /\ m.loose = {}
    /\ Proceed(Advanced(m))
    /\ UNCHANGED <<db, aged, logs>>

(***************************************************************************)
(* reflog expire                                                           *)
(***************************************************************************)
ExpirePlan ==
    /\ At("stage") /\ Stage = "expire" /\ CanPlan(Stage)
    /\ LET keep == [r \in Logged |-> {rec \in logs[r] : ~Expires(rec)}]
       IN Proceed([m EXCEPT !.pc = "rewrite", !.plan = keep, !.undo = logs,
                            !.rewrite = {r \in Logged : keep[r] # logs[r]},
                            !.roots = UNION {rec.oids : rec \in UNION {logs[r] \ keep[r] : r \in Logged}}])
    /\ UNCHANGED <<db, aged, logs>>

Rewrite(r) ==
    /\ At("rewrite") /\ r \in m.rewrite
    /\ logs' = [logs EXCEPT ![r] = m.plan[r]]
    /\ Proceed([m EXCEPT !.rewrite = @ \ {r}])
    /\ UNCHANGED <<db, aged>>

Rewritten ==
    /\ At("rewrite") /\ m.rewrite = {}
    /\ Proceed(Advanced(m))
    /\ UNCHANGED <<db, aged, logs>>

\* os.replace raises: the logs replaced so far are written back.
RewriteFails ==
    /\ At("rewrite") /\ m.rewrite # {}
    /\ Proceed([m EXCEPT !.pc = "undo", !.rewrite = {r \in Logged : m.plan[r] # m.undo[r]} \ @])
    /\ UNCHANGED <<db, aged, logs>>

Undo(r) ==
    /\ At("undo") /\ r \in m.rewrite
    /\ logs' = [logs EXCEPT ![r] = m.undo[r]]
    /\ Proceed([m EXCEPT !.rewrite = @ \ {r}])
    /\ UNCHANGED <<db, aged>>

Undone ==
    /\ At("undo") /\ m.rewrite = {}
    /\ Proceed(Idle)
    /\ UNCHANGED <<db, aged, logs>>

(***************************************************************************)
(* The multi-pack-index.                                                   *)
(***************************************************************************)
\* Every object is mapped to a pack that holds it, and to the preferred one if that does.
Preferring(packs, best) ==
    {x \in Midx(packs) : \A o \in UNION packs : o \in x.at[o] /\ (o \in best => x.at[o] = best)}

\* Which copy of an object outside the preferred pack is newest is left open.
MidxWrite ==
    /\ \/ At("stage") /\ Stage = "midx-write" /\ CanPlan(Stage)
       \/ At("rebuild")
    /\ \E best \in db.idxs : \E x \in Preferring(db.idxs, best) : db' = [db EXCEPT !.midx = x]
    /\ Proceed(Advanced(m))
    /\ UNCHANGED <<aged, logs>>

\* write --stdin-packs: the index covers the packs named alone; of these the writer is given
\* copies of the indexes. A pack named that has lost its file ends the command.
MidxWriteFrom ==
    /\ At("stage") /\ Stage = "midx-from"
    /\ \E packs \in SUBSET Pairs(db) : \E best \in packs : \E x \in Preferring(packs, best) :
          db' = [db EXCEPT !.midx = x]
    /\ Proceed(Advanced(m))
    /\ UNCHANGED <<aged, logs>>

MidxExpirePlan ==
    /\ At("stage") /\ Stage = "midx-expire" /\ CanPlan(Stage)
    /\ LET doomed == Unreferenced(db.midx)
       IN Proceed(IF doomed = {} THEN Advanced(m)
                  ELSE [m EXCEPT !.pc = "expire-pack", !.packs = doomed])
    /\ UNCHANGED <<db, aged, logs>>

\* The pack goes first here, then its index.
ExpirePack(p) ==
    /\ At("expire-pack") /\ p \in m.packs
    /\ db' = [db EXCEPT !.packs = @ \ {p}]
    /\ Proceed([m EXCEPT !.pc = "expire-idx", !.target = p])
    /\ UNCHANGED <<aged, logs>>

ExpireIdx ==
    /\ At("expire-idx")
    /\ db' = [db EXCEPT !.idxs = @ \ {m.target}]
    /\ LET left == m.packs \ {m.target}
       IN Proceed([m EXCEPT !.pc = IF left = {} THEN "rebuild" ELSE "expire-pack", !.packs = left])
    /\ UNCHANGED <<aged, logs>>

\* Fewer than two candidates is a no-op; a batch size selects any of the referenced packs.
MidxRepackPlan ==
    /\ At("stage") /\ Stage = "midx-repack" /\ CanPlan(Stage)
    /\ \E batch \in SUBSET (Covered(db) \ Unreferenced(db.midx)) :
          LET target == {o \in DOMAIN db.midx.at : db.midx.at[o] \in batch}
              pc == IF target \in db.packs \cup db.idxs THEN "prefer" ELSE "install"
          IN Proceed(IF Cardinality(batch) < 2 THEN Advanced(m)
                     ELSE [m EXCEPT !.pc = pc, !.target = target, !.midx = db.midx])
    /\ UNCHANGED <<db, aged, logs>>

\* _write_preferred_multi_pack_index, which raises should an index have lost its pack; a
\* target found half installed has raised before it.
Prefer ==
    /\ At("prefer") /\ db.idxs \subseteq db.packs /\ m.target \in db.idxs
    /\ \E x \in Preferring(db.idxs, m.target) : db' = [db EXCEPT !.midx = x]
    /\ Proceed([m EXCEPT !.pc = "check"])
    /\ UNCHANGED <<aged, logs>>

Preferred ==
    /\ At("check")
    /\ Proceed(Advanced(m))
    /\ UNCHANGED <<db, aged, logs>>

\* Any failure puts the old multi-pack-index back before a pack it created is removed.
PreferFails ==
    /\ At("prefer") \/ At("check")
    /\ db' = [db EXCEPT !.midx = m.midx]
    /\ Proceed(IF m.created THEN [m EXCEPT !.pc = "uninstall-idx"] ELSE Idle)
    /\ UNCHANGED <<aged, logs>>

UninstallIdx ==
    /\ At("uninstall-idx")
    /\ db' = [db EXCEPT !.idxs = @ \ {m.target}]
    /\ Proceed([m EXCEPT !.pc = "uninstall-pack"])
    /\ UNCHANGED <<aged, logs>>

UninstallPack ==
    /\ At("uninstall-pack")
    /\ db' = [db EXCEPT !.packs = @ \ {m.target}]
    /\ Proceed(Idle)
    /\ UNCHANGED <<aged, logs>>

(***************************************************************************)
(* Everyone else.  A command writes its objects bottom up, then moves a    *)
(* reference.                                                              *)
(***************************************************************************)
Stepping == count.steps < MaxSteps /\ count' = [count EXCEPT !.steps = @ + 1]

\* write: an object that is loose already keeps its file and its age.
Write(o) ==
    /\ Stepping
    /\ o \notin session
    /\ Links[o] \subseteq session \cup Reachable
    /\ db' = [db EXCEPT !.loose = @ \cup {o}]
    /\ session' = session \cup {o}
    /\ found' = found \cup (db.loose \cap {o})
    /\ UNCHANGED <<aged, refs, logs, m, late, outcome>>

\* Moves r to an object written just now, or to one that is there and can be read whole.
Move(r, o) ==
    /\ Stepping
    /\ o \in Nameable[r] \ {refs[r]}
    /\ o \in session \/ Closure({o}) \subseteq Readable(db)
    /\ LET rec == [oids |-> {refs[r], o}, age |-> "fresh"]
       IN /\ logs' = IF r \in Logged THEN [logs EXCEPT ![r] = @ \cup {rec}] ELSE logs
          /\ late' = IF m.plan # <<>> THEN late \cup {rec} ELSE late
    /\ refs' = [refs EXCEPT ![r] = o]
    /\ found' = found \cup (Closure({o}) \ (session \cup Protected))
    /\ session' = {}
    /\ UNCHANGED <<db, aged, m, outcome>>

Older == [fresh |-> "stale", stale |-> "old", old |-> "old"]

\* The grace periods elapse: everything loose is past the prune cutoff.
TimePasses ==
    /\ At("idle") /\ session = {} /\ count.times < MaxTimes
    /\ aged' = db.loose
    /\ logs' = [r \in Logged |-> {[rec EXCEPT !.age = Older[@]] : rec \in logs[r]}]
    /\ count' = [count EXCEPT !.times = @ + 1]
    /\ UNCHANGED <<db, refs, m, session, found, late, outcome>>

Init ==
    /\ \E i \in InitialStates : db = i.db /\ aged = i.aged /\ refs = i.refs /\ logs = i.logs
    /\ m = Idle /\ session = {} /\ found = {} /\ late = {} /\ outcome = "fine"
    /\ count = [runs |-> 0, steps |-> 0, times |-> 0]

Maintain ==
    \/ \E j \in Jobs : Start(j) \/ RefuseStart(j)
    \/ RefuseStage \/ Interrupted \/ Verify
    \/ RepackPlan \/ InstallPack \/ InstallIdx \/ InstallIdxFails
    \/ \E p \in Packs : DropIdx(p)
    \/ DropPack \/ Dropped
    \/ PrunePackedPlan \/ PrunePlan
    \/ \E o \in Objects : Unlink(o)
    \/ Unlinked
    \/ ExpirePlan
    \/ \E r \in Logged : Rewrite(r) \/ Undo(r)
    \/ Rewritten \/ RewriteFails \/ Undone
    \/ MidxWrite \/ MidxWriteFrom \/ MidxExpirePlan
    \/ \E p \in Packs : ExpirePack(p)
    \/ ExpireIdx
    \/ MidxRepackPlan \/ Prefer \/ Preferred \/ PreferFails \/ UninstallIdx \/ UninstallPack

Others ==
    \/ \E o \in Objects : Write(o)
    \/ \E r \in Refs, o \in Objects : Move(r, o)
    \/ TimePasses

Next == Maintain \/ Others

Spec == Init /\ [][Next]_vars

(***************************************************************************)
(* Properties.                                                             *)
(***************************************************************************)
\* Every variable has its type; only loose objects have an age, and the maintenance process
\* holds nothing between commands.
TypeOK ==
    /\ DbTypes(db)
    /\ aged \subseteq db.loose
    /\ \A r \in Refs : refs[r] \in Nameable[r]
    /\ DOMAIN logs = Logged /\ \A r \in Logged : logs[r] \subseteq Record
    /\ m.packs \subseteq Packs /\ m.loose \subseteq Objects /\ m.rewrite \subseteq Logged
    /\ m.target \in Packs /\ m.roots \subseteq Objects
    /\ At("idle") => m = Idle
    /\ outcome \in {"fine", "refused", "unhealthy"}
    /\ session \subseteq Objects /\ found \subseteq Objects /\ late \subseteq Record
    /\ count.runs \in 0..MaxRuns /\ count.steps \in 0..MaxSteps /\ count.times \in 0..MaxTimes

\* Whatever a root or a reflog record leads to can be read, however maintenance is ordered,
\* interrupted or met by other commands; and so can, to the end of the gc that expired them, what
\* the expired records led to.  The one exception is an object such a command came
\* upon unprotected and did not write: its age is not refreshed (store.write), so a prune
\* that has already chosen its victims may still take it.
ProtectedStaysReadable ==
    Protected \cup Closure(m.roots) \subseteq Readable(db) \cup found

\* During multi-pack-index maintenance the file never points at a pack that is gone: the old
\* copies leave after the new index, and a new pack after the old index is back.
MappedCopiesExist ==
    m.todo # <<>> /\ Stage \in MidxStages /\ ~At("stage")
        => \A o \in Objects : Mapped(db, o) => db.midx.at[o] \in Pairs(db)

\* Only prune, and only of its aged loose objects, makes any object unreadable, reachable or
\* not: repacking, dropping packs, pruning duplicates and multi-pack-index maintenance lose
\* nothing, wherever they are interrupted.
OnlyPruneLosesObjects ==
    [][\A o \in Readable(db) \ Readable(db)' :
          o \in aged /\ At("unlink") /\ Stage = "prune"]_vars

\* A log record disappears only when it is past the general cutoff, or past the other one with
\* nothing reachable in it; or, should another command have moved a reference while the logs
\* were being rewritten, when that command appended it or when it was unreachable before.
OnlyExpiryDropsRecords ==
    [][\A r \in Logged : \A rec \in logs[r] \ logs[r]' :
          \/ logs[r]' = {[old EXCEPT !.age = Older[@]] : old \in logs[r]}
          \/ rec.age = "old"
          \/ rec.age = "stale" /\ (rec.oids \cap Reachable = {} \/ late # {})
          \/ rec \in late]_vars

(***************************************************************************)
(* What the documentation says and the code does not keep.                 *)
(***************************************************************************)
\* "Final full fsck" (PHASE74.md): a gc that is not disturbed finds at its end the healthy
\* repository it insisted on at its start.
GcEndsHealthy == outcome = "unhealthy" => found # {}

\* exists returns "True when *sha* exists" (store.py): as read would find it.
ExistsAgreesWithRead ==
    \A o \in Objects : Exists(db, o) = IF Reads(db, o) THEN "yes" ELSE "no"

\* "An interrupted removal can leave only an ignored orphan pack" (repack.py): maintenance is
\* refused later only if an object is missing.
OrphansAreIgnored ==
    outcome = "refused" => \E o \in Stored(db) : ~(Links[o] \subseteq Readable(db))
=============================================================================

---------------------- MODULE ObjectMaintenanceProofs ----------------------
(***************************************************************************)
(* Maintenance makes nothing unreadable but what prune unlinks, for every  *)
(* object graph, every set of references and any number of other commands, *)
(* the multi-pack-index points at complete packs throughout, no log record *)
(* is dropped that should stay, and nothing still wanted is lost.          *)
(***************************************************************************)
EXTENDS ObjectMaintenance, TLAPS

-----------------------------------------------------------------------------
(***************************************************************************)
(* The object database.                                                    *)
(***************************************************************************)
DbShape(d) == d = [loose |-> d.loose, packs |-> d.packs, idxs |-> d.idxs, midx |-> d.midx]

\* Every entry of a multi-pack-index names one of its packs, and one that has the object.
MidxTypes(x) ==
    x # NoMidx => /\ DOMAIN x.at = UNION x.packs
                  /\ \A o \in DOMAIN x.at : x.at[o] \in x.packs /\ o \in x.at[o]

\* However stale the multi-pack-index is, what is stored is what can be read.
LEMMA StoredIsReadable ==
    ASSUME NEW d PROVE Readable(d) = Stored(d) \cap Objects
BY DEF Readable, Reads, Stored, Packed, Mapped

\* So nothing is lost while the loose objects and the objects of complete pairs stay.
LEMMA KeptIsReadable ==
    ASSUME NEW d, NEW e, d.loose \subseteq e.loose, Packed(d) \subseteq Packed(e)
    PROVE  Readable(d) \subseteq Readable(e)
BY StoredIsReadable DEF Stored

\* A multi-pack-index written now is well typed.
LEMMA PreferringTypes ==
    ASSUME NEW packs, NEW best, NEW x \in Preferring(packs, best) PROVE MidxTypes(x)
BY DEF Preferring, Midx, MidxTypes

-----------------------------------------------------------------------------
(***************************************************************************)
(* What each stage of maintenance relies on.                               *)
(***************************************************************************)
MShape == m = [pc |-> m.pc, todo |-> m.todo, target |-> m.target, created |-> m.created,
               packs |-> m.packs, loose |-> m.loose, rewrite |-> m.rewrite, plan |-> m.plan,
               undo |-> m.undo, roots |-> m.roots, midx |-> m.midx]

\* Every object of the target is in another complete pair as well.
Spare == \A o \in m.target : \E p \in Pairs(db) : p # m.target /\ o \in p

\* Some complete pair that stays contains all the pairs that go.
Replaced == \E t \in Pairs(db) : \A p \in m.packs : p \subseteq t /\ p # t

\* Every object of a pack that expires is in a complete pair that stays.
Selected == \A p \in m.packs : \A o \in p : \E q \in Pairs(db) : q \notin m.packs /\ o \in q

StageInv ==
    /\ At("stage") => m.packs = {} /\ m.created = FALSE
    /\ At("install") \/ At("index") =>
          /\ m.target \notin db.idxs
          /\ IF Stage = "midx-repack" THEN Spare
             ELSE \A p \in m.packs : p \subseteq m.target /\ p # m.target
    /\ At("index") => m.target \in db.packs
    /\ At("drop") \/ At("drop-pack") => Replaced
    /\ At("drop-pack") => m.target \notin db.idxs
    /\ At("packed") => Stage # "prune"
    /\ At("unlink") => IF Stage = "prune" THEN m.loose \subseteq aged ELSE m.loose \subseteq Packed(db)
    /\ At("expire-pack") \/ At("expire-idx") => Selected
    /\ At("expire-idx") => m.target \notin db.packs
    /\ At("prefer") \/ At("check") => (m.created => Spare)
    /\ At("uninstall-idx") => Spare
    /\ At("uninstall-pack") => m.target \notin db.idxs

DbInv == DbShape(db) /\ MidxTypes(db.midx) /\ MShape /\ MidxTypes(m.midx)

ObjectInv == DbInv /\ StageInv

NothingLost ==
    \A o \in Readable(db) \ Readable(db)' : o \in aged \cap m.loose /\ At("unlink") /\ Stage = "prune"

-----------------------------------------------------------------------------
(***************************************************************************)
(* Steps, first of the others, then of maintenance stage by stage.         *)
(***************************************************************************)
Step == ObjectInv' /\ NothingLost

LEMMA AdvancedRests ==
    ASSUME m' = Idle \/ m' = Advanced(m)
    PROVE  MShape' /\ m'.midx = NoMidx /\ m'.packs = {} /\ m'.created = FALSE /\ m'.pc \in {"idle", "stage"}
<1>1. CASE m' = Idle
  BY <1>1 DEF MShape, Idle
<1>2. CASE m' = [Idle EXCEPT !.pc = "stage", !.todo = Tail(m.todo), !.roots = m.roots]
  BY <1>2 DEF MShape, Idle
<1> QED BY <1>1, <1>2 DEF Advanced

\* A step that leaves the database alone and ends in a stage yet to begin, or idle.
LEMMA RestStep ==
    ASSUME DbInv, UNCHANGED db, m' = Idle \/ m' = Advanced(m) PROVE Step
<1>1. MShape' /\ m'.midx = NoMidx /\ m'.packs = {} /\ m'.created = FALSE /\ m'.pc \in {"idle", "stage"}
  BY AdvancedRests
<1>2. DbInv'
  BY <1>1 DEF DbInv, MidxTypes
<1>3. StageInv'
  BY <1>1 DEF StageInv, At
<1> QED BY <1>2, <1>3 DEF Step, ObjectInv, NothingLost

LEMMA StartStep == ASSUME ObjectInv, NEW j \in Jobs, Start(j) \/ RefuseStart(j) PROVE Step
<1>1. CASE Start(j)
  <2>0. m' = [Idle EXCEPT !.pc = "stage", !.todo = Pipeline[j]]
    BY <1>1 DEF Start
  <2>1. MShape' /\ m'.midx = NoMidx /\ m'.packs = {} /\ m'.created = FALSE /\ m'.pc = "stage"
    BY <2>0 DEF MShape, Idle
  <2>2. DbInv' /\ StageInv' /\ UNCHANGED db
    BY <1>1, <2>1 DEF Start, ObjectInv, DbInv, MidxTypes, StageInv, At
  <2> QED BY <2>2 DEF Step, ObjectInv, NothingLost
<1>2. CASE RefuseStart(j)
  <2>1. UNCHANGED <<db, m, aged>>
    BY <1>2 DEF RefuseStart
  <2> QED BY <2>1 DEF Step, ObjectInv, NothingLost, DbInv, StageInv, MShape, At, Stage, Spare, Replaced, Selected
<1> QED BY <1>1, <1>2

LEMMA OthersStep == ASSUME ObjectInv, Others PROVE Step
<1>1. ASSUME NEW o \in Objects, Write(o) PROVE Step
  <2>1. /\ DbShape(db') /\ db'.packs = db.packs /\ db'.idxs = db.idxs /\ db'.midx = db.midx
        /\ db'.loose = db.loose \cup {o}
    BY <1>1 DEF Write, ObjectInv, DbInv, DbShape
  <2>2. Pairs(db') = Pairs(db) /\ Packed(db') = Packed(db) /\ UNCHANGED <<m, aged>>
    BY <1>1, <2>1 DEF Write, Pairs, Packed
  <2>3. NothingLost
    BY <2>1, <2>2, KeptIsReadable DEF NothingLost
  <2>4. DbInv'
    BY <2>1, <2>2 DEF ObjectInv, DbInv, MShape
  <2>5. StageInv'
    BY <2>1, <2>2 DEF ObjectInv, StageInv, At, Stage, Spare, Replaced, Selected
  <2> QED BY <2>3, <2>4, <2>5 DEF Step, ObjectInv
<1>2. ASSUME NEW r \in Refs, NEW o \in Objects, Move(r, o) PROVE Step
  <2>1. UNCHANGED <<db, m, aged>>
    BY <1>2 DEF Move
  <2> QED BY <2>1 DEF Step, ObjectInv, NothingLost, DbInv, StageInv, MShape, At, Stage, Spare, Replaced, Selected
<1>3. CASE TimePasses
  <2>1. UNCHANGED <<db, m>> /\ m.pc = "idle"
    BY <1>3 DEF TimePasses, At
  <2>2. DbInv' /\ StageInv'
    BY <2>1 DEF ObjectInv, DbInv, StageInv, MShape, At
  <2> QED BY <2>1, <2>2 DEF Step, ObjectInv, NothingLost
<1> QED BY <1>1, <1>2, <1>3 DEF Others

LEMMA StillStep == ASSUME ObjectInv, UNCHANGED <<db, m, aged>> PROVE Step
BY DEF Step, ObjectInv, NothingLost, DbInv, StageInv, MShape, At, Stage, Spare, Replaced, Selected

LEMMA RestingSteps ==
    ASSUME ObjectInv,
           RefuseStage \/ Interrupted \/ Verify \/ Unlinked \/ Rewritten \/ Undone \/ Preferred
    PROVE  Step
<1>1. UNCHANGED db /\ (m' = Idle \/ m' = Advanced(m))
  BY DEF RefuseStage, Interrupted, Verify, Unlinked, Rewritten, Undone, Preferred, Proceed
<1> QED BY <1>1, RestStep DEF ObjectInv

\* Rewriting logs neither reads nor changes the database.
LEMMA LogSteps ==
    ASSUME ObjectInv, ExpirePlan \/ RewriteFails \/ \E r \in Logged : Rewrite(r) \/ Undo(r)
    PROVE  Step
<1>1. UNCHANGED <<db, aged>> /\ m'.pc \in {"rewrite", "undo"} /\ MShape' /\ m'.midx = m.midx
  BY DEF ObjectInv, DbInv, MShape, ExpirePlan, RewriteFails, Rewrite, Undo, Proceed, At
<1>2. DbInv' /\ StageInv'
  BY <1>1 DEF ObjectInv, DbInv, StageInv, At
<1> QED BY <1>1, <1>2 DEF Step, ObjectInv, NothingLost

-----------------------------------------------------------------------------
(***************************************************************************)
(* repack                                                                  *)
(***************************************************************************)
LEMMA RepackPlanStep == ASSUME ObjectInv, RepackPlan PROVE Step
<1> DEFINE target == Selection(Stage)
           doomed == IF Deletes(Stage) THEN Removable(target) ELSE {}
<1>1. CASE target = {}
  <2>1. UNCHANGED db /\ m' = Advanced(m)
    BY <1>1 DEF RepackPlan, Proceed
  <2> QED BY <2>1, RestStep DEF ObjectInv
<1>2. CASE target # {}
  <2>1. /\ m' = [m EXCEPT !.pc = IF target \in db.packs THEN "drop" ELSE "install",
                           !.target = target, !.packs = doomed]
        /\ UNCHANGED <<db, aged>> /\ CanPlan(Stage)
        /\ Stage \in {"repack", "repack-d", "repack-ad"}
    BY <1>2 DEF RepackPlan, Proceed
  <2> HIDE DEF target
  <2>2. db.packs = db.idxs
    BY <2>1 DEF CanPlan, MidxStages, Healthy
  <2>3. \A p \in doomed : p \subseteq target /\ p # target
    BY DEF Removable
  <2> HIDE DEF doomed
  <2>4. /\ MShape' /\ m'.midx = m.midx /\ m'.target = target /\ m'.packs = doomed /\ m'.todo = m.todo
        /\ m'.pc = IF target \in db.packs THEN "drop" ELSE "install"
    BY <2>1 DEF ObjectInv, DbInv, MShape
  <2>5. DbInv'
    BY <2>1, <2>4 DEF ObjectInv, DbInv
  <2>6. CASE target \in db.packs
    <3>1. Replaced'
      BY <2>1, <2>2, <2>3, <2>4, <2>6 DEF Replaced, Pairs
    <3> QED BY <2>1, <2>4, <2>5, <2>6, <3>1 DEF Step, ObjectInv, StageInv, At, NothingLost
  <2>7. CASE target \notin db.packs
    <3>1. StageInv'
      BY <2>1, <2>2, <2>3, <2>4, <2>7 DEF StageInv, At, Stage
    <3> QED BY <2>1, <2>5, <3>1 DEF Step, ObjectInv, NothingLost
  <2> QED BY <2>6, <2>7
<1> QED BY <1>1, <1>2

LEMMA InstallSteps ==
    ASSUME ObjectInv, InstallPack \/ InstallIdx \/ InstallIdxFails PROVE Step
<1>0. DbShape(db) /\ MShape
  BY DEF ObjectInv, DbInv
<1>1. CASE InstallPack
  <2>1. /\ DbShape(db') /\ db'.packs = db.packs \cup {m.target} /\ db'.idxs = db.idxs
        /\ db'.midx = db.midx /\ db'.loose = db.loose /\ aged' = aged
    BY <1>0, <1>1 DEF InstallPack, DbShape
  <2>2. /\ m.pc = "install" /\ m'.pc = "index" /\ m'.target = m.target /\ m'.packs = m.packs
        /\ m'.todo = m.todo /\ m'.midx = m.midx /\ MShape'
    BY <1>0, <1>1 DEF InstallPack, MShape, Proceed, At
  <2>3. Pairs(db) = Pairs(db') /\ m.target \notin db.idxs
    BY <2>1, <2>2 DEF ObjectInv, StageInv, At, Pairs
  <2>4. DbInv' /\ NothingLost
    BY <2>1, <2>2, <2>3, KeptIsReadable DEF ObjectInv, DbInv, NothingLost, Packed
  <2>5. IF Stage' = "midx-repack" THEN Spare' ELSE \A p \in m'.packs : p \subseteq m'.target /\ p # m'.target
    BY <2>2, <2>3 DEF ObjectInv, StageInv, At, Stage, Spare
  <2>6. StageInv'
    BY <2>1, <2>2, <2>3, <2>5 DEF StageInv, At
  <2> QED BY <2>4, <2>6 DEF Step, ObjectInv
<1>2. CASE InstallIdx
  <2>1. /\ DbShape(db') /\ db'.idxs = db.idxs \cup {m.target} /\ db'.packs = db.packs
        /\ db'.midx = db.midx /\ db'.loose = db.loose /\ aged' = aged
    BY <1>0, <1>2 DEF InstallIdx, DbShape
  <2>2. /\ m.pc = "index" /\ m'.pc = (IF Stage = "midx-repack" THEN "prefer" ELSE "drop")
        /\ m'.target = m.target /\ m'.packs = m.packs
        /\ m'.todo = m.todo /\ m'.midx = m.midx /\ MShape'
    BY <1>0, <1>2 DEF InstallIdx, MShape, Proceed, At
  <2>3. Pairs(db') = Pairs(db) \cup {m.target}
    BY <2>1, <2>2 DEF ObjectInv, StageInv, At, Pairs
  <2>4. DbInv' /\ NothingLost
    BY <2>1, <2>2, <2>3, KeptIsReadable DEF ObjectInv, DbInv, NothingLost, Packed
  <2>5. CASE Stage = "midx-repack"
    <3>1. Spare'
      BY <2>2, <2>3, <2>5 DEF ObjectInv, StageInv, At, Spare
    <3>2. StageInv'
      BY <2>2, <2>5, <3>1 DEF StageInv, At
    <3> QED BY <2>4, <3>2 DEF Step, ObjectInv
  <2>6. CASE Stage # "midx-repack"
    <3>1. Replaced'
      BY <2>2, <2>3, <2>6 DEF ObjectInv, StageInv, At, Replaced
    <3>2. StageInv'
      BY <2>2, <2>6, <3>1 DEF StageInv, At
    <3> QED BY <2>4, <3>2 DEF Step, ObjectInv
  <2> QED BY <2>5, <2>6
<1>3. CASE InstallIdxFails
  <2>1. /\ DbShape(db') /\ db'.packs = db.packs \ {m.target} /\ db'.idxs = db.idxs
        /\ db'.midx = db.midx /\ db'.loose = db.loose /\ m' = Idle /\ m.pc = "index"
    BY <1>0, <1>3 DEF InstallIdxFails, DbShape, Proceed, At
  <2>2. Pairs(db) = Pairs(db')
    BY <2>1 DEF ObjectInv, StageInv, At, Pairs
  <2>3. MShape' /\ m'.midx = NoMidx /\ m'.pc = "idle"
    BY <2>1 DEF MShape, Idle
  <2>4. DbInv' /\ NothingLost
    BY <2>1, <2>2, <2>3, KeptIsReadable DEF ObjectInv, DbInv, NothingLost, Packed, MidxTypes
  <2>5. StageInv'
    BY <2>3 DEF StageInv, At
  <2> QED BY <2>4, <2>5 DEF Step, ObjectInv
<1> QED BY <1>1, <1>2, <1>3

\* What is dropped is in the pack that replaces it.
LEMMA DropSteps ==
    ASSUME ObjectInv, DropPack \/ Dropped \/ \E p \in Packs : DropIdx(p) PROVE Step
<1>0. DbShape(db) /\ MShape
  BY DEF ObjectInv, DbInv
<1>1. ASSUME NEW p \in Packs, DropIdx(p) PROVE Step
  <2>1. /\ DbShape(db') /\ db'.idxs = db.idxs \ {p} /\ db'.packs = db.packs
        /\ db'.midx = db.midx /\ db'.loose = db.loose /\ aged' = aged
    BY <1>0, <1>1 DEF DropIdx, DbShape
  <2>2. /\ m.pc = "drop" /\ m'.pc = "drop-pack" /\ p \in m.packs /\ m'.target = p
        /\ m'.packs = m.packs \ {p} /\ m'.midx = m.midx /\ MShape'
    BY <1>0, <1>1 DEF DropIdx, MShape, Proceed, At
  <2>3. PICK t \in Pairs(db) : \A q \in m.packs : q \subseteq t /\ q # t
    BY <2>2 DEF ObjectInv, StageInv, At, Replaced
  <2>4. Pairs(db') = Pairs(db) \ {p} /\ t \in Pairs(db') /\ p \subseteq t
    BY <2>1, <2>2, <2>3 DEF Pairs
  <2>5. Packed(db) \subseteq Packed(db')
    BY <2>4 DEF Packed
  <2>6. DbInv' /\ NothingLost
    BY <2>1, <2>2, <2>5, KeptIsReadable DEF ObjectInv, DbInv, NothingLost
  <2>7. StageInv'
    BY <2>1, <2>2, <2>3, <2>4 DEF StageInv, At, Replaced
  <2> QED BY <2>6, <2>7 DEF Step, ObjectInv
<1>2. CASE DropPack
  <2>1. /\ DbShape(db') /\ db'.packs = db.packs \ {m.target} /\ db'.idxs = db.idxs
        /\ db'.midx = db.midx /\ db'.loose = db.loose
    BY <1>0, <1>2 DEF DropPack, DbShape
  <2>2. m.pc = "drop-pack" /\ m'.pc = "drop" /\ m'.packs = m.packs /\ m'.midx = m.midx /\ MShape'
    BY <1>0, <1>2 DEF DropPack, MShape, Proceed, At
  <2>3. Pairs(db') = Pairs(db)
    BY <2>1, <2>2 DEF ObjectInv, StageInv, At, Pairs
  <2>4. DbInv' /\ NothingLost
    BY <2>1, <2>2, <2>3, KeptIsReadable DEF ObjectInv, DbInv, NothingLost, Packed
  <2>5. StageInv'
    BY <2>2, <2>3 DEF ObjectInv, StageInv, At, Replaced
  <2> QED BY <2>4, <2>5 DEF Step, ObjectInv
<1>3. CASE Dropped
  <2>1. CASE Deletes(Stage)
    <3>1. UNCHANGED <<db, aged>> /\ m'.pc = "packed" /\ m'.todo = m.todo /\ m'.midx = m.midx /\ MShape'
      BY <1>0, <1>3, <2>1 DEF Dropped, MShape, Proceed
    <3>2. DbInv' /\ StageInv' /\ NothingLost
      BY <2>1, <3>1 DEF ObjectInv, DbInv, StageInv, At, Stage, Deletes, NothingLost
    <3> QED BY <3>2 DEF Step, ObjectInv
  <2>2. CASE ~Deletes(Stage)
    <3>1. UNCHANGED db /\ m' = Advanced(m)
      BY <1>3, <2>2 DEF Dropped, Proceed
    <3> QED BY <3>1, RestStep DEF ObjectInv
  <2> QED BY <2>1, <2>2
<1> QED BY <1>1, <1>2, <1>3

-----------------------------------------------------------------------------
(***************************************************************************)
(* prune and prune-packed                                                  *)
(***************************************************************************)
LEMMA UnlinkSteps ==
    ASSUME ObjectInv, PrunePackedPlan \/ PrunePlan \/ \E o \in Objects : Unlink(o) PROVE Step
<1>0. DbShape(db) /\ MShape
  BY DEF ObjectInv, DbInv
<1>1. CASE PrunePackedPlan
  <2>1. /\ UNCHANGED <<db, aged>> /\ m'.pc = "unlink" /\ m'.loose = Duplicates
        /\ m'.todo = m.todo /\ m'.midx = m.midx /\ MShape' /\ Stage # "prune"
    BY <1>0, <1>1 DEF PrunePackedPlan, MShape, Proceed, ObjectInv, StageInv, At
  <2>2. StageInv'
    BY <2>1 DEF StageInv, At, Stage, Duplicates
  <2> QED BY <2>1, <2>2 DEF Step, ObjectInv, DbInv, NothingLost
<1>2. CASE PrunePlan
  <2>1. /\ UNCHANGED <<db, aged>> /\ m'.pc = "unlink" /\ m'.loose \subseteq aged
        /\ m'.todo = m.todo /\ m'.midx = m.midx /\ MShape' /\ Stage = "prune"
    BY <1>0, <1>2 DEF PrunePlan, MShape, Proceed
  <2>2. StageInv'
    BY <2>1 DEF StageInv, At, Stage
  <2> QED BY <2>1, <2>2 DEF Step, ObjectInv, DbInv, NothingLost
<1>3. ASSUME NEW o \in Objects, Unlink(o) PROVE Step
  <2>1. /\ DbShape(db') /\ db'.packs = db.packs /\ db'.idxs = db.idxs
        /\ db'.midx = db.midx /\ db'.loose = db.loose \ {o} /\ aged' = aged \ {o}
    BY <1>0, <1>3 DEF Unlink, DbShape
  <2>2. /\ m.pc = "unlink" /\ m'.pc = "unlink" /\ o \in m.loose /\ m'.loose = m.loose \ {o}
        /\ m'.todo = m.todo /\ m'.midx = m.midx /\ MShape'
    BY <1>0, <1>3 DEF Unlink, MShape, Proceed, At
  <2>3. Packed(db') = Packed(db)
    BY <2>1 DEF Packed, Pairs
  <2>4. IF Stage = "prune" THEN m.loose \subseteq aged ELSE m.loose \subseteq Packed(db)
    BY <2>2 DEF ObjectInv, StageInv, At
  <2>5. NothingLost
    <3>1. Readable(db) \ Readable(db') \subseteq {o} \ Packed(db)
      BY <2>1, <2>3, StoredIsReadable DEF Stored
    <3> QED BY <2>2, <2>4, <3>1 DEF NothingLost, At
  <2>6. StageInv'
    BY <2>1, <2>2, <2>3, <2>4 DEF StageInv, At, Stage
  <2> QED BY <2>1, <2>2, <2>5, <2>6 DEF Step, ObjectInv, DbInv
<1> QED BY <1>1, <1>2, <1>3

-----------------------------------------------------------------------------
(***************************************************************************)
(* The multi-pack-index                                                    *)
(***************************************************************************)
LEMMA MidxWriteSteps == ASSUME ObjectInv, MidxWrite \/ MidxWriteFrom PROVE Step
<1>1. PICK packs, best, x : x \in Preferring(packs, best) /\ db' = [db EXCEPT !.midx = x]
  BY DEF MidxWrite, MidxWriteFrom
<1>2. /\ DbShape(db') /\ db'.packs = db.packs /\ db'.idxs = db.idxs
      /\ db'.midx = x /\ db'.loose = db.loose
  BY <1>1 DEF ObjectInv, DbInv, DbShape
<1>3. m' = Advanced(m)
  BY DEF MidxWrite, MidxWriteFrom, Proceed
<1>4. MShape' /\ m'.midx = NoMidx /\ m'.packs = {} /\ m'.created = FALSE /\ m'.pc \in {"idle", "stage"}
  BY <1>3, AdvancedRests
<1>5. DbInv'
  <2>1. MidxTypes(x)
    BY <1>1, PreferringTypes
  <2>2. MidxTypes(m'.midx)
    BY <1>4 DEF MidxTypes
  <2> QED BY <1>2, <1>4, <2>1, <2>2 DEF DbInv
<1>6. StageInv'
  BY <1>4 DEF StageInv, At
<1>7. NothingLost
  BY <1>2, KeptIsReadable DEF NothingLost, Packed, Pairs
<1> QED BY <1>5, <1>6, <1>7 DEF Step, ObjectInv

LEMMA ExpireSteps ==
    ASSUME ObjectInv, MidxExpirePlan \/ ExpireIdx \/ \E p \in Packs : ExpirePack(p) PROVE Step
<1>0. DbShape(db) /\ MShape
  BY DEF ObjectInv, DbInv
<1>1. CASE MidxExpirePlan
  <2> DEFINE doomed == Unreferenced(db.midx)
  <2>1. CASE doomed = {}
    <3>1. UNCHANGED db /\ m' = Advanced(m)
      BY <1>1, <2>1 DEF MidxExpirePlan, Proceed
    <3> QED BY <3>1, RestStep DEF ObjectInv
  <2>2. CASE doomed # {}
    <3>1. /\ m' = [m EXCEPT !.pc = "expire-pack", !.packs = doomed]
          /\ UNCHANGED <<db, aged>> /\ CanPlan("midx-expire")
      BY <1>1, <2>2 DEF MidxExpirePlan, Proceed
    <3>2. db.midx # NoMidx /\ db.midx.packs \subseteq Pairs(db)
      BY <3>1 DEF CanPlan, MidxStages, Covered
    <3>3. /\ MShape' /\ m'.pc = "expire-pack" /\ m'.packs = doomed /\ m'.midx = m.midx
      BY <1>0, <3>1 DEF MShape
    <3>4. ASSUME NEW p \in doomed, NEW o \in p PROVE \E q \in Pairs(db) : q \notin doomed /\ o \in q
      <4>1. o \in UNION db.midx.packs
        BY DEF Unreferenced
      <4>2. o \in DOMAIN db.midx.at /\ db.midx.at[o] \in db.midx.packs /\ o \in db.midx.at[o]
        BY <3>2, <4>1 DEF ObjectInv, DbInv, MidxTypes
      <4> QED BY <3>2, <4>2 DEF Unreferenced
    <3>5. StageInv'
      BY <3>1, <3>3, <3>4 DEF StageInv, At, Selected
    <3> QED BY <3>1, <3>3, <3>5 DEF Step, ObjectInv, DbInv, NothingLost
  <2> QED BY <2>1, <2>2
<1>2. ASSUME NEW p \in Packs, ExpirePack(p) PROVE Step
  <2>1. /\ DbShape(db') /\ db'.packs = db.packs \ {p} /\ db'.idxs = db.idxs
        /\ db'.midx = db.midx /\ db'.loose = db.loose
    BY <1>0, <1>2 DEF ExpirePack, DbShape
  <2>2. /\ m.pc = "expire-pack" /\ m'.pc = "expire-idx" /\ p \in m.packs /\ m'.packs = m.packs
        /\ m'.target = p /\ m'.midx = m.midx /\ MShape'
    BY <1>0, <1>2 DEF ExpirePack, MShape, Proceed, At
  <2>3. Selected
    BY <2>2 DEF ObjectInv, StageInv, At
  <2>4. Pairs(db') = Pairs(db) \ {p}
    BY <2>1 DEF Pairs
  <2>5. Packed(db) \subseteq Packed(db')
    <3>1. \A o \in p : \E q \in Pairs(db') : o \in q
      BY <2>2, <2>3, <2>4 DEF Selected
    <3> QED BY <2>4, <3>1 DEF Packed
  <2>6. DbInv' /\ NothingLost
    BY <2>1, <2>2, <2>5, KeptIsReadable DEF ObjectInv, DbInv, NothingLost
  <2>7. Selected'
    BY <2>2, <2>3, <2>4 DEF Selected
  <2>8. StageInv'
    BY <2>1, <2>2, <2>7 DEF StageInv, At
  <2> QED BY <2>6, <2>8 DEF Step, ObjectInv
<1>3. CASE ExpireIdx
  <2>1. /\ DbShape(db') /\ db'.idxs = db.idxs \ {m.target} /\ db'.packs = db.packs
        /\ db'.midx = db.midx /\ db'.loose = db.loose
    BY <1>0, <1>3 DEF ExpireIdx, DbShape
  <2>2. /\ m.pc = "expire-idx" /\ m'.pc \in {"expire-pack", "rebuild"} /\ m'.packs \subseteq m.packs
        /\ m'.midx = m.midx /\ MShape'
    BY <1>0, <1>3 DEF ExpireIdx, MShape, Proceed, At
  <2>3. Selected /\ m.target \notin db.packs
    BY <2>2 DEF ObjectInv, StageInv, At
  <2>4. Pairs(db') = Pairs(db)
    BY <2>1, <2>3 DEF Pairs
  <2>5. DbInv' /\ NothingLost
    BY <2>1, <2>2, <2>4, KeptIsReadable DEF ObjectInv, DbInv, NothingLost, Packed
  <2>6. StageInv'
    BY <2>2, <2>3, <2>4 DEF StageInv, At, Selected
  <2> QED BY <2>5, <2>6 DEF Step, ObjectInv
<1> QED BY <1>1, <1>2, <1>3

LEMMA MidxRepackPlanStep == ASSUME ObjectInv, MidxRepackPlan PROVE Step
<1>0. DbShape(db) /\ MShape /\ MidxTypes(db.midx)
  BY DEF ObjectInv, DbInv
<1>1. PICK batch \in SUBSET (Covered(db) \ Unreferenced(db.midx)) :
         LET target == {o \in DOMAIN db.midx.at : db.midx.at[o] \in batch}
             pc == IF target \in db.packs \cup db.idxs THEN "prefer" ELSE "install"
         IN  m' = IF Cardinality(batch) < 2 THEN Advanced(m)
                  ELSE [m EXCEPT !.pc = pc, !.target = target, !.midx = db.midx]
  BY DEF MidxRepackPlan, Proceed
<1> DEFINE target == {o \in DOMAIN db.midx.at : db.midx.at[o] \in batch}
           pc == IF target \in db.packs \cup db.idxs THEN "prefer" ELSE "install"
<1>2. UNCHANGED <<db, aged>> /\ m.pc = "stage" /\ Stage = "midx-repack" /\ CanPlan("midx-repack")
  BY DEF MidxRepackPlan, At
<1>3. CASE Cardinality(batch) < 2
  BY <1>1, <1>2, <1>3, RestStep DEF ObjectInv
<1>4. CASE ~(Cardinality(batch) < 2)
  <2>1. /\ MShape' /\ m'.pc = pc /\ m'.target = target /\ m'.midx = db.midx
        /\ m'.todo = m.todo /\ m'.created = m.created
    BY <1>0, <1>1, <1>4 DEF MShape
  <2>2. db.midx # NoMidx /\ batch \subseteq Pairs(db) /\ m.created = FALSE
    BY <1>2 DEF CanPlan, MidxStages, ObjectInv, StageInv, At
  <2>3. \A o \in target : db.midx.at[o] \in batch
    OBVIOUS
  <2> HIDE DEF target
  <2>5. CASE target \in db.packs \cup db.idxs
    <3>1. StageInv'
      BY <1>2, <2>1, <2>2, <2>5 DEF StageInv, At
    <3> QED BY <1>0, <1>2, <2>1, <3>1 DEF Step, ObjectInv, DbInv, NothingLost
  <2>6. CASE target \notin db.packs \cup db.idxs
    <3>1. ASSUME NEW o \in target PROVE \E p \in Pairs(db) : p # target /\ o \in p
      <4>1. db.midx.at[o] \in Pairs(db) /\ db.midx.at[o] # target
        BY <2>2, <2>3, <2>6 DEF Pairs
      <4>2. o \in db.midx.at[o]
        BY <1>0, <2>2, <3>1 DEF MidxTypes, target
      <4> QED BY <4>1, <4>2
    <3>2. Spare'
      BY <1>2, <2>1, <3>1 DEF Spare
    <3>3. StageInv'
      BY <1>2, <2>1, <2>6, <3>2 DEF StageInv, At, Stage
    <3> QED BY <1>0, <1>2, <2>1, <3>3 DEF Step, ObjectInv, DbInv, NothingLost
  <2> QED BY <2>5, <2>6
<1> QED BY <1>3, <1>4

LEMMA PreferSteps == ASSUME ObjectInv, Prefer \/ PreferFails PROVE Step
<1>0. DbShape(db) /\ MShape
  BY DEF ObjectInv, DbInv
<1>1. CASE Prefer
  <2>1. PICK x : x \in Preferring(db.idxs, m.target) /\ db' = [db EXCEPT !.midx = x]
    BY <1>1 DEF Prefer
  <2>2. /\ DbShape(db') /\ db'.packs = db.packs /\ db'.idxs = db.idxs
        /\ db'.midx = x /\ db'.loose = db.loose
    BY <1>0, <2>1 DEF DbShape
  <2>3. /\ m.pc = "prefer" /\ m'.pc = "check" /\ m'.target = m.target /\ m'.created = m.created
        /\ m'.midx = m.midx /\ MShape'
    BY <1>0, <1>1 DEF Prefer, MShape, Proceed, At
  <2>4. MidxTypes(x)
    BY <2>1, PreferringTypes
  <2>5. DbInv' /\ NothingLost
    BY <2>2, <2>3, <2>4, KeptIsReadable DEF ObjectInv, DbInv, NothingLost, Packed, Pairs
  <2>6. StageInv'
    BY <2>2, <2>3 DEF ObjectInv, StageInv, At, Spare, Pairs
  <2> QED BY <2>5, <2>6 DEF Step, ObjectInv
<1>2. CASE PreferFails
  <2>1. /\ DbShape(db') /\ db'.packs = db.packs /\ db'.idxs = db.idxs
        /\ db'.midx = m.midx /\ db'.loose = db.loose
    BY <1>0, <1>2 DEF PreferFails, DbShape
  <2>2. NothingLost
    BY <2>1, KeptIsReadable DEF NothingLost, Packed, Pairs
  <2>3. CASE m.created
    <3>1. /\ m.pc \in {"prefer", "check"} /\ m'.pc = "uninstall-idx" /\ m'.target = m.target
          /\ m'.midx = m.midx /\ MShape'
      BY <1>0, <1>2, <2>3 DEF PreferFails, MShape, Proceed, At
    <3>2. StageInv'
      BY <2>1, <2>3, <3>1 DEF ObjectInv, StageInv, At, Spare, Pairs
    <3> QED BY <2>1, <2>2, <3>1, <3>2 DEF Step, ObjectInv, DbInv
  <2>4. CASE ~m.created
    <3>1. MShape' /\ m'.midx = NoMidx /\ m'.pc = "idle"
      BY <1>2, <2>4 DEF PreferFails, MShape, Proceed, Idle
    <3>2. DbInv'
      BY <2>1, <3>1 DEF ObjectInv, DbInv, MidxTypes
    <3>3. StageInv'
      BY <3>1 DEF StageInv, At
    <3> QED BY <2>2, <3>2, <3>3 DEF Step, ObjectInv
  <2> QED BY <2>3, <2>4
<1> QED BY <1>1, <1>2

LEMMA UninstallSteps == ASSUME ObjectInv, UninstallIdx \/ UninstallPack PROVE Step
<1>0. DbShape(db) /\ MShape
  BY DEF ObjectInv, DbInv
<1>1. CASE UninstallIdx
  <2>1. /\ DbShape(db') /\ db'.packs = db.packs /\ db'.idxs = db.idxs \ {m.target}
        /\ db'.midx = db.midx /\ db'.loose = db.loose
    BY <1>0, <1>1 DEF UninstallIdx, DbShape
  <2>2. /\ m.pc = "uninstall-idx" /\ m'.pc = "uninstall-pack" /\ m'.target = m.target
        /\ m'.midx = m.midx /\ MShape'
    BY <1>0, <1>1 DEF UninstallIdx, MShape, Proceed, At
  <2>3. Spare /\ Pairs(db') = Pairs(db) \ {m.target}
    BY <2>1, <2>2 DEF ObjectInv, StageInv, At, Pairs
  <2>4. Packed(db) \subseteq Packed(db')
    BY <2>3 DEF Packed, Spare
  <2>5. DbInv' /\ NothingLost
    BY <2>1, <2>2, <2>4, KeptIsReadable DEF ObjectInv, DbInv, NothingLost
  <2>6. StageInv'
    BY <2>1, <2>2 DEF StageInv, At
  <2> QED BY <2>5, <2>6 DEF Step, ObjectInv
<1>2. CASE UninstallPack
  <2>1. /\ DbShape(db') /\ db'.packs = db.packs \ {m.target} /\ db'.idxs = db.idxs
        /\ db'.midx = db.midx /\ db'.loose = db.loose
    BY <1>0, <1>2 DEF UninstallPack, DbShape
  <2>2. m.pc = "uninstall-pack" /\ m'.pc = "idle" /\ m'.midx = NoMidx /\ MShape'
    BY <1>0, <1>2 DEF UninstallPack, MShape, Proceed, At, Idle
  <2>3. Pairs(db') = Pairs(db)
    BY <2>1, <2>2 DEF ObjectInv, StageInv, At, Pairs
  <2>4. DbInv' /\ NothingLost
    BY <2>1, <2>2, <2>3, KeptIsReadable DEF ObjectInv, DbInv, NothingLost, Packed, MidxTypes
  <2>5. StageInv'
    BY <2>2 DEF StageInv, At
  <2> QED BY <2>4, <2>5 DEF Step, ObjectInv
<1> QED BY <1>1, <1>2

-----------------------------------------------------------------------------
LEMMA NextStep == ObjectInv /\ [Next]_vars => Step
<1> SUFFICES ASSUME ObjectInv, [Next]_vars PROVE Step
  OBVIOUS
<1>1. CASE Others
  BY <1>1, OthersStep
<1>2. CASE UNCHANGED vars
  BY <1>2, StillStep DEF vars
<1>3. CASE Maintain
  <2>1. CASE \E j \in Jobs : Start(j) \/ RefuseStart(j)
    BY <2>1, StartStep
  <2>2. CASE RefuseStage \/ Interrupted \/ Verify \/ Unlinked \/ Rewritten \/ Undone \/ Preferred
    BY <2>2, RestingSteps
  <2>3. CASE RepackPlan
    BY <2>3, RepackPlanStep
  <2>4. CASE InstallPack \/ InstallIdx \/ InstallIdxFails
    BY <2>4, InstallSteps
  <2>5. CASE DropPack \/ Dropped \/ \E p \in Packs : DropIdx(p)
    BY <2>5, DropSteps
  <2>6. CASE PrunePackedPlan \/ PrunePlan \/ \E o \in Objects : Unlink(o)
    BY <2>6, UnlinkSteps
  <2>7. CASE ExpirePlan \/ RewriteFails \/ \E r \in Logged : Rewrite(r) \/ Undo(r)
    BY <2>7, LogSteps
  <2>8. CASE MidxWrite \/ MidxWriteFrom
    BY <2>8, MidxWriteSteps
  <2>9. CASE MidxExpirePlan \/ ExpireIdx \/ \E p \in Packs : ExpirePack(p)
    BY <2>9, ExpireSteps
  <2>10. CASE MidxRepackPlan
    BY <2>10, MidxRepackPlanStep
  <2>11. CASE Prefer \/ PreferFails
    BY <2>11, PreferSteps
  <2>12. CASE UninstallIdx \/ UninstallPack
    BY <2>12, UninstallSteps
  <2> QED BY <1>3, <2>1, <2>2, <2>3, <2>4, <2>5, <2>6, <2>7, <2>8, <2>9, <2>10, <2>11, <2>12 DEF Maintain
<1> QED BY <1>1, <1>2, <1>3 DEF Next

LEMMA ObjectInvariant == Spec => []ObjectInv
<1>1. Init => ObjectInv
  <2> SUFFICES ASSUME Init PROVE ObjectInv
    OBVIOUS
  <2>1. PICK i \in InitialStates : db = i.db
    BY DEF Init
  <2>2. DbTypes(db)
    BY <2>1, StatesAreTyped
  <2>3. DbShape(db) /\ MidxTypes(db.midx)
    BY <2>2 DEF DbTypes, DbShape, MidxTypes, Midx
  <2>4. m = Idle
    BY DEF Init
  <2>5. MShape /\ m.midx = NoMidx /\ m.pc = "idle"
    BY <2>4 DEF MShape, Idle
  <2> QED BY <2>3, <2>5 DEF ObjectInv, DbInv, StageInv, At, MidxTypes
<1>2. ObjectInv /\ [Next]_vars => ObjectInv'
  BY NextStep DEF Step
<1> QED BY <1>1, <1>2, PTL DEF Spec

\* repack, prune_packed_objects, expire_multi_pack_index and the others: whatever the object graph,
\* the packs and the order of interrupted and concurrent commands, no step makes an object
\* unreadable but prune's of an aged loose object.
THEOREM OnlyPruneLoses == Spec => OnlyPruneLosesObjects
<1>1. ObjectInv /\ [Next]_vars => [\A o \in Readable(db) \ Readable(db)' :
                                     o \in aged /\ At("unlink") /\ Stage = "prune"]_vars
  BY NextStep DEF Step, NothingLost
<1> QED BY <1>1, ObjectInvariant, PTL DEF Spec, OnlyPruneLosesObjects

-----------------------------------------------------------------------------
(***************************************************************************)
(* Where the multi-pack-index leads.                                       *)
(***************************************************************************)
Leads(x, packs) == x # NoMidx => \A o \in DOMAIN x.at : x.at[o] \in packs

Expiring == At("expire-pack") \/ At("expire-idx")
Installing == At("install") \/ At("index")
AtPrefer == At("prefer") \/ At("check")
Uninstalling == At("uninstall-idx") \/ At("uninstall-pack")

Turns ==
    m.todo # <<>> =>
        /\ Stage = "midx-expire" => Expiring \/ At("stage") \/ At("rebuild")
        /\ Stage = "midx-repack" => At("stage") \/ Installing \/ AtPrefer \/ Uninstalling

\* The multi-pack-index in place leads to packs that stay, and so does the one kept aside to be
\* put back: not to a pack that expires, nor to one just installed that a failure would remove.
MidxInv ==
    /\ Turns
    /\ Expiring => Leads(db.midx, Pairs(db) \ m.packs)
    /\ At("expire-idx") => m.target \in m.packs
    /\ At("rebuild") => Leads(db.midx, Pairs(db))
    /\ Installing /\ Stage = "midx-repack" => db.midx = m.midx /\ Leads(m.midx, Pairs(db) \ {m.target})
    /\ AtPrefer => /\ Leads(db.midx, Pairs(db))
                     /\ Leads(m.midx, IF m.created THEN Pairs(db) \ {m.target} ELSE Pairs(db))
    /\ Uninstalling => db.midx = m.midx /\ Leads(m.midx, Pairs(db) \ {m.target})

LEMMA AtRestMidx == ASSUME m' = Idle \/ m'.pc = "stage" PROVE MidxInv'
<1>1. CASE m' = Idle
  <2>1. m'.pc = "idle" /\ m'.todo = <<>>
    BY <1>1 DEF Idle
  <2> QED BY <2>1 DEF MidxInv, Turns, Expiring, Installing, AtPrefer, Uninstalling, At
<1>2. CASE m'.pc = "stage"
  BY <1>2 DEF MidxInv, Turns, Expiring, Installing, AtPrefer, Uninstalling, At
<1> QED BY <1>1, <1>2

LEMMA AdvancedMidx == ASSUME m' = Advanced(m) PROVE MidxInv'
<1>1. m' = Idle \/ m'.pc = "stage"
  BY DEF Advanced, Idle
<1> QED BY <1>1, AtRestMidx

\* Stages that have nothing to do with the multi-pack-index.
LEMMA ElsewhereMidx ==
    ASSUME m'.todo = m.todo, m.todo # <<>> => Stage \notin MidxStages, Stage # "midx-repack" \/ ~Installing',
           m'.pc \in {"install", "index", "drop", "drop-pack", "packed", "unlink", "rewrite", "undo"}
    PROVE  MidxInv'
BY DEF MidxInv, Turns, Expiring, Installing, AtPrefer, Uninstalling, At, Stage, MidxStages

LEMMA RestingMidx ==
    ASSUME \/ \E j \in Jobs : Start(j)
           \/ RefuseStage \/ Interrupted \/ Verify \/ InstallIdxFails \/ Unlinked \/ Rewritten \/ Undone
           \/ MidxWrite \/ MidxWriteFrom \/ Preferred \/ UninstallPack
    PROVE  MidxInv'
<1>1. CASE \E j \in Jobs : Start(j)
  <2>1. m'.pc = "stage"
    BY <1>1 DEF Start, Idle
  <2> QED BY <2>1, AtRestMidx
<1>2. CASE ~ \E j \in Jobs : Start(j)
  <2>1. m' = Idle \/ m' = Advanced(m)
    BY <1>2 DEF RefuseStage, Interrupted, Verify, InstallIdxFails, Unlinked, Rewritten, Undone,
           MidxWrite, MidxWriteFrom, Preferred, UninstallPack, Proceed
  <2> QED BY <2>1, AtRestMidx, AdvancedMidx
<1> QED BY <1>1, <1>2

LEMMA OtherStagesMidx ==
    ASSUME MidxInv, ObjectInv,
           \/ RepackPlan \/ \E p \in Packs : DropIdx(p)
           \/ DropPack \/ Dropped \/ PrunePackedPlan \/ PrunePlan
           \/ \E o \in Objects : Unlink(o)
           \/ ExpirePlan \/ RewriteFails \/ \E r \in Logged : Rewrite(r) \/ Undo(r)
    PROVE  MidxInv'
<1>0. MShape
  BY DEF ObjectInv, DbInv
<1>1. CASE m' = Advanced(m)
  BY <1>1, AdvancedMidx
<1>2. CASE m' # Advanced(m)
  <2>1. CASE RepackPlan
    <3>1. m'.todo = m.todo /\ m'.pc \in {"drop", "install"} /\ Stage \notin MidxStages
      BY <1>0, <1>2, <2>1 DEF MShape, RepackPlan, Proceed, MidxStages
    <3> QED BY <3>1, ElsewhereMidx DEF MidxStages
  <2>2. CASE ~RepackPlan
    <3>1. m'.todo = m.todo /\ m'.pc \in {"drop", "drop-pack", "packed", "unlink", "rewrite", "undo"}
      BY <1>0, <1>2, <2>2 DEF MShape, DropIdx, DropPack, Dropped, PrunePackedPlan, PrunePlan, Unlink,
             ExpirePlan, RewriteFails, Rewrite, Undo, Proceed, At
    <3>2. m.todo # <<>> => Stage \notin MidxStages
      BY <2>2 DEF MidxInv, Turns, Expiring, Installing, AtPrefer, Uninstalling, At, MidxStages, DropIdx,
             DropPack, Dropped, PrunePackedPlan, PrunePlan, Unlink, ExpirePlan, RewriteFails, Rewrite, Undo
    <3>3. ~Installing'
      BY <3>1 DEF Installing, At
    <3> QED BY <3>1, <3>2, <3>3, ElsewhereMidx
  <2> QED BY <2>1, <2>2
<1> QED BY <1>1, <1>2

LEMMA InstallMidx == ASSUME MidxInv, ObjectInv, InstallPack \/ InstallIdx PROVE MidxInv'
<1>0. MShape /\ DbShape(db)
  BY DEF ObjectInv, DbInv
<1>1. /\ db'.midx = db.midx
      /\ Pairs(db) \subseteq Pairs(db') /\ Pairs(db') \subseteq Pairs(db) \cup {m.target}
      /\ m'.midx = m.midx /\ m'.target = m.target /\ m'.todo = m.todo
      /\ m.pc \in {"install", "index"}
      /\ m'.pc = IF m.pc = "install" THEN "index" ELSE IF Stage = "midx-repack" THEN "prefer" ELSE "drop"
  <2>1. CASE InstallPack
    <3>1. db'.midx = db.midx /\ db'.packs = db.packs \cup {m.target} /\ db'.idxs = db.idxs
      BY <1>0, <2>1 DEF DbShape, InstallPack
    <3>2. /\ m.pc = "install" /\ m'.pc = "index"
          /\ m'.midx = m.midx /\ m'.target = m.target /\ m'.todo = m.todo
      BY <1>0, <2>1 DEF MShape, InstallPack, Proceed, At
    <3> QED BY <3>1, <3>2 DEF Pairs
  <2>2. CASE InstallIdx
    <3>1. db'.midx = db.midx /\ db'.packs = db.packs /\ db'.idxs = db.idxs \cup {m.target}
      BY <1>0, <2>2 DEF DbShape, InstallIdx
    <3>2. /\ m.pc = "index" /\ m'.pc = IF Stage = "midx-repack" THEN "prefer" ELSE "drop"
          /\ m'.midx = m.midx /\ m'.target = m.target /\ m'.todo = m.todo
      BY <1>0, <2>2 DEF MShape, InstallIdx, Proceed, At
    <3> QED BY <3>1, <3>2 DEF Pairs
  <2> QED BY <2>1, <2>2
<1>2. Leads(m.midx, Pairs(db) \ {m.target}) =>
         Leads(m'.midx, Pairs(db') \ {m'.target}) /\ Leads(m'.midx, Pairs(db'))
  BY <1>1 DEF Leads
<1>3. Turns /\ Installing /\ Stage' = Stage
  BY <1>1 DEF MidxInv, Installing, At, Stage
<1>4. CASE Stage = "midx-repack"
  <2>1. db.midx = m.midx /\ Leads(m.midx, Pairs(db) \ {m.target})
    BY <1>3, <1>4 DEF MidxInv
  <2> QED BY <1>1, <1>2, <1>3, <1>4, <2>1
          DEF MidxInv, Turns, Expiring, Installing, AtPrefer, Uninstalling, At
<1>5. CASE Stage # "midx-repack"
  BY <1>1, <1>3, <1>5 DEF MidxInv, Turns, Expiring, Installing, AtPrefer, Uninstalling, At
<1> QED BY <1>4, <1>5

LEMMA ExpireMidx ==
    ASSUME MidxInv, ObjectInv, MidxExpirePlan \/ ExpireIdx \/ \E p \in Packs : ExpirePack(p) PROVE MidxInv'
<1>0. MShape /\ DbShape(db) /\ MidxTypes(db.midx)
  BY DEF ObjectInv, DbInv
<1>1. CASE MidxExpirePlan
  <2> DEFINE doomed == Unreferenced(db.midx)
  <2>1. CASE doomed = {}
    BY <1>1, <2>1, AdvancedMidx DEF MidxExpirePlan, Proceed
  <2>2. CASE doomed # {}
    <3>1. /\ m'.pc = "expire-pack" /\ m'.packs = doomed /\ m'.todo = m.todo /\ UNCHANGED db
          /\ CanPlan("midx-expire") /\ Stage = "midx-expire"
      BY <1>0, <1>1, <2>2 DEF MShape, MidxExpirePlan, Proceed
    <3>2. Leads(db.midx, Pairs(db) \ doomed)
      BY <1>0, <3>1 DEF CanPlan, MidxStages, Covered, Leads, MidxTypes, Unreferenced
    <3> QED BY <3>1, <3>2 DEF MidxInv, Turns, Expiring, Installing, AtPrefer, Uninstalling, At, Stage
  <2> QED BY <2>1, <2>2
<1>2. ASSUME NEW p \in Packs, ExpirePack(p) PROVE MidxInv'
  <2>1. /\ m.pc = "expire-pack" /\ m'.pc = "expire-idx" /\ m'.target = p /\ m'.packs = m.packs
        /\ p \in m.packs /\ m'.todo = m.todo /\ db'.midx = db.midx /\ Pairs(db') = Pairs(db) \ {p}
    BY <1>0, <1>2 DEF MShape, DbShape, ExpirePack, Proceed, At, Pairs
  <2>2. Leads(db'.midx, Pairs(db') \ m'.packs)
    BY <2>1 DEF MidxInv, Expiring, At, Leads
  <2> QED BY <2>1, <2>2 DEF MidxInv, Turns, Expiring, Installing, AtPrefer, Uninstalling, At, Stage
<1>3. CASE ExpireIdx
  <2>1. /\ m.pc = "expire-idx" /\ m'.pc \in {"expire-pack", "rebuild"} /\ m'.packs = m.packs \ {m.target}
        /\ m'.todo = m.todo /\ db'.midx = db.midx /\ Pairs(db') = Pairs(db) \ {m.target}
    BY <1>0, <1>3 DEF MShape, DbShape, ExpireIdx, Proceed, At, Pairs
  <2>2. Leads(db'.midx, Pairs(db') \ m'.packs) /\ Leads(db'.midx, Pairs(db'))
    BY <2>1 DEF MidxInv, Expiring, At, Leads
  <2> QED BY <2>1, <2>2 DEF MidxInv, Turns, Expiring, Installing, AtPrefer, Uninstalling, At, Stage
<1> QED BY <1>1, <1>2, <1>3

LEMMA RepackMidx ==
    ASSUME MidxInv, ObjectInv, MidxRepackPlan \/ Prefer \/ PreferFails \/ UninstallIdx PROVE MidxInv'
<1>0. MShape /\ DbShape(db) /\ MidxTypes(db.midx)
  BY DEF ObjectInv, DbInv
<1>1. CASE MidxRepackPlan
  <2>1. CASE m' = Advanced(m)
    BY <2>1, AdvancedMidx
  <2>2. CASE m' # Advanced(m)
    <3>1. /\ m'.midx = db.midx /\ m'.created = m.created /\ m'.todo = m.todo /\ UNCHANGED db
          /\ m'.pc = IF m'.target \in db.packs \cup db.idxs THEN "prefer" ELSE "install"
      BY <1>0, <1>1, <2>2 DEF MShape, MidxRepackPlan, Proceed
    <3>2. m.pc = "stage" /\ Stage = "midx-repack" /\ Covered(db) \subseteq Pairs(db)
      BY <1>1 DEF MidxRepackPlan, CanPlan, MidxStages, At
    <3>3. m.created = FALSE /\ Leads(db.midx, Pairs(db))
      BY <1>0, <3>2 DEF ObjectInv, StageInv, At, Covered, Leads, MidxTypes
    <3>4. m'.pc = "install" => Leads(m'.midx, Pairs(db') \ {m'.target})
      BY <3>1, <3>3 DEF Leads, Pairs
    <3> QED BY <3>1, <3>2, <3>3, <3>4
            DEF MidxInv, Turns, Expiring, Installing, AtPrefer, Uninstalling, At, Stage
  <2> QED BY <2>1, <2>2
<1>2. CASE Prefer
  <2>1. PICK x \in Preferring(db.idxs, m.target) : db' = [db EXCEPT !.midx = x]
    BY <1>2 DEF Prefer
  <2>2. /\ m.pc = "prefer" /\ m'.pc = "check" /\ m'.midx = m.midx /\ m'.created = m.created
        /\ m'.target = m.target /\ m'.todo = m.todo /\ db'.midx = x /\ Pairs(db') = Pairs(db)
        /\ Pairs(db) = db.idxs
    BY <1>0, <1>2, <2>1 DEF MShape, DbShape, Prefer, Proceed, At, Pairs
  <2>3. Leads(x, db.idxs)
    BY <2>1 DEF Preferring, Midx, Leads
  <2> QED BY <2>2, <2>3 DEF MidxInv, Turns, Expiring, Installing, AtPrefer, Uninstalling, At, Stage
<1>3. CASE PreferFails
  <2>1. CASE m.created
    <3>1. /\ m.pc \in {"prefer", "check"} /\ m'.pc = "uninstall-idx" /\ m'.midx = m.midx
          /\ m'.target = m.target /\ m'.todo = m.todo /\ db'.midx = m.midx /\ Pairs(db') = Pairs(db)
      BY <1>0, <1>3, <2>1 DEF MShape, DbShape, PreferFails, Proceed, At, Pairs
    <3>2. Leads(m.midx, Pairs(db) \ {m.target})
      BY <2>1, <3>1 DEF MidxInv, AtPrefer, At
    <3> QED BY <3>1, <3>2 DEF MidxInv, Turns, Expiring, Installing, AtPrefer, Uninstalling, At, Stage
  <2>2. CASE ~m.created
    BY <1>3, <2>2, AtRestMidx DEF PreferFails, Proceed
  <2> QED BY <2>1, <2>2
<1>4. CASE UninstallIdx
  <2>1. /\ m.pc = "uninstall-idx" /\ m'.pc = "uninstall-pack" /\ m'.midx = m.midx
        /\ m'.target = m.target /\ m'.todo = m.todo /\ db'.midx = db.midx
        /\ Pairs(db') \ {m.target} = Pairs(db) \ {m.target}
    BY <1>0, <1>4 DEF MShape, DbShape, UninstallIdx, Proceed, At, Pairs
  <2> QED BY <2>1 DEF MidxInv, Turns, Expiring, Installing, AtPrefer, Uninstalling, At, Stage
<1> QED BY <1>1, <1>2, <1>3, <1>4

LEMMA OthersMidx ==
    ASSUME MidxInv, ObjectInv, Others \/ UNCHANGED vars \/ \E j \in Jobs : RefuseStart(j) PROVE MidxInv'
<1>1. UNCHANGED m /\ Pairs(db') = Pairs(db) /\ db'.midx = db.midx
  BY DEF ObjectInv, DbInv, DbShape, Others, Write, Move, TimePasses, RefuseStart, vars, Pairs
<1> QED BY <1>1 DEF MidxInv, Turns, Expiring, Installing, AtPrefer, Uninstalling, At, Stage

LEMMA NextMidx == ObjectInv /\ MidxInv /\ [Next]_vars => MidxInv'
BY RestingMidx, OtherStagesMidx, InstallMidx, ExpireMidx, RepackMidx, OthersMidx DEF Next, Maintain

\* expire_multi_pack_index and repack_multi_pack_index: for any packs, wherever the command is,
\* has failed or is met, the multi-pack-index points at no pack that is gone.
THEOREM MappedCopies == Spec => []MappedCopiesExist
<1>1. Init => MidxInv
  <2> SUFFICES ASSUME Init PROVE MidxInv
    OBVIOUS
  <2>1. m.pc = "idle" /\ m.todo = <<>>
    BY DEF Init, Idle
  <2> QED BY <2>1 DEF MidxInv, Turns, Expiring, Installing, AtPrefer, Uninstalling, At
<1>2. ObjectInv /\ MidxInv /\ [Next]_vars => MidxInv'
  BY NextMidx
<1>3. ObjectInv /\ MidxInv => MappedCopiesExist
  <2> SUFFICES ASSUME ObjectInv, MidxInv, m.todo # <<>>, Stage \in MidxStages, ~At("stage"),
                      NEW o \in Objects, Mapped(db, o)
               PROVE  db.midx.at[o] \in Pairs(db)
    BY DEF MappedCopiesExist
  <2>1. db.midx # NoMidx /\ o \in DOMAIN db.midx.at
    BY DEF Mapped, Covered, ObjectInv, DbInv, MidxTypes
  <2>2. Leads(db.midx, Pairs(db))
    BY DEF MidxInv, Turns, MidxStages, Leads
  <2> QED BY <2>1, <2>2 DEF Leads
<1> QED BY <1>1, <1>2, <1>3, ObjectInvariant, PTL DEF Spec

-----------------------------------------------------------------------------
(***************************************************************************)
(* The logs.                                                               *)
(***************************************************************************)
AtLogs == m.pc \in {"rewrite", "undo"}

Droppable(rec) ==
    \/ rec.age = "old"
    \/ rec.age = "stale" /\ (rec.oids \cap Reachable = {} \/ late # {})
    \/ rec \in late

\* What is not in the new logs may be dropped; what is not in the old ones either was
\* appended by others meanwhile.
LogInv ==
    /\ MShape
    /\ logs = [r \in Logged |-> logs[r]]
    /\ AtLogs => /\ m.plan = [r \in Logged |-> m.plan[r]] /\ m.undo = [r \in Logged |-> m.undo[r]]
                 /\ \A r \in Logged : m.plan[r] \subseteq m.undo[r]
                 /\ \A r \in Logged : \A rec \in logs[r] : rec \in m.undo[r] \/ rec \in late
                 /\ \A r \in Logged : \A rec \in m.undo[r] \ m.plan[r] : Droppable(rec)

DropsExpired ==
    \A r \in Logged : \A rec \in logs[r] \ logs[r]' :
          \/ logs[r]' = {[old EXCEPT !.age = Older[@]] : old \in logs[r]}
          \/ Droppable(rec)

LogStep == LogInv' /\ DropsExpired

\* Steps that neither touch the logs nor go on rewriting them.
LEMMA LogsRest ==
    ASSUME LogInv, MShape', UNCHANGED logs, ~AtLogs' PROVE LogStep
BY DEF LogInv, LogStep, DropsExpired, AtLogs

LEMMA ElsewhereStep ==
    ASSUME LogInv, MShape',
           \/ \E j \in Jobs : Start(j)
           \/ RefuseStage \/ Interrupted \/ Verify
           \/ RepackPlan \/ InstallPack \/ InstallIdx \/ InstallIdxFails
           \/ \E p \in Packs : DropIdx(p)
           \/ DropPack \/ Dropped
           \/ PrunePackedPlan \/ PrunePlan
           \/ \E o \in Objects : Unlink(o)
           \/ Unlinked \/ Rewritten \/ Undone
           \/ MidxWrite \/ MidxWriteFrom \/ MidxExpirePlan
           \/ \E p \in Packs : ExpirePack(p)
           \/ ExpireIdx
           \/ MidxRepackPlan \/ Prefer \/ Preferred \/ PreferFails \/ UninstallIdx \/ UninstallPack
    PROVE  LogStep
<1>0. MShape
  BY DEF LogInv
<1>1. CASE m' = Idle \/ m' = Advanced(m)
  <2>1. UNCHANGED logs
    BY DEF Start, RefuseStage, Interrupted, Verify, RepackPlan, InstallPack, InstallIdx, InstallIdxFails,
           DropIdx, DropPack, Dropped, PrunePackedPlan, PrunePlan, Unlink, Unlinked, Rewritten, Undone,
           MidxWrite, MidxWriteFrom, MidxExpirePlan, ExpirePack, ExpireIdx, MidxRepackPlan, Prefer,
           Preferred, PreferFails, UninstallIdx, UninstallPack
  <2>2. ~AtLogs'
    BY <1>1, AdvancedRests DEF AtLogs
  <2> QED BY <2>1, <2>2, LogsRest
<1>2. CASE ~(m' = Idle \/ m' = Advanced(m))
  <2>1. CASE \E j \in Jobs : Start(j)
    <3>1. UNCHANGED logs /\ m'.pc = "stage"
      BY <2>1 DEF Start, Idle
    <3> QED BY <3>1, LogsRest DEF AtLogs
  <2>2. CASE RepackPlan \/ MidxExpirePlan
    <3>1. UNCHANGED logs /\ m'.pc \in {"drop", "install", "expire-pack"}
      BY <1>0, <1>2, <2>2 DEF MShape, RepackPlan, MidxExpirePlan, Proceed
    <3> QED BY <3>1, LogsRest DEF AtLogs
  <2>3. CASE MidxRepackPlan
    <3>1. UNCHANGED logs /\ m'.pc \in {"prefer", "install"}
      BY <1>0, <1>2, <2>3 DEF MShape, MidxRepackPlan, Proceed
    <3> QED BY <3>1, LogsRest DEF AtLogs
  <2>4. CASE InstallPack \/ InstallIdx \/ DropPack \/ Dropped \/ \E p \in Packs : DropIdx(p)
    <3>1. UNCHANGED logs /\ m'.pc \in {"index", "prefer", "drop", "drop-pack", "packed"}
      BY <1>0, <1>2, <2>4 DEF MShape, InstallPack, InstallIdx, DropPack, Dropped, DropIdx, Proceed
    <3> QED BY <3>1, LogsRest DEF AtLogs
  <2>5. CASE PrunePackedPlan \/ PrunePlan \/ \E o \in Objects : Unlink(o)
    <3>1. UNCHANGED logs /\ m'.pc = "unlink"
      BY <1>0, <1>2, <2>5 DEF MShape, PrunePackedPlan, PrunePlan, Unlink, Proceed, At
    <3> QED BY <3>1, LogsRest DEF AtLogs
  <2>6. CASE ExpireIdx \/ \E p \in Packs : ExpirePack(p)
    <3>1. UNCHANGED logs /\ m'.pc \in {"expire-idx", "expire-pack", "rebuild"}
      BY <1>0, <1>2, <2>6 DEF MShape, ExpirePack, ExpireIdx, Proceed
    <3> QED BY <3>1, LogsRest DEF AtLogs
  <2>7. CASE Prefer \/ PreferFails \/ UninstallIdx
    <3>1. UNCHANGED logs /\ m'.pc \in {"check", "uninstall-idx", "uninstall-pack"}
      BY <1>0, <1>2, <2>7 DEF MShape, Prefer, PreferFails, UninstallIdx, Proceed
    <3> QED BY <3>1, LogsRest DEF AtLogs
  <2> QED
    BY <1>2, <2>1, <2>2, <2>3, <2>4, <2>5, <2>6, <2>7
    DEF RefuseStage, Interrupted, Verify, InstallIdxFails, Unlinked, Rewritten, Undone, MidxWrite,
        MidxWriteFrom, Preferred, UninstallPack, Proceed
<1> QED BY <1>1, <1>2

LEMMA ExpireLogSteps ==
    ASSUME LogInv, MShape', ExpirePlan \/ RewriteFails \/ \E r \in Logged : Rewrite(r) \/ Undo(r)
    PROVE  LogStep
<1>0. MShape
  BY DEF LogInv
<1>1. CASE ExpirePlan
  <2> DEFINE keep == [r \in Logged |-> {rec \in logs[r] : ~Expires(rec)}]
  <2>1. m'.plan = keep /\ m'.undo = logs /\ UNCHANGED <<logs, refs, late>>
    BY <1>0, <1>1 DEF MShape, ExpirePlan, Proceed
  <2>2. \A r \in Logged : \A rec \in logs[r] \ keep[r] : Droppable(rec)'
    BY <2>1 DEF Expires, Droppable, Reachable, Roots
  <2> QED BY <2>1, <2>2 DEF LogInv, LogStep, DropsExpired
<1>2. CASE RewriteFails
  <2>1. AtLogs /\ m'.plan = m.plan /\ m'.undo = m.undo /\ UNCHANGED <<logs, refs, late>>
    BY <1>0, <1>2 DEF MShape, RewriteFails, Proceed, At, AtLogs
  <2> QED BY <2>1 DEF LogInv, LogStep, DropsExpired, Droppable, Reachable, Roots
<1>3. ASSUME NEW r \in Logged, Rewrite(r) \/ Undo(r) PROVE LogStep
  <2>1. /\ AtLogs /\ m'.plan = m.plan /\ m'.undo = m.undo /\ UNCHANGED <<refs, late>>
        /\ logs' \in {[logs EXCEPT ![r] = m.plan[r]], [logs EXCEPT ![r] = m.undo[r]]}
    BY <1>0, <1>3 DEF MShape, Rewrite, Undo, Proceed, At, AtLogs
  <2>2. \A q \in Logged : Reachable' = Reachable /\ logs'[q] \in {logs[q], m.plan[q], m.undo[q]}
    BY <2>1 DEF LogInv, Reachable, Roots
  <2>3. \A rec : Droppable(rec)' <=> Droppable(rec)
    BY <2>1 DEF Droppable, Reachable, Roots
  <2>4. LogInv'
    BY <2>1, <2>2, <2>3 DEF LogInv, AtLogs
  <2>5. DropsExpired
    BY <2>1, <2>2 DEF LogInv, DropsExpired, Droppable
  <2> QED BY <2>4, <2>5 DEF LogStep
<1> QED BY <1>1, <1>2, <1>3

LEMMA OthersLogStep ==
    ASSUME LogInv, MShape', Others \/ UNCHANGED vars \/ \E j \in Jobs : RefuseStart(j) PROVE LogStep
<1>1. ASSUME NEW r \in Refs, NEW o \in Objects, Move(r, o) PROVE LogStep
  <2> DEFINE rec == [oids |-> {refs[r], o}, age |-> "fresh"]
  <2>1. /\ logs' = IF r \in Logged THEN [logs EXCEPT ![r] = @ \cup {rec}] ELSE logs
        /\ late' = IF m.plan # <<>> THEN late \cup {rec} ELSE late
        /\ UNCHANGED m
    BY <1>1 DEF Move
  <2> HIDE DEF rec
  <2>2. \A q \in Logged : logs[q] \subseteq logs'[q] /\ logs'[q] \subseteq logs[q] \cup {rec}
    BY <2>1 DEF LogInv
  <2>3. logs' = [q \in Logged |-> logs'[q]]
    BY <2>1 DEF LogInv
  <2>4. CASE AtLogs
    <3>1. CASE Logged = {}
      BY <2>1, <2>3, <2>4, <3>1 DEF LogInv, LogStep, DropsExpired, AtLogs
    <3>2. CASE Logged # {}
      <4>1. m.plan # <<>>
        <5>1. DOMAIN m.plan = Logged
          BY <2>4 DEF LogInv
        <5>2. DOMAIN <<>> = {}
          OBVIOUS
        <5> QED BY <3>2, <5>1, <5>2
      <4>2. late' = late \cup {rec}
        BY <2>1, <4>1
      <4>3. \A q : Droppable(q) => Droppable(q)'
        BY <4>2 DEF Droppable
      <4>4. LogInv'
        BY <2>1, <2>2, <2>3, <2>4, <4>2, <4>3 DEF LogInv, AtLogs
      <4> QED BY <2>2, <4>4 DEF LogStep, DropsExpired
    <3> QED BY <3>1, <3>2
  <2>5. CASE ~AtLogs
    BY <2>1, <2>2, <2>3, <2>5 DEF LogInv, LogStep, DropsExpired, AtLogs
  <2> QED BY <2>4, <2>5
<1>2. CASE TimePasses
  <2>1. /\ logs' = [r \in Logged |-> {[rec EXCEPT !.age = Older[@]] : rec \in logs[r]}]
        /\ ~AtLogs'
    BY <1>2 DEF TimePasses, At, AtLogs
  <2> QED BY <2>1 DEF LogInv, LogStep, DropsExpired
<1>3. CASE UNCHANGED <<m, logs, refs, late>>
  BY <1>3 DEF LogInv, LogStep, DropsExpired, AtLogs, Droppable, Reachable, Roots
<1> QED BY <1>1, <1>2, <1>3 DEF Others, Write, RefuseStart, vars

LEMMA NextLogStep == ObjectInv /\ ObjectInv' /\ LogInv /\ [Next]_vars => LogStep
<1> SUFFICES ASSUME ObjectInv, ObjectInv', LogInv, [Next]_vars PROVE LogStep
  OBVIOUS
<1>0. MShape'
  BY DEF ObjectInv, DbInv
<1> QED BY <1>0, ElsewhereStep, ExpireLogSteps, OthersLogStep DEF Next, Maintain

\* expire_reflogs and append_reflog: in every order of commands, failures and moves of references
\* by others, no log record disappears but by the cutoffs or as one that raced the rewrite.
THEOREM OnlyExpiryDrops == Spec => OnlyExpiryDropsRecords
<1>1. Init => LogInv
  <2> SUFFICES ASSUME Init PROVE LogInv
    OBVIOUS
  <2>1. PICK i \in InitialStates : logs = i.logs
    BY DEF Init
  <2>2. logs \in [Logged -> SUBSET Record]
    BY <2>1, StatesAreTyped
  <2>3. m = Idle
    BY DEF Init
  <2>4. MShape /\ m.pc = "idle"
    BY <2>3 DEF MShape, Idle
  <2> QED BY <2>2, <2>4 DEF LogInv, AtLogs
<1>2. ObjectInv /\ ObjectInv' /\ LogInv /\ [Next]_vars
        => /\ LogInv'
           /\ [\A r \in Logged : \A rec \in logs[r] \ logs[r]' :
                 \/ logs[r]' = {[old EXCEPT !.age = Older[@]] : old \in logs[r]}
                 \/ rec.age = "old"
                 \/ rec.age = "stale" /\ (rec.oids \cap Reachable = {} \/ late # {})
                 \/ rec \in late]_vars
  BY NextLogStep DEF LogStep, DropsExpired, Droppable
<1> QED BY <1>1, <1>2, ObjectInvariant, PTL DEF Spec, OnlyExpiryDropsRecords

-----------------------------------------------------------------------------
(***************************************************************************)
(* What roots and logs lead to.                                            *)
(***************************************************************************)
LEMMA ClosureIs ==
    ASSUME NEW s \in SUBSET Objects
    PROVE  /\ s \subseteq Closure(s) /\ Closure(s) \subseteq Objects /\ ClosedUnderLinks(Closure(s))
           /\ \A c \in SUBSET Objects : s \subseteq c /\ ClosedUnderLinks(c) => Closure(s) \subseteq c
<1>1. Closure(s) = {o \in Objects : \A c \in SUBSET Objects : s \subseteq c /\ ClosedUnderLinks(c) => o \in c}
  BY DEF Closure, Smallest
<1>2. ASSUME NEW o \in Closure(s), NEW l \in Links[o] PROVE l \in Closure(s)
  <2>1. l \in Objects
    BY <1>1, LinksAreObjects
  <2>2. ASSUME NEW c \in SUBSET Objects, s \subseteq c, ClosedUnderLinks(c) PROVE l \in c
    BY <1>1, <2>2 DEF ClosedUnderLinks
  <2> QED BY <1>1, <2>1, <2>2
<1> QED BY <1>1, <1>2 DEF ClosedUnderLinks

LEMMA ClosureMonotone ==
    ASSUME NEW t \in SUBSET Objects, NEW s \in SUBSET Closure(t) PROVE Closure(s) \subseteq Closure(t)
BY ClosureIs

LEMMA ClosureOfUnion ==
    ASSUME NEW s \in SUBSET Objects, NEW t \in SUBSET Objects
    PROVE  Closure(s \cup t) \subseteq Closure(s) \cup Closure(t)
<1> DEFINE c == Closure(s) \cup Closure(t)
<1>1. c \in SUBSET Objects /\ s \cup t \subseteq c /\ ClosedUnderLinks(c)
  BY ClosureIs DEF ClosedUnderLinks
<1> QED BY <1>1, ClosureIs

LEMMA ClosureOfNothing == Closure({}) = {}
<1>1. ClosedUnderLinks({})
  BY DEF ClosedUnderLinks
<1> QED BY <1>1, ClosureIs

Kept == Protected \cup Closure(m.roots)

SafeTypes ==
    /\ refs \in [Refs -> Objects] /\ logs \in [Logged -> SUBSET Record]
    /\ m.roots \in SUBSET Objects
    /\ AtLogs => m.plan \in [Logged -> SUBSET Record] /\ m.undo \in [Logged -> SUBSET Record]

\* The records that leave the logs are remembered as roots until the end of the run.
Remembered ==
    AtLogs => \A r \in Logged : /\ m.plan[r] \subseteq logs[r] /\ m.plan[r] \subseteq m.undo[r]
                                /\ \A rec \in m.undo[r] \ m.plan[r] : rec.oids \subseteq m.roots

\* What another command wrote itself is young.
Young == aged \subseteq db.loose /\ \A o \in session \ found : o \in Readable(db) /\ o \notin aged

\* The chosen victims are loose, and only what others came upon since may be wanted again.
Victims ==
    At("unlink") /\ Stage = "prune" => /\ m.loose \subseteq db.loose
                                       /\ m.loose \cap (Kept \cup session) \subseteq found

SafeInv == SafeTypes /\ Remembered /\ Young /\ Victims /\ Kept \subseteq Readable(db) \cup found

LEMMA OidsAreObjects ==
    ASSUME SafeTypes PROVE Roots \cup LogOids \in SUBSET Objects
BY DEF SafeTypes, Roots, LogOids, Record

\* Nothing that is kept is lost but what others came upon.
LEMMA KeptStays ==
    ASSUME SafeInv, NothingLost PROVE Kept \subseteq Readable(db)' \cup found
BY DEF SafeInv, Victims, NothingLost

\* A step that changes no reference, log or age, and plans no removal.
LEMMA QuietStep ==
    ASSUME SafeInv, NothingLost, UNCHANGED <<refs, logs, session, found, aged>>,
           db'.loose = db.loose, m'.roots \in {m.roots, {}}, ~AtLogs', (At("unlink") => Stage # "prune")'
    PROVE  SafeInv'
<1>1. SafeTypes' /\ Remembered' /\ Victims'
  BY DEF SafeInv, SafeTypes, Remembered, Victims
<1>2. Young'
  BY DEF SafeInv, Young, NothingLost
<1>3. Kept' \subseteq Kept
  BY ClosureOfNothing DEF Kept, Protected, Roots, LogOids
<1> QED BY <1>1, <1>2, <1>3, KeptStays DEF SafeInv

LEMMA AdvancedRoots ==
    ASSUME m' = Idle \/ m' = Advanced(m)
    PROVE  m'.roots \in {m.roots, {}} /\ m'.pc \in {"idle", "stage"}
<1>1. CASE m' = Idle
  BY <1>1 DEF Idle
<1>2. CASE m' = [Idle EXCEPT !.pc = "stage", !.todo = Tail(m.todo), !.roots = m.roots]
  BY <1>2 DEF Idle
<1> QED BY <1>1, <1>2 DEF Advanced

LEMMA QuietSteps ==
    ASSUME SafeInv, ObjectInv, NothingLost,
           \/ RefuseStage \/ Interrupted \/ Verify
           \/ RepackPlan \/ InstallPack \/ InstallIdx \/ InstallIdxFails
           \/ \E p \in Packs : DropIdx(p)
           \/ DropPack \/ Dropped
           \/ PrunePackedPlan
           \/ Unlinked \/ Rewritten \/ Undone
           \/ MidxWrite \/ MidxWriteFrom \/ MidxExpirePlan
           \/ \E p \in Packs : ExpirePack(p)
           \/ ExpireIdx
           \/ MidxRepackPlan \/ Prefer \/ Preferred \/ PreferFails \/ UninstallIdx \/ UninstallPack
    PROVE  SafeInv'
<1>0. MShape /\ DbShape(db)
  BY DEF ObjectInv, DbInv
<1>1. UNCHANGED <<refs, logs, session, found, aged>> /\ db'.loose = db.loose
  <2>1. CASE UNCHANGED db
    BY <2>1 DEF RefuseStage, Interrupted, Verify, RepackPlan, InstallPack, InstallIdx, InstallIdxFails,
           DropIdx, DropPack, Dropped, PrunePackedPlan, Unlinked, Rewritten, Undone,
           MidxWrite, MidxWriteFrom, MidxExpirePlan, ExpirePack, ExpireIdx, MidxRepackPlan, Prefer,
           Preferred, PreferFails, UninstallIdx, UninstallPack, Proceed
  <2>2. CASE ~UNCHANGED db
    BY <1>0, <2>2 DEF DbShape, RefuseStage, Interrupted, Verify, RepackPlan, InstallPack, InstallIdx,
           InstallIdxFails, DropIdx, DropPack, Dropped, PrunePackedPlan, Unlinked, Rewritten, Undone,
           MidxWrite, MidxWriteFrom, MidxExpirePlan, ExpirePack, ExpireIdx, MidxRepackPlan, Prefer,
           Preferred, PreferFails, UninstallIdx, UninstallPack, Proceed
  <2> QED BY <2>1, <2>2
<1>2. m'.roots \in {m.roots, {}} /\ ~AtLogs' /\ (At("unlink") => Stage # "prune")'
  <2>1. CASE m' = Idle \/ m' = Advanced(m)
    BY <2>1, AdvancedRoots DEF AtLogs, At
  <2>2. CASE ~(m' = Idle \/ m' = Advanced(m))
    <3>1. CASE PrunePackedPlan
      <4>1. m'.roots = m.roots /\ m'.pc = "unlink" /\ m'.todo = m.todo /\ Stage # "prune"
        BY <1>0, <3>1 DEF MShape, PrunePackedPlan, Proceed, ObjectInv, StageInv, At
      <4> QED BY <4>1 DEF AtLogs, Stage
    <3>2. CASE ~PrunePackedPlan
      <4>1. m'.roots = m.roots /\ m'.pc \notin {"unlink", "rewrite", "undo"}
        <5>1. CASE RepackPlan \/ MidxExpirePlan
          BY <1>0, <2>2, <5>1 DEF MShape, RepackPlan, MidxExpirePlan, Proceed
        <5>2. CASE MidxRepackPlan
          BY <1>0, <2>2, <5>2 DEF MShape, MidxRepackPlan, Proceed
        <5>3. CASE InstallPack \/ InstallIdx \/ DropPack \/ Dropped \/ \E p \in Packs : DropIdx(p)
          BY <1>0, <2>2, <5>3 DEF MShape, InstallPack, InstallIdx, DropPack, Dropped, DropIdx, Proceed
        <5>4. CASE ExpireIdx \/ \E p \in Packs : ExpirePack(p)
          BY <1>0, <2>2, <5>4 DEF MShape, ExpirePack, ExpireIdx, Proceed
        <5>5. CASE Prefer \/ PreferFails \/ UninstallIdx
          BY <1>0, <2>2, <5>5 DEF MShape, Prefer, PreferFails, UninstallIdx, Proceed
        <5> QED
          BY <2>2, <3>2, <5>1, <5>2, <5>3, <5>4, <5>5
          DEF RefuseStage, Interrupted, Verify, InstallIdxFails, Unlinked, Rewritten, Undone, MidxWrite,
              MidxWriteFrom, Preferred, UninstallPack, Proceed
      <4> QED BY <4>1 DEF AtLogs, At
    <3> QED BY <3>1, <3>2
  <2> QED BY <2>1, <2>2
<1> QED BY <1>1, <1>2, QuietStep

LEMMA StartSafe ==
    ASSUME SafeInv, NothingLost, NEW j \in Jobs, Start(j) \/ RefuseStart(j) PROVE SafeInv'
<1>1. CASE Start(j)
  <2>1. m'.roots = {} /\ m'.pc = "stage"
    BY <1>1 DEF Start, Idle
  <2>2. UNCHANGED <<db, aged, refs, logs, session>> /\ found' = IF session = {} THEN found \ Readable(db) ELSE found
    BY <1>1 DEF Start
  <2>3. SafeTypes' /\ Remembered' /\ Victims' /\ Young'
    BY <2>1, <2>2 DEF SafeInv, SafeTypes, Remembered, Victims, Young, AtLogs, At
  <2>4. Kept' \subseteq Kept
    BY <2>1, <2>2, ClosureOfNothing DEF Kept, Protected, Roots, LogOids
  <2> QED BY <2>2, <2>3, <2>4 DEF SafeInv
<1>2. CASE RefuseStart(j)
  BY <1>2 DEF RefuseStart, SafeInv, SafeTypes, Remembered, Victims, Young, AtLogs, At, Stage, Kept,
              Protected, Roots, LogOids
<1> QED BY <1>1, <1>2

LEMMA PruneSafe ==
    ASSUME SafeInv, ObjectInv, NothingLost, PrunePlan \/ \E o \in Objects : Unlink(o) PROVE SafeInv'
<1>0. MShape /\ DbShape(db)
  BY DEF ObjectInv, DbInv
<1>1. UNCHANGED <<refs, logs, session, found>> /\ m'.roots = m.roots /\ m'.pc = "unlink" /\ m'.todo = m.todo
  BY <1>0 DEF MShape, PrunePlan, Unlink, Proceed, At
<1>2. Kept' = Kept /\ SafeTypes' /\ Remembered'
  BY <1>1 DEF SafeInv, SafeTypes, Remembered, Kept, Protected, Roots, LogOids, AtLogs
<1>3. Kept' \subseteq Readable(db)' \cup found'
  BY <1>1, <1>2, KeptStays
<1>4. CASE PrunePlan
  <2>1. m'.loose = (db.loose \cap aged) \ Retained /\ UNCHANGED <<db, aged>>
    BY <1>0, <1>4 DEF MShape, PrunePlan, Proceed
  <2>2. Kept \subseteq Retained
    <3>1. Roots \cup LogOids \in SUBSET Objects /\ m.roots \in SUBSET Objects
      BY OidsAreObjects DEF SafeInv, SafeTypes
    <3>2. Roots \cup LogOids \subseteq Retained /\ m.roots \subseteq Retained
      BY <3>1, ClosureIs DEF Retained
    <3> QED BY <3>1, <3>2, ClosureMonotone DEF Kept, Protected, Retained
  <2>3. Victims' /\ Young'
    BY <1>1, <1>2, <2>1, <2>2 DEF SafeInv, Victims, Young
  <2> QED BY <1>2, <1>3, <2>3 DEF SafeInv
<1>5. ASSUME NEW o \in Objects, Unlink(o) PROVE SafeInv'
  <2>1. m'.loose = m.loose \ {o} /\ db'.loose = db.loose \ {o} /\ aged' = aged \ {o} /\ m.pc = "unlink"
    BY <1>0, <1>5 DEF MShape, DbShape, Unlink, Proceed, At
  <2>2. Victims' /\ Young'
    BY <1>1, <1>2, <2>1 DEF SafeInv, Victims, Young, NothingLost, At, Stage
  <2> QED BY <1>2, <1>3, <2>2 DEF SafeInv
<1> QED BY <1>4, <1>5

LEMMA ExpireSafe ==
    ASSUME SafeInv, ObjectInv, NothingLost,
           ExpirePlan \/ RewriteFails \/ \E r \in Logged : Rewrite(r) \/ Undo(r)
    PROVE  SafeInv'
<1>0. MShape
  BY DEF ObjectInv, DbInv
<1>1. UNCHANGED <<db, aged, refs, session, found>> /\ m'.pc \in {"rewrite", "undo"}
  BY <1>0 DEF MShape, ExpirePlan, RewriteFails, Rewrite, Undo, Proceed, At
<1>2. Victims' /\ Young'
  BY <1>1 DEF SafeInv, Victims, Young, At
<1>3. SUFFICES SafeTypes' /\ Remembered' /\ Kept' \subseteq Kept
  BY <1>1, <1>2 DEF SafeInv
<1>4. Roots \cup LogOids \in SUBSET Objects /\ m.roots \in SUBSET Objects
  BY OidsAreObjects DEF SafeInv, SafeTypes
<1>5. CASE ExpirePlan
  <2> DEFINE keep == [r \in Logged |-> {rec \in logs[r] : ~Expires(rec)}]
             roots == UNION {rec.oids : rec \in UNION {logs[r] \ keep[r] : r \in Logged}}
  <2>1. m'.plan = keep /\ m'.undo = logs /\ m'.roots = roots /\ UNCHANGED logs
    BY <1>0, <1>5 DEF MShape, ExpirePlan, Proceed
  <2>2. \A r \in Logged : keep[r] \subseteq logs[r]
    OBVIOUS
  <2>3. \A r \in Logged : \A rec \in logs[r] \ keep[r] : rec.oids \subseteq roots
    OBVIOUS
  <2>4. keep \in [Logged -> SUBSET Record]
    BY DEF SafeInv, SafeTypes
  <2>5. roots \subseteq LogOids
    BY DEF LogOids
  <2> HIDE DEF keep, roots
  <2>6. SafeTypes'
    BY <1>1, <1>4, <2>1, <2>4, <2>5 DEF SafeInv, SafeTypes
  <2>7. Remembered'
    BY <2>1, <2>2, <2>3 DEF Remembered
  <2>8. Kept' \subseteq Kept
    <3>1. Protected' = Protected
      BY <1>1, <2>1 DEF Protected, Roots, LogOids
    <3>2. Closure(roots) \subseteq Protected
      BY <1>4, <2>5, ClosureIs, ClosureMonotone DEF Protected
    <3> QED BY <2>1, <3>1, <3>2 DEF Kept
  <2> QED BY <2>6, <2>7, <2>8
<1>6. CASE RewriteFails
  <2>1. AtLogs /\ m'.plan = m.plan /\ m'.undo = m.undo /\ m'.roots = m.roots /\ UNCHANGED logs
    BY <1>0, <1>6 DEF MShape, RewriteFails, Proceed, At, AtLogs
  <2> QED BY <1>1, <2>1 DEF SafeInv, SafeTypes, Remembered, Kept, Protected, Roots, LogOids
<1>7. ASSUME NEW r \in Logged, Rewrite(r) \/ Undo(r) PROVE SafeTypes' /\ Remembered' /\ Kept' \subseteq Kept
  <2>1. /\ AtLogs /\ m'.plan = m.plan /\ m'.undo = m.undo /\ m'.roots = m.roots
        /\ logs' \in {[logs EXCEPT ![r] = m.plan[r]], [logs EXCEPT ![r] = m.undo[r]]}
    BY <1>0, <1>7 DEF MShape, Rewrite, Undo, Proceed, At, AtLogs
  <2>2. SafeTypes'
    BY <1>1, <2>1 DEF SafeInv, SafeTypes, AtLogs
  <2>3. Remembered'
    BY <2>1 DEF SafeInv, SafeTypes, Remembered
  <2>4. LogOids' \subseteq LogOids \cup m.roots
    <3>1. \A s \in Logged : \A rec \in logs'[s] : rec \in logs[s] \/ rec.oids \subseteq m.roots
      BY <2>1 DEF SafeInv, SafeTypes, Remembered
    <3> QED BY <3>1 DEF LogOids
  <2>5. Kept' \subseteq Kept
    <3>1. Roots' = Roots
      BY <1>1 DEF Roots
    <3> DEFINE all == Roots \cup LogOids
    <3>2. Closure(all \cup m.roots) \subseteq Kept
      BY <1>4, ClosureOfUnion DEF Kept, Protected
    <3>3. Roots' \cup LogOids' \subseteq Closure(all \cup m.roots)
      BY <1>4, <2>4, <3>1, ClosureIs
    <3>4. Protected' \subseteq Closure(all \cup m.roots)
      BY <1>4, <3>3, ClosureMonotone DEF Protected
    <3> QED BY <2>1, <3>2, <3>4 DEF Kept
  <2> QED BY <2>2, <2>3, <2>5
<1> QED BY <1>5, <1>6, <1>7

LEMMA OthersSafe == ASSUME SafeInv, ObjectInv, NothingLost, Others \/ UNCHANGED vars PROVE SafeInv'
<1>0. DbShape(db)
  BY DEF ObjectInv, DbInv
<1>1. ASSUME NEW o \in Objects, Write(o) PROVE SafeInv'
  <2>1. /\ UNCHANGED <<aged, refs, logs, m>> /\ db'.loose = db.loose \cup {o}
        /\ session' = session \cup {o} /\ found' = found \cup (db.loose \cap {o})
    BY <1>0, <1>1 DEF Write, DbShape
  <2>2. Kept' = Kept /\ SafeTypes' /\ Remembered'
    BY <2>1 DEF SafeInv, SafeTypes, Remembered, Kept, Protected, Roots, LogOids, AtLogs
  <2>3. Kept' \subseteq Readable(db)' \cup found'
    BY <2>1, <2>2, KeptStays
  <2>4. o \in Readable(db)'
    BY <2>1 DEF Readable, Reads
  <2>5. Young'
    BY <2>1, <2>4 DEF SafeInv, Young, NothingLost
  <2>6. Victims'
    BY <2>1, <2>2 DEF SafeInv, Victims, At, Stage
  <2> QED BY <2>2, <2>3, <2>5, <2>6 DEF SafeInv
<1>2. ASSUME NEW r \in Refs, NEW o \in Objects, Move(r, o) PROVE SafeInv'
  <2> DEFINE rec == [oids |-> {refs[r], o}, age |-> "fresh"]
  <2>1. /\ UNCHANGED <<db, aged, m>> /\ refs' = [refs EXCEPT ![r] = o] /\ session' = {}
        /\ found' = found \cup (Closure({o}) \ (session \cup Protected))
        /\ logs' = IF r \in Logged THEN [logs EXCEPT ![r] = @ \cup {rec}] ELSE logs
        /\ o \in session \/ Closure({o}) \subseteq Readable(db)
    BY <1>2 DEF Move
  <2>2. rec \in Record /\ rec.oids = {refs[r], o}
    BY DEF Record, Ages, SafeInv, SafeTypes
  <2> HIDE DEF rec
  <2>3. refs' \in [Refs -> Objects] /\ logs' \in [Logged -> SUBSET Record]
    BY <2>1, <2>2 DEF SafeInv, SafeTypes
  <2>4. SafeTypes' /\ Remembered'
    BY <2>1, <2>2, <2>3 DEF SafeInv, SafeTypes, Remembered, AtLogs
  <2>5. Kept' \subseteq Kept \cup Closure({o})
    <3>1. Roots \cup LogOids \in SUBSET Objects
      BY OidsAreObjects DEF SafeInv
    <3>2. Roots' \subseteq Roots \cup {o}
      BY <2>1 DEF SafeInv, SafeTypes, Roots
    <3>3. LogOids' \subseteq LogOids \cup Roots \cup {o}
      <4>1. \A s \in Logged : logs'[s] \subseteq logs[s] \cup {rec}
        BY <2>1 DEF SafeInv, SafeTypes
      <4>2. refs[r] \in Roots
        BY DEF Roots
      <4> QED BY <2>2, <4>1, <4>2 DEF LogOids
    <3> DEFINE all == Roots \cup LogOids
    <3>4. Roots' \cup LogOids' \subseteq Closure(all \cup {o})
      BY <3>1, <3>2, <3>3, ClosureIs
    <3>5. Protected' \subseteq Closure(all \cup {o})
      BY <3>1, <3>4, ClosureMonotone DEF Protected
    <3>6. Closure(all \cup {o}) \subseteq Protected \cup Closure({o})
      BY <3>1, ClosureOfUnion DEF Protected
    <3> QED BY <2>1, <3>5, <3>6 DEF Kept
  <2>6. Closure({o}) \subseteq session \cup Protected \cup found'
    BY <2>1
  <2>7. Kept' \subseteq Readable(db)' \cup found'
    BY <2>1, <2>5, <2>6 DEF SafeInv, Young, Kept
  <2>8. Victims'
    <3>1. Victims
      BY DEF SafeInv
    <3>2. Kept' \subseteq Kept \cup session \cup found'
      BY <2>5, <2>6 DEF Kept
    <3> QED BY <2>1, <3>1, <3>2 DEF Victims, At, Stage
  <2>9. Young'
    BY <2>1 DEF SafeInv, Young
  <2> QED BY <2>4, <2>7, <2>8, <2>9 DEF SafeInv
<1>3. CASE TimePasses
  <2>1. /\ UNCHANGED <<db, refs, m, session, found>> /\ m.pc = "idle" /\ session = {} /\ aged' = db.loose
        /\ logs' = [r \in Logged |-> {[rec EXCEPT !.age = Older[@]] : rec \in logs[r]}]
    BY <1>3 DEF TimePasses, At
  <2>2. \A rec \in Record : [rec EXCEPT !.age = Older[@]] \in Record
                            /\ [rec EXCEPT !.age = Older[@]].oids = rec.oids
    BY DEF Record, Ages, Older
  <2>3. logs' \in [Logged -> SUBSET Record]
    BY <2>1, <2>2 DEF SafeInv, SafeTypes
  <2>4. LogOids' \subseteq LogOids
    <3>1. \A r \in Logged : \A new \in logs'[r] : \E rec \in logs[r] : new.oids = rec.oids
      <4> SUFFICES ASSUME NEW r \in Logged, NEW new \in logs'[r] PROVE \E rec \in logs[r] : new.oids = rec.oids
        OBVIOUS
      <4>1. PICK rec \in logs[r] : new = [rec EXCEPT !.age = Older[@]]
        BY <2>1, Zenon
      <4>2. rec \in Record
        BY DEF SafeInv, SafeTypes
      <4> QED BY <2>2, <4>1, <4>2
    <3> QED BY <3>1 DEF LogOids
  <2>5. Kept' \subseteq Kept
    <3>1. Roots \cup LogOids \in SUBSET Objects
      BY OidsAreObjects DEF SafeInv
    <3>2. Roots' \cup LogOids' \subseteq Closure(Roots \cup LogOids)
      BY <2>1, <2>4, <3>1, ClosureIs DEF Roots
    <3> QED BY <2>1, <3>1, <3>2, ClosureMonotone DEF Kept, Protected
  <2>6. SafeTypes' /\ Remembered' /\ Young' /\ Victims'
    BY <2>1, <2>3 DEF SafeInv, SafeTypes, Remembered, Young, Victims, AtLogs, At
  <2> QED BY <2>1, <2>5, <2>6 DEF SafeInv
<1>4. CASE UNCHANGED vars
  BY <1>4 DEF vars, SafeInv, SafeTypes, Remembered, Victims, Young, AtLogs, At, Stage, Kept,
              Protected, Roots, LogOids
<1> QED BY <1>1, <1>2, <1>3, <1>4 DEF Others

LEMMA NextSafe == ObjectInv /\ SafeInv /\ [Next]_vars => SafeInv'
<1> SUFFICES ASSUME ObjectInv, SafeInv, [Next]_vars PROVE SafeInv'
  OBVIOUS
<1>1. NothingLost
  BY NextStep DEF Step
<1> QED BY <1>1, QuietSteps, StartSafe, PruneSafe, ExpireSafe, OthersSafe DEF Next, Maintain

\* fsck's roots, reflog expire, prune and store.write together: whatever the object graph, the order
\* of maintenance, its interruptions and the commands it meets, what a root, a log record or a
\* record expired in the same run leads to can be read, but for what another command came upon.
THEOREM ProtectedStays == Spec => []ProtectedStaysReadable
<1>1. Init => SafeInv
  <2> SUFFICES ASSUME Init PROVE SafeInv
    OBVIOUS
  <2>1. PICK i \in InitialStates : db = i.db /\ aged = i.aged /\ refs = i.refs /\ logs = i.logs
    BY DEF Init
  <2>2. m.pc = "idle" /\ m.roots = {} /\ session = {}
    BY DEF Init, Idle
  <2>3. SafeTypes /\ Remembered /\ Young /\ Victims
    BY <2>1, <2>2, StatesAreTyped DEF SafeTypes, Remembered, Young, Victims, AtLogs, At
  <2>4. Kept \subseteq Readable(db)
    BY <2>1, <2>2, StatesAreComplete, ClosureOfNothing DEF Kept, Protected, Roots, LogOids
  <2> QED BY <2>3, <2>4 DEF SafeInv
<1>2. ObjectInv /\ SafeInv /\ [Next]_vars => SafeInv'
  BY NextSafe
<1>3. SafeInv => ProtectedStaysReadable
  BY DEF SafeInv, Kept, ProtectedStaysReadable
<1> QED BY <1>1, <1>2, <1>3, ObjectInvariant, PTL DEF Spec
=============================================================================

------------------------------ MODULE PackRefs ------------------------------
(***************************************************************************)
(* pack_refs of packed_refs.py, one file operation per step.  It copies    *)
(* selected loose refs into packed-refs, then unlinks their loose files.   *)
(* An OSError restores packed-refs and then the loose files; nothing locks *)
(* the files, so another process may replace a loose ref at any moment.    *)
(***************************************************************************)
EXTENDS RefImage

CONSTANTS Tags,             \* the names under refs/tags/, packed by default
          Present,          \* the objects the store can read
          Requests,         \* the pack-refs invocations: see Request
          InitialFiles,
          Faults,           \* subset of {"oserror", "crash"}
          MaxRounds,        \* bound: invocations in one behaviour
          MaxUpdates        \* bound: loose refs replaced by other processes

\* all_refs, includes (empty: tags only), excludes and prune; patterns as the sets of
\* names they match.
Request == [all : BOOLEAN, includes : SUBSET Named, excludes : SUBSET Named, prune : BOOLEAN]

ASSUME TagsAreRefs == Tags \subseteq OtherRefs
ASSUME RequestsAreTyped == Requests \subseteq Request
ASSUME FilesAreTyped == \A f \in InitialFiles : FileTypes(f)
ASSUME BoundsAreNat == MaxRounds \in Nat /\ MaxUpdates \in Nat

VARIABLES fs,
          pc,
          request,      \* the running invocation
          records,      \* next_records: what packed-refs will hold
          selected,     \* the refs it packs
          unlinked,     \* selected refs whose loose file is already gone
          snap,         \* snapshots: packed-refs and the selected loose files
          visible,      \* history: the image every other process has asked for
          updates,      \* loose refs replaced by others so far
          disturbed,    \* history: refs others replaced since the invocation began
          outcome,
          rounds

packVars == <<fs, pc, request, records, selected, unlinked, snap, visible, updates, disturbed, outcome, rounds>>

Stages == {"idle", "snapshot", "write", "prune", "rollback"}
Outcomes == {"none", "ok", "oserror", "crash", "torn"}

Idle == [all |-> FALSE, includes |-> {}, excludes |-> {}, prune |-> FALSE]

PackInit ==
    /\ fs \in InitialFiles
    /\ pc = "idle"
    /\ request = Idle
    /\ records = fs[PackedFile]
    /\ selected = {}
    /\ unlinked = {}
    /\ snap = <<>>
    /\ visible = Image(fs)
    /\ updates = 0
    /\ disturbed = {}
    /\ outcome = "none"
    /\ rounds = 0

-----------------------------------------------------------------------------
LooseDirect(f) == {r \in Named : f[RefFile(r)] \in Oids}

Selected(f, q) ==
    {r \in LooseDirect(f) :
        /\ \/ q.all
           \/ r \in q.includes
           \/ q.includes = {} /\ r \in Tags
        /\ r \notin q.excludes}

\* Keeping an older packed value, or dropping the refs not selected (faulty NextRecords).
NextRecordsKeepOld(f, q) ==
    [r \in Named |->
        IF r \in Selected(f, q) /\ f[PackedFile][r] = None
        THEN f[RefFile(r)] ELSE f[PackedFile][r]]
NextRecordsSelectedOnly(f, q) ==
    [r \in Named |-> IF r \in Selected(f, q) THEN f[RefFile(r)] ELSE None]

NextRecords(f, q) ==
    [r \in Named |-> IF r \in Selected(f, q) THEN f[RefFile(r)] ELSE f[PackedFile][r]]

\* Reading and selecting.  A selected ref that names a missing object is refused.
Begin(q) ==
    /\ pc = "idle"
    /\ rounds < MaxRounds
    /\ \A r \in Selected(fs, q) : fs[RefFile(r)] \in Present
    /\ pc' = "snapshot"
    /\ request' = q
    /\ records' = NextRecords(fs, q)
    /\ selected' = Selected(fs, q)
    /\ unlinked' = {}
    /\ snap' = <<>>
    /\ visible' = Image(fs)
    /\ disturbed' = {}
    /\ outcome' = "none"
    /\ rounds' = rounds + 1
    /\ UNCHANGED <<fs, updates>>

\* The snapshots are read again from the files, after the values to pack were.
TakeSnapshots ==
    /\ pc = "snapshot"
    /\ pc' = "write"
    /\ snap' = [p \in {PackedFile} \cup {RefFile(r) : r \in selected} |-> fs[p]]
    /\ UNCHANGED <<fs, request, records, selected, unlinked, visible, updates, disturbed, outcome, rounds>>

WritePacked ==
    /\ pc = "write"
    /\ fs' = [fs EXCEPT ![PackedFile] = records]
    /\ pc' = IF request.prune THEN "prune" ELSE "idle"
    /\ outcome' = IF request.prune THEN outcome ELSE "ok"
    /\ UNCHANGED <<request, records, selected, unlinked, snap, visible, updates, disturbed, rounds>>

ToUnlink == selected \ unlinked

UnlinkLoose(r) ==
    /\ pc = "prune"
    /\ r \in ToUnlink
    /\ fs' = [fs EXCEPT ![RefFile(r)] = None]
    /\ unlinked' = unlinked \cup {r}
    /\ UNCHANGED <<pc, request, records, selected, snap, visible, updates, disturbed, outcome, rounds>>

Finish ==
    /\ pc = "prune"
    /\ ToUnlink = {}
    /\ pc' = "idle"
    /\ outcome' = "ok"
    /\ UNCHANGED <<fs, request, records, selected, unlinked, snap, visible, updates, disturbed, rounds>>

-----------------------------------------------------------------------------
OSError ==
    /\ "oserror" \in Faults
    /\ \/ pc = "write"
       \/ pc = "prune" /\ ToUnlink # {}
    /\ pc' = "rollback"
    /\ UNCHANGED <<fs, request, records, selected, unlinked, snap, visible, updates, disturbed, outcome, rounds>>

\* packed-refs is restored first, the loose files after it.
Restore ==
    /\ pc = "rollback"
    /\ \E p \in DOMAIN snap :
          /\ PackedFile \in DOMAIN snap => p = PackedFile
          /\ fs' = [fs EXCEPT ![p] = snap[p]]
          /\ snap' = [q \in DOMAIN snap \ {p} |-> snap[q]]
    /\ UNCHANGED <<pc, request, records, selected, unlinked, visible, updates, disturbed, outcome, rounds>>

EndRollback ==
    /\ pc = "rollback"
    /\ DOMAIN snap = {}
    /\ pc' = "idle"
    /\ outcome' = "oserror"
    /\ UNCHANGED <<fs, request, records, selected, unlinked, snap, visible, updates, disturbed, rounds>>

Crash ==
    /\ "crash" \in Faults
    /\ pc # "idle"
    /\ pc' = "idle"
    /\ outcome' = IF pc = "rollback" THEN "torn" ELSE "crash"
    /\ UNCHANGED <<fs, request, records, selected, unlinked, snap, visible, updates, disturbed, rounds>>

\* Another process publishes a direct ref (os.replace of its loose file).
OtherUpdate(r, v) ==
    /\ updates < MaxUpdates
    /\ fs' = [fs EXCEPT ![RefFile(r)] = v]
    /\ visible' = [visible EXCEPT ![r] = v]
    /\ updates' = updates + 1
    /\ disturbed' = disturbed \cup {r}
    /\ UNCHANGED <<pc, request, records, selected, unlinked, snap, outcome, rounds>>

PackNext ==
    \/ \E q \in Requests : Begin(q)
    \/ TakeSnapshots
    \/ WritePacked
    \/ \E r \in Named : UnlinkLoose(r)
    \/ Finish
    \/ OSError
    \/ Restore
    \/ EndRollback
    \/ Crash
    \/ \E r \in Named, v \in Oids : OtherUpdate(r, v)

PackSpec == PackInit /\ [][PackNext]_packVars

-----------------------------------------------------------------------------
(***************************************************************************)
(* Properties.                                                             *)
(***************************************************************************)

\* Every variable has its type; only selected refs lose their loose file.
PackTypeOK ==
    /\ FileTypes(fs)
    /\ pc \in Stages
    /\ request \in Request
    /\ records \in Packed
    /\ selected \subseteq Named
    /\ unlinked \subseteq selected
    /\ \A p \in DOMAIN snap :
          \/ p = PackedFile /\ snap[p] \in Packed
          \/ \E r \in Named : p = RefFile(r) /\ snap[p] \in Value
    /\ visible \in Images
    /\ updates \in 0..MaxUpdates
    /\ disturbed \subseteq Named
    /\ outcome \in Outcomes
    /\ rounds \in 0..MaxRounds

\* Packing is invisible: at every step, and after a crash at any step but the rollback's,
\* every ref that no other process replaced reads as it did before, pruned or not.
PackingIsInvisible ==
    pc # "rollback" /\ outcome # "torn" =>
        \A r \in Refs \ disturbed : Image(fs)[r] = visible[r]

\* Why it is invisible: until it prunes, the records it will write hold every ref's loose
\* or packed value; while it prunes, packed-refs alone holds every selected value.
RecordsCoverLooseRefs ==
    /\ pc \in {"snapshot", "write"} =>
           \A r \in Named \ disturbed :
               IF r \in selected
               THEN fs[RefFile(r)] \in Oids /\ records[r] = fs[RefFile(r)]
               ELSE records[r] = fs[PackedFile][r]
    /\ pc = "prune" =>
           \A r \in selected \ disturbed :
               fs[PackedFile][r] \in Oids /\ fs[PackedFile][r] = visible[r]

\* The selected refs whose loose file the rollback has put back, pruned or not.
Rewritten ==
    IF pc = "rollback" \/ outcome \in {"oserror", "torn"}
    THEN {r \in selected : RefFile(r) \notin DOMAIN snap} ELSE {}

\* At every moment, of the rollback and after a kill in it too, a ref that does not read as
\* last asked for is one of two.  Another process replaced it, and pack_refs then unlinked its
\* loose file or its rollback wrote the old one over it.  Or the rollback has put the old
\* packed-refs back and not yet the loose file that was unlinked.
OnlyOverwrittenUpdatesAreLost ==
    \A r \in Refs : Image(fs)[r] # visible[r] =>
        \/ r \in disturbed /\ r \in unlinked \cup Rewritten
        \/ /\ pc = "rollback" \/ outcome = "torn"
           /\ PackedFile \notin DOMAIN snap
           /\ r \in unlinked \ Rewritten
=============================================================================

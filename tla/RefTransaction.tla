--------------------------- MODULE RefTransaction ---------------------------
(***************************************************************************)
(* The ref transaction publisher of ref_transaction.py, one file operation *)
(* per step, so that every state is one another process may read and one a *)
(* killed process may leave behind.                                        *)
(*                                                                         *)
(* A transaction plans and snapshots (nothing visible changes), publishes  *)
(* each ref file, drops packed copies of the refs it deleted or made       *)
(* symbolic, and appends the reflogs.  An OSError in any of those steps    *)
(* restores every snapshot; a crash leaves the files as they are.          *)
(*                                                                         *)
(* set_symbolic_ref and delete_symbolic_ref walk the same stages with one  *)
(* change and a planner of their own.                                      *)
(***************************************************************************)
EXTENDS RefPlan

CONSTANTS Batches,      \* the update-ref batches the environment may submit
          SymrefEdits,  \* the symbolic-ref calls it may make: [ref, target], None deletes
          InitialFiles, \* the repositories it may start from
          Faults,       \* subset of {"oserror", "crash"}
          MaxRounds     \* bound: operations started in one behaviour

ASSUME BatchesAreTyped == \A b \in Batches : BatchTypes(b)
ASSUME EditsAreTyped == SymrefEdits \subseteq Edit
ASSUME FilesAreTyped == \A f \in InitialFiles : FileTypes(f)
ASSUME RoundsAreBounded == MaxRounds \in Nat

VARIABLES fs,       \* the ref files
          pc,       \* the stage of the running operation
          plan,     \* its planned changes
          next,     \* the change the stage is at
          snap,     \* snapshots, one per path the operation may write
          before,   \* history: the files when the operation began
          outcome,  \* history: how the last operation ended
          rounds    \* operations started so far

vars == <<fs, pc, plan, next, snap, before, outcome, rounds>>

Stages == {"idle", "publish", "unpack", "log", "mirror", "rollback"}
Outcomes == {"none", "ok", "error", "oserror", "crash"}

Init ==
    /\ fs \in InitialFiles
    /\ pc = "idle"
    /\ plan = <<>>
    /\ next = 1
    /\ snap = <<>>
    /\ before = fs
    /\ outcome = "none"
    /\ rounds = 0

-----------------------------------------------------------------------------
(***************************************************************************)
(* Planning and snapshots.                                                 *)
(***************************************************************************)
\* A deletion that forgets the packed copy (a faulty Unpacks).
UnpacksSymbolicOnly(c) == c.ref # HEAD /\ c.sym

Unpacks(c) == c.ref # HEAD /\ (c.new = None \/ c.sym)

NeedsUnpack(f, p) ==
    \E i \in DOMAIN p : Unpacks(p[i]) /\ f[PackedFile][p[i].ref] # None

\* Snapshots that miss the mirrored reflog of HEAD (a faulty Footprint).
FootprintWithoutHeadLog(p, packed) ==
    {RefFile(p[i].ref) : i \in DOMAIN p}
    \cup {LogFile(p[i].ref) : i \in DOMAIN p}
    \cup (IF packed THEN {PackedFile} ELSE {})

Footprint(p, packed) ==
    {RefFile(p[i].ref) : i \in DOMAIN p}
    \cup {LogFile(p[i].ref) : i \in DOMAIN p}
    \cup (IF \E i \in DOMAIN p : p[i].mirror THEN {LogFile(HEAD)} ELSE {})
    \cup (IF packed THEN {PackedFile} ELSE {})

Start(newPlan, packed) ==
    /\ pc = "idle"
    /\ rounds < MaxRounds
    /\ pc' = "publish"
    /\ plan' = newPlan
    /\ next' = 1
    /\ snap' = [p \in Footprint(newPlan, packed) |-> fs[p]]
    /\ before' = fs
    /\ outcome' = "none"
    /\ rounds' = rounds + 1
    /\ UNCHANGED fs

BeginBatch(b) ==
    LET img == Image(fs)
        p == Plan(img, b)
    IN /\ Accepts(img, b)
       /\ HeadIsReadable(img, p)
       /\ Start(p, NeedsUnpack(fs, p))

BeginSetSymbolic(e) ==
    /\ SetSymbolicAccepted(Image(fs), e)
    /\ Start(EditPlan(Image(fs), e), e.ref # HEAD)

BeginDeleteSymbolic(e) ==
    /\ DeleteSymbolicAccepted(Image(fs), e)
    /\ Start(EditPlan(Image(fs), e), TRUE)

-----------------------------------------------------------------------------
(***************************************************************************)
(* Publication, one file at a time.                                        *)
(***************************************************************************)
AfterPublish == IF PackedFile \in DOMAIN snap THEN "unpack" ELSE "log"

Publish ==
    /\ pc = "publish"
    /\ next <= Len(plan)
    /\ fs' = [fs EXCEPT ![RefFile(plan[next].ref)] = plan[next].new]
    /\ next' = next + 1
    /\ UNCHANGED <<pc, plan, snap, before, outcome, rounds>>

EndPublish ==
    /\ pc = "publish"
    /\ next > Len(plan)
    /\ pc' = AfterPublish
    /\ next' = 1
    /\ UNCHANGED <<fs, plan, snap, before, outcome, rounds>>

UnpackedNames == {plan[i].ref : i \in {j \in DOMAIN plan : Unpacks(plan[j])}}

Unpack ==
    /\ pc = "unpack"
    /\ fs' = [fs EXCEPT ![PackedFile] = WithoutPacked(@, UnpackedNames)]
    /\ pc' = "log"
    /\ UNCHANGED <<plan, next, snap, before, outcome, rounds>>

\* Logging the value from before publication (a faulty LoggedNew).
LoggedStale(c) == IF c.new = None THEN None ELSE Resolved(Image(before), c.ref)

\* The value a reflog record says the change left behind, read after publication.
LoggedNew(c) == IF c.new = None THEN None ELSE Resolved(Image(fs), c.ref)

LogRaises == plan[next].new # None /\ Broken(Image(fs), plan[next].ref)

AppendRecord ==
    /\ pc = "log"
    /\ next <= Len(plan)
    /\ ~LogRaises
    /\ LET c == plan[next]
       IN /\ fs' = [fs EXCEPT ![LogFile(c.ref)] = Appended(@, c.old, LoggedNew(c), c.sym)]
          /\ pc' = IF c.mirror THEN "mirror" ELSE "log"
          /\ next' = IF c.mirror THEN next ELSE next + 1
    /\ UNCHANGED <<plan, snap, before, outcome, rounds>>

AppendHeadRecord ==
    /\ pc = "mirror"
    /\ ~LogRaises
    /\ LET c == plan[next]
       IN fs' = [fs EXCEPT ![LogFile(HEAD)] = Appended(@, c.old, LoggedNew(c), FALSE)]
    /\ pc' = "log"
    /\ next' = next + 1
    /\ UNCHANGED <<plan, snap, before, outcome, rounds>>

Finish ==
    /\ pc = "log"
    /\ next > Len(plan)
    /\ pc' = "idle"
    /\ outcome' = "ok"
    /\ UNCHANGED <<fs, plan, next, snap, before, rounds>>

-----------------------------------------------------------------------------
(***************************************************************************)
(* A RuntimeError while resolving the value to log is not an OSError: it   *)
(* leaves the published files in place and the record unwritten.           *)
(***************************************************************************)
RaiseWhileLogging ==
    /\ pc = "log"
    /\ next <= Len(plan)
    /\ LogRaises
    /\ pc' = "idle"
    /\ outcome' = "error"
    /\ UNCHANGED <<fs, plan, next, snap, before, rounds>>

(***************************************************************************)
(* Failure.  The failing call itself changes no file; the handler restores *)
(* the snapshots one by one, packed-refs last.                             *)
(***************************************************************************)
OSError ==
    /\ "oserror" \in Faults
    /\ pc \in {"publish", "unpack", "log", "mirror"}
    /\ pc \in {"publish", "log"} => next <= Len(plan)
    /\ pc' = "rollback"
    /\ UNCHANGED <<fs, plan, next, snap, before, outcome, rounds>>

Restore ==
    /\ pc = "rollback"
    /\ \E p \in DOMAIN snap :
          /\ p = PackedFile => DOMAIN snap = {PackedFile}
          /\ fs' = [fs EXCEPT ![p] = snap[p]]
          /\ snap' = [q \in DOMAIN snap \ {p} |-> snap[q]]
    /\ UNCHANGED <<pc, plan, next, before, outcome, rounds>>

EndRollback ==
    /\ pc = "rollback"
    /\ DOMAIN snap = {}
    /\ pc' = "idle"
    /\ outcome' = "oserror"
    /\ UNCHANGED <<fs, plan, next, snap, before, rounds>>

Crash ==
    /\ "crash" \in Faults
    /\ pc # "idle"
    /\ pc' = "idle"
    /\ outcome' = "crash"
    /\ UNCHANGED <<fs, plan, next, snap, before, rounds>>

Next ==
    \/ \E b \in Batches : BeginBatch(b)
    \/ \E e \in SymrefEdits : BeginSetSymbolic(e)
    \/ \E e \in SymrefEdits : BeginDeleteSymbolic(e)
    \/ Publish
    \/ EndPublish
    \/ Unpack
    \/ AppendRecord
    \/ AppendHeadRecord
    \/ Finish
    \/ RaiseWhileLogging
    \/ OSError
    \/ Restore
    \/ EndRollback
    \/ Crash

Spec == Init /\ [][Next]_vars

-----------------------------------------------------------------------------
(***************************************************************************)
(* Properties.                                                             *)
(***************************************************************************)

\* Every variable keeps its type: ref files hold values, packed-refs only direct ones.
TypeOK ==
    /\ FileTypes(fs)
    /\ FileTypes(before)
    /\ pc \in Stages
    /\ plan \in Seq(Change)
    /\ next \in Nat \ {0}
    /\ DOMAIN snap \subseteq Paths
    /\ outcome \in Outcomes
    /\ rounds \in 0..MaxRounds

\* An operation that ends in an OSError leaves every ref file, reflog and packed-refs
\* exactly as it found them ("rather than leaving a half-applied transaction").
RollbackIsExact == pc = "idle" /\ outcome = "oserror" => fs = before

\* The handler in _apply_updates can undo the operation from any of its steps: no path
\* outside the snapshots differs from what the operation found, every snapshot is what
\* it found, and everything still to be written has one.
RollbackIsPossible ==
    /\ pc # "idle" =>
           /\ \A p \in Paths \ DOMAIN snap : fs[p] = before[p]
           /\ \A p \in DOMAIN snap : snap[p] = before[p]
    /\ pc \in {"publish", "unpack", "log", "mirror"} => Footprint(plan, FALSE) \subseteq DOMAIN snap
    /\ pc = "unpack" => PackedFile \in DOMAIN snap
    /\ pc = "mirror" => next \in DOMAIN plan /\ plan[next].mirror

\* ref_transaction.py:596 refuses a chain that is too deep before it writes anything: a
\* call that raises must not have changed the files.
RefusalChangesNothing == pc = "idle" /\ outcome = "error" => fs = before

\* The refusals that do come after the write.  set_symbolic_ref counts 32 files from the target,
\* and counts them again from the name only to log its value: only that call, never a batch of
\* update-ref, ends so.  The chain it leaves is one file too long and no cycle, the file of the
\* name and its packed copy are all it wrote, and no reflog tells of it.
LateRefusalsAreContained ==
    pc = "idle" /\ outcome = "error" =>
        \E e \in SymrefEdits :
            /\ SetSymbolicAccepted(Image(before), e)
            /\ Broken(Image(fs), e.ref) /\ ~Broken(Image(fs), e.target)
            /\ fs[RefFile(e.ref)] = e.target
            /\ fs[PackedFile] = WithoutPacked(before[PackedFile], {e.ref} \ {HEAD})
            /\ \A p \in Paths \ {RefFile(e.ref), PackedFile} : fs[p] = before[p]

\* Between operations every name resolves: no update-ref batch or symbolic-ref call
\* leaves a symbolic cycle behind, whatever mix of commands it was.
ResolvableAtRest == pc = "idle" => \A r \in Refs : ~Broken(Image(fs), r)

\* A reflog that is not empty ends with the value of its ref, if that is an object.
LogsEnd(f) ==
    \A r \in Named :
        LET log == f[LogFile(r)]
            v == Raw(f, r)
        IN v \in Oids /\ log # <<>> => log[Len(log)].new = v

\* Between operations a direct ref shows the value its reflog ends with.
LogEndsWithValue == pc = "idle" => LogsEnd(fs)

\* What a repository must be at the start for these two to hold ever after.
InitialRefsResolve == \A f \in InitialFiles : \A r \in Refs : ~Broken(Image(f), r)
InitialLogsEnd == \A f \in InitialFiles : LogsEnd(f)

\* What a reader may see of a ref while an operation runs, or after it was killed: the
\* old value, the planned one, or, if it is to be deleted or made symbolic, the packed
\* copy its loose file was shadowing, and nothing once packed-refs was rewritten.
ReadersSeeOldOrNew ==
    \A r \in Refs :
        \/ Raw(fs, r) = Raw(before, r)
        \/ Touches(plan, r) /\ Raw(fs, r) = ChangeFor(plan, r).new
        \/ /\ r # HEAD
           /\ Touches(plan, r)
           /\ Unpacks(ChangeFor(plan, r))
           /\ \/ Raw(fs, r) = before[PackedFile][r]
              \/ Raw(fs, r) = None /\ fs[PackedFile] # before[PackedFile]

\* PACKED_REFS.md:90: deletion removes both copies "so the packed value cannot become
\* visible again": a ref being deleted shows its old value or nothing.
DeletionHidesPackedValue ==
    \A i \in DOMAIN plan :
        plan[i].new = None /\ plan[i].ref # HEAD
        => Raw(fs, plan[i].ref) \in {Raw(before, plan[i].ref), None}

Abstract == INSTANCE RefMap WITH
    value <- Image(IF pc = "idle" THEN fs ELSE before),
    InitialImages <- {Image(f) : f \in InitialFiles}

\* The promise of RefMap: readers that look between operations see every batch take effect
\* whole or not at all, which is what the planner, the publisher and the rollback are for.
BatchesAreAtomic == Abstract!Spec
=============================================================================

------------------------ MODULE RefTransactionProofs ------------------------
(***************************************************************************)
(* Proofs about the transaction publisher, for every set of refs, objects, *)
(* batches, symbolic-ref calls and starting repositories: that a rollback  *)
(* is exact; that the publisher implements RefMap, every batch taking      *)
(* effect whole or not at all between operations; what readers meet while  *)
(* it runs or after it was killed; that no mix of commands makes a cycle   *)
(* of symbolic refs; and that a reflog ends with the value of its ref.     *)
(***************************************************************************)
EXTENDS RefTransaction, FiniteSetTheorems, SequenceTheorems, TLAPS

-----------------------------------------------------------------------------
(***************************************************************************)
(* Resolution.                                                             *)
(***************************************************************************)

\* The image of well-typed files maps every ref to a value (_raw_value).
LEMMA ImageType ==
    ASSUME NEW f, FileTypes(f)
    PROVE  Image(f) \in Images
BY NamesAreDistinct DEF Image, Images, Raw, FileTypes, Refs, Named, Packed, Value, Direct

\* Following symbolic values never leaves the set of refs (_resolve_direct).
LEMMA PhysicalType ==
    ASSUME NEW img \in Images, NEW r \in Refs
    PROVE  Physical(img, r) \in Refs
<1>1. ASSUME NEW s \in Refs PROVE Hop(img, s) \in Refs
  BY DEF Hop, IsSymbolic, Images, Refs, Named
<1>2. ASSUME NEW s \in Refs PROVE Hop2(img, s) \in Refs
  BY <1>1 DEF Hop2
<1>3. ASSUME NEW s \in Refs PROVE Hop4(img, s) \in Refs
  BY <1>2 DEF Hop4
<1>4. ASSUME NEW s \in Refs PROVE Hop8(img, s) \in Refs
  BY <1>3 DEF Hop8
<1>5. ASSUME NEW s \in Refs PROVE Hop16(img, s) \in Refs
  BY <1>4 DEF Hop16
<1> QED BY <1>1, <1>2, <1>3, <1>4, <1>5 DEF Physical

\* A name whose chain ends resolves to an object ID or to nothing.
LEMMA ResolvedType ==
    ASSUME NEW img \in Images, NEW r \in Refs, ~Broken(img, r)
    PROVE  Resolved(img, r) \in Direct
BY PhysicalType DEF Resolved, Broken, IsSymbolic, Images, Value, Direct

-----------------------------------------------------------------------------
(***************************************************************************)
(* The paths and what writing one of them preserves.                       *)
(***************************************************************************)

\* Ref files, reflogs and packed-refs are different paths, one per ref.
LEMMA PathFacts ==
    /\ \A r \in Refs : RefFile(r) \in Paths /\ LogFile(r) \in Paths
    /\ PackedFile \in Paths
    /\ \A r, s \in Refs : RefFile(r) # LogFile(s)
    /\ \A r \in Refs : RefFile(r) # PackedFile /\ LogFile(r) # PackedFile
    /\ \A r, s \in Refs : RefFile(r) = RefFile(s) => r = s
    /\ \A r, s \in Refs : LogFile(r) = LogFile(s) => r = s
BY DEF Paths, RefFile, LogFile, PackedFile

\* Replacing one file keeps the types of all of them.
LEMMA WriteRefFile ==
    ASSUME NEW f, FileTypes(f), NEW r \in Refs, NEW v \in Value
    PROVE  FileTypes([f EXCEPT ![RefFile(r)] = v])
BY PathFacts DEF FileTypes

LEMMA WriteLogFile ==
    ASSUME NEW f, FileTypes(f), NEW r \in Refs, NEW v \in Seq(Record)
    PROVE  FileTypes([f EXCEPT ![LogFile(r)] = v])
BY PathFacts DEF FileTypes

LEMMA WritePackedFile ==
    ASSUME NEW f, FileTypes(f), NEW v \in Packed
    PROVE  FileTypes([f EXCEPT ![PackedFile] = v])
BY PathFacts DEF FileTypes

\* So does restoring any path from a well-typed snapshot of the files.
LEMMA RestorePath ==
    ASSUME NEW f, FileTypes(f), NEW g, FileTypes(g), NEW p \in Paths
    PROVE  FileTypes([f EXCEPT ![p] = g[p]])
<1>1. CASE \E r \in Refs : p = RefFile(r)
  BY <1>1, WriteRefFile DEF FileTypes
<1>2. CASE \E r \in Refs : p = LogFile(r)
  BY <1>2, WriteLogFile DEF FileTypes
<1>3. CASE p = PackedFile
  BY <1>3, WritePackedFile DEF FileTypes
<1> QED BY <1>1, <1>2, <1>3 DEF Paths

\* The files are equal when every path has the same content.
LEMMA SameContents ==
    ASSUME NEW f, FileTypes(f), NEW g, FileTypes(g), \A p \in Paths : f[p] = g[p]
    PROVE  f = g
BY DEF FileTypes

\* A reflog stays a sequence of records.
LEMMA AppendedType ==
    ASSUME NEW log \in Seq(Record), NEW old \in Direct, NEW new \in Direct, NEW force
    PROVE  Appended(log, old, new, force) \in Seq(Record)
<1>1. [old |-> old, new |-> new] \in Record
  BY DEF Record
<1> QED BY <1>1 DEF Appended

-----------------------------------------------------------------------------
(***************************************************************************)
(* Planning.                                                               *)
(***************************************************************************)

\* An element of the second part of a concatenation keeps its place after the first.
LEMMA SecondPart ==
    ASSUME NEW S, NEW s \in Seq(S), NEW t \in Seq(S), NEW i \in 1..Len(t)
    PROVE  /\ Len(s) + i \in DOMAIN (s \o t)
           /\ (s \o t)[Len(s) + i] = t[i]
<1>1. Len(s) \in Nat /\ Len(t) \in Nat
  BY LenProperties
<1>2. s \o t \in Seq(S) /\ Len(s \o t) = Len(s) + Len(t)
  BY ConcatProperties
<1>3. Len(s) + i \in 1..(Len(s) + Len(t)) /\ ~(Len(s) + i <= Len(s))
  BY <1>1
<1>4. (s \o t)[Len(s) + i] = t[(Len(s) + i) - Len(s)]
  BY <1>3, ConcatProperties
<1> QED BY <1>1, <1>2, <1>3, <1>4, LenProperties

\* A command that _plan_updates accepts is planned as a well-typed change.
LEMMA ChangeType ==
    ASSUME NEW img \in Images, NEW u \in Write, Accepted(img, u)
    PROVE  ChangeOf(img, u) \in Change
<1> DEFINE p == Target(img, u)
<1>1. p \in Refs
  BY PhysicalType DEF Target, Write
<1>2. Current(img, p) \in Direct
  BY <1>1 DEF Current, IsSymbolic, Images, Value, Direct
<1>3. u.action \in SymrefActions => Resolved(img, p) \in Direct
  <2>1. u.action \in SymrefActions => u.action \notin DirectActions \cup {"verify"}
    BY DEF SymrefActions, DirectActions
  <2> QED BY <1>1, <2>1, ResolvedType DEF Accepted, SymrefAccepted
<1>4. u.new \in Value /\ None \in Value
  BY DEF Write, Value, Direct
<1> QED BY <1>1, <1>2, <1>3, <1>4 DEF ChangeOf, Change

\* The plan of an accepted batch is a sequence of well-typed changes.
LEMMA PlanType ==
    ASSUME NEW img \in Images, NEW b, BatchTypes(b), Accepts(img, b)
    PROVE  Plan(img, b) \in Seq(Change)
<1>1. b.write \in Seq(Write) /\ b.verify \in Seq(Verify)
  BY DEF BatchTypes
<1>2. \A i \in DOMAIN b.write : b.write[i] \in Write /\ Accepted(img, b.write[i])
  <2> TAKE i \in DOMAIN b.write
  <2>1. b.write[i] \in Write
    BY <1>1
  <2> DEFINE j == Len(b.verify) + i
  <2>2. j \in DOMAIN AllCommands(b) /\ AllCommands(b)[j] = b.write[i]
    <3>1. b.write \in Seq(Write \cup Verify) /\ b.verify \in Seq(Write \cup Verify)
      BY <1>1
    <3>2. i \in 1..Len(b.write)
      BY <1>1
    <3> QED BY <3>1, <3>2, SecondPart DEF AllCommands
  <2> QED BY <2>1, <2>2 DEF Accepts
<1>3. \A i \in DOMAIN b.write : ChangeOf(img, b.write[i]) \in Change
  BY <1>2, ChangeType
<1> QED BY <1>1, <1>3 DEF Plan

\* The plan of a symbolic-ref call is a sequence of well-typed changes.
LEMMA EditPlanType ==
    ASSUME NEW img \in Images, NEW e \in Edit, ~Broken(img, e.ref)
    PROVE  EditPlan(img, e) \in Seq(Change)
<1>1. e.ref \in Refs /\ e.target \in Value
  BY DEF Edit, Value, Direct
<1>2. Resolved(img, e.ref) \in Direct
  BY <1>1, ResolvedType
<1> QED BY <1>1, <1>2 DEF EditPlan, Change
-----------------------------------------------------------------------------
\* An element of a plan is a change of some ref.
LEMMA ChangesTyped ==
    ASSUME NEW p \in Seq(Change), NEW i \in DOMAIN p
    PROVE  p[i] \in Change /\ p[i].ref \in Refs
<1>1. p[i] \in Change
  OBVIOUS
<1> QED BY <1>1 DEF Change

\* A transaction snapshots only paths of the repository.
LEMMA FootprintPaths ==
    ASSUME NEW p \in Seq(Change), NEW packed
    PROVE  Footprint(p, packed) \subseteq Paths
<1>1. \A i \in DOMAIN p : p[i].ref \in Refs
  BY ChangesTyped
<1> QED BY <1>1, PathFacts DEF Footprint, Refs

-----------------------------------------------------------------------------
(***************************************************************************)
(* The inductive invariant.  RollbackIsExact alone is not inductive: it    *)
(* needs RollbackIsPossible while an operation runs.                       *)
(***************************************************************************)
IInv == TypeOK /\ RollbackIsPossible /\ RollbackIsExact

\* It holds of every repository the program may start from.
LEMMA InitIInv == Init => IInv
<1> SUFFICES ASSUME Init PROVE IInv
  OBVIOUS
<1>1. FileTypes(fs) /\ before = fs
  BY FilesAreTyped DEF Init
<1>2. TypeOK
  BY <1>1, RoundsAreBounded DEF Init, TypeOK, Stages, Outcomes
<1>3. RollbackIsPossible /\ RollbackIsExact
  BY DEF Init, RollbackIsPossible, RollbackIsExact
<1> QED BY <1>2, <1>3 DEF IInv

\* Whatever the planner was, a started operation can be undone.
LEMMA StartIInv ==
    ASSUME IInv, NEW p \in Seq(Change), NEW packed, Start(p, packed)
    PROVE  IInv'
<1> USE DEF IInv
<1>1. snap' = [q \in Footprint(p, packed) |-> fs[q]] /\ DOMAIN snap' \subseteq Paths
  BY FootprintPaths DEF Start
<1>t. FileTypes(fs') /\ FileTypes(before')
  BY DEF Start, TypeOK
<1>2. TypeOK'
  <2>1. plan' \in Seq(Change) /\ pc' \in Stages /\ next' \in Nat \ {0} /\ outcome' \in Outcomes
    BY DEF Start, Stages, Outcomes
  <2>2. rounds' \in 0..MaxRounds
    BY RoundsAreBounded DEF Start, TypeOK
  <2> QED BY <1>1, <1>t, <2>1, <2>2 DEF TypeOK
<1>3. RollbackIsPossible'
  BY <1>1 DEF Start, RollbackIsPossible, Footprint
<1>4. RollbackIsExact'
  BY DEF Start, RollbackIsExact
<1> QED BY <1>2, <1>3, <1>4

\* No step of the publisher breaks it.
LEMMA NextIInv == IInv /\ [Next]_vars => IInv'
<1> SUFFICES ASSUME IInv, [Next]_vars PROVE IInv'
  OBVIOUS
<1>0. TypeOK /\ RollbackIsPossible /\ RollbackIsExact
  BY DEF IInv
<1>i. Image(fs) \in Images
  BY <1>0, ImageType DEF TypeOK
<1>c. \A i \in DOMAIN plan : plan[i] \in Change /\ plan[i].ref \in Refs
  BY <1>0, ChangesTyped DEF TypeOK
<1>1. ASSUME NEW b \in Batches, BeginBatch(b) PROVE IInv'
  <2>1. Plan(Image(fs), b) \in Seq(Change)
    BY <1>1, <1>i, PlanType, BatchesAreTyped DEF BeginBatch
  <2> QED BY <1>1, <2>1, StartIInv DEF BeginBatch
<1>2. ASSUME NEW e \in SymrefEdits, BeginSetSymbolic(e) PROVE IInv'
  <2>1. EditPlan(Image(fs), e) \in Seq(Change)
    BY <1>2, <1>i, EditPlanType, EditsAreTyped DEF BeginSetSymbolic, SetSymbolicAccepted
  <2> QED BY <1>2, <2>1, StartIInv DEF BeginSetSymbolic
<1>3. ASSUME NEW e \in SymrefEdits, BeginDeleteSymbolic(e) PROVE IInv'
  <2>1. EditPlan(Image(fs), e) \in Seq(Change)
    BY <1>3, <1>i, EditPlanType, EditsAreTyped DEF BeginDeleteSymbolic, DeleteSymbolicAccepted
  <2> QED BY <1>3, <2>1, StartIInv DEF BeginDeleteSymbolic
<1>4. CASE Publish
  <2> DEFINE c == plan[next]
  <2>1. next \in DOMAIN plan /\ c \in Change /\ c.ref \in Refs /\ c.new \in Value
    BY <1>0, <1>4, <1>c DEF Publish, TypeOK, Change
  <2>2. FileTypes(fs')
    BY <1>0, <1>4, <2>1, WriteRefFile DEF Publish, TypeOK
  <2>3. RefFile(c.ref) \in DOMAIN snap
    BY <1>0, <1>4, <2>1 DEF Publish, RollbackIsPossible, Footprint
  <2>4. \A p \in Paths \ DOMAIN snap : fs'[p] = fs[p]
    BY <1>0, <1>4, <2>3 DEF Publish, TypeOK, FileTypes
  <2>5. TypeOK'
    BY <1>0, <1>4, <2>2 DEF Publish, TypeOK
  <2>6. RollbackIsPossible'
    BY <1>0, <1>4, <2>4 DEF Publish, RollbackIsPossible, Footprint
  <2>7. RollbackIsExact'
    BY <1>4 DEF Publish, RollbackIsExact
  <2> QED BY <2>5, <2>6, <2>7 DEF IInv
<1>5. CASE EndPublish
  <2>1. TypeOK'
    BY <1>0, <1>5 DEF EndPublish, AfterPublish, TypeOK, Stages
  <2>2. RollbackIsPossible'
    BY <1>0, <1>5 DEF EndPublish, AfterPublish, RollbackIsPossible, Footprint
  <2>3. RollbackIsExact'
    BY <1>5 DEF EndPublish, AfterPublish, RollbackIsExact
  <2> QED BY <2>1, <2>2, <2>3 DEF IInv
<1>6. CASE Unpack
  <2>1. WithoutPacked(fs[PackedFile], UnpackedNames) \in Packed
    BY <1>0 DEF TypeOK, FileTypes, WithoutPacked, Packed, Direct
  <2>2. FileTypes(fs')
    BY <1>0, <1>6, <2>1, WritePackedFile DEF Unpack, TypeOK
  <2>3. \A p \in Paths \ DOMAIN snap : fs'[p] = fs[p]
    BY <1>0, <1>6 DEF Unpack, RollbackIsPossible, TypeOK, FileTypes
  <2>4. TypeOK'
    BY <1>0, <1>6, <2>2 DEF Unpack, TypeOK, Stages
  <2>5. RollbackIsPossible'
    BY <1>0, <1>6, <2>3 DEF Unpack, RollbackIsPossible, Footprint
  <2>6. RollbackIsExact'
    BY <1>6 DEF Unpack, RollbackIsExact
  <2> QED BY <2>4, <2>5, <2>6 DEF IInv
<1>7. CASE AppendRecord
  <2> DEFINE c == plan[next]
             log == Appended(fs[LogFile(c.ref)], c.old, LoggedNew(c), c.sym)
  <2>1. next \in DOMAIN plan /\ c \in Change /\ c.ref \in Refs /\ c.old \in Direct
    BY <1>0, <1>7, <1>c DEF AppendRecord, TypeOK, Change
  <2>2. LoggedNew(c) \in Direct
    BY <1>7, <1>i, <2>1, ResolvedType DEF AppendRecord, LogRaises, LoggedNew, Direct
  <2>3. log \in Seq(Record)
    BY <1>0, <2>1, <2>2, AppendedType DEF TypeOK, FileTypes
  <2>4. fs' = [fs EXCEPT ![LogFile(c.ref)] = log]
    BY <1>7 DEF AppendRecord
  <2>5. FileTypes(fs')
    BY <1>0, <2>1, <2>3, <2>4, WriteLogFile DEF TypeOK
  <2>6. LogFile(c.ref) \in DOMAIN snap
    BY <1>0, <1>7, <2>1 DEF AppendRecord, RollbackIsPossible, Footprint
  <2>7. \A p \in Paths \ DOMAIN snap : fs'[p] = fs[p]
    BY <1>0, <2>4, <2>6 DEF TypeOK, FileTypes
  <2>8. TypeOK'
    BY <1>0, <1>7, <2>5 DEF AppendRecord, TypeOK, Stages
  <2>9. RollbackIsPossible'
    BY <1>0, <1>7, <2>1, <2>7 DEF AppendRecord, RollbackIsPossible, Footprint
  <2>10. RollbackIsExact'
    BY <1>7 DEF AppendRecord, RollbackIsExact
  <2> QED BY <2>8, <2>9, <2>10 DEF IInv
<1>8. CASE AppendHeadRecord
  <2> DEFINE c == plan[next]
             log == Appended(fs[LogFile(HEAD)], c.old, LoggedNew(c), FALSE)
  <2>1. next \in DOMAIN plan /\ c.mirror
    BY <1>0, <1>8 DEF AppendHeadRecord, RollbackIsPossible
  <2>2. c \in Change /\ c.ref \in Refs /\ c.old \in Direct
    BY <2>1, <1>c DEF Change
  <2>3. LoggedNew(c) \in Direct
    BY <1>8, <1>i, <2>2, ResolvedType DEF AppendHeadRecord, LogRaises, LoggedNew, Direct
  <2>4. HEAD \in Refs /\ log \in Seq(Record)
    BY <1>0, <2>2, <2>3, AppendedType DEF TypeOK, FileTypes, Refs
  <2>5. fs' = [fs EXCEPT ![LogFile(HEAD)] = log]
    BY <1>8 DEF AppendHeadRecord
  <2>6. FileTypes(fs')
    BY <1>0, <2>4, <2>5, WriteLogFile DEF TypeOK
  <2>7. LogFile(HEAD) \in DOMAIN snap
    BY <1>0, <1>8, <2>1 DEF AppendHeadRecord, RollbackIsPossible, Footprint
  <2>8. \A p \in Paths \ DOMAIN snap : fs'[p] = fs[p]
    BY <1>0, <2>5, <2>7 DEF TypeOK, FileTypes
  <2>9. TypeOK'
    BY <1>0, <1>8, <2>6 DEF AppendHeadRecord, TypeOK, Stages
  <2>10. RollbackIsPossible'
    BY <1>0, <1>8, <2>8 DEF AppendHeadRecord, RollbackIsPossible, Footprint
  <2>11. RollbackIsExact'
    BY <1>8 DEF AppendHeadRecord, RollbackIsExact
  <2> QED BY <2>9, <2>10, <2>11 DEF IInv
<1>9. CASE Finish \/ RaiseWhileLogging \/ Crash
  <2>1. TypeOK'
    BY <1>0, <1>9 DEF Finish, RaiseWhileLogging, Crash, TypeOK, Stages, Outcomes
  <2>2. RollbackIsPossible' /\ RollbackIsExact'
    BY <1>0, <1>9 DEF Finish, RaiseWhileLogging, Crash, RollbackIsPossible, RollbackIsExact
  <2> QED BY <2>1, <2>2 DEF IInv
<1>10. CASE OSError
  <2>1. TypeOK'
    BY <1>0, <1>10 DEF OSError, TypeOK, Stages
  <2>2. RollbackIsPossible' /\ RollbackIsExact'
    BY <1>0, <1>10 DEF OSError, RollbackIsPossible, RollbackIsExact
  <2> QED BY <2>1, <2>2 DEF IInv
<1>11. CASE Restore
  <2>1. PICK p \in DOMAIN snap :
            /\ fs' = [fs EXCEPT ![p] = snap[p]]
            /\ snap' = [q \in DOMAIN snap \ {p} |-> snap[q]]
    BY <1>11 DEF Restore
  <2>2. p \in Paths /\ snap[p] = before[p]
    BY <1>0, <1>11 DEF Restore, TypeOK, RollbackIsPossible
  <2>3. FileTypes(fs')
    BY <1>0, <2>1, <2>2, RestorePath DEF TypeOK
  <2>4. \A q \in Paths \ DOMAIN snap' : fs'[q] = before[q]
    BY <1>0, <1>11, <2>1, <2>2 DEF Restore, RollbackIsPossible, TypeOK, FileTypes
  <2>5. \A q \in DOMAIN snap' : snap'[q] = before[q]
    BY <1>0, <1>11, <2>1 DEF Restore, RollbackIsPossible
  <2>6. TypeOK'
    BY <1>0, <1>11, <2>1, <2>3 DEF Restore, TypeOK
  <2>7. RollbackIsPossible' /\ RollbackIsExact'
    BY <1>0, <1>11, <2>4, <2>5 DEF Restore, RollbackIsPossible, RollbackIsExact
  <2> QED BY <2>6, <2>7 DEF IInv
<1>12. CASE EndRollback
  <2>1. TypeOK'
    BY <1>0, <1>12 DEF EndRollback, TypeOK, Stages, Outcomes
  <2>2. \A p \in Paths : fs[p] = before[p]
    BY <1>0, <1>12 DEF EndRollback, RollbackIsPossible
  <2>3. fs = before
    BY <1>0, <2>2, SameContents DEF TypeOK
  <2>4. RollbackIsPossible' /\ RollbackIsExact'
    BY <1>12, <2>3 DEF EndRollback, RollbackIsPossible, RollbackIsExact
  <2> QED BY <2>1, <2>4 DEF IInv
<1>13. CASE UNCHANGED vars
  <2>1. TypeOK'
    BY <1>0, <1>13 DEF vars, TypeOK
  <2>2. RollbackIsPossible' /\ RollbackIsExact'
    BY <1>0, <1>13 DEF vars, RollbackIsPossible, RollbackIsExact, Footprint
  <2> QED BY <2>1, <2>2 DEF IInv
<1> QED BY <1>1, <1>2, <1>3, <1>4, <1>5, <1>6, <1>7, <1>8, <1>9, <1>10, <1>11, <1>12, <1>13 DEF Next

-----------------------------------------------------------------------------
(***************************************************************************)
(* The theorems.                                                           *)
(***************************************************************************)

\* The invariant holds of every behaviour of the publisher.
LEMMA Invariant == Spec => []IInv
BY InitIInv, NextIInv, PTL DEF Spec

\* Ref files, reflogs, packed-refs and the publisher's own state keep their types,
\* whatever batches are submitted and wherever they fail.
THEOREM TypeCorrect == Spec => []TypeOK
<1>1. IInv => TypeOK
  BY DEF IInv
<1> QED BY Invariant, <1>1, PTL

\* _apply_updates, set_symbolic_ref and delete_symbolic_ref: at every step everything
\* written so far, and everything still to be written, has a snapshot that is what the
\* operation found.
THEOREM RollbackAlwaysPossible == Spec => []RollbackIsPossible
<1>1. IInv => RollbackIsPossible
  BY DEF IInv
<1> QED BY Invariant, <1>1, PTL

\* An operation that ends in an OSError has changed nothing.
THEOREM RollbackExact == Spec => []RollbackIsExact
<1>1. IInv => RollbackIsExact
  BY DEF IInv
<1> QED BY Invariant, <1>1, PTL

-----------------------------------------------------------------------------
(***************************************************************************)
(* RefMap plans with the operators of RefPlan, instantiated once more.     *)
(***************************************************************************)
LEMMA SameHop ==
    ASSUME NEW img, NEW r
    PROVE  Abstract!IsSymbolic(img, r) = IsSymbolic(img, r) /\ Abstract!Hop(img, r) = Hop(img, r)
BY DEF Abstract!IsSymbolic, IsSymbolic, Abstract!Hop, Hop, Abstract!Named, Named

LEMMA SamePhysical ==
    ASSUME NEW img, NEW r
    PROVE  Abstract!Physical(img, r) = Physical(img, r)
<1>1. \A s : Abstract!Hop2(img, s) = Hop2(img, s)
  BY SameHop DEF Abstract!Hop2, Hop2
<1>2. \A s : Abstract!Hop4(img, s) = Hop4(img, s)
  BY SameHop, <1>1 DEF Abstract!Hop4, Hop4
<1>3. \A s : Abstract!Hop8(img, s) = Hop8(img, s)
  BY SameHop, <1>2 DEF Abstract!Hop8, Hop8
<1>4. \A s : Abstract!Hop16(img, s) = Hop16(img, s)
  BY SameHop, <1>3 DEF Abstract!Hop16, Hop16
<1> QED BY SameHop, <1>1, <1>2, <1>3, <1>4 DEF Abstract!Physical, Physical

LEMMA SameReading ==
    ASSUME NEW img, NEW r
    PROVE  Abstract!Broken(img, r) = Broken(img, r) /\ Abstract!Resolved(img, r) = Resolved(img, r)
BY SameHop, SamePhysical DEF Abstract!Broken, Broken, Abstract!Resolved, Resolved

LEMMA SamePlan ==
    ASSUME NEW img, NEW b
    PROVE  Abstract!Plan(img, b) = Plan(img, b)
<1>1. ASSUME NEW u PROVE Abstract!ChangeOf(img, u) = ChangeOf(img, u)
  <2>1. Abstract!Target(img, u) = Target(img, u)
    BY SamePhysical DEF Abstract!Target, Target
  <2>2. \A p : Abstract!Current(img, p) = Current(img, p)
    BY SameHop DEF Abstract!Current, Current
  <2> QED BY <2>1, <2>2, SameReading
          DEF Abstract!ChangeOf, ChangeOf, Abstract!SymrefActions, SymrefActions
<1> QED BY <1>1 DEF Abstract!Plan, Plan

LEMMA SameProjection ==
    ASSUME NEW img, NEW p
    PROVE  /\ Abstract!Project(img, p) = Project(img, p)
           /\ Abstract!HeadIsReadable(img, p) = HeadIsReadable(img, p)
<1>1. Abstract!Project(img, p) = Project(img, p)
  BY DEF Abstract!Project, Project, Abstract!Touches, Touches, Abstract!ChangeFor, ChangeFor,
         Abstract!Refs, Refs, Abstract!Named, Named
<1> QED BY <1>1 DEF Abstract!HeadIsReadable, HeadIsReadable

LEMMA SameAccepted ==
    ASSUME NEW img, NEW u
    PROVE  Abstract!Accepted(img, u) <=> Accepted(img, u)
<1>1. Abstract!Target(img, u) = Target(img, u)
  BY SamePhysical DEF Abstract!Target, Target
<1>2. \A p : Abstract!DirectAccepted(img, u, p) <=> DirectAccepted(img, u, p)
  BY SameHop DEF Abstract!DirectAccepted, DirectAccepted, Abstract!Expects, Expects,
                 Abstract!Current, Current, Abstract!BranchLike, BranchLike
<1>3. \A p : Abstract!SymrefAccepted(img, u, p) <=> SymrefAccepted(img, u, p)
  BY SameHop, SameReading DEF Abstract!SymrefAccepted, SymrefAccepted, Abstract!Expects, Expects,
                 Abstract!Named, Named
<1> QED BY <1>1, <1>2, <1>3, SameReading
        DEF Abstract!Accepted, Accepted, Abstract!DirectActions, DirectActions

LEMMA SameAccepts ==
    ASSUME NEW img, NEW b
    PROVE  Abstract!Accepts(img, b) <=> Accepts(img, b)
<1>1. Abstract!AllCommands(b) = AllCommands(b)
  BY DEF Abstract!AllCommands, AllCommands
<1>2. \A u : Abstract!Target(img, u) = Target(img, u)
  BY SamePhysical DEF Abstract!Target, Target
<1>3. \A p : Abstract!ProjectsNoCycle(img, p) <=> ProjectsNoCycle(img, p)
  <2> TAKE p
  <2>1. Abstract!Project(img, p) = Project(img, p)
    BY SameProjection
  <2>2. \A r : Abstract!Broken(Project(img, p), r) = Broken(Project(img, p), r)
    BY SameReading
  <2> QED BY <2>1, <2>2 DEF Abstract!ProjectsNoCycle, ProjectsNoCycle
<1> QED BY <1>1, <1>2, <1>3, SameAccepted, SamePlan DEF Abstract!Accepts, Accepts

LEMMA SameEdits ==
    ASSUME NEW img, NEW e
    PROVE  /\ Abstract!SetSymbolicAccepted(img, e) <=> SetSymbolicAccepted(img, e)
           /\ Abstract!DeleteSymbolicAccepted(img, e) <=> DeleteSymbolicAccepted(img, e)
BY SameHop, SamePhysical, SameReading
DEF Abstract!SetSymbolicAccepted, SetSymbolicAccepted, Abstract!DeleteSymbolicAccepted,
    DeleteSymbolicAccepted, Abstract!Named, Named

-----------------------------------------------------------------------------
(***************************************************************************)
(* The files while an operation runs.                                      *)
(***************************************************************************)
Running == pc \in {"publish", "unpack", "log", "mirror"}

\* The plan is one that RefMap could commit on the refs the operation found.
AcceptedBatch(img, p) ==
    \E b \in Batches : Accepts(img, b) /\ HeadIsReadable(img, p) /\ p = Plan(img, b)
AcceptedEdit(img, p) ==
    \E e \in SymrefEdits : /\ SetSymbolicAccepted(img, e) \/ DeleteSymbolicAccepted(img, e)
                           /\ p = EditPlan(img, e)
IsPlan(img, p) == AcceptedBatch(img, p) \/ AcceptedEdit(img, p)

\* No two changes of a plan are of the same ref.
OncePerRef(p) == \A i, j \in DOMAIN p : p[i].ref = p[j].ref => i = j

Published == {i \in DOMAIN plan : pc = "publish" => i < next}

LooseAsPlanned ==
    /\ \A i \in Published : fs[RefFile(plan[i].ref)] = plan[i].new
    /\ \A r \in Refs : (\A i \in Published : plan[i].ref # r) => fs[RefFile(r)] = before[RefFile(r)]

\* packed-refs is as it was, and in the end without the records that would show through.
PackedAsPlanned ==
    /\ pc \in {"publish", "unpack"} => fs[PackedFile] = before[PackedFile]
    /\ PackedFile \notin DOMAIN snap =>
           \A i \in DOMAIN plan : Unpacks(plan[i]) => before[PackedFile][plan[i].ref] = None
    /\ pc \in {"log", "mirror"} =>
           fs[PackedFile] = IF PackedFile \in DOMAIN snap
                            THEN WithoutPacked(before[PackedFile], UnpackedNames) ELSE before[PackedFile]

BatchInv ==
    Running => IsPlan(Image(before), plan) /\ OncePerRef(plan) /\ LooseAsPlanned /\ PackedAsPlanned

\* The commands of a batch that write follow those that verify.
LEMMA WritePlace ==
    ASSUME NEW b, BatchTypes(b), NEW i \in DOMAIN b.write
    PROVE  /\ Len(b.verify) + i \in DOMAIN AllCommands(b)
           /\ AllCommands(b)[Len(b.verify) + i] = b.write[i]
<1> DEFINE S == Write \cup Verify
<1>1. b.write \in Seq(S) /\ b.verify \in Seq(S)
  BY DEF BatchTypes
<1> HIDE DEF S
<1>2. i \in 1..Len(b.write)
  BY <1>1, LenProperties
<1>3. /\ Len(b.verify) + i \in DOMAIN (b.verify \o b.write)
      /\ (b.verify \o b.write)[Len(b.verify) + i] = b.write[i]
  BY <1>1, <1>2, SecondPart
<1> QED BY <1>3 DEF AllCommands

LEMMA AcceptedOnce ==
    ASSUME NEW img \in Images, NEW p, IsPlan(img, p) PROVE OncePerRef(p) /\ p \in Seq(Change)
<1>1. ASSUME NEW b \in Batches, Accepts(img, b), p = Plan(img, b) PROVE OncePerRef(p) /\ p \in Seq(Change)
  <2>0. b.write \in Seq(Write) /\ b.verify \in Seq(Verify) /\ BatchTypes(b)
    BY BatchesAreTyped DEF BatchTypes
  <2>1. \A i \in DOMAIN b.write : /\ Len(b.verify) + i \in DOMAIN AllCommands(b)
                                  /\ AllCommands(b)[Len(b.verify) + i] = b.write[i]
    BY <2>0, WritePlace
  <2>2. \A i \in DOMAIN p : i \in DOMAIN b.write /\ p[i].ref = Target(img, b.write[i])
    BY <1>1 DEF Plan, ChangeOf
  <2>3. OncePerRef(p)
    <3> SUFFICES ASSUME NEW i \in DOMAIN p, NEW j \in DOMAIN p, p[i].ref = p[j].ref PROVE i = j
      BY DEF OncePerRef
    <3>1. i \in Nat /\ j \in Nat /\ Len(b.verify) \in Nat
      BY <2>0, <2>2, LenProperties
    <3>2. Len(b.verify) + i = Len(b.verify) + j
      BY <1>1, <2>1, <2>2 DEF Accepts
    <3> QED BY <3>1, <3>2
  <2> QED BY <1>1, <2>0, <2>3, PlanType
<1>2. ASSUME NEW e \in SymrefEdits, SetSymbolicAccepted(img, e) \/ DeleteSymbolicAccepted(img, e),
             p = EditPlan(img, e)
      PROVE  OncePerRef(p) /\ p \in Seq(Change)
  <2>1. p \in Seq(Change)
    BY <1>2, EditPlanType, EditsAreTyped DEF SetSymbolicAccepted, DeleteSymbolicAccepted
  <2> QED BY <1>2, <2>1 DEF EditPlan, OncePerRef
<1> QED BY <1>1, <1>2 DEF IsPlan, AcceptedBatch, AcceptedEdit

\* A finished operation shows what RefMap says.
LEMMA ShowsProjection ==
    ASSUME IInv, BatchInv, pc = "log" PROVE Image(fs) = Project(Image(before), plan)
<1>0. /\ TypeOK /\ OncePerRef(plan) /\ LooseAsPlanned /\ PackedAsPlanned /\ Published = DOMAIN plan
      /\ IsPlan(Image(before), plan)
  BY DEF IInv, BatchInv, Running, Published
<1>1. \A i \in DOMAIN plan : plan[i] \in Change /\ plan[i].ref \in Refs
  BY <1>0, ChangesTyped DEF TypeOK
<1>2. ASSUME NEW r \in Refs PROVE Raw(fs, r) = Project(Image(before), plan)[r]
  <2>1. CASE Touches(plan, r)
    <3>1. PICK i \in DOMAIN plan : plan[i].ref = r /\ ChangeFor(plan, r) = plan[i]
      BY <2>1 DEF Touches, ChangeFor
    <3>2. fs[RefFile(r)] = plan[i].new /\ Project(Image(before), plan)[r] = plan[i].new
      BY <1>0, <2>1, <3>1 DEF LooseAsPlanned, Project
    <3>3. plan[i].new = None /\ r # HEAD => fs[PackedFile][r] = None
      <4> SUFFICES ASSUME plan[i].new = None, r # HEAD PROVE fs[PackedFile][r] = None
        OBVIOUS
      <4>1. Unpacks(plan[i]) /\ r \in UnpackedNames /\ r \in Named
        BY <3>1 DEF Unpacks, UnpackedNames, Refs
      <4> QED BY <1>0, <3>1, <4>1 DEF PackedAsPlanned, WithoutPacked
    <3> QED BY <3>2, <3>3 DEF Raw
  <2>2. CASE ~Touches(plan, r)
    <3>1. fs[RefFile(r)] = before[RefFile(r)]
      BY <1>0, <2>2 DEF LooseAsPlanned, Touches
    <3>2. r # HEAD => fs[PackedFile][r] = before[PackedFile][r]
      <4>1. r \notin UnpackedNames
        BY <2>2 DEF UnpackedNames, Touches
      <4> QED BY <1>0, <4>1 DEF PackedAsPlanned, WithoutPacked, Refs
    <3>3. Project(Image(before), plan)[r] = Raw(before, r)
      BY <2>2 DEF Project, Image
    <3> QED BY <3>1, <3>2, <3>3 DEF Raw
  <2> QED BY <2>1, <2>2
<1> QED BY <1>2 DEF Image, Project

-----------------------------------------------------------------------------
(***************************************************************************)
(* Steps.                                                                  *)
(***************************************************************************)
\* What readers see between operations.
Shown == Image(IF pc = "idle" THEN fs ELSE before)

Implements == BatchInv' /\ [Abstract!Next]_Shown

LEMMA StartImplements ==
    ASSUME IInv, NEW p, NEW packed, IsPlan(Image(fs), p), Start(p, packed),
           packed \/ \A i \in DOMAIN p : Unpacks(p[i]) => fs[PackedFile][p[i].ref] = None
    PROVE  Implements
<1>1. /\ pc = "idle" /\ pc' = "publish" /\ plan' = p /\ next' = 1 /\ before' = fs /\ fs' = fs
      /\ DOMAIN snap' = Footprint(p, packed)
  BY DEF Start
<1>2. Image(fs) \in Images
  BY ImageType DEF IInv, TypeOK
<1>3. OncePerRef(p) /\ p \in Seq(Change)
  BY <1>2, AcceptedOnce
<1>4. Published' = {}
  BY <1>1, <1>3 DEF Published
<1>5. LooseAsPlanned'
  BY <1>1, <1>4 DEF LooseAsPlanned
<1>6. PackedAsPlanned'
  BY <1>1 DEF PackedAsPlanned, Footprint
<1>7. BatchInv'
  BY <1>1, <1>3, <1>5, <1>6 DEF BatchInv, Running
<1>8. Shown' = Shown
  BY <1>1 DEF Shown
<1> QED BY <1>7, <1>8 DEF Implements

LEMMA BeginImplements ==
    ASSUME IInv,
           \/ \E b \in Batches : BeginBatch(b)
           \/ \E e \in SymrefEdits : BeginSetSymbolic(e) \/ BeginDeleteSymbolic(e)
    PROVE  Implements
<1>1. ASSUME NEW b \in Batches, BeginBatch(b) PROVE Implements
  <2> DEFINE p == Plan(Image(fs), b)
  <2>1. IsPlan(Image(fs), p) /\ Start(p, NeedsUnpack(fs, p))
    BY <1>1 DEF BeginBatch, IsPlan, AcceptedBatch
  <2>2. NeedsUnpack(fs, p) \/ \A i \in DOMAIN p : Unpacks(p[i]) => fs[PackedFile][p[i].ref] = None
    BY DEF NeedsUnpack
  <2> HIDE DEF p
  <2> QED BY <2>1, <2>2, StartImplements
<1>2. ASSUME NEW e \in SymrefEdits, BeginSetSymbolic(e) \/ BeginDeleteSymbolic(e) PROVE Implements
  <2> DEFINE p == EditPlan(Image(fs), e)
  <2>1. IsPlan(Image(fs), p)
    BY <1>2 DEF BeginSetSymbolic, BeginDeleteSymbolic, IsPlan, AcceptedEdit
  <2>2. \A i \in DOMAIN p : p[i].ref = e.ref
    BY DEF EditPlan
  <2>3. Start(p, TRUE) \/ Start(p, e.ref # HEAD)
    BY <1>2 DEF BeginSetSymbolic, BeginDeleteSymbolic
  <2>4. e.ref # HEAD \/ \A i \in DOMAIN p : Unpacks(p[i]) => fs[PackedFile][p[i].ref] = None
    BY <2>2 DEF Unpacks
  <2> HIDE DEF p
  <2>5. CASE Start(p, TRUE)
    BY <2>1, <2>5, StartImplements
  <2>6. CASE Start(p, e.ref # HEAD)
    BY <2>1, <2>4, <2>6, StartImplements
  <2> QED BY <2>3, <2>5, <2>6
<1> QED BY <1>1, <1>2

\* A step within an operation: nothing changes for readers who wait for its end.
LEMMA WithinImplements ==
    ASSUME BatchInv', pc # "idle", pc' # "idle", UNCHANGED before PROVE Implements
<1>1. Shown' = Shown
  BY DEF Shown
<1> QED BY <1>1 DEF Implements

LEMMA PublishImplements == ASSUME IInv, BatchInv, Publish PROVE Implements
<1>0. TypeOK /\ OncePerRef(plan) /\ LooseAsPlanned /\ PackedAsPlanned /\ IsPlan(Image(before), plan)
  BY DEF IInv, BatchInv, Running, Publish
<1>1. /\ pc = "publish" /\ next \in DOMAIN plan /\ next' = next + 1 /\ UNCHANGED <<pc, plan, snap, before>>
      /\ fs' = [fs EXCEPT ![RefFile(plan[next].ref)] = plan[next].new]
  BY <1>0 DEF Publish, TypeOK
<1>2. \A i \in DOMAIN plan : plan[i].ref \in Refs
  BY <1>0, ChangesTyped DEF TypeOK
<1>3. Published' = Published \cup {next} /\ next \notin Published
  BY <1>0, <1>1 DEF Published, TypeOK
<1>4. /\ fs'[RefFile(plan[next].ref)] = plan[next].new
      /\ \A r \in Refs : r # plan[next].ref => fs'[RefFile(r)] = fs[RefFile(r)]
      /\ fs'[PackedFile] = fs[PackedFile]
  BY <1>0, <1>1, <1>2, PathFacts DEF TypeOK, FileTypes
<1>5. LooseAsPlanned'
  <2>1. ASSUME NEW i \in Published' PROVE fs'[RefFile(plan[i].ref)] = plan[i].new
    <3>1. CASE i = next
      BY <1>4, <3>1
    <3>2. CASE i # next
      <4>1. i \in Published /\ i \in DOMAIN plan /\ plan[i].ref # plan[next].ref
        BY <1>0, <1>1, <1>3, <2>1, <3>2 DEF OncePerRef, Published
      <4> QED BY <1>0, <1>2, <1>4, <4>1 DEF LooseAsPlanned
    <3> QED BY <3>1, <3>2
  <2>2. ASSUME NEW r \in Refs, \A i \in Published' : plan[i].ref # r PROVE fs'[RefFile(r)] = before[RefFile(r)]
    BY <1>0, <1>3, <1>4, <2>2 DEF LooseAsPlanned
  <2> QED BY <1>1, <2>1, <2>2 DEF LooseAsPlanned
<1>6. PackedAsPlanned'
  BY <1>0, <1>1, <1>4 DEF PackedAsPlanned
<1>7. BatchInv'
  BY <1>0, <1>1, <1>5, <1>6 DEF BatchInv
<1> QED BY <1>1, <1>7, WithinImplements

LEMMA EndPublishImplements == ASSUME IInv, BatchInv, EndPublish PROVE Implements
<1>0. TypeOK /\ OncePerRef(plan) /\ LooseAsPlanned /\ PackedAsPlanned /\ IsPlan(Image(before), plan)
  BY DEF IInv, BatchInv, Running, EndPublish
<1>1. /\ pc = "publish" /\ next > Len(plan) /\ UNCHANGED <<fs, plan, snap, before>>
      /\ pc' = IF PackedFile \in DOMAIN snap THEN "unpack" ELSE "log"
  BY DEF EndPublish, AfterPublish
<1>2. Published' = Published
  BY <1>0, <1>1, LenProperties DEF Published, TypeOK
<1>3. LooseAsPlanned' /\ PackedAsPlanned'
  BY <1>0, <1>1, <1>2 DEF LooseAsPlanned, PackedAsPlanned
<1>4. BatchInv' /\ pc' # "idle"
  BY <1>0, <1>1, <1>3 DEF BatchInv
<1> QED BY <1>1, <1>4, WithinImplements

LEMMA UnpackImplements == ASSUME IInv, BatchInv, Unpack PROVE Implements
<1>0. /\ TypeOK /\ OncePerRef(plan) /\ LooseAsPlanned /\ PackedAsPlanned /\ IsPlan(Image(before), plan)
      /\ PackedFile \in DOMAIN snap
  BY DEF IInv, BatchInv, Running, Unpack, RollbackIsPossible
<1>1. /\ pc = "unpack" /\ pc' = "log" /\ UNCHANGED <<plan, snap, before>>
      /\ fs' = [fs EXCEPT ![PackedFile] = WithoutPacked(@, UnpackedNames)]
  BY DEF Unpack
<1>2. /\ fs'[PackedFile] = WithoutPacked(fs[PackedFile], UnpackedNames)
      /\ \A r \in Refs : fs'[RefFile(r)] = fs[RefFile(r)]
  BY <1>0, <1>1, PathFacts DEF TypeOK, FileTypes
<1>3. Published' = Published /\ \A i \in DOMAIN plan : plan[i].ref \in Refs
  BY <1>0, <1>1, ChangesTyped DEF Published, TypeOK
<1>4. LooseAsPlanned'
  BY <1>0, <1>1, <1>2, <1>3 DEF LooseAsPlanned, Published
<1>5. PackedAsPlanned'
  BY <1>0, <1>1, <1>2 DEF PackedAsPlanned, UnpackedNames
<1>6. BatchInv' /\ pc' # "idle"
  BY <1>0, <1>1, <1>4, <1>5 DEF BatchInv
<1> QED BY <1>1, <1>6, WithinImplements

LEMMA LogImplements == ASSUME IInv, BatchInv, AppendRecord \/ AppendHeadRecord PROVE Implements
<1>0. /\ TypeOK /\ OncePerRef(plan) /\ LooseAsPlanned /\ PackedAsPlanned /\ IsPlan(Image(before), plan)
      /\ pc = "mirror" => next \in DOMAIN plan
  BY DEF IInv, BatchInv, Running, AppendRecord, AppendHeadRecord, RollbackIsPossible
<1>1. \A i \in DOMAIN plan : plan[i].ref \in Refs
  BY <1>0, ChangesTyped DEF TypeOK
<1>2. /\ pc \in {"log", "mirror"} /\ pc' \in {"log", "mirror"} /\ UNCHANGED <<plan, snap, before>>
      /\ \E r \in Refs : \E v : fs' = [fs EXCEPT ![LogFile(r)] = v]
  <2>1. CASE AppendRecord
    <3>1. next \in DOMAIN plan
      BY <1>0, <2>1 DEF AppendRecord, TypeOK
    <3>2. \E v : fs' = [fs EXCEPT ![LogFile(plan[next].ref)] = v]
      BY <2>1 DEF AppendRecord
    <3> QED BY <1>1, <2>1, <3>1, <3>2 DEF AppendRecord
  <2>2. CASE AppendHeadRecord
    <3>1. \E v : fs' = [fs EXCEPT ![LogFile(HEAD)] = v]
      BY <2>2 DEF AppendHeadRecord
    <3> QED BY <2>2, <3>1 DEF AppendHeadRecord, Refs
  <2> QED BY <2>1, <2>2
<1>3. fs'[PackedFile] = fs[PackedFile] /\ \A r \in Refs : fs'[RefFile(r)] = fs[RefFile(r)]
  BY <1>0, <1>2, PathFacts DEF TypeOK, FileTypes
<1>4. Published' = Published
  BY <1>2 DEF Published
<1>5. LooseAsPlanned'
  BY <1>0, <1>1, <1>2, <1>3, <1>4 DEF LooseAsPlanned, Published
<1>6. PackedAsPlanned'
  BY <1>0, <1>2, <1>3 DEF PackedAsPlanned, UnpackedNames
<1>7. BatchInv' /\ pc' # "idle"
  BY <1>0, <1>2, <1>5, <1>6 DEF BatchInv
<1> QED BY <1>2, <1>7, WithinImplements

\* The operation takes effect as it ends.
LEMMA FinishImplements == ASSUME IInv, BatchInv, Finish \/ RaiseWhileLogging PROVE Implements
<1>1. pc = "log" /\ pc' = "idle" /\ UNCHANGED fs
  BY DEF Finish, RaiseWhileLogging
<1>2. BatchInv' /\ IsPlan(Image(before), plan)
  BY <1>1 DEF BatchInv, Running
<1>3. Shown = Image(before) /\ Shown' = Project(Image(before), plan)
  BY <1>1, ShowsProjection DEF Shown
<1>4. CASE AcceptedBatch(Image(before), plan)
  <2>1. PICK b \in Batches : /\ Accepts(Shown, b) /\ HeadIsReadable(Shown, plan)
                             /\ plan = Plan(Shown, b)
    BY <1>3, <1>4 DEF AcceptedBatch
  <2>2. Abstract!Accepts(Shown, b) /\ Abstract!Plan(Shown, b) = plan
    BY <2>1, SameAccepts, SamePlan
  <2>3. Abstract!HeadIsReadable(Shown, plan) /\ Abstract!Project(Shown, plan) = Shown'
    BY <1>3, <2>1, SameProjection
  <2>4. Abstract!Commit(b)
    BY <2>2, <2>3 DEF Abstract!Commit, Shown
  <2> QED BY <1>2, <2>4 DEF Implements, Abstract!Next
<1>5. CASE AcceptedEdit(Image(before), plan)
  <2>1. PICK e \in SymrefEdits : /\ SetSymbolicAccepted(Shown, e) \/ DeleteSymbolicAccepted(Shown, e)
                                 /\ plan = EditPlan(Shown, e)
    BY <1>3, <1>5 DEF AcceptedEdit
  <2>2. Abstract!SetSymbolicAccepted(Shown, e) \/ Abstract!DeleteSymbolicAccepted(Shown, e)
    BY <2>1, SameEdits
  <2>3. Project(Shown, plan) = [Shown EXCEPT ![e.ref] = e.target]
    <3>1. Shown = [r \in Refs |-> Shown[r]]
      BY <1>3 DEF Image
    <3>2. DOMAIN plan = {1} /\ plan[1].ref = e.ref /\ plan[1].new = e.target
      BY <2>1 DEF EditPlan
    <3>3. \A r : Touches(plan, r) => r = e.ref /\ ChangeFor(plan, r).new = e.target
      BY <3>2 DEF Touches, ChangeFor
    <3>4. Touches(plan, e.ref)
      BY <3>2 DEF Touches
    <3> QED BY <3>1, <3>3, <3>4 DEF Project
  <2>4. Abstract!EditSymbolic(e)
    BY <1>3, <2>2, <2>3 DEF Abstract!EditSymbolic, Shown
  <2> QED BY <1>2, <2>4 DEF Implements, Abstract!Next
<1> QED BY <1>2, <1>4, <1>5 DEF IsPlan

\* A rollback ends where the operation began.
LEMMA RollbackImplements == ASSUME IInv, OSError \/ Restore \/ EndRollback PROVE Implements
<1>1. CASE OSError \/ Restore
  <2>1. pc # "idle" /\ pc' = "rollback" /\ UNCHANGED before
    BY <1>1 DEF OSError, Restore
  <2>2. BatchInv'
    BY <2>1 DEF BatchInv, Running
  <2> QED BY <2>1, <2>2, WithinImplements
<1>2. CASE EndRollback
  <2>1. pc = "rollback" /\ pc' = "idle" /\ UNCHANGED <<fs, before>> /\ DOMAIN snap = {}
    BY <1>2 DEF EndRollback
  <2>2. fs = before
    BY <2>1, SameContents DEF IInv, TypeOK, RollbackIsPossible
  <2>3. BatchInv' /\ Shown' = Shown
    BY <2>1, <2>2 DEF BatchInv, Running, Shown
  <2> QED BY <2>3 DEF Implements
<1> QED BY <1>1, <1>2

LEMMA NextImplements ==
    ASSUME "crash" \notin Faults PROVE IInv /\ BatchInv /\ [Next]_vars => Implements
<1> SUFFICES ASSUME IInv, BatchInv, [Next]_vars PROVE Implements
  OBVIOUS
<1>1. CASE UNCHANGED vars
  <2>1. BatchInv' /\ Shown' = Shown
    BY <1>1 DEF vars, BatchInv, Running, LooseAsPlanned, PackedAsPlanned, Published, UnpackedNames, Shown
  <2> QED BY <2>1 DEF Implements
<1>2. CASE Next
  <2>1. ~Crash
    BY DEF Crash
  <2> QED
    BY <1>2, <2>1, BeginImplements, PublishImplements, EndPublishImplements, UnpackImplements,
       LogImplements, FinishImplements, RollbackImplements
    DEF Next
<1> QED BY <1>1, <1>2

\* _apply_updates, set_symbolic_ref and delete_symbolic_ref: unless the process is killed, every
\* batch and every call takes effect in one step or, when it fails, not at all.
THEOREM Atomic == ASSUME "crash" \notin Faults PROVE Spec => BatchesAreAtomic
<1>1. Init => BatchInv /\ Abstract!Init
  BY DEF Init, BatchInv, Running, Abstract!Init
<1>2. IInv /\ BatchInv /\ [Next]_vars => BatchInv' /\ [Abstract!Next]_(Image(IF pc = "idle" THEN fs ELSE before))
  BY NextImplements DEF Implements, Shown
<1> QED BY <1>1, <1>2, Invariant, PTL DEF Spec, BatchesAreAtomic, Abstract!Spec

-----------------------------------------------------------------------------
(***************************************************************************)
(* What readers meet while an operation runs, fails or is killed.          *)
(***************************************************************************)
\* Each file is as found or as planned; which of them, no order is needed to tell.
EachOldOrNew ==
    /\ OncePerRef(plan)
    /\ \A r \in Refs : \/ fs[RefFile(r)] = before[RefFile(r)]
                       \/ Touches(plan, r) /\ fs[RefFile(r)] = ChangeFor(plan, r).new
    /\ fs[PackedFile] \in {before[PackedFile], WithoutPacked(before[PackedFile], UnpackedNames)}

LEMMA BatchStep == IInv /\ BatchInv /\ [Next]_vars => BatchInv'
<1> SUFFICES ASSUME IInv, BatchInv, [Next]_vars PROVE BatchInv'
  OBVIOUS
<1>1. CASE UNCHANGED vars
  BY <1>1 DEF vars, BatchInv, Running, LooseAsPlanned, PackedAsPlanned, Published, UnpackedNames
<1>2. CASE Crash
  BY <1>2 DEF Crash, BatchInv, Running
<1>3. CASE Next /\ ~Crash
  BY <1>3, BeginImplements, PublishImplements, EndPublishImplements, UnpackImplements,
     LogImplements, FinishImplements, RollbackImplements
  DEF Next, Implements
<1> QED BY <1>1, <1>2, <1>3

LEMMA StartOldOrNew ==
    ASSUME IInv, BatchInv', NEW p, NEW packed, Start(p, packed) PROVE EachOldOrNew'
<1>1. pc' = "publish" /\ UNCHANGED fs /\ before' = fs
  BY DEF Start
<1> QED BY <1>1 DEF EachOldOrNew, BatchInv, Running

LEMMA OldOrNewStep ==
    ASSUME IInv, BatchInv, BatchInv', EachOldOrNew, [Next]_vars PROVE EachOldOrNew'
<1>0. TypeOK /\ RollbackIsPossible
  BY DEF IInv
<1>1. CASE \/ \E b \in Batches : BeginBatch(b)
           \/ \E e \in SymrefEdits : BeginSetSymbolic(e) \/ BeginDeleteSymbolic(e)
  BY <1>1, StartOldOrNew DEF BeginBatch, BeginSetSymbolic, BeginDeleteSymbolic
<1>2. CASE UNCHANGED <<fs, plan, before>>
  BY <1>2 DEF EachOldOrNew, UnpackedNames
<1>3. CASE Publish
  <2>1. /\ next \in DOMAIN plan /\ UNCHANGED <<plan, before>>
        /\ fs' = [fs EXCEPT ![RefFile(plan[next].ref)] = plan[next].new]
    BY <1>0, <1>3 DEF Publish, TypeOK
  <2>2. plan[next].ref \in Refs /\ Touches(plan, plan[next].ref) /\ ChangeFor(plan, plan[next].ref) = plan[next]
    <3>1. plan[next].ref \in Refs
      BY <1>0, <2>1, ChangesTyped DEF TypeOK
    <3> QED BY <2>1, <3>1 DEF Touches, ChangeFor, EachOldOrNew, OncePerRef
  <2>3. /\ fs'[RefFile(plan[next].ref)] = plan[next].new
        /\ \A r \in Refs : r # plan[next].ref => fs'[RefFile(r)] = fs[RefFile(r)]
        /\ fs'[PackedFile] = fs[PackedFile]
    BY <1>0, <2>1, <2>2, PathFacts DEF TypeOK, FileTypes
  <2> QED BY <2>1, <2>2, <2>3 DEF EachOldOrNew, UnpackedNames
<1>4. CASE Unpack
  <2>1. /\ fs' = [fs EXCEPT ![PackedFile] = WithoutPacked(@, UnpackedNames)] /\ UNCHANGED <<plan, before>>
        /\ fs[PackedFile] = before[PackedFile]
    BY <1>4 DEF Unpack, BatchInv, Running, PackedAsPlanned
  <2>2. /\ fs'[PackedFile] = WithoutPacked(before[PackedFile], UnpackedNames)
        /\ \A r \in Refs : fs'[RefFile(r)] = fs[RefFile(r)]
    BY <1>0, <2>1, PathFacts DEF TypeOK, FileTypes
  <2> QED BY <2>1, <2>2 DEF EachOldOrNew, UnpackedNames
<1>5. CASE AppendRecord \/ AppendHeadRecord
  <2>1. UNCHANGED <<plan, before>> /\ \E r \in Refs : \E v : fs' = [fs EXCEPT ![LogFile(r)] = v]
    <3>1. CASE AppendRecord
      <4>1. next \in DOMAIN plan
        BY <1>0, <3>1 DEF AppendRecord, TypeOK
      <4>2. plan[next].ref \in Refs
        BY <1>0, <4>1, ChangesTyped DEF TypeOK
      <4>3. \E v : fs' = [fs EXCEPT ![LogFile(plan[next].ref)] = v]
        BY <3>1 DEF AppendRecord
      <4> QED BY <3>1, <4>2, <4>3 DEF AppendRecord
    <3>2. CASE AppendHeadRecord
      <4>1. \E v : fs' = [fs EXCEPT ![LogFile(HEAD)] = v]
        BY <3>2 DEF AppendHeadRecord
      <4> QED BY <3>2, <4>1 DEF AppendHeadRecord, Refs
    <3> QED BY <1>5, <3>1, <3>2
  <2>2. fs'[PackedFile] = fs[PackedFile] /\ \A r \in Refs : fs'[RefFile(r)] = fs[RefFile(r)]
    BY <1>0, <2>1, PathFacts DEF TypeOK, FileTypes
  <2> QED BY <2>1, <2>2 DEF EachOldOrNew, UnpackedNames
<1>6. CASE Restore
  <2>1. PICK p \in Paths : fs' = [fs EXCEPT ![p] = before[p]] /\ UNCHANGED <<plan, before>>
    BY <1>0, <1>6 DEF Restore, RollbackIsPossible, TypeOK
  <2>2. \A q \in Paths : fs'[q] \in {fs[q], before[q]}
    BY <1>0, <2>1 DEF TypeOK, FileTypes
  <2> QED BY <2>1, <2>2, PathFacts DEF EachOldOrNew, UnpackedNames
<1> QED
  BY <1>1, <1>2, <1>3, <1>4, <1>5, <1>6
  DEF Next, vars, EndPublish, Finish, RaiseWhileLogging, OSError, EndRollback, Crash

LEMMA OldOrNewShows == ASSUME EachOldOrNew PROVE ReadersSeeOldOrNew
<1> SUFFICES ASSUME NEW r \in Refs,
                    Raw(fs, r) # Raw(before, r),
                    ~(Touches(plan, r) /\ Raw(fs, r) = ChangeFor(plan, r).new)
             PROVE  /\ r # HEAD
                    /\ Touches(plan, r)
                    /\ Unpacks(ChangeFor(plan, r))
                    /\ \/ Raw(fs, r) = before[PackedFile][r]
                       \/ Raw(fs, r) = None /\ fs[PackedFile] # before[PackedFile]
  BY DEF ReadersSeeOldOrNew
<1>1. \/ fs[RefFile(r)] = before[RefFile(r)]
      \/ Touches(plan, r) /\ fs[RefFile(r)] = ChangeFor(plan, r).new
  BY DEF EachOldOrNew
<1>2. r # HEAD /\ r \in Named /\ fs[RefFile(r)] = None
  BY <1>1 DEF Raw, Refs
<1>3. Raw(fs, r) = fs[PackedFile][r]
  BY <1>2 DEF Raw
<1>4. r \in UnpackedNames => Touches(plan, r) /\ Unpacks(ChangeFor(plan, r))
  BY DEF UnpackedNames, Touches, ChangeFor, EachOldOrNew, OncePerRef
<1>t. Touches(plan, r) => ChangeFor(plan, r).ref = r
  BY DEF Touches, ChangeFor
<1>5. CASE fs[PackedFile] = before[PackedFile]
  <2>1. before[RefFile(r)] # None
    BY <1>2, <1>3, <1>5 DEF Raw
  <2> QED BY <1>1, <1>2, <1>3, <1>5, <1>t, <2>1 DEF Unpacks
<1>6. CASE fs[PackedFile] # before[PackedFile]
  <2>1. fs[PackedFile] = WithoutPacked(before[PackedFile], UnpackedNames)
    BY <1>6 DEF EachOldOrNew
  <2>2. CASE r \in UnpackedNames
    BY <1>2, <1>3, <1>4, <1>6, <2>1, <2>2 DEF WithoutPacked
  <2>3. CASE r \notin UnpackedNames
    <3>1. Raw(fs, r) = before[PackedFile][r]
      BY <1>2, <1>3, <2>1, <2>3 DEF WithoutPacked
    <3>2. before[RefFile(r)] # None
      BY <1>2, <3>1 DEF Raw
    <3> QED BY <1>1, <1>2, <1>t, <3>1, <3>2 DEF Unpacks
  <2> QED BY <2>2, <2>3
<1> QED BY <1>5, <1>6

\* Another process, at any moment of an operation and after it failed or was killed, sees the old
\* or the planned value of a ref, or for a ref to be removed its packed copy or, later, nothing.
THEOREM ReadersSee == Spec => []ReadersSeeOldOrNew
<1>1. Init => BatchInv /\ EachOldOrNew
  BY DEF Init, BatchInv, Running, EachOldOrNew, OncePerRef
<1>2. IInv /\ BatchInv /\ EachOldOrNew /\ [Next]_vars => BatchInv' /\ EachOldOrNew'
  BY BatchStep, OldOrNewStep
<1>3. EachOldOrNew => ReadersSeeOldOrNew
  BY OldOrNewShows
<1> QED BY <1>1, <1>2, <1>3, Invariant, PTL DEF Spec

-----------------------------------------------------------------------------
(***************************************************************************)
(* What is at rest: no operation, whatever mix of commands it is, makes a  *)
(* cycle of symbolic refs.                                                 *)
(***************************************************************************)
\* Symbolic refs that name each other only: whoever starts in S never gets out of it.
Closed(img, S) == \A r \in S : IsSymbolic(img, r) /\ img[r] \in S

Acyclic(img) == \A S \in SUBSET Refs : Closed(img, S) => S = {}

\* A walk whose hops stay in a set ends in it.
LEMMA StaysIn ==
    ASSUME NEW img, NEW S, \A x \in S : Hop(img, x) \in S, NEW r \in S
    PROVE  Physical(img, r) \in S
<1>1. \A x \in S : Hop2(img, x) \in S
  BY DEF Hop2
<1>2. \A x \in S : Hop4(img, x) \in S
  BY <1>1 DEF Hop4
<1>3. \A x \in S : Hop8(img, x) \in S
  BY <1>2 DEF Hop8
<1>4. \A x \in S : Hop16(img, x) \in S
  BY <1>3 DEF Hop16
<1> QED BY <1>1, <1>2, <1>3, <1>4 DEF Physical

\* A cycle breaks every ref on it.
LEMMA CyclesBreak ==
    ASSUME NEW img, NEW S, Closed(img, S), NEW r \in S
    PROVE  Broken(img, r)
<1>1. \A x \in S : Hop(img, x) \in S
  BY DEF Closed, Hop
<1>2. Physical(img, r) \in S
  BY <1>1, StaysIn
<1> QED BY <1>2 DEF Broken, Closed

LEMMA ResolvedIsAcyclic ==
    ASSUME NEW img, \A r \in Refs : ~Broken(img, r)
    PROVE  Acyclic(img)
<1> SUFFICES ASSUME NEW S \in SUBSET Refs, Closed(img, S), NEW r \in S PROVE FALSE
  BY DEF Acyclic
<1>1. Broken(img, r)
  BY CyclesBreak
<1> QED BY <1>1

\* What a change that is not a symbolic command writes is no name.
LEMMA DirectWritesNoName ==
    ASSUME NEW img, NEW u \in Write, Accepted(img, u), u.action \notin SymrefActions
    PROVE  ChangeOf(img, u).new \notin Named
<1>1. u.action \in DirectActions
  BY DEF Write
<1>2. DirectAccepted(img, u, Target(img, u))
  BY <1>1 DEF Accepted
<1>3. u.action = "delete" \/ u.new = None \/ u.new \in Oids
  BY <1>1, <1>2 DEF DirectAccepted, DirectActions
<1>4. ChangeOf(img, u).new = IF u.action \in {"delete", "symref-delete"} THEN None ELSE u.new
  BY DEF ChangeOf
<1> QED BY <1>3, <1>4, ValuesAreDistinct DEF Refs

\* _validate_projected_symrefs looks at the symbolic writes only; no others can close a cycle.
LEMMA BatchAcyclic ==
    ASSUME NEW img \in Images, Acyclic(img), NEW b \in Batches, Accepts(img, b)
    PROVE  Acyclic(Project(img, Plan(img, b)))
<1> DEFINE p == Plan(img, b)
           now == Project(img, p)
<1>0. BatchTypes(b) /\ b.write \in Seq(Write)
  BY BatchesAreTyped DEF BatchTypes
<1>1. \A i \in DOMAIN p : i \in DOMAIN b.write /\ p[i] = ChangeOf(img, b.write[i])
  BY DEF Plan
<1>2. \A i \in DOMAIN b.write : b.write[i] \in Write /\ Accepted(img, b.write[i])
  <2> TAKE i \in DOMAIN b.write
  <2>1. b.write[i] \in Write
    BY <1>0
  <2>2. /\ Len(b.verify) + i \in DOMAIN AllCommands(b)
        /\ AllCommands(b)[Len(b.verify) + i] = b.write[i]
    BY <1>0, WritePlace
  <2> QED BY <2>1, <2>2 DEF Accepts
<1>3. ProjectsNoCycle(img, p)
  BY DEF Accepts
<1>4. ASSUME NEW i \in DOMAIN p, p[i].new \in Named PROVE ~Broken(now, p[i].ref)
  <2>1. b.write[i].action \in SymrefActions
    BY <1>1, <1>2, <1>4, DirectWritesNoName
  <2>2. p[i].sym = (b.write[i].action \in SymrefActions)
    BY <1>1 DEF ChangeOf
  <2>3. p[i].new # None
    BY <1>4, ValuesAreDistinct DEF Refs
  <2> QED BY <1>3, <2>1, <2>2, <2>3 DEF ProjectsNoCycle
<1> HIDE DEF p
<1> SUFFICES ASSUME NEW S \in SUBSET Refs, Closed(now, S), S # {} PROVE FALSE
  BY DEF Acyclic, p
<1>5. ASSUME NEW r \in S PROVE ~Touches(p, r)
  <2> SUFFICES ASSUME Touches(p, r) PROVE FALSE
    OBVIOUS
  <2>1. PICK i \in DOMAIN p : p[i].ref = r /\ ChangeFor(p, r) = p[i]
    BY DEF Touches, ChangeFor
  <2>2. now[r] = p[i].new
    BY <2>1 DEF Project
  <2>3. ~Broken(now, r)
    BY <1>4, <2>1, <2>2 DEF Closed, IsSymbolic
  <2> QED BY <2>3, CyclesBreak
<1>6. \A r \in S : now[r] = img[r]
  BY <1>5 DEF Project
<1>7. Closed(img, S)
  BY <1>6 DEF Closed, IsSymbolic
<1> QED BY <1>7 DEF Acyclic

\* set_symbolic_ref walks from the target and must not meet the ref it writes.
LEMMA EditAcyclic ==
    ASSUME NEW img \in Images, Acyclic(img), NEW e \in Edit,
           SetSymbolicAccepted(img, e) \/ DeleteSymbolicAccepted(img, e)
    PROVE  Acyclic([img EXCEPT ![e.ref] = e.target])
<1> DEFINE now == [img EXCEPT ![e.ref] = e.target]
           cut == [img EXCEPT ![e.ref] = None]
<1>0. /\ e.ref \in Refs
      /\ \A r \in Refs : r # e.ref => now[r] = img[r] /\ cut[r] = img[r]
      /\ now[e.ref] = e.target /\ cut[e.ref] = None /\ None \notin Named
  BY ValuesAreDistinct DEF Images, Edit, Refs
<1>c. SetSymbolicAccepted(img, e) => ~Broken(cut, e.target) /\ Physical(cut, e.target) # e.ref
  BY DEF SetSymbolicAccepted
<1>d. DeleteSymbolicAccepted(img, e) => e.target = None
  BY DEF DeleteSymbolicAccepted
<1> HIDE DEF now, cut
<1> SUFFICES ASSUME NEW S \in SUBSET Refs, Closed(now, S), S # {} PROVE FALSE
  BY DEF Acyclic, now
<1>1. CASE e.ref \notin S
  <2>1. Closed(img, S)
    BY <1>0, <1>1 DEF Closed, IsSymbolic
  <2> QED BY <2>1 DEF Acyclic
<1>2. CASE e.ref \in S
  <2>1. e.target \in S /\ e.target \in Named
    BY <1>0, <1>2 DEF Closed, IsSymbolic
  <2>2. SetSymbolicAccepted(img, e)
    BY <1>0, <1>d, <2>1
  <2>3. \A x \in S : Hop(cut, x) \in S
    BY <1>0 DEF Closed, Hop, IsSymbolic
  <2>4. Physical(cut, e.target) \in S
    BY <2>1, <2>3, StaysIn
  <2>5. IsSymbolic(cut, Physical(cut, e.target))
    BY <1>0, <1>c, <2>2, <2>4 DEF Closed, IsSymbolic
  <2> QED BY <1>c, <2>2, <2>5 DEF Broken
<1> QED BY <1>1, <1>2

\* What a symbolic-ref call leaves is what it was asked for.
LEMMA EditProjects ==
    ASSUME NEW img \in Images, NEW e
    PROVE  Project(img, EditPlan(img, e)) = [img EXCEPT ![e.ref] = e.target]
<1> DEFINE p == EditPlan(img, e)
<1>1. DOMAIN p = {1} /\ p[1].ref = e.ref /\ p[1].new = e.target
  BY DEF EditPlan
<1> HIDE DEF p
<1>2. \A r : Touches(p, r) => r = e.ref /\ ChangeFor(p, r).new = e.target
  BY <1>1 DEF Touches, ChangeFor
<1>3. Touches(p, e.ref)
  BY <1>1 DEF Touches
<1> QED BY <1>2, <1>3 DEF Project, Images, p

\* So no plan makes one.
LEMMA PlanAcyclic ==
    ASSUME NEW img \in Images, Acyclic(img), NEW p, IsPlan(img, p)
    PROVE  Acyclic(Project(img, p))
<1>1. CASE AcceptedBatch(img, p)
  BY <1>1, BatchAcyclic DEF AcceptedBatch
<1>2. CASE AcceptedEdit(img, p)
  <2>1. PICK e \in SymrefEdits : /\ SetSymbolicAccepted(img, e) \/ DeleteSymbolicAccepted(img, e)
                                 /\ p = EditPlan(img, e)
    BY <1>2 DEF AcceptedEdit
  <2>2. Acyclic([img EXCEPT ![e.ref] = e.target])
    BY <2>1, EditAcyclic, EditsAreTyped
  <2>3. Project(img, p) = [img EXCEPT ![e.ref] = e.target]
    BY <2>1, EditProjects
  <2> QED BY <2>2, <2>3
<1> QED BY <1>1, <1>2 DEF IsPlan
-----------------------------------------------------------------------------
(***************************************************************************)
(* The refs from which a walk is still at a symbolic ref of X after the    *)
(* hops of Hop, Hop2 ... are fewer by as many, if no ref is on a cycle.    *)
(***************************************************************************)
Symbolic(img) == {r \in Refs : IsSymbolic(img, r)}

\* Symbolic refs that one comes to only through refs of X.
Upstream(img, X) == X \subseteq Symbolic(img) /\ \A r \in Symbolic(img) : img[r] \in X => r \in X

Recedes(img, Y, X, n) ==
    /\ Upstream(img, Y)
    /\ Y \subseteq X
    /\ Y = {} \/ Cardinality(Y) + n <= Cardinality(X)

Before1(img, X) == {r \in Refs : Hop(img, r) \in X}
Before2(img, X) == {r \in Refs : Hop2(img, r) \in X}
Before4(img, X) == {r \in Refs : Hop4(img, r) \in X}
Before8(img, X) == {r \in Refs : Hop8(img, r) \in X}
Before16(img, X) == {r \in Refs : Hop16(img, r) \in X}

LEMMA UpstreamFinite ==
    ASSUME NEW img, IsFiniteSet(Refs), NEW X, Upstream(img, X)
    PROVE  IsFiniteSet(X) /\ Cardinality(X) \in Nat
<1>1. X \subseteq Refs
  BY DEF Upstream, Symbolic
<1> QED BY <1>1, FS_Subset, FS_CardinalityType

LEMMA HopType ==
    ASSUME NEW img \in Images, NEW r \in Refs
    PROVE  Hop(img, r) \in Refs /\ Hop2(img, r) \in Refs /\ Hop4(img, r) \in Refs /\ Hop8(img, r) \in Refs
<1>1. \A s \in Refs : Hop(img, s) \in Refs
  BY DEF Hop, IsSymbolic, Refs
<1>2. \A s \in Refs : Hop2(img, s) \in Refs
  BY <1>1 DEF Hop2
<1>3. \A s \in Refs : Hop4(img, s) \in Refs
  BY <1>2 DEF Hop4
<1> QED BY <1>1, <1>2, <1>3 DEF Hop8

LEMMA ByOne ==
    ASSUME NEW img \in Images, Acyclic(img), IsFiniteSet(Refs), NEW X, Upstream(img, X)
    PROVE  Recedes(img, Before1(img, X), X, 1)
<1> DEFINE Y == Before1(img, X)
<1>1. \A r \in Refs : r \in Y <=> IsSymbolic(img, r) /\ img[r] \in X
  BY DEF Before1, Hop, Upstream, Symbolic
<1>2. Y \subseteq X /\ Y \subseteq Refs
  BY <1>1 DEF Before1, Upstream, Symbolic
<1>3. Upstream(img, Y)
  BY <1>1, <1>2 DEF Upstream, Symbolic
<1>4. IsFiniteSet(X)
  BY UpstreamFinite
<1>5. ASSUME Y # {} PROVE Y # X
  <2> SUFFICES ASSUME Y = X PROVE FALSE
    OBVIOUS
  <2>1. Closed(img, Y)
    BY <1>1, <1>2 DEF Closed
  <2> QED BY <1>2, <1>5, <2>1 DEF Acyclic
<1> HIDE DEF Y
<1>6. ASSUME Y # {} PROVE Cardinality(Y) + 1 <= Cardinality(X)
  <2>1. IsFiniteSet(Y) /\ Cardinality(Y) <= Cardinality(X) /\ (Cardinality(X) = Cardinality(Y) => X = Y)
    BY <1>2, <1>4, FS_Subset
  <2>2. Cardinality(X) \in Nat /\ Cardinality(Y) \in Nat
    BY <1>4, <2>1, FS_CardinalityType
  <2> QED BY <1>5, <1>6, <2>1, <2>2
<1>7. Recedes(img, Y, X, 1)
  BY <1>2, <1>3, <1>6 DEF Recedes
<1> QED BY <1>7 DEF Y

\* n hops and m more are n + m hops.
LEMMA Further ==
    ASSUME NEW img, IsFiniteSet(Refs), NEW X, NEW Y, NEW Z, NEW n \in Nat, NEW m \in Nat,
           Upstream(img, X), Recedes(img, Y, X, n), Recedes(img, Z, Y, m)
    PROVE  Recedes(img, Z, X, n + m)
<1>1. Cardinality(X) \in Nat /\ Cardinality(Y) \in Nat /\ Cardinality(Z) \in Nat
  BY UpstreamFinite DEF Recedes
<1> QED BY <1>1 DEF Recedes

LEMMA ByTwo ==
    ASSUME NEW img \in Images, Acyclic(img), IsFiniteSet(Refs), NEW X, Upstream(img, X)
    PROVE  Recedes(img, Before2(img, X), X, 2)
<1> DEFINE Y == Before1(img, X)
           Z == Before1(img, Y)
<1>1. Recedes(img, Y, X, 1)
  BY ByOne
<1>2. Recedes(img, Z, Y, 1)
  BY <1>1, ByOne DEF Recedes
<1>3. Before2(img, X) = Z
  <2>1. \A r \in Refs : Hop(img, r) \in Refs
    BY HopType
  <2> QED BY <2>1 DEF Before1, Before2, Hop2, Hop, Upstream, Symbolic
<1> HIDE DEF Y, Z
<1>4. Recedes(img, Z, X, 1 + 1)
  BY <1>1, <1>2, Further
<1> QED BY <1>3, <1>4

LEMMA ByFour ==
    ASSUME NEW img \in Images, Acyclic(img), IsFiniteSet(Refs), NEW X, Upstream(img, X)
    PROVE  Recedes(img, Before4(img, X), X, 4)
<1> DEFINE Y == Before2(img, X)
           Z == Before2(img, Y)
<1>1. Recedes(img, Y, X, 2)
  BY ByTwo
<1>2. Recedes(img, Z, Y, 2)
  BY <1>1, ByTwo DEF Recedes
<1>3. Before4(img, X) = Z
  <2>1. \A r \in Refs : Hop2(img, r) \in Refs /\ (~IsSymbolic(img, r) => Hop2(img, r) = r)
    BY HopType DEF Hop2
  <2> QED BY <2>1 DEF Before2, Before4, Hop4, Upstream, Symbolic
<1> HIDE DEF Y, Z
<1>4. Recedes(img, Z, X, 2 + 2)
  BY <1>1, <1>2, Further
<1> QED BY <1>3, <1>4

LEMMA ByEight ==
    ASSUME NEW img \in Images, Acyclic(img), IsFiniteSet(Refs), NEW X, Upstream(img, X)
    PROVE  Recedes(img, Before8(img, X), X, 8)
<1> DEFINE Y == Before4(img, X)
           Z == Before4(img, Y)
<1>1. Recedes(img, Y, X, 4)
  BY ByFour
<1>2. Recedes(img, Z, Y, 4)
  BY <1>1, ByFour DEF Recedes
<1>3. Before8(img, X) = Z
  <2>1. \A r \in Refs : Hop4(img, r) \in Refs /\ (~IsSymbolic(img, r) => Hop4(img, r) = r)
    BY HopType DEF Hop4
  <2> QED BY <2>1 DEF Before4, Before8, Hop8, Upstream, Symbolic
<1> HIDE DEF Y, Z
<1>4. Recedes(img, Z, X, 4 + 4)
  BY <1>1, <1>2, Further
<1> QED BY <1>3, <1>4

LEMMA BySixteen ==
    ASSUME NEW img \in Images, Acyclic(img), IsFiniteSet(Refs), NEW X, Upstream(img, X)
    PROVE  Recedes(img, Before16(img, X), X, 16)
<1> DEFINE Y == Before8(img, X)
           Z == Before8(img, Y)
<1>1. Recedes(img, Y, X, 8)
  BY ByEight
<1>2. Recedes(img, Z, Y, 8)
  BY <1>1, ByEight DEF Recedes
<1>3. Before16(img, X) = Z
  <2>1. \A r \in Refs : Hop8(img, r) \in Refs /\ (~IsSymbolic(img, r) => Hop8(img, r) = r)
    BY HopType DEF Hop8
  <2> QED BY <2>1 DEF Before8, Before16, Hop16, Upstream, Symbolic
<1> HIDE DEF Y, Z
<1>4. Recedes(img, Z, X, 8 + 8)
  BY <1>1, <1>2, Further
<1> QED BY <1>3, <1>4

\* With at most 32 refs and no cycle, _MAX_SYMREF_DEPTH is never reached.
LEMMA DepthSuffices ==
    ASSUME NEW img \in Images, Acyclic(img), IsFiniteSet(Refs), Cardinality(Refs) <= 32, NEW r \in Refs
    PROVE  ~Broken(img, r)
<1> DEFINE X == Symbolic(img)
           X1 == Before1(img, X)
           X2 == Before2(img, X1)
           X4 == Before4(img, X2)
           X8 == Before8(img, X4)
           X16 == Before16(img, X8)
<1>1. Upstream(img, X) /\ X \subseteq Refs
  BY DEF Upstream, Symbolic
<1>2. Recedes(img, X1, X, 1)
  BY <1>1, ByOne
<1>3. Recedes(img, X2, X1, 2)
  BY <1>2, ByTwo DEF Recedes
<1>4. Recedes(img, X4, X2, 4)
  BY <1>3, ByFour DEF Recedes
<1>5. Recedes(img, X8, X4, 8)
  BY <1>4, ByEight DEF Recedes
<1>6. Recedes(img, X16, X8, 16)
  BY <1>5, BySixteen DEF Recedes
<1>7. Broken(img, r) => r \in X16
  <2>1. /\ Hop16(img, r) \in Refs
        /\ \A s \in Refs : Hop(img, s) \in Refs /\ Hop2(img, s) \in Refs
                           /\ Hop4(img, s) \in Refs /\ Hop8(img, s) \in Refs
    BY HopType DEF Hop16
  <2>2. Broken(img, r) => Hop(img, Hop2(img, Hop4(img, Hop8(img, Hop16(img, r))))) \in X
    BY <2>1 DEF Broken, Physical, Symbolic
  <2> QED BY <2>1, <2>2 DEF Before1, Before2, Before4, Before8, Before16
<1>8. Cardinality(X) < 32
  <2>1. X # Refs
    <3> SUFFICES ASSUME X = Refs PROVE FALSE
      OBVIOUS
    <3>1. Closed(img, X)
      BY DEF Closed, Symbolic, IsSymbolic, Refs
    <3> QED BY <3>1 DEF Acyclic, Refs
  <2> HIDE DEF X
  <2>2. Cardinality(X) <= Cardinality(Refs) /\ (Cardinality(Refs) = Cardinality(X) => Refs = X)
    BY <1>1, FS_Subset
  <2>3. Cardinality(X) \in Nat /\ Cardinality(Refs) \in Nat
    BY <1>1, UpstreamFinite, FS_CardinalityType
  <2> QED BY <2>1, <2>2, <2>3
<1> HIDE DEF X, X1, X2, X4, X8, X16
<1>9. Recedes(img, X2, X, 3)
  <2>1. Recedes(img, X2, X, 1 + 2)
    BY <1>1, <1>2, <1>3, Further
  <2> QED BY <2>1
<1>10. Recedes(img, X4, X, 7)
  <2>1. Recedes(img, X4, X, 3 + 4)
    BY <1>1, <1>4, <1>9, Further
  <2> QED BY <2>1
<1>11. Recedes(img, X8, X, 15)
  <2>1. Recedes(img, X8, X, 7 + 8)
    BY <1>1, <1>5, <1>10, Further
  <2> QED BY <2>1
<1>12. Recedes(img, X16, X, 31)
  <2>1. Recedes(img, X16, X, 15 + 16)
    BY <1>1, <1>6, <1>11, Further
  <2> QED BY <2>1
<1>13. Cardinality(X) \in Nat /\ IsFiniteSet(X16) /\ Cardinality(X16) \in Nat
  BY <1>1, <1>12, UpstreamFinite DEF Recedes
<1>14. X16 = {}
  <2>1. X16 = {} \/ Cardinality(X16) = 0
    BY <1>8, <1>12, <1>13 DEF Recedes
  <2> QED BY <1>13, <2>1, FS_EmptySet
<1> QED BY <1>7, <1>14

-----------------------------------------------------------------------------
\* What readers see between operations, whatever runs, has no cycle.
LEMMA ShownType == ASSUME IInv PROVE Shown \in Images
BY ImageType DEF IInv, TypeOK, Shown

LEMMA ShownAcyclic ==
    ASSUME "crash" \notin Faults, InitialRefsResolve
    PROVE  Spec => [](IInv /\ BatchInv /\ Acyclic(Shown))
<1>1. Init => BatchInv /\ Acyclic(Shown)
  <2> SUFFICES ASSUME Init PROVE BatchInv /\ Acyclic(Shown)
    OBVIOUS
  <2>1. BatchInv
    BY DEF Init, BatchInv, Running
  <2>2. \A r \in Refs : ~Broken(Shown, r)
    BY DEF Init, Shown, InitialRefsResolve
  <2> QED BY <2>1, <2>2, ResolvedIsAcyclic
<1>2. IInv /\ BatchInv /\ Acyclic(Shown) /\ [Next]_vars => BatchInv' /\ Acyclic(Shown)'
  <2> SUFFICES ASSUME IInv, BatchInv, Acyclic(Shown), [Next]_vars PROVE BatchInv' /\ Acyclic(Shown)'
    OBVIOUS
  <2>1. BatchInv' /\ [Abstract!Next]_Shown
    BY NextImplements DEF Implements
  <2>2. Shown \in Images
    BY ShownType
  <2>3. CASE Shown' = Shown
    BY <2>1, <2>3 DEF Acyclic, Closed, IsSymbolic
  <2>4. ASSUME NEW b \in Batches, Abstract!Commit(b) PROVE Acyclic(Shown)'
    <3>1. Abstract!Accepts(Shown, b) /\ Shown' = Abstract!Project(Shown, Abstract!Plan(Shown, b))
      BY <2>4 DEF Abstract!Commit, Shown
    <3>2. Accepts(Shown, b) /\ Shown' = Project(Shown, Plan(Shown, b))
      BY <3>1, SameAccepts, SamePlan, SameProjection
    <3>3. Acyclic(Project(Shown, Plan(Shown, b)))
      BY <2>2, <3>2, BatchAcyclic
    <3> QED BY <3>2, <3>3 DEF Acyclic, Closed, IsSymbolic
  <2>5. ASSUME NEW e \in SymrefEdits, Abstract!EditSymbolic(e) PROVE Acyclic(Shown)'
    <3>1. /\ Abstract!SetSymbolicAccepted(Shown, e) \/ Abstract!DeleteSymbolicAccepted(Shown, e)
          /\ Shown' = [Shown EXCEPT ![e.ref] = e.target]
      BY <2>5 DEF Abstract!EditSymbolic, Shown
    <3>2. SetSymbolicAccepted(Shown, e) \/ DeleteSymbolicAccepted(Shown, e)
      BY <3>1, SameEdits
    <3>3. Acyclic([Shown EXCEPT ![e.ref] = e.target])
      BY <2>2, <3>2, EditAcyclic, EditsAreTyped
    <3> QED BY <3>1, <3>3 DEF Acyclic, Closed, IsSymbolic
  <2> QED BY <2>1, <2>3, <2>4, <2>5 DEF Abstract!Next
<1> QED BY <1>1, <1>2, Invariant, PTL DEF Spec

\* Between operations no symbolic ref is on a cycle.
NoCycles == pc = "idle" => Acyclic(Image(fs))

\* Whatever batches and symbolic-ref calls are made, in whatever mix, and wherever they fail:
\* what _validate_projected_symrefs and set_symbolic_ref look at is enough to keep cycles out.
THEOREM NoCyclesAtRest ==
    ASSUME "crash" \notin Faults, InitialRefsResolve PROVE Spec => []NoCycles
<1>1. IInv /\ BatchInv /\ Acyclic(Shown) => NoCycles
  BY DEF NoCycles, Shown
<1> QED BY <1>1, ShownAcyclic, PTL

\* In a repository of at most 32 refs every name resolves after every operation: without a
\* cycle no chain is longer than _MAX_SYMREF_DEPTH. With 33 refs it may be (symref_depth).
THEOREM Resolvable ==
    ASSUME "crash" \notin Faults, InitialRefsResolve, IsFiniteSet(Refs), Cardinality(Refs) <= 32
    PROVE  Spec => []ResolvableAtRest
<1>1. IInv /\ BatchInv /\ Acyclic(Shown) => ResolvableAtRest
  <2> SUFFICES ASSUME IInv, Acyclic(Shown), pc = "idle", NEW r \in Refs PROVE ~Broken(Image(fs), r)
    BY DEF ResolvableAtRest
  <2>1. Shown = Image(fs) /\ Shown \in Images
    BY ShownType DEF Shown
  <2> QED BY <2>1, DepthSuffices
<1> QED BY <1>1, ShownAcyclic, PTL

-----------------------------------------------------------------------------
(***************************************************************************)
(* The reflogs while they are written.                                     *)
(***************************************************************************)
\* The changes whose record is in the log of their ref.
Recorded == {i \in DOMAIN plan : i < next \/ (i = next /\ pc = "mirror")}

LogInv ==
    /\ LogEndsWithValue
    /\ pc # "idle" => LogsEnd(before)
    /\ pc \in {"publish", "unpack"} => \A r \in Refs : fs[LogFile(r)] = before[LogFile(r)]
    /\ pc = "unpack" => next = 1
    /\ pc \in {"log", "mirror"} =>
           /\ \A r \in Named : (\A i \in Recorded : plan[i].ref # r) => fs[LogFile(r)] = before[LogFile(r)]
           /\ \A i \in Recorded :
                  LET c == plan[i]
                  IN c.ref \in Named /\ c.new \in Oids
                     => fs[LogFile(c.ref)] = Appended(before[LogFile(c.ref)], c.old, c.new, c.sym)

\* A command on a direct value is planned with the value as it is.
LEMMA OldIs ==
    ASSUME NEW img, NEW p, IsPlan(img, p), NEW i \in DOMAIN p, ~p[i].sym
    PROVE  p[i].old = Current(img, p[i].ref)
<1>1. CASE AcceptedBatch(img, p)
  <2>1. PICK b \in Batches : p = Plan(img, b)
    BY <1>1 DEF AcceptedBatch
  <2>2. p[i] = ChangeOf(img, b.write[i])
    BY <2>1 DEF Plan
  <2> DEFINE u == b.write[i]
             direct == u.action \notin SymrefActions
  <2>3. p[i].ref = Target(img, u) /\ p[i].sym = ~direct
    BY <2>2 DEF ChangeOf
  <2>4. direct => p[i].old = Current(img, Target(img, u))
    BY <2>2 DEF ChangeOf
  <2>5. direct
    BY <2>3
  <2> QED BY <2>3, <2>4, <2>5
<1>2. CASE AcceptedEdit(img, p)
  <2>1. PICK e \in SymrefEdits : p = EditPlan(img, e)
    BY <1>2 DEF AcceptedEdit
  <2>2. p[i].sym = TRUE
    BY <2>1 DEF EditPlan
  <2> QED BY <2>2
<1> QED BY <1>1, <1>2 DEF IsPlan

\* When the files are published a record tells the value that its change wrote.
LEMMA RecordsNew ==
    ASSUME IInv, BatchInv, pc = "log", NEW i \in DOMAIN plan, plan[i].new \in Oids
    PROVE  LoggedNew(plan[i]) = plan[i].new
<1>1. /\ OncePerRef(plan) /\ plan[i].ref \in Refs
      /\ Image(fs) = Project(Image(before), plan)
  <2>1. plan \in Seq(Change) /\ OncePerRef(plan)
    BY DEF IInv, TypeOK, BatchInv, Running
  <2> QED BY <2>1, ChangesTyped, ShowsProjection
<1>2. Touches(plan, plan[i].ref) /\ ChangeFor(plan, plan[i].ref) = plan[i]
  BY <1>1 DEF Touches, ChangeFor, OncePerRef
<1>3. Image(fs)[plan[i].ref] = plan[i].new
  BY <1>1, <1>2 DEF Project
<1>4. ~IsSymbolic(Image(fs), plan[i].ref) /\ plan[i].new # None
  BY <1>3, ValuesAreDistinct DEF IsSymbolic, Refs
<1>5. Physical(Image(fs), plan[i].ref) = plan[i].ref
  <2>1. \A x \in {plan[i].ref} : Hop(Image(fs), x) \in {plan[i].ref}
    BY <1>4 DEF Hop
  <2>2. Physical(Image(fs), plan[i].ref) \in {plan[i].ref}
    BY <2>1, StaysIn
  <2> QED BY <2>2
<1> QED BY <1>3, <1>4, <1>5 DEF LoggedNew, Resolved

\* A record of every change, or none where nothing changed: every log ends with the value.
LEMMA RecordedLogsEnd ==
    ASSUME IInv, BatchInv, LogInv, pc = "log", next > Len(plan)
    PROVE  LogsEnd(fs)
<1>1. /\ plan \in Seq(Change) /\ OncePerRef(plan) /\ IsPlan(Image(before), plan)
      /\ FileTypes(fs) /\ FileTypes(before)
      /\ Image(fs) = Project(Image(before), plan)
      /\ next \in Nat
  BY ShowsProjection DEF IInv, TypeOK, BatchInv, Running
<1>2. Recorded = DOMAIN plan
  <2>1. Len(plan) \in Nat /\ DOMAIN plan = 1..Len(plan)
    BY <1>1, LenProperties
  <2> QED BY <1>1, <2>1 DEF Recorded
<1>3. LogsEnd(before)
  BY DEF LogInv
<1> SUFFICES ASSUME NEW r \in Named, Raw(fs, r) \in Oids, fs[LogFile(r)] # <<>>
             PROVE  fs[LogFile(r)][Len(fs[LogFile(r)])].new = Raw(fs, r)
  BY DEF LogsEnd
<1>4. r \in Refs /\ Raw(fs, r) = Project(Image(before), plan)[r] /\ Image(before)[r] = Raw(before, r)
  BY <1>1 DEF Refs, Image
<1>5. CASE ~Touches(plan, r)
  <2>1. Raw(fs, r) = Raw(before, r)
    BY <1>4, <1>5 DEF Project
  <2>2. fs[LogFile(r)] = before[LogFile(r)]
    BY <1>2, <1>5 DEF LogInv, Touches
  <2> QED BY <1>3, <2>1, <2>2 DEF LogsEnd
<1>6. CASE Touches(plan, r)
  <2>1. PICK i \in DOMAIN plan : plan[i].ref = r /\ ChangeFor(plan, r) = plan[i]
    BY <1>6 DEF Touches, ChangeFor
  <2>2. Raw(fs, r) = plan[i].new
    BY <1>4, <1>6, <2>1 DEF Project
  <2>3. fs[LogFile(r)] = Appended(before[LogFile(r)], plan[i].old, plan[i].new, plan[i].sym)
    BY <1>2, <2>1, <2>2 DEF LogInv
  <2>4. CASE plan[i].old = plan[i].new /\ ~plan[i].sym
    <3>1. fs[LogFile(r)] = before[LogFile(r)]
      BY <2>3, <2>4 DEF Appended
    <3>2. plan[i].old = Current(Image(before), r)
      BY <1>1, <2>1, <2>4, OldIs
    <3>3. plan[i].old = Raw(before, r)
      BY <1>4, <2>2, <2>4, <3>2, ValuesAreDistinct DEF Current
    <3> QED BY <1>3, <2>2, <2>4, <3>1, <3>3 DEF LogsEnd
  <2>5. CASE ~(plan[i].old = plan[i].new /\ ~plan[i].sym)
    <3> DEFINE rec == [old |-> plan[i].old, new |-> plan[i].new]
    <3>1. fs[LogFile(r)] = Append(before[LogFile(r)], rec)
      BY <2>3, <2>5 DEF Appended
    <3>2. before[LogFile(r)] \in Seq(Record)
      BY <1>1, <1>4 DEF FileTypes
    <3> HIDE DEF rec
    <3>3. fs[LogFile(r)][Len(fs[LogFile(r)])] = rec
      BY <3>1, <3>2, AppendProperties
    <3> QED BY <2>2, <3>3 DEF rec
  <2> QED BY <2>4, <2>5
<1> QED BY <1>5, <1>6

LEMMA StartLogInv ==
    ASSUME IInv, LogInv, NEW p, NEW packed, Start(p, packed) PROVE LogInv'
<1>1. pc = "idle" /\ pc' = "publish" /\ UNCHANGED fs /\ before' = fs
  BY DEF Start
<1>2. LogsEnd(fs)
  BY <1>1 DEF LogInv, LogEndsWithValue
<1> QED BY <1>1, <1>2 DEF LogInv, LogEndsWithValue, LogsEnd, Raw

LEMMA AppendLogInv == ASSUME IInv, BatchInv, LogInv, AppendRecord PROVE LogInv'
<1> DEFINE c == plan[next]
<1>0. TypeOK /\ OncePerRef(plan)
  BY DEF IInv, BatchInv, Running, AppendRecord
<1>1. /\ pc = "log" /\ pc' \in {"log", "mirror"} /\ next \in DOMAIN plan /\ next \in Nat
      /\ fs' = [fs EXCEPT ![LogFile(c.ref)] = Appended(@, c.old, LoggedNew(c), c.sym)]
      /\ IF pc' = "mirror" THEN next' = next ELSE next' = next + 1
      /\ UNCHANGED <<plan, before>>
  BY <1>0 DEF AppendRecord, TypeOK
<1>2. \A i \in DOMAIN plan : plan[i].ref \in Refs /\ i \in Nat
  BY <1>0, ChangesTyped DEF TypeOK
<1>3. /\ fs'[LogFile(c.ref)] = Appended(fs[LogFile(c.ref)], c.old, LoggedNew(c), c.sym)
      /\ \A r \in Refs : r # c.ref => fs'[LogFile(r)] = fs[LogFile(r)]
  BY <1>0, <1>1, <1>2, PathFacts DEF TypeOK, FileTypes
<1>4. Recorded' = Recorded \cup {next} /\ next \notin Recorded
  BY <1>1, <1>2 DEF Recorded
<1>5. \A i \in Recorded : i \in DOMAIN plan /\ plan[i].ref # c.ref
  BY <1>0, <1>1, <1>4 DEF Recorded, OncePerRef
<1>6. ASSUME NEW r \in Named, \A i \in Recorded' : plan'[i].ref # r PROVE fs'[LogFile(r)] = before'[LogFile(r)]
  BY <1>1, <1>3, <1>4, <1>6 DEF LogInv, Refs
<1>7. ASSUME NEW i \in Recorded', plan[i].ref \in Named, plan[i].new \in Oids
      PROVE  fs'[LogFile(plan[i].ref)]
                 = Appended(before[LogFile(plan[i].ref)], plan[i].old, plan[i].new, plan[i].sym)
  <2>1. CASE i = next
    <3>1. LoggedNew(c) = c.new
      BY <1>1, <1>7, <2>1, RecordsNew
    <3>2. fs[LogFile(c.ref)] = before[LogFile(c.ref)]
      BY <1>1, <1>5, <1>7, <2>1 DEF LogInv
    <3> QED BY <1>3, <2>1, <3>1, <3>2
  <2>2. CASE i # next
    <3>1. i \in Recorded
      BY <1>4, <1>7, <2>2
    <3> QED BY <1>1, <1>2, <1>3, <1>5, <1>7, <3>1 DEF LogInv
  <2> QED BY <2>1, <2>2
<1>8. LogsEnd(before)'
  BY <1>1 DEF LogInv, LogsEnd, Raw
<1> QED BY <1>1, <1>6, <1>7, <1>8 DEF LogInv, LogEndsWithValue

LEMMA AppendHeadLogInv == ASSUME IInv, BatchInv, LogInv, AppendHeadRecord PROVE LogInv'
<1>0. TypeOK /\ next \in DOMAIN plan
  BY DEF IInv, RollbackIsPossible, AppendHeadRecord
<1>1. /\ pc = "mirror" /\ pc' = "log" /\ next' = next + 1 /\ next \in Nat /\ UNCHANGED <<plan, before>>
      /\ \E v : fs' = [fs EXCEPT ![LogFile(HEAD)] = v]
  BY <1>0 DEF AppendHeadRecord, TypeOK
<1>2. \A i \in DOMAIN plan : plan[i].ref \in Refs /\ i \in Nat
  BY <1>0, ChangesTyped DEF TypeOK
<1>3. \A r \in Named : fs'[LogFile(r)] = fs[LogFile(r)]
  BY <1>0, <1>1, PathFacts, NamesAreDistinct DEF TypeOK, FileTypes, Refs
<1>4. Recorded' = Recorded
  BY <1>0, <1>1, <1>2 DEF Recorded
<1>5. LogsEnd(before)'
  BY <1>1 DEF LogInv, LogsEnd, Raw
<1>6. ASSUME NEW r \in Named, \A i \in Recorded' : plan'[i].ref # r PROVE fs'[LogFile(r)] = before'[LogFile(r)]
  BY <1>1, <1>3, <1>4, <1>6 DEF LogInv
<1>7. ASSUME NEW i \in Recorded', plan[i].ref \in Named, plan[i].new \in Oids
      PROVE  fs'[LogFile(plan[i].ref)]
                 = Appended(before[LogFile(plan[i].ref)], plan[i].old, plan[i].new, plan[i].sym)
  BY <1>1, <1>3, <1>4, <1>7 DEF LogInv
<1> QED BY <1>1, <1>5, <1>6, <1>7 DEF LogInv, LogEndsWithValue

LEMMA LogStep ==
    ASSUME "crash" \notin Faults, IsFiniteSet(Refs), Cardinality(Refs) <= 32,
           IInv, BatchInv, Acyclic(Shown), LogInv, [Next]_vars
    PROVE  LogInv'
<1>0. TypeOK
  BY DEF IInv
<1>1. CASE \/ \E b \in Batches : BeginBatch(b)
           \/ \E e \in SymrefEdits : BeginSetSymbolic(e) \/ BeginDeleteSymbolic(e)
  BY <1>1, StartLogInv DEF BeginBatch, BeginSetSymbolic, BeginDeleteSymbolic
<1>2. CASE Publish
  <2>1. /\ pc = "publish" /\ pc' = "publish" /\ next \in DOMAIN plan /\ UNCHANGED before
        /\ fs' = [fs EXCEPT ![RefFile(plan[next].ref)] = plan[next].new]
    BY <1>0, <1>2 DEF Publish, TypeOK
  <2>2. plan[next].ref \in Refs
    BY <1>0, <2>1, ChangesTyped DEF TypeOK
  <2>3. \A r \in Refs : fs'[LogFile(r)] = fs[LogFile(r)]
    BY <1>0, <2>1, <2>2, PathFacts DEF TypeOK, FileTypes
  <2>4. LogsEnd(before)'
    BY <2>1 DEF LogInv, LogsEnd, Raw
  <2> QED BY <2>1, <2>3, <2>4 DEF LogInv, LogEndsWithValue
<1>3. CASE EndPublish
  <2>1. /\ pc = "publish" /\ pc' \in {"unpack", "log"} /\ next' = 1 /\ UNCHANGED <<fs, plan, before>>
    BY <1>3 DEF EndPublish, AfterPublish
  <2>2. pc' = "log" => Recorded' = {}
    BY <1>0, <2>1 DEF Recorded, TypeOK
  <2>3. LogsEnd(before)'
    BY <2>1 DEF LogInv, LogsEnd, Raw
  <2> QED BY <2>1, <2>2, <2>3 DEF LogInv, LogEndsWithValue, Refs
<1>4. CASE Unpack
  <2>1. /\ pc = "unpack" /\ pc' = "log" /\ UNCHANGED <<plan, next, before>>
        /\ fs' = [fs EXCEPT ![PackedFile] = WithoutPacked(@, UnpackedNames)]
    BY <1>4 DEF Unpack
  <2>2. \A r \in Refs : fs'[LogFile(r)] = fs[LogFile(r)]
    BY <1>0, <2>1, PathFacts DEF TypeOK, FileTypes
  <2>3. Recorded' = {}
    <3>1. plan \in Seq(Change) /\ next = 1
      BY <1>0, <2>1 DEF TypeOK, LogInv
    <3>2. \A i \in DOMAIN plan : i \in Nat /\ i >= 1
      BY <3>1, LenProperties
    <3> QED BY <2>1, <3>1, <3>2 DEF Recorded
  <2>4. LogsEnd(before)'
    BY <2>1 DEF LogInv, LogsEnd, Raw
  <2> QED BY <2>1, <2>2, <2>3, <2>4 DEF LogInv, LogEndsWithValue, Refs
<1>5. CASE AppendRecord
  BY <1>5, AppendLogInv
<1>6. CASE AppendHeadRecord
  BY <1>6, AppendHeadLogInv
<1>7. CASE Finish
  <2>1. pc = "log" /\ pc' = "idle" /\ next > Len(plan) /\ UNCHANGED fs
    BY <1>7 DEF Finish
  <2>2. LogsEnd(fs)
    BY <2>1, RecordedLogsEnd
  <2>3. LogsEnd(fs)'
    BY <2>1, <2>2 DEF LogsEnd, Raw
  <2> QED BY <2>1, <2>3 DEF LogInv, LogEndsWithValue
<1>8. CASE RaiseWhileLogging
  <2>1. pc = "log" /\ next \in DOMAIN plan /\ Broken(Image(fs), plan[next].ref)
    BY <1>0, <1>8 DEF RaiseWhileLogging, LogRaises, TypeOK
  <2>2. plan[next].ref \in Refs /\ Image(fs) \in Images /\ Image(before) \in Images
    BY <1>0, <2>1, ChangesTyped, ImageType DEF TypeOK
  <2>3. Image(fs) = Project(Image(before), plan) /\ IsPlan(Image(before), plan) /\ Shown = Image(before)
    BY <2>1, ShowsProjection DEF BatchInv, Running, Shown
  <2>4. Acyclic(Image(fs))
    BY <2>2, <2>3, PlanAcyclic
  <2> QED BY <2>1, <2>2, <2>4, DepthSuffices
<1>9. CASE OSError \/ Restore
  <2>1. pc # "idle" /\ pc' = "rollback" /\ UNCHANGED before
    BY <1>9 DEF OSError, Restore
  <2>2. LogsEnd(before)'
    BY <2>1 DEF LogInv, LogsEnd, Raw
  <2> QED BY <2>1, <2>2 DEF LogInv, LogEndsWithValue
<1>10. CASE EndRollback
  <2>1. pc = "rollback" /\ pc' = "idle" /\ UNCHANGED fs /\ DOMAIN snap = {}
    BY <1>10 DEF EndRollback
  <2>2. fs = before
    BY <2>1, SameContents DEF IInv, TypeOK, RollbackIsPossible
  <2>3. LogsEnd(fs)'
    BY <2>1, <2>2 DEF LogInv, LogsEnd, Raw
  <2> QED BY <2>1, <2>3 DEF LogInv, LogEndsWithValue
<1>11. CASE UNCHANGED vars
  BY <1>11 DEF vars, LogInv, LogEndsWithValue, LogsEnd, Raw, Recorded
<1>12. CASE Crash
  BY <1>12 DEF Crash
<1> QED BY <1>1, <1>2, <1>3, <1>4, <1>5, <1>6, <1>7, <1>8, <1>9, <1>10, <1>11, <1>12 DEF Next

\* The last record of a reflog is the value of its ref, after every operation that ended or
\* failed: a change that is not logged changed nothing, and one that is logged tells its value.
THEOREM LogsFollowRefs ==
    ASSUME "crash" \notin Faults, InitialRefsResolve, InitialLogsEnd,
           IsFiniteSet(Refs), Cardinality(Refs) <= 32
    PROVE  Spec => []LogEndsWithValue
<1>1. Init => LogInv
  BY DEF Init, InitialLogsEnd, LogInv, LogEndsWithValue
<1>2. IInv /\ BatchInv /\ Acyclic(Shown) /\ LogInv /\ [Next]_vars => LogInv'
  BY LogStep
<1>3. LogInv => LogEndsWithValue
  BY DEF LogInv
<1> QED BY <1>1, <1>2, <1>3, ShownAcyclic, PTL DEF Spec
=============================================================================

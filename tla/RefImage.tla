------------------------------ MODULE RefImage ------------------------------
(***************************************************************************)
(* The reference files of one .pygit directory and how a reader resolves   *)
(* a name in them: loose files shadow packed-refs, symbolic values are     *)
(* followed for at most 32 files, and every ref has a reflog file.         *)
(*                                                                         *)
(* A ref file holds an object ID (a direct ref), a ref name (a symbolic    *)
(* ref) or is absent (None).  In a reflog record None is ZERO_SHA.         *)
(***************************************************************************)
EXTENDS Naturals, Sequences

CONSTANTS Branches,     \* names under refs/heads/
          OtherRefs,    \* names under refs/tags/, refs/remotes/, refs/meta/ ...
          HEAD,
          Oids,         \* the objects the store holds
          Commits,      \* those of them that are commits
          None          \* no file, no record, ZERO_SHA

Named == Branches \cup OtherRefs
Refs == Named \cup {HEAD}

ASSUME NamesAreDistinct == HEAD \notin Named
ASSUME ValuesAreDistinct ==
    /\ Commits \subseteq Oids
    /\ Oids \cap Refs = {}
    /\ None \notin Oids \cup Refs

(***************************************************************************)
(* The files.  fs[p] is the content of path p.                             *)
(***************************************************************************)
RefFile(r) == <<"ref", r>>
LogFile(r) == <<"log", r>>
PackedFile == <<"packed-refs", HEAD>>
Paths == {RefFile(r) : r \in Refs} \cup {LogFile(r) : r \in Refs} \cup {PackedFile}

Direct == Oids \cup {None}
Value == Direct \cup Named                  \* what a ref file may hold
Packed == [Named -> Direct]                 \* packed-refs holds direct refs only
Record == [old : Direct, new : Direct]      \* one line of a reflog

FileTypes(f) ==
    /\ f = [p \in Paths |-> f[p]]
    /\ \A r \in Refs : f[RefFile(r)] \in Value /\ f[LogFile(r)] \in Seq(Record)
    /\ f[PackedFile] \in Packed

(***************************************************************************)
(* Reading.  An image maps every ref to its raw value: the loose file if   *)
(* there is one, else the packed value.  HEAD is never packed.             *)
(***************************************************************************)
Raw(f, r) ==
    IF r = HEAD \/ f[RefFile(r)] # None THEN f[RefFile(r)] ELSE f[PackedFile][r]

Image(f) == [r \in Refs |-> Raw(f, r)]

Images == [Refs -> Value]

IsSymbolic(img, r) == img[r] \in Named

(***************************************************************************)
(* _MAX_SYMREF_DEPTH = 32: a resolution reads at most 32 files, the name   *)
(* it starts from and 31 more (16 + 8 + 4 + 2 + 1 hops).  A hop from a     *)
(* file that is not symbolic stays there, so the 32nd file is where every  *)
(* legal resolution ends.                                                  *)
(***************************************************************************)
Hop(img, r) == IF IsSymbolic(img, r) THEN img[r] ELSE r
Hop2(img, r) == IF IsSymbolic(img, r) THEN Hop(img, Hop(img, r)) ELSE r
Hop4(img, r) == IF IsSymbolic(img, r) THEN Hop2(img, Hop2(img, r)) ELSE r
Hop8(img, r) == IF IsSymbolic(img, r) THEN Hop4(img, Hop4(img, r)) ELSE r
Hop16(img, r) == IF IsSymbolic(img, r) THEN Hop8(img, Hop8(img, r)) ELSE r

Physical(img, r) == Hop(img, Hop2(img, Hop4(img, Hop8(img, Hop16(img, r)))))

\* A cycle, or a chain of more than 32 files: every reader raises RuntimeError.
Broken(img, r) == IsSymbolic(img, Physical(img, r))

\* The object ID a name that is not Broken resolves to, or None.
Resolved(img, r) == img[Physical(img, r)]

(***************************************************************************)
(* Writing.                                                                *)
(***************************************************************************)
Appended(log, old, new, force) ==
    IF old = new /\ ~force THEN log ELSE Append(log, [old |-> old, new |-> new])

\* Keeping the removed records and dropping the rest (a faulty WithoutPacked).
OnlyPacked(packed, names) ==
    [r \in Named |-> IF r \in names THEN packed[r] ELSE None]

WithoutPacked(packed, names) ==
    [r \in Named |-> IF r \in names THEN None ELSE packed[r]]

=============================================================================

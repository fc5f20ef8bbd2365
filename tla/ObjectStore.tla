---------------------------- MODULE ObjectStore ----------------------------
(***************************************************************************)
(* The object database: loose objects, packs with their indexes, and the   *)
(* multi-pack-index, and how store.py reads through them.                  *)
(*                                                                         *)
(* Packs are deterministic, so a pack is named by the set of objects it    *)
(* holds.  Its .pack and .idx files come and go separately.                *)
(***************************************************************************)
EXTENDS Naturals, Sequences, FiniteSets

CONSTANTS Objects,
          Links,        \* the objects an object names: tree, parents, entries, tag target
          NoMidx        \* there is no multi-pack-index file

ASSUME LinksAreObjects == Links \in [Objects -> SUBSET Objects]

Packs == SUBSET Objects

\* midx.packs are the packs it covers; midx.at maps every object of theirs to one of them.
Midx(packs) == [packs : {packs}, at : [UNION packs -> packs]]

ASSUME NoMidxIsDistinct == \A s \in SUBSET Packs : NoMidx \notin Midx(s)

DbTypes(d) ==
    /\ d = [loose |-> d.loose, packs |-> d.packs, idxs |-> d.idxs, midx |-> d.midx]
    /\ d.loose \subseteq Objects
    /\ d.packs \subseteq Packs
    /\ d.idxs \subseteq Packs
    /\ d.midx # NoMidx =>
           /\ d.midx.packs \subseteq Packs
           /\ d.midx \in Midx(d.midx.packs)
           /\ \A o \in UNION d.midx.packs : o \in d.midx.at[o]

(***************************************************************************)
(* Reading.                                                                *)
(***************************************************************************)
Pairs(d) == d.packs \cap d.idxs
Packed(d) == UNION Pairs(d)
Stored(d) == d.loose \cup Packed(d)

Covered(d) == IF d.midx = NoMidx THEN {} ELSE d.midx.packs
Mapped(d, o) == o \in UNION Covered(d)

\* Trusting the multi-pack-index when the copy it selects is gone (a faulty Reads).
ReadsMappedOnly(d, o) ==
    \/ o \in d.loose
    \/ Mapped(d, o) /\ d.midx.at[o] \in Pairs(d)
    \/ ~Mapped(d, o) /\ \E p \in Pairs(d) \ Covered(d) : o \in p

\* _read_store_bytes_local: the loose file, then the copy the multi-pack-index selects or,
\* should that fail, any other; without a mapping only the indexes it does not cover.
Reads(d, o) ==
    \/ o \in d.loose
    \/ Mapped(d, o) /\ \E p \in Pairs(d) : o \in p
    \/ ~Mapped(d, o) /\ \E p \in Pairs(d) \ Covered(d) : o \in p

Readable(d) == {o \in Objects : Reads(d, o)}

\* _exists_local: a mapping to a pack that is gone raises ValueError.
Exists(d, o) ==
    CASE o \in d.loose -> "yes"
      [] o \notin d.loose /\ Mapped(d, o) -> IF d.midx.at[o] \in Pairs(d) THEN "yes" ELSE "error"
      [] OTHER -> IF \E p \in Pairs(d) \ Covered(d) : o \in p THEN "yes" ELSE "no"

(***************************************************************************)
(* The object graph.  Closure(s) is the smallest set that holds s and      *)
(* everything its members name.                                            *)
(***************************************************************************)
ClosedUnderLinks(s) == \A o \in s : Links[o] \subseteq s

Smallest == [s \in SUBSET Objects |->
                {o \in Objects : \A c \in SUBSET Objects : s \subseteq c /\ ClosedUnderLinks(c) => o \in c}]

Closure(s) == Smallest[s]

\* fsck(connectivity_only=True): everything the roots reach can be read.
Connected(d, roots) == Closure(roots) \subseteq Readable(d)

\* fsck: pack and index files pair up, and no stored object, reachable or not, names a
\* missing one.
Healthy(d, roots) ==
    /\ d.packs = d.idxs
    /\ Connected(d, roots)
    /\ \A o \in Stored(d) : Links[o] \subseteq Readable(d)
=============================================================================

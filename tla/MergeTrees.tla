----------------------------- MODULE MergeTrees -----------------------------
(***************************************************************************)
(* The three-way merge of trees, which the program decides in three        *)
(* places: read-tree -m (read_tree_merge.py), merge-tree (merge_tree.py)   *)
(* and merge, cherry-pick, rebase and stash (Repository._apply_three_way). *)
(* A tree maps paths to entries; an entry has an object and a mode. The    *)
(* object of a blob is its text.                                           *)
(***************************************************************************)
EXTENDS Naturals, Sequences, FiniteSets, MergeLines

CONSTANTS Paths,
          Beneath(_, _), \* whether a path lies in the directory of that name
          Gone,          \* there is no such entry
          Binary         \* the objects that are not text

Entry(oid, mode) == [oid |-> oid, mode |-> mode]

File == {"100644", "100755"}

PathsOf(t) == {p \in Paths : t[p] # Gone}

EmptyTree == [p \in Paths |-> Gone]

\* The files that are in the way of another path.
Blocking(paths) == {p \in paths : \E q \in paths : Beneath(q, p)}

(***************************************************************************)
(* read-tree -m with three trees                                           *)
(***************************************************************************)
\* Whether one of the trivial rules applies; a deletion needs --aggressive.
Resolved(b, o, t, aggressive) ==
    \/ o = t /\ (o # Gone \/ aggressive)
    \/ o # t /\ o = b /\ (t # Gone \/ aggressive)
    \/ o # t /\ o # b /\ t = b /\ (o # Gone \/ aggressive)

Resolution(b, o, t) == IF o # t /\ o = b THEN t ELSE o

(***************************************************************************)
(* merge-tree                                                              *)
(***************************************************************************)
Kind(e) == CASE e.mode \in File -> "file"
             [] e.mode = "120000" -> "symlink"
             [] e.mode = "160000" -> "gitlink"

MergedMode(b, o, t) == IF o = t \/ t = b THEN o ELSE IF o = b THEN t ELSE Gone

Clash(reason) == [clash |-> reason]
Settled(e) == [clash |-> "none", entry |-> e]

MergeTexts(b, o, t) ==
    LET mode == MergedMode(b.mode, o.mode, t.mode)
        merged == MergeText(b.oid, o.oid, t.oid)
    IN  CASE mode = Gone -> Clash("mode")
          [] mode # Gone /\ (o.oid = t.oid \/ t.oid = b.oid) -> Settled(Entry(o.oid, mode))
          [] mode # Gone /\ o.oid # t.oid /\ t.oid # b.oid /\ o.oid = b.oid ->
                Settled(Entry(t.oid, mode))
          [] OTHER -> IF {b.oid, o.oid, t.oid} \cap Binary # {} THEN Clash("binary")
                      ELSE IF merged.conflicts > 0 THEN Clash("content")
                      ELSE Settled(Entry(merged.text, mode))

\* Ours is kept when only they changed the entry (a faulty MergeEntry).
MergeEntryOurs(b, o, t) == IF o = t \/ o = b \/ t = b THEN Settled(o) ELSE Clash("content")

MergeEntry(b, o, t) ==
    CASE o = t \/ t = b -> Settled(o)
      [] o # t /\ t # b /\ o = b -> Settled(t)
      [] o # t /\ o # b /\ t # b ->
            IF b = Gone THEN Clash("add/add")
            ELSE IF Gone \in {o, t} THEN Clash("modify/delete")
            ELSE IF Kind(b) # Kind(o) \/ Kind(b) # Kind(t) THEN Clash("type")
            ELSE IF Kind(o) # "file" THEN Clash(Kind(o))
            ELSE MergeTexts(b, o, t)

\* The conflicts, and the tree when there are none.
MergeTree(base, ours, theirs) ==
    LET merge == [p \in Paths |-> MergeEntry(base[p], ours[p], theirs[p])]
        clashing == {p \in Paths : merge[p].clash # "none"}
        tree == [p \in Paths |-> IF p \in clashing THEN Gone ELSE merge[p].entry]
        blocking == Blocking(PathsOf(tree)) \ clashing
    IN  [conflicts |-> {[path |-> p, reason |-> merge[p].clash] : p \in clashing}
                       \cup {[path |-> p, reason |-> "directory/file"] : p \in blocking},
         tree |-> tree]

(***************************************************************************)
(* merge: an entry is chosen, or else the texts are merged under the mode  *)
(* of our side. A missing entry has the empty text. (A path in conflict    *)
(* keeps its index entry; its file gets the text with the markers.)        *)
(***************************************************************************)
TextOf(e) == IF e = Gone THEN <<>> ELSE e.oid

Apply(b, o, t) ==
    LET merged == MergeText(TextOf(b), TextOf(o), TextOf(t))
    IN  IF o = t \/ t = b THEN Settled(o)
        ELSE IF o = b THEN Settled(t)
        ELSE IF merged.conflicts > 0 THEN Clash("content")
        ELSE Settled(Entry(merged.text, IF o # Gone THEN o.mode ELSE t.mode))
=============================================================================

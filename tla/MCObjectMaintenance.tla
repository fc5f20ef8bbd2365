------------------------ MODULE MCObjectMaintenance ------------------------
(***************************************************************************)
(* A commit c of tree q, and a commit x of tree y that once was on a       *)
(* branch: loose, packed apart, or packed together.                        *)
(***************************************************************************)
EXTENDS ObjectMaintenance

CONSTANTS q, c, x, y, main, side, index

MCObjects == {q, c, x, y}
MCLinks == [o \in MCObjects |-> CASE o = c -> {q} [] o = x -> {y} [] OTHER -> {}]
MCNameable == [r \in Refs |-> IF r = index THEN {q, y} ELSE {c, x}]

Checkout == [r \in Refs |-> IF r = index THEN q ELSE c]

\* Objects written at different times: y before the grace period, x within it.
Scattered ==
    [db   |-> [loose |-> {c, x, y}, packs |-> {{q}, {c, q}}, idxs |-> {{q}, {c, q}}, midx |-> NoMidx],
     aged |-> {y},
     refs |-> Checkout,
     logs |-> [r \in Logged |-> {[oids |-> {c}, age |-> "fresh"]}]]

\* Everything loose and old; a branch has left x behind, and its log says so.
Abandoned ==
    [db   |-> [loose |-> MCObjects, packs |-> {}, idxs |-> {}, midx |-> NoMidx],
     aged |-> MCObjects,
     refs |-> Checkout,
     logs |-> [r \in Logged |-> {[oids |-> {c, x}, age |-> "stale"],
                                 [oids |-> {x}, age |-> IF r = main THEN "old" ELSE "fresh"]}]]

\* Three overlapping packs, one of them with unreachable objects only it holds.
Overlapping ==
    [db   |-> [loose |-> {}, packs |-> {{q, c}, {q, x, y}, {c}}, idxs |-> {{q, c}, {q, x, y}, {c}},
               midx |-> NoMidx],
     aged |-> {},
     refs |-> Checkout,
     logs |-> [r \in Logged |-> {}]]

MCInitialStates == {Scattered, Abandoned, Overlapping}
=============================================================================

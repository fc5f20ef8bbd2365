---------------------------- MODULE MCHistories ----------------------------
(***************************************************************************)
(* Histories of five commits from one root; of four from two roots; and of *)
(* four from one root that may be cloned, tagged, and given a commit-graph.*)
(* In the first and the last the clocks go back. Object ids run against    *)
(* the order of creation in the first and zigzag in the others. Trees come *)
(* back to what they were.                                                 *)
(***************************************************************************)
EXTENDS Histories

CONSTANTS x, y, z

Trees == <<{x}, {x, y}, {x, z}, {x}, {y, z}>>

MCSettings ==
    {[commits |-> 5, roots |-> 1, clones |-> FALSE, tags |-> FALSE, graphs |-> FALSE,
      annotated |-> FALSE, time |-> <<2, 1, 3, 3, 2>>, oid |-> <<5, 4, 3, 2, 1>>, tree |-> Trees],
     [commits |-> 4, roots |-> 2, clones |-> FALSE, tags |-> FALSE, graphs |-> FALSE,
      annotated |-> FALSE, time |-> <<1, 2, 3, 4>>, oid |-> <<2, 1, 4, 3>>, tree |-> Trees],
     [commits |-> 4, roots |-> 1, clones |-> TRUE, tags |-> TRUE, graphs |-> TRUE,
      annotated |-> TRUE, time |-> <<1, 3, 2, 2>>, oid |-> <<3, 1, 4, 2>>, tree |-> Trees]}

MCFilters ==
    {[topo |-> FALSE],
     [topo |-> TRUE, firstParent |-> TRUE],
     [topo |-> TRUE, maxParents |-> 1],
     [minParents |-> 2, maxAge |-> 1],
     [topo |-> TRUE, minAge |-> 3],
     [oldest |-> 2, firstParent |-> TRUE],
     [side |-> "left"],
     [side |-> "right", topo |-> TRUE, maxParents |-> 1, minAge |-> 3]}
=============================================================================

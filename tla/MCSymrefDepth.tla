--------------------------- MODULE MCSymrefDepth ---------------------------
(***************************************************************************)
(* A repository with the longest chain of symbolic refs that resolves:     *)
(* ref 32 names 31, ... 2 names the branch 1.  Names, object IDs and the   *)
(* sentinels are numbers, so that the chain can be written down.           *)
(***************************************************************************)
EXTENDS RefTransaction

ChainLength == 32

DepthBranches == {1}
DepthOthers == 2..(ChainLength + 1)
DepthOids == {100, 101}

DepthFiles == {
    [p \in Paths |->
        IF p = PackedFile THEN [r \in Named |-> None]
        ELSE IF p[1] = "log" THEN <<>>
        ELSE CASE p[2] = HEAD -> 1
               [] p[2] = 1 -> 100
               [] p[2] \in 2..ChainLength -> p[2] - 1
               [] OTHER -> None] }

Set(r) == [action |-> "update", ref |-> r, deref |-> TRUE, new |-> 101, old |-> Any]
Link(t) == [action |-> "symref-update", ref |-> ChainLength + 1, deref |-> FALSE, new |-> t, old |-> Any]

DepthBatches ==
    {[verify |-> <<>>, write |-> <<Set(r)>>] : r \in {HEAD, ChainLength, ChainLength + 1}}
    \cup {[verify |-> <<>>, write |-> <<Link(t), Set(1)>>] : t \in {ChainLength, ChainLength - 1}}

DepthEdits ==
    {[ref |-> ChainLength + 1, target |-> t] : t \in {ChainLength, ChainLength - 1, None}}
    \cup {[ref |-> HEAD, target |-> ChainLength]}
=============================================================================

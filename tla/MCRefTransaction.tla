-------------------------- MODULE MCRefTransaction --------------------------
(***************************************************************************)
(* Small repositories for RefTransaction: two branches, a tag-like ref and *)
(* an alias, two commits and a blob, and batches chosen so that symbolic   *)
(* refs, packed copies, HEAD and expectations all meet.                    *)
(***************************************************************************)
EXTENDS RefTransaction

CONSTANTS main, dev, alias, c1, c2, blob

Cmd(action, ref, deref, new, old) ==
    [action |-> action, ref |-> ref, deref |-> deref, new |-> new, old |-> old]

Batch(v, w) == [verify |-> v, write |-> w]

MCBatches == {
    Batch(<<>>, <<Cmd("update", HEAD, TRUE, c2, Any)>>),
    Batch(<<>>, <<Cmd("update", HEAD, FALSE, c2, Any), Cmd("update", main, TRUE, c1, Any)>>),
    Batch(<<>>, <<Cmd("update", main, TRUE, c2, c1), Cmd("update", dev, TRUE, c1, None)>>),
    Batch(<<Cmd("verify", main, TRUE, None, c1)>>,
          <<Cmd("delete", dev, TRUE, None, Any), Cmd("update", alias, FALSE, c1, Any)>>),
    Batch(<<>>, <<Cmd("update", main, TRUE, None, Any), Cmd("create", dev, TRUE, c1, None)>>),
    Batch(<<>>, <<Cmd("create", alias, TRUE, blob, None)>>),
    Batch(<<>>, <<Cmd("create", dev, TRUE, blob, None)>>),
    Batch(<<>>, <<Cmd("symref-update", alias, FALSE, dev, main),
                  Cmd("symref-update", dev, FALSE, main, Any)>>),
    Batch(<<>>, <<Cmd("symref-update", dev, FALSE, alias, Any)>>),
    Batch(<<>>, <<Cmd("symref-update", alias, FALSE, dev, Any),
                  Cmd("symref-update", dev, FALSE, alias, Any)>>),
    Batch(<<>>, <<Cmd("symref-update", HEAD, FALSE, dev, c1),
                  Cmd("update", main, TRUE, c2, Any)>>),
    Batch(<<Cmd("symref-verify", dev, FALSE, None, Any)>>,
          <<Cmd("symref-create", dev, TRUE, main, Any)>>),
    Batch(<<>>, <<Cmd("symref-delete", alias, FALSE, None, Any),
                  Cmd("delete", alias, TRUE, None, Any)>>),
    Batch(<<>>, <<Cmd("symref-delete", dev, FALSE, None, alias)>>),
    Batch(<<>>, <<Cmd("delete", alias, FALSE, None, Any)>>)
    }

\* The batches that can remove the HEAD file itself.
HeadDeletion == {
    Batch(<<>>, <<Cmd("delete", HEAD, FALSE, None, Any)>>),
    Batch(<<>>, <<Cmd("symref-delete", HEAD, FALSE, None, main)>>)
    }

MCBatchesWithHead == MCBatches \cup HeadDeletion

MCEdits == [ref : {HEAD, alias, dev}, target : {main, alias, None}]

NoRecords == [r \in Refs |-> <<>>]

Files(loose, packed) ==
    [p \in Paths |->
        IF p = PackedFile THEN packed
        ELSE IF p[1] = "ref" THEN loose[p[2]]
        ELSE <<>>]

\* main is loose over an older packed copy; dev is only packed; alias names main.
Shadowed == Files([r \in Refs |-> CASE r = HEAD -> main
                                    [] r = main -> c1
                                    [] r = alias -> main
                                    [] OTHER -> None],
                  [r \in Named |-> CASE r = main -> c2 [] r = dev -> c1 [] OTHER -> None])

\* A detached HEAD, dev an alias of a direct ref, nothing packed.
Detached == Files([r \in Refs |-> CASE r = HEAD -> c1
                                    [] r = main -> c1
                                    [] r = dev -> alias
                                    [] OTHER -> c2],
                  [r \in Named |-> None])

MCFiles == {Shadowed, Detached}

\* What the theorems on resolution and reflogs ask of the repositories at the start.
ASSUME StartsAreWell == InitialRefsResolve /\ InitialLogsEnd
=============================================================================

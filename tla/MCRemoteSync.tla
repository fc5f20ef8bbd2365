---------------------------- MODULE MCRemoteSync ----------------------------
(***************************************************************************)
(* A clone before and after, of a branch with one commit. The scenarios    *)
(* share the commands out, so that each can be followed by enough others.  *)
(***************************************************************************)
EXTENDS RemoteSync

CONSTANTS p, q, main, dev, v1, origin, up

Symmetry == Permutations(Procs)

Tip(kind) == Object(kind, 9, <<>>)

Left(allowed, commits, changes, commands, crashes) ==
    [allowed |-> allowed, commits |-> commits, server |-> changes, commands |-> commands, crashes |-> crashes]

From(kind, remotes, limits) == [tip |-> Tip(kind), branch |-> main, remotes |-> remotes, left |-> limits]

MCScenarios ==
    {From("plain", {}, Left({"clone", "fetch", "push", "checkout"}, 1, 1, 2, 1)),
     From("plain", {origin}, Left({"fetch", "push"}, 2, 1, 2, 0)),
     From("plain", {origin}, Left({"fetch", "push"}, 2, 0, 3, 1)),
     From("signed", {origin}, Left({"pull", "push", "checkout"}, 2, 0, 2, 1)),
     From("plain", {origin}, Left({"fetch", "remote"}, 0, 1, 3, 1)),
     From("plain", {origin, up}, Left({"fetch", "push"}, 1, 1, 2, 0))}
=============================================================================

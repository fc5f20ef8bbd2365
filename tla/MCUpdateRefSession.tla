------------------------- MODULE MCUpdateRefSession -------------------------
(***************************************************************************)
(* Streams over a branch, an alias of it and a second symbolic ref, with   *)
(* commands that conflict with the refs, with each other and as a cycle.   *)
(***************************************************************************)
EXTENDS UpdateRefSession

CONSTANTS main, alias, other, c1, c2, blob

Cmd(action, ref, new, old) ==
    [action |-> action, ref |-> ref, deref |-> TRUE, new |-> new, old |-> old]

MCCommands == {
    Cmd("update", HEAD, c2, c1),
    Cmd("update", main, c1, Any),
    Cmd("create", other, c1, None),
    Cmd("create", main, c1, None),
    Cmd("update", main, blob, Any),
    Cmd("symref-update", alias, other, Any),
    Cmd("symref-update", other, alias, Any),
    Cmd("symref-delete", alias, None, main),
    Cmd("symref-verify", other, None, Any),
    Cmd("verify", main, None, c1) }

MCOthers == {
    [verify |-> <<>>, write |-> <<Cmd("update", main, c2, Any)>>],
    [verify |-> <<>>, write |-> <<Cmd("create", other, c2, None)>>] }

MCImages == {
    [r \in Refs |-> CASE r = HEAD -> main [] r = main -> c1 [] r = alias -> main [] OTHER -> None],
    [r \in Refs |-> CASE r = main -> c1 [] r = alias -> other [] r = other -> c1 [] OTHER -> c1] }
=============================================================================

----------------------------- MODULE MCPackRefs -----------------------------
(***************************************************************************)
(* PackRefs on two branches, a tag and a symbolic alias, with stale packed *)
(* copies under loose refs.                                                *)
(***************************************************************************)
EXTENDS PackRefs

CONSTANTS main, dev, tag, alias, c1, c2

MCFiles == {
    [p \in Paths |->
        IF p = PackedFile THEN [r \in Named |-> CASE r = main -> c2 [] r = dev -> c1 [] OTHER -> None]
        ELSE IF p[1] = "log" THEN <<>>
        ELSE CASE p[2] = HEAD -> main
               [] p[2] = main -> c1
               [] p[2] = tag -> c1
               [] p[2] = alias -> main
               [] OTHER -> None] }

MCRequests == {
    [all |-> a, includes |-> i, excludes |-> x, prune |-> p] :
        a \in BOOLEAN, i \in {{}, {main, alias}}, x \in {{}, {tag}, {main}}, p \in BOOLEAN }
=============================================================================

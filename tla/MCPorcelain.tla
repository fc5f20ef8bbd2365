---------------------------- MODULE MCPorcelain ----------------------------
(***************************************************************************)
(* Two branches that have diverged: main changed f, topic added g in one   *)
(* commit and changed f in the next. A third name is free.                 *)
(***************************************************************************)
EXTENDS Porcelain

CONSTANTS f, g, c0, c1, c2, c3, joined, main, topic, spare

T(x, y) == [p \in Paths |-> IF p = f THEN x ELSE y]

\* c1 and c2 change different lines of c0. What both sides add is joined, ours first, with no
\* conflict; what one side changed and the other deleted is one.
MCLineMerge(b, o, t) == CASE b = c0 /\ {o, t} = {c1, c2} -> c3
                          [] b = Gone -> joined
                          [] OTHER -> Marked

Log(last) ==
    << [tree |-> T(c0, Gone), parents |-> <<>>, msg |-> 1],
       [tree |-> T(c1, Gone), parents |-> <<1>>, msg |-> 2],
       [tree |-> T(c0, c0), parents |-> <<1>>, msg |-> 3],
       [tree |-> T(last, c0), parents |-> <<3>>, msg |-> 4] >>

At(b, c, last, limit) ==
    [log   |-> Log(last),
     files |-> [head |-> b,
                branch |-> [x \in Branches |-> IF x = main THEN 2 ELSE IF x = topic THEN 4 ELSE None],
                index |-> [staged |-> Log(last)[c].tree, unmerged |-> {}],
                worktree |-> Log(last)[c].tree,
                mergeHead |-> None, mergeOrig |-> None, conflicts |-> {}, cherry |-> None,
                rebase |-> None, bisect |-> None, stash |-> None],
     left  |-> limit]

Left(allowed, commands, edits, crashes) ==
    [allowed |-> allowed, commands |-> commands, edits |-> edits, crashes |-> crashes]

Integrating == {"commit", "merge", "merge_abort", "cherry_pick", "cherry_continue", "cherry_abort",
                "rebase", "rebase_continue", "rebase_skip", "rebase_abort"}
Bisecting3 == {"bisect_start", "bisect_mark", "bisect_reset"}
Shelving == {"stash_push", "stash_pop", "stash_apply", "stash_drop", "stash_branch", "stash_clear"}
Others == {"amend", "commit_only", "revert", "reset", "reset_path", "checkout_path", "checkout",
           "checkout_orphan", "branch", "branch_rename", "branch_delete", "clean"}

\* On topic, whose last commit conflicts with main; on main, with a change that does not.
MCScenarios ==
    {At(topic, 4, c3, Left(Integrating, 3, 2, 1)),
     At(topic, 4, c2, Left(Integrating, 3, 1, 1)),
     At(main, 2, c3, Left(Bisecting3, 3, 0, 1)),
     At(main, 2, c3, Left(Shelving, 3, 2, 1)),
     At(main, 2, c3, Left(Integrating \cup Bisecting3 \cup Shelving \cup Others, 2, 1, 1))}
=============================================================================

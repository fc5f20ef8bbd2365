---------------------------- MODULE MCIndexPlumbing ----------------------------
(* Three paths, one of them in a directory that may be a file too. Each initial state is either a  *)
(* merge of one path, with no command, or a small repository with a group of commands.             *)
EXTENDS IndexPlumbing

CONSTANTS d, dx, x

MCPaths == {d, dx, x}
MCOrder == <<d, dx, x>>
MCBeneath(p, q) == p = dx /\ q = d
MCJoin(p, q) == IF p = d /\ q = x THEN dx ELSE None

A == <<"1">>
B == <<"2">>
C == <<"3">>
MCBinary == {B}

a == Entry(A, "100644")
ax == Entry(A, "100755")
b == Entry(B, "100644")
bx == Entry(B, "100755")
c == Entry(C, "100644")

MCTyped == {a, ax, c}
MCGiven == {a, bx}

TreeOf(e, f, g) == [p \in Paths |-> IF p = d THEN e ELSE IF p = dx THEN f ELSE g]
Worktree(t) == [p \in Paths |-> IF p = d /\ t[dx] # Gone THEN Directory ELSE t[p]]

\* Lines 1, 2 and 3 are in the base; a side drops some and adds a and b between them.
AllLines == <<"1", "a", "2", "b", "3">>
Texts(lines) == {SelectSeq(AllLines, LAMBDA l : l \in s) : s \in SUBSET lines}

Alone(e) == [p \in Paths |-> IF p = x THEN e ELSE Gone]
Merge(base, ours, theirs) ==
    [trees |-> [base |-> Alone(base), ours |-> Alone(ours), theirs |-> Alone(theirs)],
     entries |-> Alone(ours), worktree |-> Alone(ours), allowed |-> {}, commands |-> 0, edits |-> 0]

Entries(texts, modes) == {Gone} \cup {Entry(t, m) : t \in texts, m \in modes}

Merges ==
    {Merge(u, v, w) : u \in Entries(Texts({"1", "2", "3"}), {"100644"}),
                      v, w \in Entries(Texts(Lines(AllLines)), {"100644"})}
    \cup {Merge(u, v, w) : u, v, w \in Entries({A, B, C, <<"1", "a">>}, File)}

Repository(base, ours, theirs, allowed, commands, edits) ==
    [trees |-> [base |-> base, ours |-> ours, theirs |-> theirs], entries |-> ours,
     worktree |-> Worktree(ours), allowed |-> allowed, commands |-> commands, edits |-> edits]

Bases == {TreeOf(Gone, Gone, a), TreeOf(Gone, a, a)}
Ones == {TreeOf(Gone, Gone, b), TreeOf(Gone, a, ax), EmptyTree}
Others2 == {TreeOf(a, Gone, b), TreeOf(Gone, c, Gone)}

MCContents == Texts(Lines(AllLines)) \cup {A, B, C}

Groups == {
    [allowed |-> {"cacheinfo", "index-info", "force-remove", "read-tree -m3", "write-tree", "read-tree"},
     commands |-> 2, edits |-> 0],
    [allowed |-> {"cacheinfo", "force-remove", "read-tree -m", "write-tree", "read-tree"},
     commands |-> 3, edits |-> 0],
    [allowed |-> {"update-index", "read-tree --prefix", "read-tree -m3", "checkout-index"},
     commands |-> 2, edits |-> 1],
    [allowed |-> {"add", "rm", "mv", "checkout-index"}, commands |-> 2, edits |-> 2],
    [allowed |-> {"read-tree -u", "read-tree --prefix -u", "cacheinfo", "index-info", "rm"},
     commands |-> 2, edits |-> 1]}

Repositories == {Repository(u, v, w, g.allowed, g.commands, g.edits) :
                    u \in Bases, v \in Ones, w \in Others2, g \in Groups}

MCScenarios == Merges \cup Repositories
=============================================================================

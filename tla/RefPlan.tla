------------------------------- MODULE RefPlan -------------------------------
(***************************************************************************)
(* _plan_updates: what one update-ref batch resolves to against the refs   *)
(* it is planned on, and when it is refused.                               *)
(***************************************************************************)
EXTENDS RefImage

CONSTANT Any            \* an expectation the caller did not state

ASSUME AnyIsDistinct == Any \notin Oids \cup Refs \cup {None}

DirectActions == {"update", "create", "delete"}
SymrefActions == {"symref-update", "symref-create", "symref-delete"}

(***************************************************************************)
(* One command.  new is the value to write (None deletes); old is what the *)
(* command expects: an object ID, None for "must not exist", a ref name    *)
(* for a symbolic target, or Any.                                          *)
(***************************************************************************)
Write == [action : DirectActions \cup SymrefActions, ref : Refs, deref : BOOLEAN,
          new : Value, old : Value \cup {Any}]
Verify == [action : {"verify", "symref-verify"}, ref : Refs, deref : BOOLEAN,
           new : {None}, old : Value \cup {Any}]

\* A batch: its verify commands change nothing and are kept apart.
BatchTypes(b) == b.verify \in Seq(Verify) /\ b.write \in Seq(Write)

AllCommands(b) == b.verify \o b.write

\* One file the transaction will replace (or unlink, when new = None).
Change == [ref : Refs, old : Direct, new : Value, sym : BOOLEAN, mirror : BOOLEAN]

Target(img, u) == IF u.deref THEN Physical(img, u.ref) ELSE u.ref

\* _resolve_direct reports no object ID for a file that holds a symbolic ref.
Current(img, r) == IF IsSymbolic(img, r) THEN None ELSE img[r]

Expects(u, actual) == u.old \in {Any, actual}

BranchLike(r) == r \in Branches \cup {HEAD}

(***************************************************************************)
(* The checks of one command, on the file p it was resolved to.            *)
(***************************************************************************)
DirectAccepted(img, u, p) ==
    /\ Expects(u, Current(img, p))
    /\ \/ u.action = "delete"
       \/ u.action = "verify"
       \/ u.action = "update" /\ u.new = None
       \/ /\ u.action \in {"update", "create"}
          /\ u.new \in Oids
          /\ BranchLike(p) => u.new \in Commits

SymrefAccepted(img, u, p) ==
    /\ ~Broken(img, p)
    /\ \/ u.action = "symref-create" /\ img[p] = None /\ u.new \in Named
       \/ /\ u.action = "symref-update"
          /\ u.new \in Named
          /\ \/ u.old \in Named /\ img[p] = u.old
             \/ u.old \notin Named /\ Expects(u, Resolved(img, p))
       \/ u.action = "symref-delete" /\ ~u.deref /\ IsSymbolic(img, p) /\ Expects(u, img[p])
       \/ /\ u.action = "symref-verify"
          /\ ~u.deref
          /\ IF u.old = Any THEN img[p] = None ELSE img[p] = u.old

Accepted(img, u) ==
    /\ u.deref => ~Broken(img, u.ref)
    /\ IF u.action \in DirectActions \cup {"verify"}
       THEN DirectAccepted(img, u, Target(img, u))
       ELSE SymrefAccepted(img, u, Target(img, u))

(***************************************************************************)
(* The planned change of one command, and the plan of a batch.             *)
(***************************************************************************)
ChangeOf(img, u) ==
    LET p == Target(img, u)
        sym == u.action \in SymrefActions
    IN [ref |-> p,
        old |-> IF sym THEN Resolved(img, p) ELSE Current(img, p),
        new |-> IF u.action \in {"delete", "symref-delete"} THEN None ELSE u.new,
        sym |-> sym,
        mirror |-> p \in Branches /\ img[HEAD] = p]

Plan(img, b) == [i \in DOMAIN b.write |-> ChangeOf(img, b.write[i])]

Touches(plan, r) == \E i \in DOMAIN plan : plan[i].ref = r

ChangeFor(plan, r) == plan[CHOOSE i \in DOMAIN plan : plan[i].ref = r]

\* The image once every planned change is in place.
Project(img, plan) ==
    [r \in Refs |-> IF Touches(plan, r) THEN ChangeFor(plan, r).new ELSE img[r]]

\* Checking every symbolic write by itself (a faulty ProjectsNoCycle).
EachAloneNoCycle(img, plan) ==
    \A i \in DOMAIN plan :
        plan[i].sym /\ plan[i].new # None
        => ~Broken([img EXCEPT ![plan[i].ref] = plan[i].new], plan[i].ref)

\* Walking from the target of the write, as set_symbolic_ref does (a faulty ProjectsNoCycle).
FromTargetNoCycle(img, plan) ==
    \A i \in DOMAIN plan :
        plan[i].sym /\ plan[i].new # None => ~Broken(Project(img, plan), plan[i].new)

\* _validate_projected_symrefs: no symbolic ref the batch writes may start a cycle.
ProjectsNoCycle(img, plan) ==
    \A i \in DOMAIN plan :
        plan[i].sym /\ plan[i].new # None => ~Broken(Project(img, plan), plan[i].ref)

\* mirror_head reads HEAD for every branch it is about to write; with no HEAD file
\* that is an OSError before anything is published.
HeadIsReadable(img, plan) ==
    (\E i \in DOMAIN plan : plan[i].ref \in Branches) => img[HEAD] # None

Accepts(img, b) ==
    /\ \A i \in DOMAIN AllCommands(b) : Accepted(img, AllCommands(b)[i])
    /\ \A i, j \in DOMAIN AllCommands(b) :
           Target(img, AllCommands(b)[i]) = Target(img, AllCommands(b)[j]) => i = j
    /\ ProjectsNoCycle(img, Plan(img, b))

(***************************************************************************)
(* symbolic-ref NAME TARGET, and symbolic-ref -d NAME (target = None).     *)
(***************************************************************************)
Edit == [ref : Refs, target : Named \cup {None}]

\* set_symbolic_ref follows the target for at most 32 files and must not meet NAME,
\* which it never reads: cut stops the walk there.
SetSymbolicAccepted(img, e) ==
    LET cut == [img EXCEPT ![e.ref] = None]
    IN /\ e.target \in Named
       /\ ~Broken(cut, e.target)
       /\ Physical(cut, e.target) # e.ref
       /\ ~Broken(img, e.ref)

\* delete_symbolic_ref refuses HEAD and direct refs.
DeleteSymbolicAccepted(img, e) ==
    /\ e.target = None
    /\ e.ref # HEAD
    /\ IsSymbolic(img, e.ref)
    /\ ~Broken(img, e.ref)

EditPlan(img, e) ==
    <<[ref |-> e.ref, old |-> Resolved(img, e.ref), new |-> e.target,
       sym |-> TRUE, mirror |-> FALSE]>>
=============================================================================

-------------------------- MODULE UpdateRefSession --------------------------
(***************************************************************************)
(* The update-ref --stdin command stream: update_refs of                   *)
(* ref_transaction.py and, when Partial, update_refs_batch of ref_batch.py *)
(* (--batch-updates), which drops conflicting commands instead of failing. *)
(*                                                                         *)
(* Commands queue; start, prepare, commit, abort and the one-shot option   *)
(* no-deref shape transactions; a commit plans the queue again and         *)
(* publishes it whole (RefTransaction is that publication in detail).      *)
(* Nothing locks the refs: another process may commit between commands.    *)
(***************************************************************************)
EXTENDS RefPlan, FiniteSets

CONSTANTS Commands,       \* the ref-naming commands a stream may hold
          Partials,       \* subset of BOOLEAN: the values of --batch-updates
          Derefs,         \* subset of BOOLEAN: the caller's default
          Others,         \* one-command batches other processes may commit
          InitialImages,
          MaxCommands,    \* bound: commands and controls in a stream
          MaxOthers       \* bound: commits of other processes

ASSUME CommandsAreTyped == Commands \subseteq Write \cup Verify
ASSUME OthersAreTyped == \A b \in Others : BatchTypes(b)
ASSUME ImagesAreTyped == InitialImages \subseteq Images
\* So that every chain that does not end is a cycle, which --batch-updates may reject.
ASSUME NoLongChains == Cardinality(Refs) <= 32

VARIABLES value,        \* the refs, as RefMap has them
          partial, deref,
          pending,      \* the queue of the open transaction
          explicit, prepared,
          noDeref,      \* option no-deref is waiting for its command
          rejected,     \* transaction_rejections
          emitted,      \* the rejections reported so far
          status,       \* "open", "done" or "error" (an exception ends the process)
          count, others,
          moved,        \* history: another process committed since the queue was last planned
          since         \* history: ref-naming commands read since the transaction began

vars == <<value, partial, deref, pending, explicit, prepared, noDeref, rejected, emitted,
          status, count, others, moved, since>>

Init ==
    /\ value \in InitialImages
    /\ partial \in Partials
    /\ deref \in Derefs
    /\ pending = <<>> /\ rejected = <<>> /\ emitted = <<>>
    /\ explicit = FALSE /\ prepared = FALSE /\ noDeref = FALSE
    /\ status = "open"
    /\ count = 0 /\ others = 0
    /\ moved = FALSE
    /\ since = 0

-----------------------------------------------------------------------------
(***************************************************************************)
(* Planning a queue: "ok", "reject" (a conflict with what the caller       *)
(* expected of the refs) or "fatal", decided by the first command at fault *)
(* and, when none is, by the projected symbolic refs.                      *)
(***************************************************************************)
\* The commands of the queue with one of these actions, in order.
Picked(queue, actions) ==
    LET kept[i \in 0..Len(queue)] ==
            IF i = 0 THEN <<>>
            ELSE IF queue[i].action \in actions THEN Append(kept[i - 1], queue[i])
            ELSE kept[i - 1]
    IN  kept[Len(queue)]

BatchOf(queue) == [verify |-> Picked(queue, {"verify", "symref-verify"}),
                   write  |-> Picked(queue, DirectActions \cup SymrefActions)]

\* What _rejection_reason has no category for: a broken chain, no-deref missing, a bad
\* object.  The expected old object ID is compared before the new one is looked at.
Fatal(img, u, p) ==
    IF u.action \in DirectActions \cup {"verify"} THEN Expects(u, Current(img, p))
    ELSE \/ u.deref /\ u.action \in {"symref-delete", "symref-verify"}
         \/ Broken(img, p)
         \/ u.action \in {"symref-create", "symref-update"} /\ u.new \notin Named

Verdict(img, queue, i) ==
    LET u == queue[i]
        p == Target(img, u)
        unread == u.deref /\ Broken(img, u.ref)
        repeated == \E j \in 1..(i - 1) : Target(img, queue[j]) = p
    IN IF unread THEN "fatal"
       ELSE IF repeated THEN "reject"
       ELSE IF Accepted(img, u) THEN "ok"
       ELSE IF Fatal(img, u, p) THEN "fatal"
       ELSE "reject"

Planned(img, queue) ==
    LET faults == {i \in DOMAIN queue : Verdict(img, queue, i) # "ok"}
    IN IF faults # {} THEN Verdict(img, queue, CHOOSE i \in faults : \A j \in faults : i <= j)
       ELSE IF ProjectsNoCycle(img, Plan(img, BatchOf(queue))) THEN "ok" ELSE "reject"

CanPublish(img, queue) == Planned(img, queue) = "ok" /\ HeadIsReadable(img, Plan(img, BatchOf(queue)))

-----------------------------------------------------------------------------
(***************************************************************************)
(* The command loop.  Read takes one more command from the stream; a       *)
(* refusal raises, which ends the process with the refs as they are.       *)
(***************************************************************************)
Read == status = "open" /\ count < MaxCommands /\ count' = count + 1

Raise ==
    /\ status' = "error"
    /\ UNCHANGED <<value, pending, explicit, prepared, noDeref, rejected, emitted, moved, since>>

Environment == UNCHANGED <<partial, deref, others>>

Option ==
    /\ Read
    /\ IF prepared THEN Raise
       ELSE /\ noDeref' = TRUE
            /\ UNCHANGED <<value, pending, explicit, prepared, rejected, emitted, status, moved, since>>
    /\ Environment

Start ==
    /\ Read
    /\ IF prepared \/ explicit THEN Raise
       ELSE /\ explicit' = TRUE
            /\ UNCHANGED <<value, pending, prepared, noDeref, rejected, emitted, status, moved, since>>
    /\ Environment

Prepare ==
    /\ Read
    /\ IF prepared \/ Planned(value, pending) # "ok" THEN Raise
       ELSE /\ prepared' = TRUE
            /\ explicit' = TRUE
            /\ moved' = FALSE
            /\ UNCHANGED <<value, pending, noDeref, rejected, emitted, status, since>>
    /\ Environment

Close ==
    /\ pending' = <<>>
    /\ rejected' = <<>>
    /\ explicit' = FALSE
    /\ prepared' = FALSE
    /\ noDeref' = FALSE
    /\ moved' = FALSE
    /\ since' = 0

\* Publishing what was prepared without planning it again (a faulty Publishable).
PublishableOncePrepared == prepared \/ CanPublish(value, pending)

Publishable == CanPublish(value, pending)

Publish == value' = Project(value, Plan(value, BatchOf(pending)))

Commit ==
    /\ Read
    /\ IF ~Publishable THEN Raise
       ELSE /\ Publish
            /\ emitted' = emitted \o rejected
            /\ Close
            /\ UNCHANGED status
    /\ Environment

\* Aborting without dropping the transaction's rejections (a faulty Abort).
AbortKeepingRejections ==
    /\ Read
    /\ pending' = <<>>
    /\ explicit' = FALSE /\ prepared' = FALSE /\ noDeref' = FALSE /\ moved' = FALSE
    /\ since' = 0
    /\ UNCHANGED <<value, rejected, emitted, status>>
    /\ Environment

Abort ==
    /\ Read
    /\ Close
    /\ UNCHANGED <<value, emitted, status>>
    /\ Environment

MayQueue == ~prepared

\* Planning the candidate without the commands queued before it (a faulty Candidate).
CandidateAlone(u) == <<u>>

Candidate(u) == Append(pending, u)

Queue(c) ==
    LET u == [c EXCEPT !.deref = deref /\ ~noDeref]
        verdict == IF partial THEN Planned(value, Candidate(u)) ELSE "ok"
    IN /\ Read
       /\ IF ~MayQueue \/ verdict = "fatal" THEN Raise
          ELSE /\ pending' = IF verdict = "ok" THEN Append(pending, u) ELSE pending
               /\ rejected' = IF verdict = "ok" THEN rejected ELSE Append(rejected, u)
               /\ noDeref' = FALSE
               /\ moved' = (moved /\ ~(partial /\ verdict = "ok"))
               /\ since' = since + 1
               /\ UNCHANGED <<value, explicit, prepared, emitted, status>>
       /\ Environment

\* The end of the stream commits an implicit transaction and drops an explicit one.
EndOfStream ==
    /\ status = "open"
    /\ IF explicit \/ prepared
       THEN /\ status' = "done"
            /\ Close
            /\ UNCHANGED <<value, emitted>>
       ELSE IF pending # <<>> /\ ~Publishable THEN Raise
       ELSE /\ IF pending # <<>> THEN Publish ELSE UNCHANGED value
            /\ emitted' = emitted \o rejected
            /\ status' = "done"
            /\ Close
    /\ UNCHANGED count
    /\ Environment

\* An OSError while publishing is rolled back (RollbackIsExact) and ends the process.
PublishFails ==
    /\ status = "open"
    /\ pending # <<>>
    /\ CanPublish(value, pending)
    /\ Raise
    /\ UNCHANGED count
    /\ Environment

OtherCommit(b) ==
    /\ status = "open"
    /\ others < MaxOthers
    /\ Accepts(value, b) /\ HeadIsReadable(value, Plan(value, b))
    /\ value' = Project(value, Plan(value, b))
    /\ others' = others + 1
    /\ moved' = TRUE
    /\ UNCHANGED <<partial, deref, pending, explicit, prepared, noDeref, rejected, emitted,
                   status, count, since>>

Next ==
    \/ Option
    \/ Start
    \/ Prepare
    \/ Commit
    \/ Abort
    \/ \E c \in Commands : Queue(c)
    \/ EndOfStream
    \/ PublishFails
    \/ \E b \in Others : OtherCommit(b)

Spec == Init /\ [][Next]_vars

-----------------------------------------------------------------------------
(***************************************************************************)
(* Properties.                                                             *)
(***************************************************************************)

\* Every variable has its type, and a prepared transaction is an explicit one: the end of
\* the stream drops it.
TypeOK ==
    /\ value \in Images
    /\ \A i \in DOMAIN pending : pending[i] \in Write \cup Verify
    /\ \A i \in DOMAIN rejected : rejected[i] \in Write \cup Verify
    /\ {partial, deref, explicit, prepared, noDeref, moved} \subseteq BOOLEAN
    /\ prepared => explicit
    /\ status \in {"open", "done", "error"}
    /\ count \in 0..MaxCommands
    /\ others \in 0..MaxOthers
    /\ since \in 0..MaxCommands

\* update_refs: "prepare preflights" the transaction; update_refs_batch: the survivors of
\* --batch-updates form one, whatever was rejected on the way. So either is refused at its commit
\* only when another process committed in between.
CheckedTransactionsCommit ==
    status = "open" /\ (prepared \/ partial) /\ ~moved => Planned(value, pending) = "ok"

\* update_refs_batch: "Rejections belong to their transaction": the queue and the
\* rejections together are the commands read since it began, so that a commit publishes
\* or reports each of them, and an abort leaves none for the next transaction.
TransactionOwnsItsCommands ==
    status = "open" => Len(pending) + Len(rejected) = since

Atomic == INSTANCE RefMap WITH Batches <- {}, SymrefEdits <- {}

\* "commit revalidates immediately before publication": the refs change only by a whole
\* transaction that RefMap accepts on the refs as they are at that moment.
CommitsAreRevalidated ==
    [][value' # value => \E b \in {BatchOf(pending)} \cup Others : Atomic!Commit(b)]_vars
=============================================================================

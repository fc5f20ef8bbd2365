-------------------------- MODULE RefCommandsProofs --------------------------
(***************************************************************************)
(* Two commands on refs, each a component of its own.                      *)
(*                                                                         *)
(* The command stream of update-ref --stdin, for streams of every length,  *)
(* any refs and any number of other processes.  And pack-refs, which is    *)
(* invisible to readers for every set of refs, selection, repository and   *)
(* fault, as long as no other process writes meanwhile.                    *)
(***************************************************************************)
EXTENDS UpdateRefSession, PackRefs, WellFoundedInduction, SequenceTheorems, TLAPS


-----------------------------------------------------------------------------
(***************************************************************************)
(* Induction over the numbers below a bound: what is defined by recursion  *)
(* over the positions of a sequence is reasoned about through its least    *)
(* counterexample.                                                         *)
(***************************************************************************)
\* The least number of a set of naturals.
LEMMA LeastOf == ASSUME NEW T \in SUBSET Nat, T # {} PROVE \E n \in T : \A m \in T : n <= m
<1> DEFINE R == OpToRel(<, Nat)
<1>1. IsWellFoundedOn(R, Nat)
  BY NatLessThanWellFounded
<1> HIDE DEF R
<1>2. \E x \in T : \A y \in T : ~(<<y, x>> \in R)
  BY <1>1, WFMin
<1>3. \A x, y \in Nat : <<y, x>> \in R <=> y < x
  BY DEF R, OpToRel
<1>4. PICK x \in T : \A y \in T : ~(<<y, x>> \in R)
  BY <1>2
<1>5. ASSUME NEW y \in T PROVE x <= y
  <2>1. x \in Nat /\ y \in Nat
    OBVIOUS
  <2>2. ~(y < x)
    BY <1>3, <1>4, <2>1
  <2> QED BY <2>1, <2>2
<1> QED BY <1>5

\* Induction over the numbers up to n: what holds of 0 and, with a number, of the next.
LEMMA UpTo ==
    ASSUME NEW n \in Nat, NEW T, 0 \in T, \A i \in 0..(n - 1) : i \in T => i + 1 \in T
    PROVE  \A i \in 0..n : i \in T
<1> DEFINE W == {i \in 0..n : i \notin T}
<1>1. SUFFICES ASSUME W # {} PROVE FALSE
  OBVIOUS
<1>0. W \in SUBSET Nat
  OBVIOUS
<1>2. PICK i \in W : \A j \in W : i <= j
  <2> HIDE DEF W
  <2> QED BY <1>0, <1>1, LeastOf
<1>3. i # 0 /\ i - 1 \in 0..(n-1) /\ i - 1 \notin W
  BY <1>2
<1> QED BY <1>3

-----------------------------------------------------------------------------
\* An empty queue has nothing to pick.
LEMMA NothingPicked == ASSUME NEW actions PROVE Picked(<<>>, actions) = <<>>
<1> DEFINE Def(kept) ==
        kept = [i \in 0..Len(<<>>) |->
                   IF i = 0 THEN <<>>
                   ELSE IF <<>>[i].action \in actions THEN Append(kept[i - 1], <<>>[i])
                   ELSE kept[i - 1]]
<1>1. Len(<<>>) = 0 /\ 0..0 = {0}
  OBVIOUS
<1>2. Def([i \in {0} |-> <<>>])
  BY <1>1
<1>3. \A kept : Def(kept) => kept[0] = <<>>
  BY <1>1
<1>4. Def(CHOOSE kept : Def(kept))
  BY <1>2
<1> HIDE DEF Def
<1>5. (CHOOSE kept : Def(kept))[0] = <<>>
  BY <1>3, <1>4
<1> QED BY <1>1, <1>5 DEF Picked, Def

\* A transaction with no commands plans on any refs.
LEMMA EmptyQueueIsPlanned == ASSUME NEW img PROVE Planned(img, <<>>) = "ok"
<1>1. DOMAIN <<>> = {}
  OBVIOUS
<1>2. Plan(img, BatchOf(<<>>)) = [i \in {} |-> ChangeOf(img, BatchOf(<<>>).write[i])]
  BY <1>1, NothingPicked DEF Plan, BatchOf
<1>3. ProjectsNoCycle(img, Plan(img, BatchOf(<<>>)))
  BY <1>2 DEF ProjectsNoCycle
<1> QED BY <1>1, <1>3 DEF Planned

-----------------------------------------------------------------------------
(***************************************************************************)
(* The queue and the rejections are sequences of commands; with that, the  *)
(* two properties are inductive together.                                  *)
(***************************************************************************)
Queues ==
    /\ pending \in Seq(Write \cup Verify)
    /\ rejected \in Seq(Write \cup Verify)
    /\ since \in Nat /\ moved \in BOOLEAN

SessionInv == Queues /\ TransactionOwnsItsCommands /\ CheckedTransactionsCommit

\* A transaction that is closed has no commands, so it owns them all and would plan.
LEMMA ClosedTransaction == ASSUME Close PROVE SessionInv'
<1>1. pending' = <<>> /\ rejected' = <<>> /\ since' = 0 /\ moved' = FALSE
  BY DEF Close
<1>2. Planned(value', <<>>) = "ok"
  BY EmptyQueueIsPlanned
<1>3. Len(<<>>) + Len(<<>>) = 0 /\ <<>> \in Seq(Write \cup Verify)
  OBVIOUS
<1>4. Queues'
  BY <1>1, <1>3 DEF Queues
<1>5. TransactionOwnsItsCommands'
  BY <1>1, <1>3 DEF TransactionOwnsItsCommands
<1>6. CheckedTransactionsCommit'
  BY <1>1, <1>2 DEF CheckedTransactionsCommit
<1> QED BY <1>4, <1>5, <1>6 DEF SessionInv

\* An exception ends the process: what is left of the transaction no longer counts.
LEMMA RaisedTransaction == ASSUME SessionInv, Raise PROVE SessionInv'
BY DEF SessionInv, Raise, Queues, TransactionOwnsItsCommands, CheckedTransactionsCommit

LEMMA NextSessionInv == SessionInv /\ [Next]_vars => SessionInv'
<1> SUFFICES ASSUME SessionInv, [Next]_vars PROVE SessionInv'
  OBVIOUS
<1>0. Queues /\ TransactionOwnsItsCommands /\ CheckedTransactionsCommit
  BY DEF SessionInv
<1>1. CASE Option
  <2>1. CASE ~prepared
    <3>1. UNCHANGED <<value, pending, prepared, rejected, status, moved, since, partial>>
      BY <1>1, <2>1 DEF Option, Environment
    <3> QED
      BY <1>0, <3>1 DEF SessionInv, Queues, TransactionOwnsItsCommands, CheckedTransactionsCommit
  <2> QED BY <1>1, <2>1, RaisedTransaction DEF Option
<1>2. CASE Start
  <2>1. CASE ~prepared /\ ~explicit
    <3>1. UNCHANGED <<value, pending, prepared, rejected, status, moved, since, partial>>
      BY <1>2, <2>1 DEF Start, Environment
    <3> QED
      BY <1>0, <3>1 DEF SessionInv, Queues, TransactionOwnsItsCommands, CheckedTransactionsCommit
  <2> QED BY <1>2, <2>1, RaisedTransaction DEF Start
<1>3. CASE Prepare
  <2>1. CASE ~prepared /\ Planned(value, pending) = "ok"
    <3>1. moved' = FALSE /\ UNCHANGED <<value, pending, rejected, status, since>>
      BY <1>3, <2>1 DEF Prepare
    <3>2. Planned(value', pending') = "ok"
      BY <2>1, <3>1
    <3> QED
      BY <1>0, <3>1, <3>2 DEF SessionInv, Queues, TransactionOwnsItsCommands, CheckedTransactionsCommit
  <2> QED BY <1>3, <2>1, RaisedTransaction DEF Prepare
<1>4. CASE Commit
  BY <1>4, RaisedTransaction, ClosedTransaction DEF Commit
<1>5. CASE Abort
  BY <1>5, ClosedTransaction DEF Abort
<1>6. ASSUME NEW c \in Commands, Queue(c) PROVE SessionInv'
  <2> DEFINE u == [c EXCEPT !.deref = deref /\ ~noDeref]
             verdict == IF partial THEN Planned(value, Candidate(u)) ELSE "ok"
  <2>1. u \in Write \cup Verify
    BY CommandsAreTyped DEF Write, Verify
  <2>2. CASE MayQueue /\ verdict = "ok"
    <3>1. /\ pending' = Append(pending, u) /\ since' = since + 1 /\ moved' \in BOOLEAN
          /\ UNCHANGED <<value, rejected, prepared, status, partial>>
      BY <1>6, <2>2 DEF Queue, Environment
    <3>2. Len(pending') = Len(pending) + 1 /\ pending' \in Seq(Write \cup Verify)
      BY <1>0, <2>1, <3>1 DEF Queues
    <3>3. Queues' /\ TransactionOwnsItsCommands'
      <4>1. Queues'
        BY <1>0, <3>1, <3>2 DEF Queues
      <4>2. Len(pending) \in Nat /\ Len(rejected) \in Nat
        BY <1>0 DEF Queues
      <4>3. /\ Len(pending') + Len(rejected') = Len(pending) + Len(rejected) + 1
            /\ status' = status /\ since' = since + 1
        BY <3>1, <3>2, <4>2
      <4>4. TransactionOwnsItsCommands'
        BY <1>0, <4>3 DEF TransactionOwnsItsCommands
      <4> QED BY <4>1, <4>4
    <3>4. CheckedTransactionsCommit'
      <4> SUFFICES ASSUME partial' \/ prepared' PROVE Planned(value', pending') = "ok"
        BY DEF CheckedTransactionsCommit
      <4>1. partial
        BY <2>2, <3>1 DEF MayQueue
      <4>2. Planned(value, Append(pending, u)) = "ok"
        BY <2>2, <4>1 DEF Candidate
      <4> QED BY <3>1, <4>2
    <3> QED BY <3>3, <3>4 DEF SessionInv
  <2>3. CASE MayQueue /\ verdict \notin {"ok", "fatal"}
    <3>1. /\ rejected' = Append(rejected, u) /\ since' = since + 1 /\ moved' = moved
          /\ UNCHANGED <<value, pending, prepared, status, partial>>
      BY <1>0, <1>6, <2>3 DEF Queue, Environment, Queues
    <3>2. Len(rejected') = Len(rejected) + 1 /\ rejected' \in Seq(Write \cup Verify)
      BY <1>0, <2>1, <3>1 DEF Queues
    <3>3. Queues' /\ TransactionOwnsItsCommands'
      <4>1. Queues'
        BY <1>0, <3>1, <3>2 DEF Queues
      <4>2. Len(pending) \in Nat /\ Len(rejected) \in Nat
        BY <1>0 DEF Queues
      <4>3. /\ Len(pending') + Len(rejected') = Len(pending) + Len(rejected) + 1
            /\ status' = status /\ since' = since + 1
        BY <3>1, <3>2, <4>2
      <4>4. TransactionOwnsItsCommands'
        BY <1>0, <4>3 DEF TransactionOwnsItsCommands
      <4> QED BY <4>1, <4>4
    <3>4. CheckedTransactionsCommit'
      BY <1>0, <3>1 DEF CheckedTransactionsCommit
    <3> QED BY <3>3, <3>4 DEF SessionInv
  <2>4. CASE ~MayQueue \/ verdict = "fatal"
    BY <1>6, <2>4, RaisedTransaction DEF Queue
  <2> QED BY <2>2, <2>3, <2>4
<1>7. CASE EndOfStream
  BY <1>7, RaisedTransaction, ClosedTransaction DEF EndOfStream
<1>8. CASE PublishFails
  BY <1>8, RaisedTransaction DEF PublishFails
<1>9. ASSUME NEW b \in Others, OtherCommit(b) PROVE SessionInv'
  BY <1>0, <1>9 DEF OtherCommit, SessionInv, Queues, TransactionOwnsItsCommands, CheckedTransactionsCommit
<1>10. CASE UNCHANGED vars
  BY <1>0, <1>10 DEF vars, SessionInv, Queues, TransactionOwnsItsCommands, CheckedTransactionsCommit
<1> QED BY <1>1, <1>2, <1>3, <1>4, <1>5, <1>6, <1>7, <1>8, <1>9, <1>10 DEF Next

LEMMA SessionInvariant == Spec => []SessionInv
<1>1. Init => SessionInv
  <2> SUFFICES ASSUME Init PROVE SessionInv
    OBVIOUS
  <2>1. pending = <<>> /\ rejected = <<>> /\ since = 0 /\ moved = FALSE
    BY DEF Init
  <2>2. Planned(value, pending) = "ok"
    BY <2>1, EmptyQueueIsPlanned
  <2>3. Len(<<>>) + Len(<<>>) = 0 /\ <<>> \in Seq(Write \cup Verify)
    OBVIOUS
  <2>4. Queues
    BY <2>1, <2>3 DEF Queues
  <2>5. TransactionOwnsItsCommands
    BY <2>1, <2>3 DEF TransactionOwnsItsCommands
  <2>6. CheckedTransactionsCommit
    BY <2>2 DEF CheckedTransactionsCommit
  <2> QED BY <2>4, <2>5, <2>6 DEF SessionInv
<1> QED BY <1>1, NextSessionInv, PTL DEF Spec

\* update_refs and update_refs_batch: however a stream mixes commands, options, start, prepare and
\* abort, a transaction that was prepared, or whose commands were checked as they came, is refused
\* at its commit only when another process committed in between.
THEOREM CheckedCommit == Spec => []CheckedTransactionsCommit
<1>1. SessionInv => CheckedTransactionsCommit
  BY DEF SessionInv
<1> QED BY <1>1, SessionInvariant, PTL

\* update_refs_batch: every command read since a transaction began is queued in it or rejected in
\* it, and none of an earlier one is.
THEOREM TransactionOwns == Spec => []TransactionOwnsItsCommands
<1>1. SessionInv => TransactionOwnsItsCommands
  BY DEF SessionInv
<1> QED BY <1>1, SessionInvariant, PTL

-----------------------------------------------------------------------------
(***************************************************************************)
(* A queue that plans is a batch that RefMap accepts: BatchOf only sorts   *)
(* its commands into those that verify and those that write.               *)
(***************************************************************************)
\* s holds commands of the queue with one of these actions, each from a place of its own
\* among the first n.
Picks(queue, actions, n, s, at) ==
    /\ s \in Seq(Write \cup Verify)
    /\ at \in [1..Len(s) -> 1..n]
    /\ \A i \in 1..Len(s) : s[i] = queue[at[i]] /\ s[i].action \in actions
    /\ \A i, j \in 1..Len(s) : at[i] = at[j] => i = j

\* The function that Picked reads is defined at every place up to the end of the queue.
Keeps(queue, actions, kept) ==
    kept = [i \in 0..Len(queue) |->
               IF i = 0 THEN <<>>
               ELSE IF queue[i].action \in actions THEN Append(kept[i - 1], queue[i])
               ELSE kept[i - 1]]

\* The first n steps of it.
KeepsUpTo(queue, actions, n, kept) ==
    /\ kept \in [0..n -> Seq(Write \cup Verify)]
    /\ kept[0] = <<>>
    /\ \A i \in 1..n : kept[i] = IF queue[i].action \in actions THEN Append(kept[i - 1], queue[i])
                                 ELSE kept[i - 1]

LEMMA KeptExists ==
    ASSUME NEW queue \in Seq(Write \cup Verify), NEW actions
    PROVE  \E kept : KeepsUpTo(queue, actions, Len(queue), kept)
<1> DEFINE N == Len(queue)
           S == Write \cup Verify
           T == {n \in 0..N : \E k : KeepsUpTo(queue, actions, n, k)}
<1>1. N \in Nat /\ \A i \in 1..N : queue[i] \in S
  OBVIOUS
<1> HIDE DEF S
<1>2. 0 \in T
  <2> DEFINE k == [i \in 0..0 |-> <<>>]
  <2>1. k \in [0..0 -> Seq(S)] /\ k[0] = <<>> /\ 1..0 = {}
    OBVIOUS
  <2> HIDE DEF k
  <2>2. KeepsUpTo(queue, actions, 0, k)
    BY <2>1 DEF KeepsUpTo, S
  <2> QED BY <2>2, <1>1
<1>3. ASSUME NEW n \in 0..(N - 1), n \in T PROVE n + 1 \in T
  <2>1. PICK k : KeepsUpTo(queue, actions, n, k)
    BY <1>3
  <2> DEFINE e == IF queue[n + 1].action \in actions THEN Append(k[n], queue[n + 1]) ELSE k[n]
             g == [i \in 0..(n + 1) |-> IF i = n + 1 THEN e ELSE k[i]]
  <2>2. k \in [0..n -> Seq(S)] /\ k[0] = <<>>
    BY <2>1 DEF KeepsUpTo, S
  <2>3. e \in Seq(S)
    <3>1. k[n] \in Seq(S) /\ queue[n + 1] \in S
      BY <2>2, <1>1
    <3> QED BY <3>1
  <2>4. g \in [0..(n + 1) -> Seq(S)] /\ g[0] = <<>>
    <3> HIDE DEF e
    <3> QED BY <2>2, <2>3, <1>1
  <2>5. ASSUME NEW i \in 1..(n + 1)
        PROVE  g[i] = IF queue[i].action \in actions THEN Append(g[i - 1], queue[i]) ELSE g[i - 1]
    <3>1. CASE i = n + 1
      <4>1. g[i] = e /\ g[i - 1] = k[n]
        BY <3>1, <1>1
      <4> HIDE DEF g
      <4> QED BY <3>1, <4>1
    <3>2. CASE i # n + 1
      <4>1. g[i] = k[i] /\ g[i - 1] = k[i - 1] /\ i \in 1..n
        BY <3>2, <1>1
      <4> HIDE DEF g
      <4> QED BY <4>1, <2>1 DEF KeepsUpTo
    <3> QED BY <3>1, <3>2
  <2>6. KeepsUpTo(queue, actions, n + 1, g)
    <3> HIDE DEF g
    <3> QED BY <2>4, <2>5 DEF KeepsUpTo, S
  <2> QED BY <2>6, <1>1
<1>4. \A n \in 0..N : n \in T
  <2> HIDE DEF T, N
  <2> QED BY <1>1, <1>2, <1>3, UpTo
<1> QED BY <1>1, <1>4

\* The commands picked are the queue's, each taken once.
LEMMA PickedPicks ==
    ASSUME NEW queue \in Seq(Write \cup Verify), NEW actions
    PROVE  \E at : Picks(queue, actions, Len(queue), Picked(queue, actions), at)
<1> DEFINE N == Len(queue)
           S == Write \cup Verify
           kept == CHOOSE k : Keeps(queue, actions, k)
<1>1. N \in Nat /\ \A i \in 1..N : queue[i] \in S
  OBVIOUS
<1> HIDE DEF S
<1>2. Keeps(queue, actions, kept)
  <2>1. PICK k : KeepsUpTo(queue, actions, N, k)
    BY KeptExists
  <2>2. k = [i \in 0..N |-> k[i]] /\ k[0] = <<>>
    BY <2>1 DEF KeepsUpTo
  <2>3. \A i \in 0..N : i # 0 => i \in 1..N
    BY <1>1
  <2>4. \A i \in 0..N : k[i] = IF i = 0 THEN <<>>
                               ELSE IF queue[i].action \in actions THEN Append(k[i - 1], queue[i])
                               ELSE k[i - 1]
    BY <2>1, <2>2, <2>3 DEF KeepsUpTo
  <2>5. Keeps(queue, actions, k)
    BY <2>2, <2>4 DEF Keeps
  <2> QED BY <2>5
<1>3. Picked(queue, actions) = kept[N]
  BY DEF Picked, Keeps
<1> HIDE DEF kept
<1>4. kept[0] = <<>>
  BY <1>1, <1>2 DEF Keeps
<1>5. ASSUME NEW i \in 1..N
      PROVE  kept[i] = IF queue[i].action \in actions THEN Append(kept[i - 1], queue[i]) ELSE kept[i - 1]
  <2>1. i \in 0..N /\ i # 0
    BY <1>1
  <2>2. kept[i] = IF i = 0 THEN <<>>
                  ELSE IF queue[i].action \in actions THEN Append(kept[i - 1], queue[i])
                  ELSE kept[i - 1]
    <3> HIDE DEF N
    <3> DEFINE F(j) == IF j = 0 THEN <<>>
                       ELSE IF queue[j].action \in actions THEN Append(kept[j - 1], queue[j])
                       ELSE kept[j - 1]
    <3>1. kept = [j \in 0..N |-> F(j)]
      BY <1>2 DEF Keeps, N
    <3> HIDE DEF F
    <3>2. kept[i] = F(i)
      BY <2>1, <3>1
    <3> QED BY <3>2 DEF F
  <2> QED BY <2>1, <2>2
<1> DEFINE T == {n \in 0..N : \E at : Picks(queue, actions, n, kept[n], at)}
<1>6. 0 \in T
  <2> DEFINE at == [i \in {} |-> 0]
  <2>1. Len(<<>>) = 0 /\ 1..0 = {} /\ <<>> \in Seq(S)
    OBVIOUS
  <2>2. at \in [1..0 -> 1..0]
    BY <2>1
  <2> HIDE DEF at
  <2>3. Picks(queue, actions, 0, <<>>, at)
    BY <2>1, <2>2 DEF Picks, S
  <2> QED BY <1>1, <1>4, <2>3
<1>7. ASSUME NEW n \in 0..(N - 1), n \in T PROVE n + 1 \in T
  <2> DEFINE s == kept[n]
  <2>1. PICK at : Picks(queue, actions, n, s, at)
    BY <1>7
  <2> HIDE DEF s
  <2>2. s \in Seq(S) /\ at \in [1..Len(s) -> 1..n] /\ Len(s) \in Nat
    BY <2>1 DEF Picks, S
  <2>3. n + 1 \in 1..N /\ queue[n + 1] \in S
    BY <1>1
  <2>4. CASE queue[n + 1].action \in actions
    <3> DEFINE t == Append(s, queue[n + 1])
               bt == [i \in 1..(Len(s) + 1) |-> IF i = Len(s) + 1 THEN n + 1 ELSE at[i]]
    <3>0. (n + 1) - 1 = n
      OBVIOUS
    <3>1. kept[n + 1] = t
      BY <1>5, <2>3, <2>4, <3>0 DEF s
    <3>2. /\ t \in Seq(S) /\ Len(t) = Len(s) + 1
          /\ t[Len(s) + 1] = queue[n + 1] /\ \A i \in 1..Len(s) : t[i] = s[i]
      BY <2>2, <2>3
    <3>3. bt \in [1..(Len(s) + 1) -> 1..(n + 1)]
      BY <2>2
    <3>4. bt[Len(s) + 1] = n + 1 /\ \A i \in 1..Len(s) : bt[i] = at[i] /\ at[i] \in 1..n
      BY <2>2
    <3> HIDE DEF t, bt
    <3>5. ASSUME NEW i \in 1..Len(t) PROVE t[i] = queue[bt[i]] /\ t[i].action \in actions
      <4>1. CASE i = Len(s) + 1
        BY <4>1, <3>2, <3>4, <2>4
      <4>2. CASE i # Len(s) + 1
        <5>1. i \in 1..Len(s)
          BY <4>2, <3>2, <2>2
        <5> QED BY <5>1, <3>2, <3>4, <2>1 DEF Picks
      <4> QED BY <4>1, <4>2
    <3>6. ASSUME NEW i \in 1..Len(t), NEW j \in 1..Len(t), bt[i] = bt[j] PROVE i = j
      <4>1. (i = Len(s) + 1 \/ i \in 1..Len(s)) /\ (j = Len(s) + 1 \/ j \in 1..Len(s))
        BY <3>2, <2>2
      <4>2. \A k \in 1..Len(s) : bt[k] # n + 1
        BY <3>4
      <4>3. \A k, l \in 1..Len(s) : at[k] = at[l] => k = l
        BY <2>1 DEF Picks
      <4> QED BY <4>1, <4>2, <4>3, <3>4, <3>6
    <3>7. Picks(queue, actions, n + 1, t, bt)
      BY <3>2, <3>3, <3>5, <3>6 DEF Picks, S
    <3> QED BY <3>1, <3>7, <1>1
  <2>5. CASE queue[n + 1].action \notin actions
    <3>0. (n + 1) - 1 = n
      OBVIOUS
    <3>1. kept[n + 1] = s
      BY <1>5, <2>3, <2>5, <3>0 DEF s
    <3>2. at \in [1..Len(s) -> 1..(n + 1)]
      BY <2>2
    <3>3. Picks(queue, actions, n + 1, s, at)
      BY <2>1, <3>2 DEF Picks
    <3> QED BY <3>1, <3>3, <1>1
  <2> QED BY <2>4, <2>5
<1>8. \A n \in 0..N : n \in T
  <2> HIDE DEF T, N
  <2> QED BY <1>1, <1>6, <1>7, UpTo
<1>9. N \in T
  BY <1>1, <1>8
<1> QED BY <1>3, <1>9

\* _plan_updates stops at the first command at fault, so a queue that plans has none.
LEMMA PlannedHasNoFault ==
    ASSUME NEW img, NEW queue \in Seq(Write \cup Verify), Planned(img, queue) = "ok"
    PROVE  /\ \A i \in 1..Len(queue) : Verdict(img, queue, i) = "ok"
           /\ ProjectsNoCycle(img, Plan(img, BatchOf(queue)))
<1> DEFINE faults == {i \in DOMAIN queue : Verdict(img, queue, i) # "ok"}
           first == CHOOSE i \in faults : \A j \in faults : i <= j
<1>1. DOMAIN queue = 1..Len(queue) /\ Len(queue) \in Nat
  OBVIOUS
<1>2. Planned(img, queue) =
          IF faults # {} THEN Verdict(img, queue, first)
          ELSE IF ProjectsNoCycle(img, Plan(img, BatchOf(queue))) THEN "ok" ELSE "reject"
  BY DEF Planned
<1>3. faults = {}
  <2> SUFFICES ASSUME faults # {} PROVE FALSE
    OBVIOUS
  <2>1. faults \in SUBSET Nat
    BY <1>1
  <2>2. \E i \in faults : \A j \in faults : i <= j
    <3> HIDE DEF faults
    <3> QED BY <2>1, LeastOf
  <2>3. first \in faults
    <3> HIDE DEF faults
    <3> QED BY <2>2
  <2>4. Verdict(img, queue, first) # "ok"
    <3> HIDE DEF first
    <3> QED BY <2>3
  <2> HIDE DEF faults, first
  <2> QED BY <1>2, <2>4
<1>4. \A i \in 1..Len(queue) : Verdict(img, queue, i) = "ok"
  BY <1>1, <1>3
<1> HIDE DEF faults, first
<1> QED BY <1>2, <1>3, <1>4

\* Such a queue is a batch that is accepted whole.
LEMMA PlannedIsAccepted ==
    ASSUME NEW img, NEW queue \in Seq(Write \cup Verify), Planned(img, queue) = "ok"
    PROVE  Accepts(img, BatchOf(queue))
<1> DEFINE N == Len(queue)
           v == Picked(queue, {"verify", "symref-verify"})
           w == Picked(queue, DirectActions \cup SymrefActions)
           all == v \o w
           S == Write \cup Verify
<1>0. N \in Nat
  OBVIOUS
<1>1. PICK a : Picks(queue, {"verify", "symref-verify"}, N, v, a)
  BY PickedPicks
<1>2. PICK c : Picks(queue, DirectActions \cup SymrefActions, N, w, c)
  BY PickedPicks
<1>3. AllCommands(BatchOf(queue)) = all
  BY DEF AllCommands, BatchOf
<1> HIDE DEF v, w
<1>4. v \in Seq(S) /\ w \in Seq(S) /\ Len(v) \in Nat /\ Len(w) \in Nat
  BY <1>1, <1>2 DEF Picks
<1> HIDE DEF S
<1>5. /\ Len(all) = Len(v) + Len(w) /\ DOMAIN all = 1..Len(all)
      /\ \A i \in 1..Len(all) : all[i] = IF i <= Len(v) THEN v[i] ELSE w[i - Len(v)]
  BY <1>4
<1> HIDE DEF all
<1> DEFINE at == [i \in 1..Len(all) |-> IF i <= Len(v) THEN a[i] ELSE c[i - Len(v)]]
<1>6. ASSUME NEW i \in 1..Len(all) PROVE at[i] \in 1..N /\ all[i] = queue[at[i]]
  <2>1. CASE i <= Len(v)
    <3>1. i \in 1..Len(v) /\ at[i] = a[i] /\ all[i] = v[i]
      BY <1>4, <1>5, <2>1
    <3> HIDE DEF at
    <3> QED BY <3>1, <1>1 DEF Picks
  <2>2. CASE ~(i <= Len(v))
    <3>1. i - Len(v) \in 1..Len(w) /\ at[i] = c[i - Len(v)] /\ all[i] = w[i - Len(v)]
      BY <1>4, <1>5, <2>2
    <3> HIDE DEF at
    <3> QED BY <3>1, <1>2 DEF Picks
  <2> QED BY <2>1, <2>2
<1>7. ASSUME NEW i \in 1..Len(all), NEW j \in 1..Len(all), at[i] = at[j] PROVE i = j
  <2>0. all[i] = all[j]
    BY <1>6, <1>7
  <2>1. ASSUME NEW k \in 1..Len(all), k <= Len(v)
        PROVE  k \in 1..Len(v) /\ at[k] = a[k] /\ all[k].action \in {"verify", "symref-verify"}
    <3>1. k \in 1..Len(v) /\ at[k] = a[k] /\ all[k] = v[k]
      BY <1>4, <1>5, <2>1
    <3> HIDE DEF at
    <3> QED BY <3>1, <1>1 DEF Picks
  <2>2. ASSUME NEW k \in 1..Len(all), ~(k <= Len(v))
        PROVE  /\ k - Len(v) \in 1..Len(w) /\ at[k] = c[k - Len(v)]
               /\ all[k].action \notin {"verify", "symref-verify"}
    <3>1. k - Len(v) \in 1..Len(w) /\ at[k] = c[k - Len(v)] /\ all[k] = w[k - Len(v)]
      BY <1>4, <1>5, <2>2
    <3> HIDE DEF at
    <3>2. all[k].action \in DirectActions \cup SymrefActions
      BY <3>1, <1>2 DEF Picks
    <3> QED BY <3>1, <3>2 DEF DirectActions, SymrefActions
  <2>3. \A k, l \in 1..Len(v) : a[k] = a[l] => k = l
    BY <1>1 DEF Picks
  <2>4. \A k, l \in 1..Len(w) : c[k] = c[l] => k = l
    BY <1>2 DEF Picks
  <2> HIDE DEF at
  <2>5. CASE i <= Len(v)
    <3>1. j <= Len(v)
      BY <2>0, <2>1, <2>2, <2>5
    <3> QED BY <2>1, <2>3, <2>5, <3>1, <1>7
  <2>6. CASE ~(i <= Len(v))
    <3>1. ~(j <= Len(v))
      BY <2>0, <2>1, <2>2, <2>6
    <3>2. i - Len(v) = j - Len(v)
      BY <2>2, <2>4, <2>6, <3>1, <1>7
    <3> QED BY <3>2, <1>4, <1>5
  <2> QED BY <2>5, <2>6
<1> HIDE DEF at
<1>8. ASSUME NEW i \in 1..N
      PROVE  /\ Accepted(img, queue[i])
             /\ \A j \in 1..(i - 1) : Target(img, queue[j]) # Target(img, queue[i])
  <2>1. Verdict(img, queue, i) = "ok"
    BY PlannedHasNoFault
  <2> QED BY <2>1 DEF Verdict
<1>9. ASSUME NEW i \in 1..N, NEW j \in 1..N, Target(img, queue[i]) = Target(img, queue[j])
      PROVE  i = j
  <2>1. CASE i < j
    BY <1>0, <1>8, <1>9, <2>1
  <2>2. CASE j < i
    BY <1>0, <1>8, <1>9, <2>2
  <2> QED BY <1>0, <2>1, <2>2
<1>10. \A i \in DOMAIN all : Accepted(img, all[i])
  BY <1>5, <1>6, <1>8
<1>11. \A i, j \in DOMAIN all : Target(img, all[i]) = Target(img, all[j]) => i = j
  <2> SUFFICES ASSUME NEW i \in DOMAIN all, NEW j \in DOMAIN all,
                      Target(img, all[i]) = Target(img, all[j])
               PROVE  i = j
    OBVIOUS
  <2>1. at[i] = at[j]
    BY <1>5, <1>6, <1>9
  <2> QED BY <1>5, <1>7, <2>1
<1>12. ProjectsNoCycle(img, Plan(img, BatchOf(queue)))
  BY PlannedHasNoFault
<1> QED BY <1>3, <1>10, <1>11, <1>12 DEF Accepts

-----------------------------------------------------------------------------
(***************************************************************************)
(* RefMap plans with the operators of RefPlan, instantiated once more.     *)
(***************************************************************************)
LEMMA AtomicHop ==
    ASSUME NEW img, NEW r
    PROVE  Atomic!IsSymbolic(img, r) = IsSymbolic(img, r) /\ Atomic!Hop(img, r) = Hop(img, r)
BY DEF Atomic!IsSymbolic, IsSymbolic, Atomic!Hop, Hop, Atomic!Named, Named

LEMMA AtomicPhysical ==
    ASSUME NEW img, NEW r
    PROVE  Atomic!Physical(img, r) = Physical(img, r)
<1>1. \A s : Atomic!Hop2(img, s) = Hop2(img, s)
  BY AtomicHop DEF Atomic!Hop2, Hop2
<1>2. \A s : Atomic!Hop4(img, s) = Hop4(img, s)
  BY AtomicHop, <1>1 DEF Atomic!Hop4, Hop4
<1>3. \A s : Atomic!Hop8(img, s) = Hop8(img, s)
  BY AtomicHop, <1>2 DEF Atomic!Hop8, Hop8
<1>4. \A s : Atomic!Hop16(img, s) = Hop16(img, s)
  BY AtomicHop, <1>3 DEF Atomic!Hop16, Hop16
<1> QED BY AtomicHop, <1>1, <1>2, <1>3, <1>4 DEF Atomic!Physical, Physical

LEMMA AtomicReading ==
    ASSUME NEW img, NEW r
    PROVE  Atomic!Broken(img, r) = Broken(img, r) /\ Atomic!Resolved(img, r) = Resolved(img, r)
BY AtomicHop, AtomicPhysical DEF Atomic!Broken, Broken, Atomic!Resolved, Resolved

LEMMA AtomicPlan ==
    ASSUME NEW img, NEW b
    PROVE  Atomic!Plan(img, b) = Plan(img, b)
<1>1. ASSUME NEW u PROVE Atomic!ChangeOf(img, u) = ChangeOf(img, u)
  <2>1. Atomic!Target(img, u) = Target(img, u)
    BY AtomicPhysical DEF Atomic!Target, Target
  <2>2. \A p : Atomic!Current(img, p) = Current(img, p)
    BY AtomicHop DEF Atomic!Current, Current
  <2> QED BY <2>1, <2>2, AtomicReading
          DEF Atomic!ChangeOf, ChangeOf, Atomic!SymrefActions, SymrefActions
<1> QED BY <1>1 DEF Atomic!Plan, Plan

LEMMA AtomicProjection ==
    ASSUME NEW img, NEW p
    PROVE  /\ Atomic!Project(img, p) = Project(img, p)
           /\ Atomic!HeadIsReadable(img, p) = HeadIsReadable(img, p)
<1>1. Atomic!Project(img, p) = Project(img, p)
  BY DEF Atomic!Project, Project, Atomic!Touches, Touches, Atomic!ChangeFor, ChangeFor,
         Atomic!Refs, Refs, Atomic!Named, Named
<1> QED BY <1>1 DEF Atomic!HeadIsReadable, HeadIsReadable

LEMMA AtomicAccepted ==
    ASSUME NEW img, NEW u
    PROVE  Atomic!Accepted(img, u) <=> Accepted(img, u)
<1>1. Atomic!Target(img, u) = Target(img, u)
  BY AtomicPhysical DEF Atomic!Target, Target
<1>2. \A p : Atomic!DirectAccepted(img, u, p) <=> DirectAccepted(img, u, p)
  BY AtomicHop DEF Atomic!DirectAccepted, DirectAccepted, Atomic!Expects, Expects,
                 Atomic!Current, Current, Atomic!BranchLike, BranchLike
<1>3. \A p : Atomic!SymrefAccepted(img, u, p) <=> SymrefAccepted(img, u, p)
  BY AtomicHop, AtomicReading DEF Atomic!SymrefAccepted, SymrefAccepted, Atomic!Expects, Expects,
                 Atomic!Named, Named
<1> QED BY <1>1, <1>2, <1>3, AtomicReading
        DEF Atomic!Accepted, Accepted, Atomic!DirectActions, DirectActions

LEMMA AtomicAccepts ==
    ASSUME NEW img, NEW b
    PROVE  Atomic!Accepts(img, b) <=> Accepts(img, b)
<1>1. Atomic!AllCommands(b) = AllCommands(b)
  BY DEF Atomic!AllCommands, AllCommands
<1>2. \A u : Atomic!Target(img, u) = Target(img, u)
  BY AtomicPhysical DEF Atomic!Target, Target
<1>3. \A p : Atomic!ProjectsNoCycle(img, p) <=> ProjectsNoCycle(img, p)
  <2> TAKE p
  <2>1. Atomic!Project(img, p) = Project(img, p)
    BY AtomicProjection
  <2>2. \A r : Atomic!Broken(Project(img, p), r) = Broken(Project(img, p), r)
    BY AtomicReading
  <2> QED BY <2>1, <2>2 DEF Atomic!ProjectsNoCycle, ProjectsNoCycle
<1> QED BY <1>1, <1>2, <1>3, AtomicAccepted, AtomicPlan DEF Atomic!Accepts, Accepts

\* A batch accepted on the refs as they are, with HEAD readable, commits in RefMap.
LEMMA AcceptedCommits ==
    ASSUME NEW b, Accepts(value, b), HeadIsReadable(value, Plan(value, b)),
           value' = Project(value, Plan(value, b))
    PROVE  Atomic!Commit(b)
<1>1. Atomic!Accepts(value, b) /\ Atomic!Plan(value, b) = Plan(value, b)
  BY AtomicAccepts, AtomicPlan
<1>2. /\ Atomic!Project(value, Plan(value, b)) = Project(value, Plan(value, b))
      /\ Atomic!HeadIsReadable(value, Plan(value, b)) = HeadIsReadable(value, Plan(value, b))
  BY AtomicProjection
<1> QED BY <1>1, <1>2 DEF Atomic!Commit

\* update_refs: "commit revalidates immediately before publication".  However a stream was
\* prepared, and whatever others committed meanwhile, the refs change only by the whole queue, or
\* another process's batch, that RefMap accepts on the refs as they are at that moment.
THEOREM CommitsRevalidate == Spec => CommitsAreRevalidated
<1> DEFINE Revalidated == value' # value => \E b \in {BatchOf(pending)} \cup Others : Atomic!Commit(b)
<1>1. ASSUME SessionInv, [Next]_vars PROVE Revalidated
  <2>1. pending \in Seq(Write \cup Verify)
    BY <1>1 DEF SessionInv, Queues
  <2>2. ASSUME Publishable, Publish PROVE Atomic!Commit(BatchOf(pending))
    <3>1. /\ Planned(value, pending) = "ok"
          /\ HeadIsReadable(value, Plan(value, BatchOf(pending)))
          /\ value' = Project(value, Plan(value, BatchOf(pending)))
      BY <2>2 DEF Publishable, CanPublish, Publish
    <3>2. Accepts(value, BatchOf(pending))
      BY <2>1, <3>1, PlannedIsAccepted
    <3> QED BY <3>1, <3>2, AcceptedCommits
  <2>3. CASE Commit
    BY <2>2, <2>3 DEF Commit, Raise
  <2>4. CASE EndOfStream
    BY <2>2, <2>4 DEF EndOfStream, Raise
  <2>5. ASSUME NEW b \in Others, OtherCommit(b) PROVE Revalidated
    <3>1. Atomic!Commit(b)
      BY <2>5, AcceptedCommits DEF OtherCommit
    <3> QED BY <3>1
  <2>6. ASSUME NEW c \in Commands, Queue(c) PROVE Revalidated
    BY <2>6 DEF Queue, Raise
  <2>7. CASE Option \/ Start \/ Prepare \/ Abort \/ PublishFails
    BY <2>7 DEF Option, Start, Prepare, Abort, PublishFails, Raise
  <2>8. CASE UNCHANGED vars
    BY <2>8 DEF vars
  <2> QED BY <1>1, <2>3, <2>4, <2>5, <2>6, <2>7, <2>8 DEF Next
<1>2. SessionInv /\ [Next]_vars => [Revalidated]_vars
  BY <1>1
<1> QED BY <1>2, SessionInvariant, PTL DEF Spec, CommitsAreRevalidated

-----------------------------------------------------------------------------
(***************************************************************************)
(* pack-refs.                                                              *)
(***************************************************************************)
\* The image of well-typed files maps every ref to a value (_raw_value).
LEMMA ImageType ==
    ASSUME NEW f, FileTypes(f)
    PROVE  Image(f) \in Images
BY NamesAreDistinct DEF Image, Images, Raw, FileTypes, Refs, Named, Packed, Value, Direct

\* Ref files, reflogs and packed-refs are different paths, one per ref.
LEMMA PathFacts ==
    /\ \A r \in Refs : RefFile(r) \in Paths /\ LogFile(r) \in Paths
    /\ PackedFile \in Paths
    /\ \A r, s \in Refs : RefFile(r) # LogFile(s)
    /\ \A r \in Refs : RefFile(r) # PackedFile /\ LogFile(r) # PackedFile
    /\ \A r, s \in Refs : RefFile(r) = RefFile(s) => r = s
    /\ \A r, s \in Refs : LogFile(r) = LogFile(s) => r = s
BY DEF Paths, RefFile, LogFile, PackedFile

\* Replacing one file keeps the types of all of them.
LEMMA WriteRefFile ==
    ASSUME NEW f, FileTypes(f), NEW r \in Refs, NEW v \in Value
    PROVE  FileTypes([f EXCEPT ![RefFile(r)] = v])
BY PathFacts DEF FileTypes

LEMMA WritePackedFile ==
    ASSUME NEW f, FileTypes(f), NEW v \in Packed
    PROVE  FileTypes([f EXCEPT ![PackedFile] = v])
BY PathFacts DEF FileTypes

\* What a reader sees of a ref depends on its own two files only.
LEMMA ImageAt ==
    ASSUME NEW f, NEW r \in Refs
    PROVE  Image(f)[r] = Raw(f, r)
BY DEF Image

\* Two sets of files that read alike ref by ref have the same image.
LEMMA SameImage ==
    ASSUME NEW f, NEW g, \A r \in Refs : Raw(f, r) = Raw(g, r)
    PROVE  Image(f) = Image(g)
BY DEF Image

\* The records to write hold object IDs or nothing.
LEMMA RecordsType ==
    ASSUME NEW f, FileTypes(f), NEW q
    PROVE  NextRecords(f, q) \in Packed
BY DEF NextRecords, Packed, Selected, LooseDirect, FileTypes, Direct

-----------------------------------------------------------------------------
(***************************************************************************)
(* The strengthening.  A running invocation has no outcome yet; until the  *)
(* rollback starts the snapshot covers every file it may write; and the    *)
(* files with what is left of the snapshot put back read as they did.      *)
(***************************************************************************)
Restored(f, s) == [p \in Paths |-> IF p \in DOMAIN s THEN s[p] ELSE f[p]]

Running ==
    /\ pc # "idle" => outcome = "none"
    /\ pc \in {"write", "prune"} =>
           DOMAIN snap = {PackedFile} \cup {RefFile(r) : r \in selected}

SnapshotRestores ==
    pc \in {"write", "prune", "rollback"} =>
        \A r \in Refs \ disturbed : Raw(Restored(fs, snap), r) = visible[r]

PackInv == PackTypeOK /\ PackingIsInvisible /\ RecordsCoverLooseRefs /\ Running /\ SnapshotRestores

\* An empty snapshot has nothing to restore.
LEMMA NoSnapshot == DOMAIN <<>> = {}
OBVIOUS

LEMMA InitPackInv == PackInit => PackInv
<1> SUFFICES ASSUME PackInit PROVE PackInv
  OBVIOUS
<1>1. FileTypes(fs)
  BY FilesAreTyped DEF PackInit
<1>2. Image(fs) \in Images
  BY <1>1, ImageType
<1>3. PackTypeOK
  <2>1. request \in Request
    BY DEF PackInit, Idle, Request
  <2>2. records \in Packed
    BY <1>1 DEF PackInit, FileTypes
  <2>3. DOMAIN snap = {}
    BY NoSnapshot DEF PackInit
  <2>4. selected \subseteq Named /\ unlinked \subseteq selected /\ visible \in Images
    BY <1>2 DEF PackInit
  <2>5. rounds \in 0..MaxRounds /\ updates \in 0..MaxUpdates
    BY BoundsAreNat DEF PackInit
  <2>6. pc \in Stages /\ outcome \in Outcomes /\ disturbed \subseteq Named
    BY DEF PackInit, Stages, Outcomes
  <2> QED BY <1>1, <2>1, <2>2, <2>3, <2>4, <2>5, <2>6 DEF PackTypeOK
<1>4. PackingIsInvisible /\ RecordsCoverLooseRefs /\ Running /\ SnapshotRestores
  BY DEF PackInit, PackingIsInvisible, RecordsCoverLooseRefs, Running, SnapshotRestores
<1> QED BY <1>3, <1>4 DEF PackInv

LEMMA NextPackInv == PackInv /\ [PackNext]_packVars => PackInv'
<1> SUFFICES ASSUME PackInv, [PackNext]_packVars PROVE PackInv'
  OBVIOUS
<1>0. PackTypeOK /\ PackingIsInvisible /\ RecordsCoverLooseRefs /\ Running /\ SnapshotRestores
  BY DEF PackInv
<1>n. \A r \in Named : r \in Refs /\ r # HEAD
  BY NamesAreDistinct DEF Refs
<1>1. ASSUME NEW q \in Requests, Begin(q) PROVE PackInv'
  <2>1. NextRecords(fs, q) \in Packed /\ Image(fs) \in Images
    BY <1>0, RecordsType, ImageType DEF PackTypeOK
  <2>2. Selected(fs, q) \subseteq Named
    BY DEF Selected, LooseDirect
  <2>3. request' \in Request /\ rounds' \in 0..MaxRounds
    BY <1>0, <1>1, RequestsAreTyped, BoundsAreNat DEF Begin, PackTypeOK
  <2>4. FileTypes(fs')
    BY <1>0, <1>1 DEF Begin, PackTypeOK
  <2>5. PackTypeOK'
    <3>1. DOMAIN snap' = {}
      BY <1>1, NoSnapshot DEF Begin
    <3>2. selected' \subseteq Named /\ unlinked' \subseteq selected'
      BY <1>1, <2>2 DEF Begin
    <3>3. pc' \in Stages /\ outcome' \in Outcomes /\ disturbed' \subseteq Named
      BY <1>1 DEF Begin, Stages, Outcomes
    <3>4. records' \in Packed /\ visible' \in Images /\ updates' \in 0..MaxUpdates
      BY <1>0, <1>1, <2>1 DEF Begin, PackTypeOK
    <3> QED BY <2>3, <2>4, <3>1, <3>2, <3>3, <3>4 DEF PackTypeOK
  <2>6. PackingIsInvisible' /\ Running' /\ SnapshotRestores'
    BY <1>1 DEF Begin, PackingIsInvisible, Running, SnapshotRestores
  <2>7. RecordsCoverLooseRefs'
    BY <1>1 DEF Begin, RecordsCoverLooseRefs, NextRecords, Selected, LooseDirect
  <2> QED BY <2>5, <2>6, <2>7 DEF PackInv
<1>2. CASE TakeSnapshots
  <2>1. \A p \in DOMAIN snap' :
            \/ p = PackedFile /\ snap'[p] \in Packed
            \/ \E r \in Named : p = RefFile(r) /\ snap'[p] \in Value
    BY <1>0, <1>2, <1>n DEF TakeSnapshots, PackTypeOK, FileTypes
  <2>2. FileTypes(fs')
    BY <1>0, <1>2 DEF TakeSnapshots, PackTypeOK
  <2>3. PackTypeOK'
    BY <1>0, <1>2, <2>1, <2>2 DEF TakeSnapshots, PackTypeOK, Stages
  <2>4. PackingIsInvisible' /\ RecordsCoverLooseRefs'
    BY <1>0, <1>2 DEF TakeSnapshots, PackingIsInvisible, RecordsCoverLooseRefs
  <2>5. Running'
    BY <1>0, <1>2 DEF TakeSnapshots, Running
  <2>6. SnapshotRestores'
    <3>1. Restored(fs', snap') = [p \in Paths |-> fs[p]]
      BY <1>2 DEF TakeSnapshots, Restored
    <3>2. Restored(fs', snap') = fs
      BY <1>0, <3>1 DEF PackTypeOK, FileTypes
    <3>3. \A r \in Refs \ disturbed : Image(fs)[r] = visible[r]
      BY <1>0, <1>2 DEF TakeSnapshots, PackingIsInvisible, Running
    <3> QED BY <1>2, <3>2, <3>3, ImageAt DEF TakeSnapshots, SnapshotRestores
  <2> QED BY <2>3, <2>4, <2>5, <2>6 DEF PackInv
<1>3. CASE WritePacked
  <2>1. FileTypes(fs')
    BY <1>0, <1>3, WritePackedFile DEF WritePacked, PackTypeOK
  <2>2. /\ fs'[PackedFile] = records
        /\ \A r \in Refs : fs'[RefFile(r)] = fs[RefFile(r)]
    BY <1>0, <1>3, PathFacts DEF WritePacked, PackTypeOK, FileTypes
  <2>3. ASSUME NEW r \in Refs \ disturbed PROVE Raw(fs', r) = Raw(fs, r)
    <3>1. CASE r = HEAD
      BY <2>2, <3>1 DEF Raw
    <3>2. CASE r \in Named
      <4>1. r \in selected => fs[RefFile(r)] # None
        BY <1>0, <1>3, <3>2, ValuesAreDistinct DEF WritePacked, RecordsCoverLooseRefs
      <4>2. r \notin selected => records[r] = fs[PackedFile][r]
        BY <1>0, <1>3, <3>2 DEF WritePacked, RecordsCoverLooseRefs
      <4> QED BY <2>2, <4>1, <4>2 DEF Raw
    <3> QED BY <3>1, <3>2 DEF Refs
  <2>4. ASSUME NEW r \in Refs \ disturbed
        PROVE  Image(fs')[r] = visible[r] /\ Image(fs)[r] = visible[r]
    BY <1>0, <1>3, <2>3, ImageAt DEF WritePacked, PackingIsInvisible, Running
  <2>5. PackTypeOK'
    BY <1>0, <1>3, <2>1 DEF WritePacked, PackTypeOK, Stages, Outcomes
  <2>6. PackingIsInvisible'
    BY <1>3, <2>4 DEF WritePacked, PackingIsInvisible
  <2>7. RecordsCoverLooseRefs'
    <3> SUFFICES ASSUME pc' = "prune", NEW r \in selected \ disturbed
                 PROVE  fs'[PackedFile][r] \in Oids /\ fs'[PackedFile][r] = visible[r]
      BY <1>3 DEF WritePacked, RecordsCoverLooseRefs
    <3>1. r \in Named /\ r \in Refs /\ r # HEAD
      BY <1>0, <1>n DEF PackTypeOK
    <3>2. fs[RefFile(r)] \in Oids /\ records[r] = fs[RefFile(r)]
      BY <1>0, <1>3, <3>1 DEF WritePacked, RecordsCoverLooseRefs
    <3>3. visible[r] = fs[RefFile(r)]
      BY <2>4, <3>1, <3>2, ImageAt, ValuesAreDistinct DEF Raw
    <3> QED BY <2>2, <3>2, <3>3
  <2>8. Running'
    BY <1>0, <1>3 DEF WritePacked, Running
  <2>9. SnapshotRestores'
    <3> SUFFICES ASSUME pc' = "prune" PROVE SnapshotRestores'
      BY <1>3 DEF WritePacked, SnapshotRestores
    <3>1. PackedFile \in DOMAIN snap
      BY <1>0, <1>3 DEF WritePacked, Running
    <3>2. \A p \in Paths : p # PackedFile => fs'[p] = fs[p]
      BY <1>0, <1>3 DEF WritePacked, PackTypeOK, FileTypes
    <3>3. Restored(fs', snap') = Restored(fs, snap)
      BY <1>3, <3>1, <3>2 DEF WritePacked, Restored
    <3> QED BY <1>0, <1>3, <3>3 DEF WritePacked, SnapshotRestores
  <2> QED BY <2>5, <2>6, <2>7, <2>8, <2>9 DEF PackInv
<1>4. ASSUME NEW r \in Named, UnlinkLoose(r) PROVE PackInv'
  <2>0. r \in selected /\ r \in Refs /\ r # HEAD
    BY <1>4, <1>n DEF UnlinkLoose, ToUnlink
  <2>1. FileTypes(fs')
    BY <1>0, <1>4, <2>0, WriteRefFile DEF UnlinkLoose, PackTypeOK, Value, Direct
  <2>2. /\ fs'[PackedFile] = fs[PackedFile]
        /\ fs'[RefFile(r)] = None
        /\ \A s \in Refs : s # r => fs'[RefFile(s)] = fs[RefFile(s)]
    BY <1>0, <1>4, <2>0, PathFacts DEF UnlinkLoose, PackTypeOK, FileTypes
  <2>3. ASSUME NEW s \in Refs \ disturbed PROVE Image(fs')[s] = visible[s]
    <3>1. Image(fs)[s] = visible[s]
      BY <1>0, <1>4 DEF UnlinkLoose, PackingIsInvisible, Running
    <3>2. CASE s # r
      BY <2>2, <3>1, <3>2, ImageAt DEF Raw
    <3>3. CASE s = r
      <4>1. Raw(fs', r) = fs[PackedFile][r]
        BY <2>0, <2>2 DEF Raw
      <4>2. fs[PackedFile][r] = visible[r]
        BY <1>0, <1>4, <2>0, <3>3 DEF UnlinkLoose, RecordsCoverLooseRefs
      <4> QED BY <2>0, <3>3, <4>1, <4>2, ImageAt
    <3> QED BY <3>2, <3>3
  <2>5. PackTypeOK'
    BY <1>0, <1>4, <2>0, <2>1 DEF UnlinkLoose, PackTypeOK
  <2>6. PackingIsInvisible'
    BY <1>4, <2>3 DEF UnlinkLoose, PackingIsInvisible
  <2>7. RecordsCoverLooseRefs' /\ Running'
    BY <1>0, <1>4, <2>2 DEF UnlinkLoose, RecordsCoverLooseRefs, Running
  <2>8. SnapshotRestores'
    <3>1. RefFile(r) \in DOMAIN snap
      BY <1>0, <1>4, <2>0 DEF UnlinkLoose, Running
    <3>2. \A p \in Paths : p # RefFile(r) => fs'[p] = fs[p]
      BY <1>0, <1>4 DEF UnlinkLoose, PackTypeOK, FileTypes
    <3>3. Restored(fs', snap') = Restored(fs, snap)
      BY <1>4, <3>1, <3>2 DEF UnlinkLoose, Restored
    <3> QED BY <1>0, <1>4, <3>3 DEF UnlinkLoose, SnapshotRestores
  <2> QED BY <2>5, <2>6, <2>7, <2>8 DEF PackInv
<1>5. CASE Finish
  <2>1. PackTypeOK'
    BY <1>0, <1>5 DEF Finish, PackTypeOK, Stages, Outcomes
  <2>2. PackingIsInvisible'
    BY <1>0, <1>5 DEF Finish, PackingIsInvisible, Running
  <2>3. RecordsCoverLooseRefs' /\ Running' /\ SnapshotRestores'
    BY <1>5 DEF Finish, RecordsCoverLooseRefs, Running, SnapshotRestores
  <2> QED BY <2>1, <2>2, <2>3 DEF PackInv
<1>6. CASE OSError
  <2>1. PackTypeOK'
    BY <1>0, <1>6 DEF OSError, PackTypeOK, Stages
  <2>2. PackingIsInvisible' /\ RecordsCoverLooseRefs' /\ Running'
    BY <1>0, <1>6 DEF OSError, PackingIsInvisible, RecordsCoverLooseRefs, Running
  <2>3. SnapshotRestores'
    BY <1>0, <1>6 DEF OSError, SnapshotRestores
  <2> QED BY <2>1, <2>2, <2>3 DEF PackInv
<1>7. CASE Restore
  <2>1. PICK p \in DOMAIN snap :
            /\ fs' = [fs EXCEPT ![p] = snap[p]]
            /\ snap' = [q \in DOMAIN snap \ {p} |-> snap[q]]
    BY <1>7 DEF Restore
  <2>2. FileTypes(fs') /\ p \in Paths
    BY <1>0, <1>n, <2>1, PathFacts, WriteRefFile, WritePackedFile DEF PackTypeOK
  <2>3. PackTypeOK'
    BY <1>0, <1>7, <2>1, <2>2 DEF Restore, PackTypeOK
  <2>4. PackingIsInvisible' /\ RecordsCoverLooseRefs' /\ Running'
    BY <1>0, <1>7 DEF Restore, PackingIsInvisible, RecordsCoverLooseRefs, Running
  <2>5. SnapshotRestores'
    <3>1. /\ fs'[p] = snap[p] /\ \A q \in Paths : q # p => fs'[q] = fs[q]
          /\ DOMAIN snap' = DOMAIN snap \ {p}
          /\ \A q \in DOMAIN snap' : snap'[q] = snap[q]
      BY <1>0, <2>1, <2>2 DEF PackTypeOK, FileTypes
    <3>2. Restored(fs', snap') = Restored(fs, snap)
      BY <3>1 DEF Restored
    <3> QED BY <1>0, <1>7, <3>2 DEF Restore, SnapshotRestores
  <2> QED BY <2>3, <2>4, <2>5 DEF PackInv
<1>8. CASE EndRollback
  <2>1. PackTypeOK'
    BY <1>0, <1>8 DEF EndRollback, PackTypeOK, Stages, Outcomes
  <2>2. Restored(fs, snap) = [p \in Paths |-> fs[p]]
    BY <1>8 DEF EndRollback, Restored
  <2>3. Restored(fs, snap) = fs
    BY <1>0, <2>2 DEF PackTypeOK, FileTypes
  <2>4. PackingIsInvisible'
    BY <1>0, <1>8, <2>3, ImageAt DEF EndRollback, PackingIsInvisible, SnapshotRestores
  <2>5. RecordsCoverLooseRefs' /\ Running' /\ SnapshotRestores'
    BY <1>8 DEF EndRollback, RecordsCoverLooseRefs, Running, SnapshotRestores
  <2> QED BY <2>1, <2>4, <2>5 DEF PackInv
<1>9. CASE Crash
  <2>1. PackTypeOK'
    BY <1>0, <1>9 DEF Crash, PackTypeOK, Stages, Outcomes
  <2>2. PackingIsInvisible'
    BY <1>0, <1>9 DEF Crash, PackingIsInvisible, Running
  <2>3. RecordsCoverLooseRefs' /\ Running' /\ SnapshotRestores'
    BY <1>9 DEF Crash, RecordsCoverLooseRefs, Running, SnapshotRestores
  <2> QED BY <2>1, <2>2, <2>3 DEF PackInv
<1>10. ASSUME NEW r \in Named, NEW v \in Oids, OtherUpdate(r, v) PROVE PackInv'
  <2>1. FileTypes(fs')
    BY <1>0, <1>n, <1>10, WriteRefFile DEF OtherUpdate, PackTypeOK, Value, Direct
  <2>2. visible' \in Images
    BY <1>0, <1>n, <1>10 DEF OtherUpdate, PackTypeOK, Images, Value, Direct
  <2>3. updates' \in 0..MaxUpdates
    BY <1>0, <1>10, BoundsAreNat DEF OtherUpdate, PackTypeOK
  <2>4. PackTypeOK'
    BY <1>0, <1>10, <2>1, <2>2, <2>3 DEF OtherUpdate, PackTypeOK
  <2>5. ASSUME NEW s \in Refs, s # r
        PROVE  /\ fs'[RefFile(s)] = fs[RefFile(s)] /\ fs'[PackedFile] = fs[PackedFile]
               /\ visible'[s] = visible[s]
    BY <1>0, <1>n, <1>10, <2>5, PathFacts DEF OtherUpdate, PackTypeOK, FileTypes, Images
  <2>6. disturbed' = disturbed \cup {r} /\ pc' = pc /\ outcome' = outcome /\ snap' = snap
    BY <1>10 DEF OtherUpdate
  <2>7. PackingIsInvisible'
    BY <1>0, <2>5, <2>6, ImageAt DEF PackingIsInvisible, Raw
  <2>8. RecordsCoverLooseRefs' /\ Running'
    BY <1>0, <1>n, <1>10, <2>5, <2>6 DEF OtherUpdate, PackTypeOK, RecordsCoverLooseRefs, Running
  <2>9. SnapshotRestores'
    <3>1. ASSUME NEW s \in Refs, s # r PROVE Raw(Restored(fs', snap'), s) = Raw(Restored(fs, snap), s)
      BY <2>5, <2>6, <3>1, PathFacts DEF Raw, Restored
    <3> QED BY <1>0, <2>5, <2>6, <3>1 DEF SnapshotRestores
  <2> QED BY <2>4, <2>7, <2>8, <2>9 DEF PackInv
<1>11. CASE UNCHANGED packVars
  BY <1>0, <1>11
     DEF packVars, PackInv, PackTypeOK, PackingIsInvisible, RecordsCoverLooseRefs, Running,
         SnapshotRestores, ToUnlink
<1> QED BY <1>1, <1>2, <1>3, <1>4, <1>5, <1>6, <1>7, <1>8, <1>9, <1>10, <1>11 DEF PackNext

LEMMA PackInvariant == PackSpec => []PackInv
<1>1. PackInit => PackInv
  BY InitPackInv
<1>2. PackInv /\ [PackNext]_packVars => PackInv'
  BY NextPackInv
<1> QED BY <1>1, <1>2, PTL DEF PackSpec

-----------------------------------------------------------------------------
\* pack_refs reads and writes well-formed files, records and snapshots only.
THEOREM PackTypesKept == PackSpec => []PackTypeOK
BY PackInvariant, PTL DEF PackInv

\* While pack_refs runs, every ref that no other process replaces reads as it did before: after
\* each write, after the OSError rollback, and after a crash anywhere but inside that rollback.
THEOREM PackingInvisible == PackSpec => []PackingIsInvisible
BY PackInvariant, PTL DEF PackInv

\* The reason: the records to write cover every loose ref, and pruning starts only when
\* packed-refs holds every selected value.
THEOREM RecordsCover == PackSpec => []RecordsCoverLooseRefs
BY PackInvariant, PTL DEF PackInv

-----------------------------------------------------------------------------
(***************************************************************************)
(* With other processes at work the records no longer agree with the loose *)
(* files.  But a selected ref keeps a loose file until that is unlinked,   *)
(* the records of the other refs are those packed-refs has, and so are the *)
(* ones the rollback puts back, which it does first.                       *)
(***************************************************************************)
LooseStays ==
    pc # "idle" =>
        /\ \A r \in selected \ unlinked : fs[RefFile(r)] \in Oids
        /\ pc \in {"snapshot", "write"} =>
               unlinked = {} /\ \A r \in Named \ selected : records[r] = fs[PackedFile][r]

SnapshotsHold ==
    pc \in {"write", "prune", "rollback"} =>
        /\ DOMAIN snap \subseteq {PackedFile} \cup {RefFile(r) : r \in selected}
        /\ \A r \in selected : RefFile(r) \in DOMAIN snap => snap[RefFile(r)] \in Oids
        /\ PackedFile \in DOMAIN snap =>
               /\ DOMAIN snap = {PackedFile} \cup {RefFile(r) : r \in selected}
               /\ \A r \in Named \ selected : snap[PackedFile][r] = fs[PackedFile][r]

LossInv == OnlyOverwrittenUpdatesAreLost /\ LooseStays /\ SnapshotsHold

\* No rollback has begun in an invocation that runs otherwise, and none has put anything back
\* where the snapshot is whole.
LEMMA NothingRewritten ==
    ASSUME Running, pc \notin {"idle", "rollback"}
    PROVE  Rewritten = {} /\ outcome = "none"
BY DEF Running, Rewritten

LEMMA NextLossInv == PackInv /\ PackInv' /\ LossInv /\ [PackNext]_packVars => LossInv'
<1> SUFFICES ASSUME PackInv, PackInv', LossInv, [PackNext]_packVars PROVE LossInv'
  OBVIOUS
<1>0. /\ PackTypeOK /\ Running /\ PackingIsInvisible' /\ Running' /\ SnapshotRestores
      /\ OnlyOverwrittenUpdatesAreLost /\ LooseStays /\ SnapshotsHold
  BY DEF PackInv, LossInv
<1>n. \A r \in Named : r \in Refs /\ r # HEAD
  BY NamesAreDistinct DEF Refs
<1>1. ASSUME NEW q \in Requests, Begin(q) PROVE LossInv'
  <2>1. OnlyOverwrittenUpdatesAreLost'
    BY <1>1 DEF Begin, OnlyOverwrittenUpdatesAreLost
  <2>2. LooseStays' /\ SnapshotsHold'
    BY <1>1 DEF Begin, LooseStays, SnapshotsHold, NextRecords, Selected, LooseDirect
  <2> QED BY <2>1, <2>2 DEF LossInv
<1>2. CASE TakeSnapshots
  <2>1. Rewritten = {} /\ Rewritten' = {} /\ outcome = "none"
    BY <1>0, <1>2, NothingRewritten DEF TakeSnapshots, Rewritten
  <2>2. OnlyOverwrittenUpdatesAreLost'
    BY <1>0, <1>2, <2>1 DEF TakeSnapshots, OnlyOverwrittenUpdatesAreLost
  <2>3. LooseStays'
    BY <1>0, <1>2 DEF TakeSnapshots, LooseStays
  <2>4. SnapshotsHold'
    BY <1>0, <1>2 DEF TakeSnapshots, LooseStays, SnapshotsHold, PackTypeOK
  <2> QED BY <2>2, <2>3, <2>4 DEF LossInv
<1>3. CASE WritePacked
  <2>1. /\ fs'[PackedFile] = records
        /\ \A r \in Refs : fs'[RefFile(r)] = fs[RefFile(r)]
    BY <1>0, <1>3, PathFacts DEF WritePacked, PackTypeOK, FileTypes
  <2>2. ASSUME NEW r \in Refs PROVE Raw(fs', r) = Raw(fs, r)
    <3>1. CASE r = HEAD
      BY <2>1, <3>1 DEF Raw
    <3>2. CASE r \in Named
      <4>1. r \in selected => fs[RefFile(r)] # None
        BY <1>0, <1>3, <3>2, ValuesAreDistinct DEF WritePacked, LooseStays
      <4>2. r \notin selected => records[r] = fs[PackedFile][r]
        BY <1>0, <1>3, <3>2 DEF WritePacked, LooseStays
      <4> QED BY <2>1, <4>1, <4>2 DEF Raw
    <3> QED BY <3>1, <3>2 DEF Refs
  <2>3. Image(fs') = Image(fs)
    BY <2>2, SameImage
  <2>4. Rewritten = {} /\ Rewritten' = {} /\ outcome = "none"
    BY <1>0, <1>3, NothingRewritten DEF WritePacked, Rewritten
  <2>5. OnlyOverwrittenUpdatesAreLost'
    BY <1>0, <1>3, <2>3, <2>4 DEF WritePacked, OnlyOverwrittenUpdatesAreLost
  <2>6. LooseStays'
    BY <1>0, <1>n, <1>3, <2>1 DEF WritePacked, LooseStays, PackTypeOK
  <2>7. SnapshotsHold'
    BY <1>0, <1>3, <2>1 DEF WritePacked, SnapshotsHold, LooseStays
  <2> QED BY <2>5, <2>6, <2>7 DEF LossInv
<1>4. ASSUME NEW r \in Named, UnlinkLoose(r) PROVE LossInv'
  <2>1. /\ fs'[PackedFile] = fs[PackedFile]
        /\ \A s \in Refs : s # r => fs'[RefFile(s)] = fs[RefFile(s)]
    BY <1>0, <1>4, <1>n, PathFacts DEF UnlinkLoose, PackTypeOK, FileTypes
  <2>2. Rewritten = {} /\ Rewritten' = {} /\ outcome' = "none"
    BY <1>0, <1>4, NothingRewritten DEF UnlinkLoose, Rewritten
  <2>3. ASSUME NEW s \in Refs, Image(fs')[s] # visible'[s] PROVE s \in disturbed' /\ s \in unlinked'
    <3>1. s \in disturbed'
      BY <1>0, <1>4, <2>2, <2>3 DEF UnlinkLoose, PackingIsInvisible
    <3>2. CASE s = r
      BY <1>4, <3>1, <3>2 DEF UnlinkLoose
    <3>3. CASE s # r
      <4>1. Raw(fs', s) = Raw(fs, s)
        BY <2>1, <3>3 DEF Raw
      <4>2. Image(fs)[s] # visible[s]
        BY <1>4, <2>3, <4>1, ImageAt DEF UnlinkLoose
      <4>3. s \in unlinked
        BY <1>0, <1>4, <2>2, <4>2 DEF UnlinkLoose, OnlyOverwrittenUpdatesAreLost
      <4> QED BY <1>4, <3>1, <4>3 DEF UnlinkLoose
    <3> QED BY <3>2, <3>3
  <2>4. OnlyOverwrittenUpdatesAreLost'
    BY <2>3 DEF OnlyOverwrittenUpdatesAreLost
  <2>5. LooseStays' /\ SnapshotsHold'
    BY <1>0, <1>n, <1>4, <2>1 DEF UnlinkLoose, LooseStays, SnapshotsHold, PackTypeOK
  <2> QED BY <2>4, <2>5 DEF LossInv
<1>5. CASE Finish
  <2>1. Rewritten = {} /\ Rewritten' = {} /\ outcome = "none"
    BY <1>0, <1>5, NothingRewritten DEF Finish, Rewritten
  <2> QED BY <1>0, <1>5, <2>1
          DEF Finish, LossInv, OnlyOverwrittenUpdatesAreLost, LooseStays, SnapshotsHold
<1>6. CASE OSError
  <2>1. Rewritten = {} /\ outcome = "none"
    BY <1>0, <1>6, NothingRewritten DEF OSError
  <2>2. Rewritten' = {}
    BY <1>0, <1>6 DEF OSError, Rewritten, Running
  <2>3. OnlyOverwrittenUpdatesAreLost'
    BY <1>0, <1>6, <2>1, <2>2 DEF OSError, OnlyOverwrittenUpdatesAreLost
  <2>4. LooseStays' /\ SnapshotsHold'
    BY <1>0, <1>6 DEF OSError, LooseStays, SnapshotsHold
  <2> QED BY <2>3, <2>4 DEF LossInv
<1>7. CASE Restore
  <2>0. PICK p \in DOMAIN snap :
            /\ PackedFile \in DOMAIN snap => p = PackedFile
            /\ fs' = [fs EXCEPT ![p] = snap[p]]
            /\ snap' = [q \in DOMAIN snap \ {p} |-> snap[q]]
    BY <1>7 DEF Restore
  <2>u. /\ pc = "rollback" /\ pc' = pc /\ selected' = selected /\ unlinked' = unlinked
        /\ visible' = visible /\ disturbed' = disturbed /\ records' = records
    BY <1>7 DEF Restore
  <2>1. /\ DOMAIN snap' = DOMAIN snap \ {p}
        /\ \A q \in DOMAIN snap' : snap'[q] = snap[q]
        /\ p = PackedFile \/ \E r \in Named : p = RefFile(r)
    BY <1>0, <2>0 DEF PackTypeOK
  <2>2. CASE p = PackedFile
    <3>1. /\ fs'[PackedFile] = snap[PackedFile]
          /\ \A r \in Refs : fs'[RefFile(r)] = fs[RefFile(r)]
      BY <1>0, <2>0, <2>2, PathFacts DEF PackTypeOK, FileTypes
    <3>2. DOMAIN snap' = {RefFile(r) : r \in selected} /\ Rewritten = {} /\ Rewritten' = {}
      BY <1>0, <1>n, <2>0, <2>1, <2>2, <2>u, PathFacts DEF SnapshotsHold, PackTypeOK, Rewritten
    <3>3. PackedFile \notin DOMAIN snap'
      BY <2>1, <2>2
    <3>4. ASSUME NEW s \in Refs, s \notin unlinked PROVE Raw(fs', s) = Raw(fs, s)
      <4>1. CASE s \in selected
        BY <1>0, <2>u, <3>1, <3>4, <4>1, ValuesAreDistinct DEF LooseStays, Raw
      <4>2. CASE s \in Named \ selected
        BY <1>0, <2>0, <2>2, <2>u, <3>1, <4>2 DEF SnapshotsHold, Raw
      <4>3. CASE s = HEAD
        BY <3>1, <4>3 DEF Raw
      <4> QED BY <4>1, <4>2, <4>3 DEF Refs
    <3>5. ASSUME NEW s \in Refs, Image(fs')[s] # visible'[s] PROVE s \in unlinked
      <4>1. SUFFICES ASSUME s \notin unlinked PROVE FALSE
        OBVIOUS
      <4>2. Image(fs)[s] # visible[s]
        BY <2>u, <3>4, <3>5, <4>1, ImageAt
      <4> QED BY <1>0, <3>2, <4>1, <4>2 DEF OnlyOverwrittenUpdatesAreLost
    <3>6. OnlyOverwrittenUpdatesAreLost'
      BY <2>u, <3>2, <3>3, <3>5 DEF OnlyOverwrittenUpdatesAreLost
    <3>7. LooseStays' /\ SnapshotsHold'
      <4>1. LooseStays'
        BY <1>0, <1>n, <2>u, <3>1 DEF LooseStays, PackTypeOK
      <4>2. SnapshotsHold'
        BY <1>0, <2>1, <2>u, <3>3 DEF SnapshotsHold
      <4> QED BY <4>1, <4>2
    <3> QED BY <3>6, <3>7 DEF LossInv
  <2>3. ASSUME NEW r \in Named, p = RefFile(r) PROVE LossInv'
    <3>1. /\ fs'[PackedFile] = fs[PackedFile] /\ fs'[RefFile(r)] = snap[RefFile(r)]
          /\ \A s \in Refs : s # r => fs'[RefFile(s)] = fs[RefFile(s)]
      BY <1>0, <1>n, <2>0, <2>3, PathFacts DEF PackTypeOK, FileTypes
    <3>2. PackedFile \notin DOMAIN snap /\ PackedFile \notin DOMAIN snap'
      BY <1>n, <2>0, <2>1, <2>3, PathFacts
    <3>3. r \in selected => /\ snap[RefFile(r)] \in Oids /\ snap[RefFile(r)] # None
                            /\ r \in Rewritten'
      BY <1>0, <2>0, <2>1, <2>3, <2>u, ValuesAreDistinct DEF SnapshotsHold, Rewritten
    <3>4. \A s \in Named : s # r => (s \in Rewritten' <=> s \in Rewritten)
      BY <1>n, <2>1, <2>3, <2>u, PathFacts DEF Rewritten
    <3>5. ASSUME NEW s \in Refs, s # r PROVE Raw(fs', s) = Raw(fs, s)
      BY <3>1, <3>5 DEF Raw
    <3>6. r \in selected
      BY <1>0, <1>n, <2>0, <2>3, <2>u, PathFacts DEF SnapshotsHold, PackTypeOK
    <3>7. r \notin disturbed => Raw(fs', r) = visible[r]
      <4> SUFFICES ASSUME r \notin disturbed PROVE Raw(fs', r) = visible[r]
        OBVIOUS
      <4>1. Raw(Restored(fs, snap), r) = visible[r]
        BY <1>0, <1>n, <2>u DEF SnapshotRestores
      <4>2. Restored(fs, snap)[RefFile(r)] = snap[RefFile(r)]
        BY <1>n, <2>0, <2>3, PathFacts DEF Restored
      <4> QED BY <3>1, <3>3, <3>6, <4>1, <4>2 DEF Raw
    <3>8. OnlyOverwrittenUpdatesAreLost'
      <4> SUFFICES ASSUME NEW s \in Refs, Image(fs')[s] # visible'[s]
                   PROVE  \/ s \in disturbed' /\ s \in unlinked' \cup Rewritten'
                          \/ s \in unlinked' \ Rewritten'
        BY <2>u, <3>2 DEF OnlyOverwrittenUpdatesAreLost
      <4>1. CASE s = r
        BY <2>u, <3>3, <3>6, <3>7, <4>1, ImageAt
      <4>2. CASE s # r
        <5>1. Image(fs)[s] # visible[s]
          BY <2>u, <3>5, <4>2, ImageAt
        <5>2. s \in Rewritten' <=> s \in Rewritten
          BY <1>0, <2>u, <3>4, <4>2 DEF Rewritten, PackTypeOK
        <5> QED BY <1>0, <2>u, <5>1, <5>2 DEF OnlyOverwrittenUpdatesAreLost
      <4> QED BY <4>1, <4>2
    <3>9. LooseStays' /\ SnapshotsHold'
      <4>1. LooseStays'
        BY <1>0, <1>n, <2>u, <3>1, <3>3 DEF LooseStays, PackTypeOK
      <4>2. SnapshotsHold'
        BY <1>0, <2>1, <2>u, <3>2 DEF SnapshotsHold
      <4> QED BY <4>1, <4>2
    <3> QED BY <3>8, <3>9 DEF LossInv
  <2> QED BY <2>1, <2>2, <2>3
<1>8. CASE EndRollback
  <2>1. Rewritten = selected /\ Rewritten' = selected
    BY <1>8 DEF EndRollback, Rewritten
  <2>2. unlinked \subseteq selected /\ unlinked' = unlinked
    BY <1>0, <1>8 DEF EndRollback, PackTypeOK
  <2>3. OnlyOverwrittenUpdatesAreLost'
    BY <1>0, <1>8, <2>1, <2>2 DEF EndRollback, OnlyOverwrittenUpdatesAreLost
  <2>4. LooseStays' /\ SnapshotsHold'
    BY <1>8 DEF EndRollback, LooseStays, SnapshotsHold
  <2> QED BY <2>3, <2>4 DEF LossInv
<1>9. CASE Crash
  <2>1. LooseStays' /\ SnapshotsHold'
    BY <1>9 DEF Crash, LooseStays, SnapshotsHold
  <2>2. CASE pc = "rollback"
    <3>1. Rewritten' = Rewritten
      BY <1>9, <2>2 DEF Crash, Rewritten
    <3>2. OnlyOverwrittenUpdatesAreLost'
      BY <1>0, <1>9, <2>2, <3>1 DEF Crash, OnlyOverwrittenUpdatesAreLost
    <3> QED BY <2>1, <3>2 DEF LossInv
  <2>3. CASE pc # "rollback"
    <3>1. Rewritten = {} /\ Rewritten' = {} /\ outcome = "none"
      BY <1>0, <1>9, <2>3, NothingRewritten DEF Crash, Rewritten
    <3>2. OnlyOverwrittenUpdatesAreLost'
      BY <1>0, <1>9, <2>3, <3>1 DEF Crash, OnlyOverwrittenUpdatesAreLost
    <3> QED BY <2>1, <3>2 DEF LossInv
  <2> QED BY <2>2, <2>3
<1>10. ASSUME NEW r \in Named, NEW v \in Oids, OtherUpdate(r, v) PROVE LossInv'
  <2>1. /\ fs'[PackedFile] = fs[PackedFile] /\ fs'[RefFile(r)] = v
        /\ \A s \in Refs : s # r => fs'[RefFile(s)] = fs[RefFile(s)]
        /\ visible'[r] = v /\ \A s \in Refs : s # r => visible'[s] = visible[s]
    BY <1>0, <1>n, <1>10, PathFacts DEF OtherUpdate, PackTypeOK, FileTypes, Images
  <2>2. Raw(fs', r) = v
    BY <1>n, <2>1, ValuesAreDistinct DEF Raw
  <2>3. ASSUME NEW s \in Refs, s # r PROVE Raw(fs', s) = Raw(fs, s)
    BY <2>1, <2>3 DEF Raw
  <2>4. ASSUME NEW s \in Refs, Image(fs')[s] # visible'[s]
        PROVE  Image(fs)[s] # visible[s]
    BY <1>n, <2>1, <2>2, <2>3, <2>4, ImageAt
  <2>5. Rewritten' = Rewritten
    BY <1>10 DEF OtherUpdate, Rewritten
  <2>6. OnlyOverwrittenUpdatesAreLost'
    BY <1>0, <1>10, <2>4, <2>5 DEF OtherUpdate, OnlyOverwrittenUpdatesAreLost
  <2>7. LooseStays' /\ SnapshotsHold'
    BY <1>0, <1>n, <1>10, <2>1 DEF OtherUpdate, LooseStays, SnapshotsHold, PackTypeOK
  <2> QED BY <2>6, <2>7 DEF LossInv
<1>11. CASE UNCHANGED packVars
  BY <1>0, <1>11
     DEF packVars, LossInv, OnlyOverwrittenUpdatesAreLost, LooseStays, SnapshotsHold, Rewritten
<1> QED BY <1>1, <1>2, <1>3, <1>4, <1>5, <1>6, <1>7, <1>8, <1>9, <1>10, <1>11 DEF PackNext

\* Whatever other processes write while pack_refs runs, and whatever fails or is killed, its
\* rollback included, a ref that does not read as last asked for was replaced by somebody and
\* then unlinked or put back by pack_refs, or is one the rollback has still to put back.
THEOREM OnlyOverwrittenAreLost == PackSpec => []OnlyOverwrittenUpdatesAreLost
<1>1. PackInit => LossInv
  BY DEF PackInit, LossInv, OnlyOverwrittenUpdatesAreLost, LooseStays, SnapshotsHold
<1>2. PackInv /\ PackInv' /\ LossInv /\ [PackNext]_packVars => LossInv'
  BY NextLossInv
<1>3. LossInv => OnlyOverwrittenUpdatesAreLost
  BY DEF LossInv
<1> QED BY <1>1, <1>2, <1>3, PackInvariant, PTL DEF PackSpec
=============================================================================

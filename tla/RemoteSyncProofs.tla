-------------------------- MODULE RemoteSyncProofs --------------------------
(***************************************************************************)
(* What clone, fetch, pull and push keep true, for every history: names    *)
(* have their objects, the map is right, a tracking ref names what was     *)
(* there, and a push that is not forced takes nothing away.                *)
(***************************************************************************)
EXTENDS RemoteSync, SequenceTheorems, FiniteSetTheorems, TLAPS

-----------------------------------------------------------------------------
(***************************************************************************)
(* Objects.  What is under an object is what is under its parents, and     *)
(* going down ends.                                                        *)
(***************************************************************************)
Kinds == {"pygit", "plain", "signed", "tag"}

Made(m) ==
    /\ m = Object(m.kind, m.id, m.parents) /\ m.kind \in Kinds
    /\ m.parents \in Seq(m.under)
    /\ m.kind = "tag" => Len(m.parents) = 1
    /\ \A k \in m.under : k.under \subseteq m.under

Founded(n) == \A B \in SUBSET History(n) : B # {} => \E m \in B : m.under \cap B = {}

Whole(n) == Founded(n) /\ \A m \in History(n) : Made(m)

LEMMA Parents ==
    ASSUME NEW m, Made(m)
    PROVE  /\ Range(m.parents) \subseteq m.under
           /\ m.under = UNION {History(k) : k \in Range(m.parents)}
           /\ m.kind = "tag" => Range(m.parents) = {m.parents[1]}
           /\ \A k \in m.under : \E d \in Range(m.parents) : k \in History(d)
<1>1. m.under = Range(m.parents) \cup UNION {k.under : k \in Range(m.parents)}
  BY DEF Made, Object
<1>2. m.under = UNION {History(k) : k \in Range(m.parents)}
  BY <1>1 DEF History
<1>3. ASSUME m.kind = "tag" PROVE Range(m.parents) = {m.parents[1]}
  BY <1>3 DEF Made, Range
<1> QED BY <1>1, <1>2, <1>3 DEF Made

\* A part of a whole history is whole.
LEMMA Parts ==
    ASSUME NEW n, Whole(n), NEW m \in History(n)
    PROVE  Whole(m) /\ History(m) \subseteq History(n) /\ Made(m) /\ m.under \subseteq History(n)
BY DEF Whole, History, Made, Founded

\* The principle of the inductions below: of a set of objects of a history there is a lowest one.
LEMMA Lowest ==
    ASSUME NEW n, Whole(n), NEW B \in SUBSET History(n), B # {}
    PROVE  \E m \in B : m.under \cap B = {}
BY DEF Whole, Founded

\* Nothing is under itself, and two objects under each other are one.
LEMMA NotUnderItself ==
    ASSUME NEW n, Whole(n)
    PROVE  n \notin n.under
BY Lowest DEF History

LEMMA UnderEachOther ==
    ASSUME NEW a, NEW b, Whole(a), a \in History(b), b \in History(a)
    PROVE  a = b
BY NotUnderItself DEF History, Whole, Made

\* An object made from whole ones is whole.
LEMMA NewObject ==
    ASSUME NEW kind \in Kinds, NEW id, NEW S, NEW parents \in Seq(S), \A d \in Range(parents) : Whole(d),
           kind = "tag" => Len(parents) = 1
    PROVE  LET n == Object(kind, id, parents)
           IN  /\ Whole(n)
               /\ History(n) = {n} \cup UNION {History(d) : d \in Range(parents)}
               /\ n.kind = kind /\ n.id = id /\ n.parents = parents
<1> DEFINE n == Object(kind, id, parents)
           P == Range(parents)
<1>1. n.kind = kind /\ n.id = id /\ n.parents = parents
  BY DEF Object
<1>2. n.under = UNION {History(d) : d \in P}
  BY DEF Object, History
<1>3. n = Object(n.kind, n.id, n.parents)
  BY <1>1
<1> HIDE DEF n
<1>4. \A k \in n.under : \E d \in P : k \in History(d)
  BY <1>2
<1>5. \A d \in P : History(d) \subseteq n.under
  BY <1>2
<1>6. \A k \in n.under : Made(k) /\ k.under \subseteq n.under
  BY <1>4, Parts, <1>5
<1>7. n.parents \in Seq(n.under)
  <2>1. P \subseteq n.under
    BY <1>5 DEF History
  <2>2. parents \in Seq(n.under)
    BY <2>1 DEF Range
  <2> QED BY <2>2, <1>1
<1>8. Made(n)
  BY <1>1, <1>3, <1>6, <1>7 DEF Made
<1>9. n \notin n.under
  BY <1>4, <1>5, UnderEachOther, NotUnderItself DEF History
<1>10. Founded(n)
  <2> SUFFICES ASSUME NEW B \in SUBSET History(n), B # {} PROVE \E m \in B : m.under \cap B = {}
    BY DEF Founded
  <2>1. CASE \E d \in P : B \cap History(d) # {}
    <3>1. PICK d \in P : B \cap History(d) # {}
      BY <2>1
    <3>2. B \cap History(d) \in SUBSET History(d)
      OBVIOUS
    <3>3. PICK m \in B \cap History(d) : m.under \cap (B \cap History(d)) = {}
      BY <3>1, <3>2, Lowest
    <3>4. m.under \subseteq History(d)
      BY <3>3, <3>1, Parts
    <3> QED BY <3>3, <3>4
  <2>2. CASE ~ \E d \in P : B \cap History(d) # {}
    BY <2>2, <1>4, <1>9 DEF History
  <2> QED BY <2>1, <2>2
<1>11. History(n) = {n} \cup UNION {History(d) : d \in P}
  BY <1>2 DEF History
<1>12. Whole(n)
  BY <1>6, <1>8, <1>10 DEF Whole, History
<1> QED BY <1>1, <1>11, <1>12 DEF n

-----------------------------------------------------------------------------
(***************************************************************************)
(* Conversions.  Converted is a recursive function over a history; it is   *)
(* what its definition says of an object and of its parents.               *)
(***************************************************************************)
Turned(f, m, kind, known) ==
    IF m \in DOMAIN known THEN known[m]
    ELSE IF m.kind = "tag" THEN f[m.parents[1]]
    ELSE Object(kind, m.id, [i \in DOMAIN m.parents |-> f[m.parents[i]]])

Table(f, n, kind, known) == f = [m \in History(n) |-> Turned(f, m, kind, known)]

LEMMA TurnedAlike ==
    ASSUME NEW m, Made(m), NEW kind, NEW known, NEW f, NEW g, \A d \in Range(m.parents) : f[d] = g[d]
    PROVE  Turned(f, m, kind, known) = Turned(g, m, kind, known)
BY Parents DEF Range, Turned

\* Two tables agree where both are defined.
LEMMA OneTable ==
    ASSUME NEW n, Whole(n), NEW k \in History(n), NEW kind, NEW known, NEW f, NEW g,
           Table(f, n, kind, known), Table(g, k, kind, known)
    PROVE  \A m \in History(k) : f[m] = g[m]
<1> DEFINE B == {m \in History(k) : f[m] # g[m]}
<1>1. Whole(k) /\ History(k) \subseteq History(n)
  BY Parts
<1> SUFFICES ASSUME B # {} PROVE FALSE
  OBVIOUS
<1>2. B \in SUBSET History(k)
  OBVIOUS
<1>3. PICK m \in B : m.under \cap B = {}
  <2> HIDE DEF B
  <2> QED BY <1>1, <1>2, Lowest
<1>4. Made(m) /\ m.under \subseteq History(k)
  BY <1>1, <1>3, Parts
<1>5. \A d \in Range(m.parents) : f[d] = g[d]
  BY <1>3, <1>4, Parents
<1>6. Turned(f, m, kind, known) = Turned(g, m, kind, known)
  BY <1>4, <1>5, TurnedAlike
<1>7. f[m] = Turned(f, m, kind, known)
  BY <1>1, <1>3 DEF Table
<1>8. g[m] = Turned(g, m, kind, known)
  BY <1>3 DEF Table
<1> QED BY <1>3, <1>6, <1>7, <1>8

\* If there is a table, Converted reads from one.
LEMMA ConvertedReads ==
    ASSUME NEW n, NEW kind, NEW known, \E f : Table(f, n, kind, known)
    PROVE  \E f : Table(f, n, kind, known) /\ Converted(n, kind, known) = f[n]
<1> DEFINE Def(f) == f = [m \in History(n) |->
                             IF m \in DOMAIN known THEN known[m]
                             ELSE IF m.kind = "tag" THEN f[m.parents[1]]
                             ELSE Object(kind, m.id, [i \in DOMAIN m.parents |-> f[m.parents[i]]])]
           w == CHOOSE f : Def(f)
<1>1. \A f : Def(f) <=> Table(f, n, kind, known)
  BY DEF Table, Turned
<1>2. Converted(n, kind, known) = w[n]
  BY DEF Converted
<1>3. Def(w)
  <2>1. \E f : Def(f)
    BY <1>1
  <2> HIDE DEF Def
  <2> QED BY <2>1
<1>4. Table(w, n, kind, known)
  <2> HIDE DEF Def, w
  <2> QED BY <1>1, <1>3
<1> QED BY <1>2, <1>4

\* What a table has for an object under another one is what Converted makes of it.
LEMMA TableIsConverted ==
    ASSUME NEW n, Whole(n), NEW k \in History(n), NEW kind, NEW known, NEW f,
           Table(f, n, kind, known), \E g : Table(g, k, kind, known)
    PROVE  f[k] = Converted(k, kind, known)
BY ConvertedReads, OneTable DEF History

LEMMA TableExists ==
    ASSUME NEW n, Whole(n), NEW kind, NEW known
    PROVE  \A m \in History(n) : \E f : Table(f, m, kind, known)
<1> DEFINE B == {m \in History(n) : ~ \E f : Table(f, m, kind, known)}
<1> SUFFICES ASSUME B # {} PROVE FALSE
  OBVIOUS
<1>1. PICK m \in B : m.under \cap B = {}
  <2>1. B \in SUBSET History(n)
    OBVIOUS
  <2> HIDE DEF B
  <2> QED BY <2>1, Lowest
<1>2. Whole(m) /\ m.under \subseteq History(n) /\ Made(m) /\ m \notin m.under
  BY <1>1, Parts, NotUnderItself
<1>3. \A x \in m.under : \E f : Table(f, x, kind, known)
  BY <1>1, <1>2
<1> DEFINE v == [x \in m.under |-> Converted(x, kind, known)]
           g == [x \in History(m) |-> IF x = m THEN Turned(v, m, kind, known) ELSE Converted(x, kind, known)]
<1>4. ASSUME NEW x \in m.under PROVE g[x] = v[x] /\ v[x] = Converted(x, kind, known)
  BY <1>2 DEF History
<1>5. g = [x \in History(m) |-> g[x]]
  OBVIOUS
<1>6. g[m] = Turned(v, m, kind, known)
  BY DEF History
<1> HIDE DEF g, v
<1>7. ASSUME NEW x \in m.under PROVE g[x] = Turned(g, x, kind, known)
  <2>1. Whole(x) /\ Made(x)
    BY <1>2, <1>7, Parts DEF History
  <2>2. PICK f : Table(f, x, kind, known) /\ Converted(x, kind, known) = f[x]
    BY <1>3, ConvertedReads
  <2>3. ASSUME NEW d \in Range(x.parents) PROVE f[d] = g[d]
    <3>1. d \in x.under
      BY <2>1, <2>3, Parents
    <3>2. d \in m.under /\ d \in History(x)
      BY <3>1, <1>2 DEF Made, History
    <3>3. f[d] = Converted(d, kind, known)
      BY <2>1, <2>2, <3>2, <1>3, TableIsConverted
    <3> QED BY <3>2, <3>3, <1>4
  <2>4. Turned(f, x, kind, known) = Turned(g, x, kind, known)
    BY <2>1, <2>3, TurnedAlike
  <2>5. f[x] = Turned(f, x, kind, known)
    BY <2>2 DEF Table, History
  <2> QED BY <2>2, <2>4, <2>5, <1>4
<1>8. g[m] = Turned(g, m, kind, known)
  BY <1>2, <1>4, Parents, <1>6, TurnedAlike
<1>9. \A x \in History(m) : g[x] = Turned(g, x, kind, known)
  BY <1>7, <1>8 DEF History
<1>10. Table(g, m, kind, known)
  BY <1>5, <1>9 DEF Table
<1> QED BY <1>1, <1>10

\* Converted, unfolded once.
LEMMA ConvertedOnce ==
    ASSUME NEW n, Whole(n), NEW kind, NEW known
    PROVE  \E f : /\ \A d \in Range(n.parents) : f[d] = Converted(d, kind, known)
                  /\ Converted(n, kind, known) = Turned(f, n, kind, known)
<1>1. n \in History(n) /\ Made(n) /\ n.under \subseteq History(n)
  BY DEF History, Whole
<1>2. PICK f : Table(f, n, kind, known) /\ Converted(n, kind, known) = f[n]
  BY <1>1, TableExists, ConvertedReads
<1>3. f[n] = Turned(f, n, kind, known)
  BY <1>1, <1>2 DEF Table
<1>4. ASSUME NEW d \in Range(n.parents) PROVE f[d] = Converted(d, kind, known)
  <2>1. d \in History(n)
    BY <1>1, Parents
  <2>2. \E g : Table(g, d, kind, known)
    BY <2>1, TableExists
  <2> QED BY <1>2, <2>1, <2>2, TableIsConverted
<1> QED BY <1>2, <1>3, <1>4

LEMMA ConvertedKnown ==
    ASSUME NEW n, Whole(n), NEW kind, NEW known, n \in DOMAIN known
    PROVE  Converted(n, kind, known) = known[n]
BY ConvertedOnce DEF Turned

LEMMA ConvertedTag ==
    ASSUME NEW n, Whole(n), NEW kind, NEW known, n \notin DOMAIN known, n.kind = "tag"
    PROVE  Converted(n, kind, known) = Converted(n.parents[1], kind, known)
<1>1. PICK f : /\ \A d \in Range(n.parents) : f[d] = Converted(d, kind, known)
               /\ Converted(n, kind, known) = Turned(f, n, kind, known)
  BY ConvertedOnce
<1>2. n.parents[1] \in Range(n.parents)
  <2>1. Made(n)
    BY DEF Whole, History
  <2> QED BY <2>1, Parents
<1> QED BY <1>1, <1>2 DEF Turned

LEMMA ConvertedOther ==
    ASSUME NEW n, Whole(n), NEW kind, NEW known, n \notin DOMAIN known, n.kind # "tag"
    PROVE  Converted(n, kind, known) = Object(kind, n.id, [i \in DOMAIN n.parents |-> Converted(n.parents[i], kind, known)])
<1>1. PICK f : /\ \A d \in Range(n.parents) : f[d] = Converted(d, kind, known)
               /\ Converted(n, kind, known) = Turned(f, n, kind, known)
  BY ConvertedOnce
<1>2. [i \in DOMAIN n.parents |-> f[n.parents[i]]] = [i \in DOMAIN n.parents |-> Converted(n.parents[i], kind, known)]
  BY <1>1 DEF Range
<1> QED BY <1>1, <1>2 DEF Turned

\* The walk of a conversion, in the same way.
Met(f, m, known) == {m} \cup IF m \in known THEN {} ELSE UNION {f[d] : d \in Range(m.parents)}

Meets(f, n, known) == f = [m \in History(n) |-> Met(f, m, known)]

LEMMA MetAlike ==
    ASSUME NEW m, NEW known, NEW f, NEW g, \A d \in Range(m.parents) : f[d] = g[d]
    PROVE  Met(f, m, known) = Met(g, m, known)
BY DEF Met

LEMMA OneWalk ==
    ASSUME NEW n, Whole(n), NEW k \in History(n), NEW known, NEW f, NEW g, Meets(f, n, known), Meets(g, k, known)
    PROVE  \A m \in History(k) : f[m] = g[m]
<1> DEFINE B == {m \in History(k) : f[m] # g[m]}
<1>1. Whole(k) /\ History(k) \subseteq History(n)
  BY Parts
<1> SUFFICES ASSUME B # {} PROVE FALSE
  OBVIOUS
<1>2. B \in SUBSET History(k)
  OBVIOUS
<1>3. PICK m \in B : m.under \cap B = {}
  <2> HIDE DEF B
  <2> QED BY <1>1, <1>2, Lowest
<1>4. Made(m) /\ m.under \subseteq History(k)
  BY <1>1, <1>3, Parts
<1>5. \A d \in Range(m.parents) : f[d] = g[d]
  BY <1>3, <1>4, Parents
<1>6. Met(f, m, known) = Met(g, m, known)
  BY <1>5, MetAlike
<1>7. f[m] = Met(f, m, known)
  BY <1>1, <1>3 DEF Meets
<1>8. g[m] = Met(g, m, known)
  BY <1>3 DEF Meets
<1> QED BY <1>3, <1>6, <1>7, <1>8

LEMMA WalkedReads ==
    ASSUME NEW n, NEW known, \E f : Meets(f, n, known)
    PROVE  \E f : Meets(f, n, known) /\ Walked(n, known) = f[n]
<1> DEFINE Def(f) == f = [m \in History(n) |->
                             {m} \cup IF m \in known THEN {} ELSE UNION {f[d] : d \in Range(m.parents)}]
           w == CHOOSE f : Def(f)
<1>1. \A f : Def(f) <=> Meets(f, n, known)
  BY DEF Meets, Met
<1>2. Walked(n, known) = w[n]
  BY DEF Walked
<1>3. Def(w)
  <2>1. \E f : Def(f)
    BY <1>1
  <2> HIDE DEF Def
  <2> QED BY <2>1
<1>4. Meets(w, n, known)
  <2> HIDE DEF Def, w
  <2> QED BY <1>1, <1>3
<1> QED BY <1>2, <1>4

LEMMA WalkIsWalked ==
    ASSUME NEW n, Whole(n), NEW k \in History(n), NEW known, NEW f, Meets(f, n, known), \E g : Meets(g, k, known)
    PROVE  f[k] = Walked(k, known)
BY WalkedReads, OneWalk DEF History

LEMMA WalkExists ==
    ASSUME NEW n, Whole(n), NEW known
    PROVE  \A m \in History(n) : \E f : Meets(f, m, known)
<1> DEFINE B == {m \in History(n) : ~ \E f : Meets(f, m, known)}
<1> SUFFICES ASSUME B # {} PROVE FALSE
  OBVIOUS
<1>1. PICK m \in B : m.under \cap B = {}
  <2>1. B \in SUBSET History(n)
    OBVIOUS
  <2> HIDE DEF B
  <2> QED BY <2>1, Lowest
<1>2. Whole(m) /\ m.under \subseteq History(n) /\ Made(m) /\ m \notin m.under
  BY <1>1, Parts, NotUnderItself
<1>3. \A x \in m.under : \E f : Meets(f, x, known)
  BY <1>1, <1>2
<1> DEFINE v == [x \in m.under |-> Walked(x, known)]
           g == [x \in History(m) |-> IF x = m THEN Met(v, m, known) ELSE Walked(x, known)]
<1>4. ASSUME NEW x \in m.under PROVE g[x] = v[x] /\ v[x] = Walked(x, known)
  BY <1>2 DEF History
<1>5. g = [x \in History(m) |-> g[x]]
  OBVIOUS
<1>6. g[m] = Met(v, m, known)
  BY DEF History
<1> HIDE DEF g, v
<1>7. ASSUME NEW x \in m.under PROVE g[x] = Met(g, x, known)
  <2>1. Whole(x) /\ Made(x)
    BY <1>2, <1>7, Parts DEF History
  <2>2. PICK f : Meets(f, x, known) /\ Walked(x, known) = f[x]
    BY <1>3, WalkedReads
  <2>3. ASSUME NEW d \in Range(x.parents) PROVE f[d] = g[d]
    <3>1. d \in x.under
      BY <2>1, <2>3, Parents
    <3>2. d \in m.under /\ d \in History(x)
      BY <3>1, <1>2 DEF Made, History
    <3>3. f[d] = Walked(d, known)
      BY <2>1, <2>2, <3>2, <1>3, WalkIsWalked
    <3> QED BY <3>2, <3>3, <1>4
  <2>4. Met(f, x, known) = Met(g, x, known)
    BY <2>3, MetAlike
  <2>5. f[x] = Met(f, x, known)
    BY <2>2 DEF Meets, History
  <2> QED BY <2>2, <2>4, <2>5, <1>4
<1>8. g[m] = Met(g, m, known)
  BY <1>2, <1>4, Parents, <1>6, MetAlike
<1>9. \A x \in History(m) : g[x] = Met(g, x, known)
  BY <1>7, <1>8 DEF History
<1>10. Meets(g, m, known)
  BY <1>5, <1>9 DEF Meets
<1> QED BY <1>1, <1>10

\* Walked, unfolded once.
LEMMA WalkedOnce ==
    ASSUME NEW n, Whole(n), NEW known
    PROVE  Walked(n, known) = {n} \cup IF n \in known THEN {} ELSE UNION {Walked(d, known) : d \in Range(n.parents)}
<1>1. n \in History(n) /\ Made(n) /\ n.under \subseteq History(n)
  BY DEF History, Whole
<1>2. PICK f : Meets(f, n, known) /\ Walked(n, known) = f[n]
  BY <1>1, WalkExists, WalkedReads
<1>3. f[n] = Met(f, n, known)
  BY <1>1, <1>2 DEF Meets
<1>4. ASSUME NEW d \in Range(n.parents) PROVE f[d] = Walked(d, known)
  <2>1. d \in History(n)
    BY <1>1, Parents
  <2>2. \E g : Meets(g, d, known)
    BY <2>1, WalkExists
  <2> QED BY <1>2, <2>1, <2>2, WalkIsWalked
<1>5. {f[d] : d \in Range(n.parents)} = {Walked(d, known) : d \in Range(n.parents)}
  BY <1>4
<1> QED BY <1>2, <1>3, <1>5 DEF Met

-----------------------------------------------------------------------------
(***************************************************************************)
(* What importing keeps: the history of the commit an object becomes is    *)
(* what becomes of its history, whatever was known before, and exporting   *)
(* is undone by it.                                                        *)
(***************************************************************************)
Imp(n) == Imported(n, <<>>)

Ours(c) == Whole(c) /\ \A m \in History(c) : m.kind = "pygit"

LEMMA ImportedOnce ==
    ASSUME NEW n, Whole(n)
    PROVE  /\ n.kind = "tag" => Imp(n) = Imp(n.parents[1])
           /\ n.kind # "tag" => Imp(n) = Object("pygit", n.id, [i \in DOMAIN n.parents |-> Imp(n.parents[i])])
BY ConvertedTag, ConvertedOther DEF Imp, Imported

\* A commit of parents that are ours is ours.
LEMMA NewCommit ==
    ASSUME NEW id, NEW S, NEW parents \in Seq(S), \A d \in Range(parents) : Ours(d)
    PROVE  LET c == Object("pygit", id, parents)
           IN  /\ Ours(c)
               /\ History(c) = {c} \cup UNION {History(d) : d \in Range(parents)}
<1> DEFINE c == Object("pygit", id, parents)
<1>1. \A d \in Range(parents) : Whole(d)
  BY DEF Ours
<1>2. Whole(c) /\ History(c) = {c} \cup UNION {History(d) : d \in Range(parents)} /\ c.kind = "pygit"
  BY <1>1, NewObject DEF Kinds
<1> HIDE DEF c
<1>3. Ours(c)
  BY <1>2 DEF Ours
<1> QED BY <1>2, <1>3 DEF c

LEMMA ImportedHistory ==
    ASSUME NEW n, Whole(n)
    PROVE  Ours(Imp(n)) /\ History(Imp(n)) = {Imp(m) : m \in History(n)}
<1> DEFINE Good(x) == Ours(Imp(x)) /\ History(Imp(x)) = {Imp(m) : m \in History(x)}
           B == {x \in History(n) : ~ Good(x)}
<1> SUFFICES ASSUME B # {} PROVE FALSE
  BY DEF History
<1>1. PICK x \in B : x.under \cap B = {}
  <2>1. B \in SUBSET History(n)
    OBVIOUS
  <2> HIDE DEF B
  <2> QED BY <2>1, Lowest
<1>2. Whole(x) /\ Made(x) /\ x.under \subseteq History(n)
  BY <1>1, Parts
<1>3. \A d \in Range(x.parents) : Good(d)
  BY <1>1, <1>2, Parents
<1>4. History(x) = {x} \cup UNION {History(d) : d \in Range(x.parents)}
  BY <1>2, Parents DEF History
<1>5. ~ Good(x)
  BY <1>1
<1> HIDE DEF B
<1>6. CASE x.kind = "tag"
  <2> DEFINE d == x.parents[1]
  <2>1. Range(x.parents) = {d}
    BY <1>2, <1>6, Parents
  <2>2. Imp(x) = Imp(d)
    BY <1>2, <1>6, ImportedOnce
  <2>3. History(x) = {x} \cup History(d) /\ d \in History(d)
    BY <2>1, <1>4 DEF History
  <2>4. Good(d)
    BY <2>1, <1>3
  <2> HIDE DEF d
  <2>5. {Imp(m) : m \in History(x)} = {Imp(m) : m \in History(d)}
    BY <2>2, <2>3
  <2> QED BY <2>2, <2>4, <2>5, <1>5
<1>7. CASE x.kind # "tag"
  <2> DEFINE ps == [i \in DOMAIN x.parents |-> Imp(x.parents[i])]
  <2>1. Imp(x) = Object("pygit", x.id, ps)
    BY <1>2, <1>7, ImportedOnce
  <2>2. Range(ps) = {Imp(d) : d \in Range(x.parents)}
    BY DEF Range
  <2>3. ps \in Seq(Range(ps))
    BY <1>2 DEF Made, Range
  <2> HIDE DEF ps
  <2>4. \A e \in Range(ps) : Ours(e)
    BY <2>2, <1>3
  <2>5. Ours(Imp(x)) /\ History(Imp(x)) = {Imp(x)} \cup UNION {History(e) : e \in Range(ps)}
    BY <2>1, <2>3, <2>4, NewCommit
  <2>6. UNION {History(e) : e \in Range(ps)} = {Imp(m) : m \in UNION {History(d) : d \in Range(x.parents)}}
    <3>1. \A d \in Range(x.parents) : History(Imp(d)) = {Imp(m) : m \in History(d)}
      BY <1>3
    <3>2. ASSUME NEW e \in Range(ps), NEW k \in History(e)
          PROVE  k \in {Imp(m) : m \in UNION {History(d) : d \in Range(x.parents)}}
      BY <2>2, <3>2, <3>1
    <3>3. ASSUME NEW d \in Range(x.parents), NEW m \in History(d)
          PROVE  Imp(m) \in UNION {History(e) : e \in Range(ps)}
      BY <2>2, <3>1, <3>3
    <3> QED BY <3>2, <3>3
  <2>7. History(Imp(x)) = {Imp(m) : m \in History(x)}
    BY <2>5, <2>6, <1>4
  <2> QED BY <2>5, <2>7, <1>5
<1> QED BY <1>6, <1>7

\* It does not matter what was known, as long as it was right.
LEMMA ImportedKnown ==
    ASSUME NEW n, Whole(n), NEW known, \A k \in DOMAIN known : known[k] = Imp(k)
    PROVE  Imported(n, known) = Imp(n)
<1> DEFINE B == {x \in History(n) : Imported(x, known) # Imp(x)}
<1> SUFFICES ASSUME B # {} PROVE FALSE
  BY DEF History
<1>1. PICK x \in B : x.under \cap B = {}
  <2>1. B \in SUBSET History(n)
    OBVIOUS
  <2> HIDE DEF B
  <2> QED BY <2>1, Lowest
<1>2. Whole(x) /\ Made(x) /\ x.under \subseteq History(n)
  BY <1>1, Parts
<1>3. \A d \in Range(x.parents) : Imported(d, known) = Imp(d)
  BY <1>1, <1>2, Parents
<1>4. Imported(x, known) # Imp(x)
  BY <1>1
<1> HIDE DEF B
<1>5. CASE x \in DOMAIN known
  BY <1>2, <1>4, <1>5, ConvertedKnown DEF Imported
<1>6. CASE x \notin DOMAIN known /\ x.kind = "tag"
  <2>1. x.parents[1] \in Range(x.parents)
    BY <1>2, <1>6, Parents
  <2>2. Imported(x, known) = Imported(x.parents[1], known)
    BY <1>2, <1>6, ConvertedTag DEF Imported
  <2> QED BY <1>2, <1>3, <1>4, <1>6, <2>1, <2>2, ImportedOnce
<1>7. CASE x \notin DOMAIN known /\ x.kind # "tag"
  <2>1. Imported(x, known) = Object("pygit", x.id, [i \in DOMAIN x.parents |-> Imported(x.parents[i], known)])
    BY <1>2, <1>7, ConvertedOther DEF Imported
  <2>2. Imp(x) = Object("pygit", x.id, [i \in DOMAIN x.parents |-> Imp(x.parents[i])])
    BY <1>2, <1>7, ImportedOnce
  <2>3. \A i \in DOMAIN x.parents : Imported(x.parents[i], known) = Imp(x.parents[i])
    BY <1>3 DEF Range
  <2>4. [i \in DOMAIN x.parents |-> Imported(x.parents[i], known)] = [i \in DOMAIN x.parents |-> Imp(x.parents[i])]
    BY <2>3
  <2> QED BY <2>1, <2>2, <2>4, <1>4
<1> QED BY <1>5, <1>6, <1>7

\* Exporting a commit and importing what came of it gives the commit back.
LEMMA ExportedComesBack ==
    ASSUME NEW c, Ours(c), NEW m, NEW K, \A d \in K : Whole(m[d]) /\ Imp(m[d]) = d
    PROVE  Whole(Exported(c, m, K)) /\ Imp(Exported(c, m, K)) = c
<1> DEFINE Good(x) == Whole(Exported(x, m, K)) /\ Imp(Exported(x, m, K)) = x
           B == {x \in History(c) : ~ Good(x)}
           known == [h \in K |-> m[h]]
<1> SUFFICES ASSUME B # {} PROVE FALSE
  BY DEF History
<1>0. Whole(c) /\ \A x \in History(c) : x.kind = "pygit"
  BY DEF Ours
<1>1. PICK x \in B : x.under \cap B = {}
  <2>1. B \in SUBSET History(c)
    OBVIOUS
  <2> HIDE DEF B
  <2> QED BY <1>0, <2>1, Lowest
<1>2. Whole(x) /\ Made(x) /\ x.under \subseteq History(c)
  BY <1>0, <1>1, Parts
<1>3. \A d \in Range(x.parents) : Good(d)
  BY <1>1, <1>2, Parents
<1>4. ~ Good(x) /\ x.kind = "pygit"
  BY <1>0, <1>1
<1> HIDE DEF B
<1>5. CASE x \in K
  BY <1>5, <1>2, ConvertedKnown, <1>4 DEF Exported
<1>6. CASE x \notin K
  <2> DEFINE ps == [i \in DOMAIN x.parents |-> Exported(x.parents[i], m, K)]
  <2>1. Exported(x, m, K) = Object("plain", x.id, ps)
    BY <1>4, <1>6, <1>2, ConvertedOther DEF Exported
  <2>2. Range(ps) = {Exported(d, m, K) : d \in Range(x.parents)}
    BY DEF Range
  <2>3. DOMAIN x.parents = 1..Len(x.parents) /\ Len(x.parents) \in Nat
    BY <1>2 DEF Made
  <2>4. ps \in Seq(Range(ps))
    BY <2>3 DEF Range
  <2>5. DOMAIN ps = DOMAIN x.parents /\ \A i \in DOMAIN x.parents : Imp(ps[i]) = x.parents[i]
    BY <1>3 DEF Range
  <2>6. \A e \in Range(ps) : Whole(e)
    BY <2>2, <1>3
  <2> HIDE DEF ps
  <2>7. LET n == Object("plain", x.id, ps)
        IN  Whole(n) /\ n.kind = "plain" /\ n.id = x.id /\ n.parents = ps
    BY <2>4, <2>6, NewObject DEF Kinds
  <2> DEFINE n == Object("plain", x.id, ps)
  <2>8. Imp(n) = Object("pygit", x.id, [i \in DOMAIN ps |-> Imp(ps[i])])
    <3>1. Whole(n) /\ n.kind # "tag" /\ n.id = x.id /\ n.parents = ps
      BY <2>7
    <3> HIDE DEF n
    <3> QED BY <3>1, ImportedOnce
  <2>9. [i \in DOMAIN ps |-> Imp(ps[i])] = x.parents
    BY <1>2, <2>5 DEF Made
  <2>10. x = Object("pygit", x.id, x.parents)
    BY <1>2, <1>4 DEF Made
  <2> QED BY <2>1, <2>7, <2>8, <2>9, <2>10, <1>4
<1> QED BY <1>5, <1>6

\* A walk meets nothing outside the history, and all of it but what the objects known stand for.
LEMMA WalkedCovers ==
    ASSUME NEW n, Whole(n), NEW K
    PROVE  /\ n \in Walked(n, K) /\ Walked(n, K) \subseteq History(n)
           /\ \A k \in History(n) : k \in Walked(n, K) \/ \E e \in Walked(n, K) \cap K : k \in History(e)
<1> DEFINE Good(x) == /\ Walked(x, K) \subseteq History(x)
                      /\ \A k \in History(x) : k \in Walked(x, K) \/ \E e \in Walked(x, K) \cap K : k \in History(e)
           B == {x \in History(n) : ~ Good(x)}
<1>0. n \in Walked(n, K)
  BY WalkedOnce
<1> SUFFICES ASSUME B # {} PROVE FALSE
  BY <1>0 DEF History
<1>1. PICK x \in B : x.under \cap B = {}
  <2>1. B \in SUBSET History(n)
    OBVIOUS
  <2> HIDE DEF B
  <2> QED BY <2>1, Lowest
<1>2. Whole(x) /\ Made(x) /\ x.under \subseteq History(n)
  BY <1>1, Parts
<1>3. \A d \in Range(x.parents) : Good(d)
  BY <1>1, <1>2, Parents
<1>4. History(x) = {x} \cup UNION {History(d) : d \in Range(x.parents)}
  BY <1>2, Parents DEF History
<1>5. ~ Good(x)
  BY <1>1
<1> HIDE DEF B
<1>6. CASE x \in K
  BY <1>2, <1>6, WalkedOnce, <1>4, <1>5
<1>7. CASE x \notin K
  <2>1. Walked(x, K) = {x} \cup UNION {Walked(d, K) : d \in Range(x.parents)}
    BY <1>2, <1>7, WalkedOnce
  <2>2. Walked(x, K) \subseteq History(x)
    BY <2>1, <1>3, <1>4
  <2>3. ASSUME NEW k \in History(x)
        PROVE  k \in Walked(x, K) \/ \E e \in Walked(x, K) \cap K : k \in History(e)
    <3>1. CASE k = x
      BY <3>1, <2>1
    <3>2. CASE k # x
      BY <3>2, <1>4, <2>1, <1>3
    <3> QED BY <3>1, <3>2
  <2> QED BY <2>2, <2>3, <1>5
<1> QED BY <1>6, <1>7

\* What comes of the commits a push walks is in the history of what comes of its head.
LEMMA ExportedReaches ==
    ASSUME NEW h, Ours(h), NEW m, NEW K, \A d \in K : Whole(m[d]) /\ Imp(m[d]) = d
    PROVE  \A c \in Walked(h, K) : Exported(c, m, K) \in History(Exported(h, m, K))
<1> DEFINE Good(x) == \A c \in Walked(x, K) : Exported(c, m, K) \in History(Exported(x, m, K))
           B == {x \in History(h) : ~ Good(x)}
           known == [d \in K |-> m[d]]
<1> SUFFICES ASSUME B # {} PROVE FALSE
  BY DEF History
<1>0. Whole(h) /\ \A x \in History(h) : x.kind = "pygit"
  BY DEF Ours
<1>1. PICK x \in B : x.under \cap B = {}
  <2>1. B \in SUBSET History(h)
    OBVIOUS
  <2> HIDE DEF B
  <2> QED BY <1>0, <2>1, Lowest
<1>2. Whole(x) /\ Made(x) /\ x.under \subseteq History(h)
  BY <1>0, <1>1, Parts
<1>3. \A d \in Range(x.parents) : Good(d)
  BY <1>1, <1>2, Parents
<1>4. ~ Good(x) /\ x.kind = "pygit"
  BY <1>0, <1>1
<1> HIDE DEF B
<1>5. PICK c \in Walked(x, K) : Exported(c, m, K) \notin History(Exported(x, m, K))
  BY <1>4
<1>6. c # x
  BY <1>5 DEF History
<1>7. x \notin K /\ \E d \in Range(x.parents) : c \in Walked(d, K)
  BY <1>2, <1>5, <1>6, WalkedOnce
<1>8. PICK d \in Range(x.parents) : c \in Walked(d, K)
  BY <1>7
<1>9. Exported(c, m, K) \in History(Exported(d, m, K))
  BY <1>3, <1>8
<1> DEFINE ps == [i \in DOMAIN x.parents |-> Exported(x.parents[i], m, K)]
<1>10. Exported(x, m, K) = Object("plain", x.id, ps)
  BY <1>4, <1>7, <1>2, ConvertedOther DEF Exported
<1>11. Exported(d, m, K) \in Range(ps)
  BY DEF Range
<1> HIDE DEF ps
<1>12. History(Exported(d, m, K)) \subseteq History(Exported(x, m, K))
  BY <1>10, <1>11 DEF Object, History
<1> QED BY <1>5, <1>9, <1>12
-----------------------------------------------------------------------------
(***************************************************************************)
(* The inductive invariant.  What is pending in a job is right for the     *)
(* objects stored, those on the server and what its branches have been by  *)
(* now; all of these only grow.                                            *)
(***************************************************************************)
PlainOn(N) == \A m, n \in N : Imp(m) = Imp(n) => m = n

\* A map names commits stored and native objects there are, is right, and is closed if they are plain.
MapOf(m, O, N) ==
    /\ \A c \in DOMAIN m : c \in O /\ m[c] \in N /\ Imp(m[c]) = c
    /\ PlainOn(N) => \A c \in DOMAIN m : History(m[c]) \subseteq Range(m)

\* The commit is what a branch of the server was.
Was(b, c, P) == \E n \in P[b] : Imp(n) = c

Bound(w, O, N, P) ==
    CASE w.file = "map" -> w.key \in Remotes /\ MapOf(w.value, O, N)
      [] w.file = "tracking" -> /\ w.value \in O
                                /\ \E r \in Remotes, b \in Branches : w.key = <<r, b>> /\ Was(b, w.value, P)
      [] w.file = "tag" -> w.key \in Tags /\ w.value \in O
      [] w.file = "head" -> w.key \in Branches /\ w.value \in O
      [] w.file = "current" -> w.value \in Branches
      [] w.file = "config" -> w.value \subseteq Remotes
      [] w.file = "untrack" -> w.key \in Remotes
      [] w.file \in {"move", "remap"} -> w.key \in Remotes /\ w.value \in Remotes
      [] OTHER -> FALSE

Bounds(todo, O, N, P) == todo \in Seq(Range(todo)) /\ \A w \in Range(todo) : Bound(w, O, N, P)

\* Objects are written first.
Pending(todo, O, N, P) ==
    \/ Bounds(todo, O, N, P)
    \/ /\ todo # <<>> /\ todo \in Seq(Range(todo)) /\ Head(todo).file = "objects"
       /\ \A c \in Head(todo).value : Ours(c) /\ History(c) \subseteq O \cup Head(todo).value
       /\ Bounds(Tail(todo), O \cup Head(todo).value, N, P)

Follows(then) ==
    \/ then = <<>>
    \/ \E r \in Remotes, b \in Branches : then = <<"merge", r, b>>
    \/ \E r \in Remotes : then = <<"adopt", r>>

Fetching(j, O, N, P) ==
    /\ j.remote \in Remotes /\ j.config \subseteq Remotes /\ Follows(j.then)
    /\ DOMAIN j.adv = Branches \cup Tags
    /\ \A x \in Branches \cup Tags : j.adv[x] # None => j.adv[x] \in N
    /\ \A b \in Branches : j.adv[b] # None => j.adv[b] \in P[b]
    /\ MapOf(j.map, O, N)

Sending(j, O, N, P) ==
    /\ j.remote \in Remotes /\ j.branch \in Branches
    /\ j.head \in O /\ Whole(j.new) /\ Imp(j.new) = j.head
    /\ ~ j.force /\ j.old # None => j.old \in History(j.new)
    /\ MapOf(j.map, O, N \cup History(j.new))

Task(j, O, N, P) ==
    \/ j.at = "end" \/ j.at = "missing"
    \/ j.at = "fetch" /\ Fetching(j, O, N, P)
    \/ j.at = "send" /\ Sending(j, O, N, P)
    \/ j.at = "write" /\ Pending(j.todo, O, N, P) /\ Follows(j.then)

ServerGood(s) ==
    /\ s \in [branches : [Branches -> s.objects \cup {None}], tags : [Tags -> s.objects \cup {None}],
              objects : SUBSET s.objects, past : [Branches -> SUBSET s.objects]]
    /\ \A b \in Branches : s.branches[b] # None => s.branches[b] \in s.past[b]
    /\ \A n \in s.objects : Whole(n) /\ History(n) \subseteq s.objects

FilesOK ==
    /\ \A c \in objects : Ours(c) /\ History(c) \subseteq objects
    /\ heads \in [Branches -> objects \cup {None}] /\ current \in Branches
    /\ tags \in [Tags -> objects \cup {None}] /\ config \subseteq Remotes
    /\ tracking \in [Remotes -> [Branches -> objects \cup {None}]]
    /\ \A r \in Remotes, b \in Branches : tracking[r][b] # None => Was(b, tracking[r][b], server.past)
    /\ map = [r \in Remotes |-> map[r]]
    /\ \A r \in Remotes : MapOf(map[r], objects, server.objects)

JobsOK ==
    /\ job = [x \in Procs |-> job[x]]
    /\ \A x \in Procs : Task(job[x], objects, server.objects, server.past)

IInv == ServerGood(server) /\ FilesOK /\ JobsOK

-----------------------------------------------------------------------------
(***************************************************************************)
(* Nothing that is right for the objects and branches there are stops      *)
(* being right when there are more.                                        *)
(***************************************************************************)
More(O, N, P, O2, N2, P2) == O \subseteq O2 /\ N \subseteq N2 /\ \A b \in Branches : P[b] \subseteq P2[b]

LEMMA MapGrows ==
    ASSUME NEW m, NEW O, NEW N, NEW O2, NEW N2, MapOf(m, O, N), O \subseteq O2, N \subseteq N2
    PROVE  MapOf(m, O2, N2)
BY DEF MapOf, PlainOn

LEMMA BoundGrows ==
    ASSUME NEW w, NEW O, NEW N, NEW P, NEW O2, NEW N2, NEW P2, More(O, N, P, O2, N2, P2), Bound(w, O, N, P)
    PROVE  Bound(w, O2, N2, P2)
<1>1. CASE w.file = "map"
  BY <1>1, MapGrows DEF Bound, More
<1>2. CASE w.file = "tracking"
  BY <1>2 DEF Bound, More, Was
<1>3. CASE w.file \notin {"map", "tracking"}
  BY <1>3 DEF Bound, More
<1> QED BY <1>1, <1>2, <1>3

LEMMA BoundsGrow ==
    ASSUME NEW s, NEW O, NEW N, NEW P, NEW O2, NEW N2, NEW P2, More(O, N, P, O2, N2, P2), Bounds(s, O, N, P)
    PROVE  Bounds(s, O2, N2, P2)
BY BoundGrows DEF Bounds

LEMMA PendingGrows ==
    ASSUME NEW s, NEW O, NEW N, NEW P, NEW O2, NEW N2, NEW P2, More(O, N, P, O2, N2, P2), Pending(s, O, N, P)
    PROVE  Pending(s, O2, N2, P2)
<1>1. CASE Bounds(s, O, N, P)
  BY <1>1, BoundsGrow DEF Pending
<1>2. CASE ~ Bounds(s, O, N, P)
  <2> DEFINE v == Head(s).value
  <2>1. /\ s # <<>> /\ s \in Seq(Range(s)) /\ Head(s).file = "objects"
        /\ \A c \in v : Ours(c) /\ History(c) \subseteq O \cup v
        /\ Bounds(Tail(s), O \cup v, N, P)
    BY <1>2 DEF Pending
  <2>2. More(O \cup v, N, P, O2 \cup v, N2, P2) /\ \A c \in v : History(c) \subseteq O2 \cup v
    BY <2>1 DEF More
  <2>3. Bounds(Tail(s), O2 \cup v, N2, P2)
    BY <2>1, <2>2, BoundsGrow
  <2> QED BY <2>1, <2>2, <2>3 DEF Pending
<1> QED BY <1>1, <1>2

LEMMA TaskGrows ==
    ASSUME NEW j, NEW O, NEW N, NEW P, NEW O2, NEW N2, NEW P2, More(O, N, P, O2, N2, P2), Task(j, O, N, P)
    PROVE  Task(j, O2, N2, P2)
<1>1. CASE j.at = "end" \/ j.at = "missing"
  BY <1>1 DEF Task
<1>2. CASE j.at = "fetch" /\ Fetching(j, O, N, P)
  BY <1>2, MapGrows DEF More, Fetching, Task
<1>3. CASE j.at = "send" /\ Sending(j, O, N, P)
  <2>1. MapOf(j.map, O2, N2 \cup History(j.new))
    BY <1>3, MapGrows DEF More, Sending
  <2>2. Sending(j, O2, N2, P2)
    BY <1>3, <2>1 DEF More, Sending
  <2> QED BY <1>3, <2>2 DEF Task
<1>4. CASE j.at = "write" /\ Pending(j.todo, O, N, P) /\ Follows(j.then)
  BY <1>4, PendingGrows DEF Task
<1> QED BY <1>1, <1>2, <1>3, <1>4 DEF Task

\* The tasks of all processes, when one of them gets a new one.
LEMMA TasksKept ==
    ASSUME JobsOK, NEW O2, NEW N2, NEW P2, More(objects, server.objects, server.past, O2, N2, P2),
           NEW p \in Procs, NEW j, Task(j, O2, N2, P2)
    PROVE  LET jobs == [job EXCEPT ![p] = j]
           IN  jobs = [x \in Procs |-> jobs[x]] /\ \A x \in Procs : Task(jobs[x], O2, N2, P2)
BY TaskGrows DEF JobsOK

LEMMA IdleTask ==
    ASSUME NEW O, NEW N, NEW P
    PROVE  Task(Idle, O, N, P)
BY DEF Task, Idle

\* A process that has writes left, or something to do after them, or nothing.
LEMMA WritingTask ==
    ASSUME NEW todo, NEW then, NEW O, NEW N, NEW P, Pending(todo, O, N, P), Follows(then)
    PROVE  Task(IF todo = <<>> /\ then = <<>> THEN Idle ELSE [at |-> "write", todo |-> todo, then |-> then], O, N, P)
<1> DEFINE j == [at |-> "write", todo |-> todo, then |-> then]
<1>1. j.at = "write" /\ j.todo = todo /\ j.then = then
  OBVIOUS
<1> HIDE DEF j
<1>2. Task(j, O, N, P)
  BY <1>1 DEF Task
<1> QED BY <1>2, IdleTask DEF j

LEMMA SeqOfItsOwn ==
    ASSUME NEW S, NEW u \in Seq(S)
    PROVE  u \in Seq(Range(u))
BY SeqDef DEF Range

LEMMA OneWrite ==
    ASSUME NEW file, NEW key, NEW value, NEW O, NEW N, NEW P,
           Bound([file |-> file, key |-> key, value |-> value], O, N, P)
    PROVE  Bounds(Write(file, key, value), O, N, P)
<1> DEFINE w == [file |-> file, key |-> key, value |-> value]
<1>1. Write(file, key, value) = <<w>>
  BY DEF Write
<1> HIDE DEF w
<1>2. Range(<<w>>) = {w} /\ <<w>> \in Seq({w})
  BY DEF Range
<1> QED BY <1>1, <1>2 DEF Bounds, w

LEMMA MoreWrites ==
    ASSUME NEW s, NEW t, NEW O, NEW N, NEW P, Bounds(s, O, N, P), Bounds(t, O, N, P)
    PROVE  Bounds(s \o t, O, N, P)
<1> DEFINE S == Range(s) \cup Range(t)
<1>1. s \in Seq(S) /\ t \in Seq(S)
  BY DEF Bounds
<1>2. s \o t \in Seq(S) /\ Range(s \o t) \subseteq S
  BY <1>1 DEF Range
<1>3. s \o t \in Seq(Range(s \o t))
  BY <1>2, SeqOfItsOwn
<1> QED BY <1>2, <1>3 DEF Bounds

-----------------------------------------------------------------------------
(***************************************************************************)
(* The server and the others.                                              *)
(***************************************************************************)
LEMMA ServerParts ==
    ASSUME NEW s, ServerGood(s)
    PROVE  /\ s.branches \in [Branches -> s.objects \cup {None}] /\ s.tags \in [Tags -> s.objects \cup {None}]
           /\ s.past \in [Branches -> SUBSET s.objects]
           /\ \A n \in s.objects : Whole(n) /\ History(n) \subseteq s.objects
           /\ \A b \in Branches : s.branches[b] # None => s.branches[b] \in s.past[b]
           /\ s = [branches |-> s.branches, tags |-> s.tags, objects |-> s.objects, past |-> s.past]
BY DEF ServerGood

LEMMA Single ==
    ASSUME NEW S, NEW x \in S
    PROVE  <<x>> \in Seq(S) /\ Range(<<x>>) = {x} /\ Len(<<x>>) = 1
BY DEF Range

LEMMA ServerOf ==
    ASSUME NEW B, NEW T, NEW N, NEW P,
           B \in [Branches -> N \cup {None}], T \in [Tags -> N \cup {None}], P \in [Branches -> SUBSET N],
           \A n \in N : Whole(n) /\ History(n) \subseteq N,
           \A b \in Branches : B[b] # None => B[b] \in P[b]
    PROVE  ServerGood([branches |-> B, tags |-> T, objects |-> N, past |-> P])
<1> DEFINE s == [branches |-> B, tags |-> T, objects |-> N, past |-> P]
<1>1. s.branches = B /\ s.tags = T /\ s.objects = N /\ s.past = P
  OBVIOUS
<1>2. s \in [branches : [Branches -> N \cup {None}], tags : [Tags -> N \cup {None}],
              objects : SUBSET N, past : [Branches -> SUBSET N]]
  OBVIOUS
<1> HIDE DEF s
<1>3. ServerGood(s)
  BY <1>1, <1>2 DEF ServerGood
<1> QED BY <1>3 DEF s

\* A ref of the server moves (Pointed).
LEMMA PointedGood ==
    ASSUME ServerGood(server), NEW M, \A n \in M : Whole(n), NEW B \in [Branches -> M \cup {None}]
    PROVE  LET s == Pointed(B)
           IN  /\ ServerGood(s) /\ s.branches = B
               /\ server.objects \subseteq s.objects /\ \A b \in Branches : server.past[b] \subseteq s.past[b]
               /\ \A b \in Branches : B[b] # None => B[b] \in s.past[b] /\ History(B[b]) \subseteq s.objects
<1> DEFINE N == server.objects \cup Closure(Natives(B))
           P == [b \in Branches |-> server.past[b] \cup ({B[b]} \ {None})]
           s == [branches |-> B, tags |-> server.tags, objects |-> N, past |-> P]
<1>1. Pointed(B) = s
  <2>1. server = [branches |-> server.branches, tags |-> server.tags, objects |-> server.objects, past |-> server.past]
    BY ServerParts
  <2>2. Pointed(B) = [server EXCEPT !.branches = B, !.objects = N, !.past = P]
    BY DEF Pointed
  <2> HIDE DEF N, P
  <2> QED BY <2>1, <2>2
<1>2. s.branches = B /\ s.tags = server.tags /\ s.objects = N /\ s.past = P
  OBVIOUS
<1>3. \A n \in Natives(B) : Whole(n)
  BY DEF Natives, Range
<1>4. \A n \in Closure(Natives(B)) : Whole(n) /\ History(n) \subseteq Closure(Natives(B))
  BY <1>3, Parts DEF Closure
<1>5. \A n \in N : Whole(n) /\ History(n) \subseteq N
  BY <1>4, ServerParts
<1>6. ASSUME NEW b \in Branches, B[b] # None PROVE B[b] \in Closure(Natives(B)) /\ History(B[b]) \subseteq Closure(Natives(B))
  BY <1>6 DEF Closure, Natives, Range, History
<1>7. \A b \in Branches : B[b] # None => B[b] \in P[b]
  OBVIOUS
<1>8. B \in [Branches -> N \cup {None}]
  BY <1>6
<1>9. P \in [Branches -> SUBSET N]
  BY ServerParts, <1>6
<1>10. server.tags \in [Tags -> N \cup {None}]
  BY ServerParts
<1>11. ServerGood(s)
  <2> HIDE DEF N, P
  <2> QED BY <1>5, <1>7, <1>8, <1>9, <1>10, ServerOf
<1>12. \A b \in Branches : server.past[b] \subseteq P[b]
  OBVIOUS
<1>13. server.objects \subseteq N
  OBVIOUS
<1>14. \A b \in Branches : B[b] # None => History(B[b]) \subseteq N
  BY <1>6
<1> HIDE DEF s, N, P
<1> QED BY <1>1, <1>2, <1>7, <1>11, <1>12, <1>13, <1>14

\* The files stay right while more comes to be on the server.
LEMMA FilesKept ==
    ASSUME FilesOK, UNCHANGED local,
           More(objects, server.objects, server.past, objects, server'.objects, server'.past)
    PROVE  FilesOK'
BY MapGrows DEF local, FilesOK, More, Was

LEMMA ServerMoves ==
    ASSUME IInv, UNCHANGED local, UNCHANGED job, ServerGood(server'),
           server.objects \subseteq server'.objects, \A b \in Branches : server.past[b] \subseteq server'.past[b]
    PROVE  IInv'
BY FilesKept, TaskGrows DEF More, IInv, JobsOK, local

LEMMA OthersStep ==
    ASSUME IInv, Others
    PROVE  IInv'
<1> USE DEF IInv
<1>0. UNCHANGED local /\ UNCHANGED job
  BY DEF Others
<1>1. ASSUME NEW b \in Branches, OthersCommit(b) PROVE IInv'
  <2>1. PICK kind \in Foreign \ {"tag"} :
            LET tip == server.branches[b]
                n == Object(kind, left.commits, IF tip = None THEN <<>> ELSE <<tip>>)
            IN  server' = Pointed([server.branches EXCEPT ![b] = n])
    BY <1>1 DEF OthersCommit
  <2> DEFINE tip == server.branches[b]
             ps == IF tip = None THEN <<>> ELSE <<tip>>
             n == Object(kind, left.commits, ps)
             B == [server.branches EXCEPT ![b] = n]
             M == server.objects \cup {n}
  <2>2. ps \in Seq(server.objects)
    <3>1. tip # None => tip \in server.objects
      BY ServerParts
    <3> HIDE DEF tip
    <3>2. CASE tip = None
      BY <3>2
    <3>3. CASE tip # None
      BY <3>1, <3>3, Single
    <3> QED BY <3>2, <3>3
  <2>3. \A d \in Range(ps) : Whole(d)
    <3> HIDE DEF ps
    <3>1. \A i \in DOMAIN ps : ps[i] \in server.objects
      BY <2>2
    <3> QED BY <3>1, ServerParts DEF Range
  <2>4. Whole(n)
    <3>1. kind # "tag" /\ kind \in Kinds
      BY <2>1, ForeignKinds DEF Kinds
    <3> HIDE DEF ps
    <3> QED BY <2>2, <2>3, <3>1, NewObject
  <2> HIDE DEF n
  <2>5. B \in [Branches -> M \cup {None}]
    BY ServerParts
  <2>6. \A m \in M : Whole(m)
    BY <2>4, ServerParts
  <2>7. server' = Pointed(B)
    BY <2>1 DEF n
  <2> HIDE DEF B, M
  <2> QED BY <1>0, <2>5, <2>6, <2>7, PointedGood, ServerMoves
<1>2. ASSUME NEW b \in Branches, OthersMove(b) PROVE IInv'
  <2>1. PICK n \in server.objects \cup {None} : server' = Pointed([server.branches EXCEPT ![b] = n])
    BY <1>2 DEF OthersMove
  <2> DEFINE B == [server.branches EXCEPT ![b] = n]
  <2>2. B \in [Branches -> server.objects \cup {None}]
    BY ServerParts
  <2>3. \A m \in server.objects : Whole(m)
    BY ServerParts
  <2>4. server' = Pointed(B)
    BY <2>1
  <2> HIDE DEF B
  <2> QED BY <1>0, <2>2, <2>3, <2>4, PointedGood, ServerMoves
<1>3. ASSUME NEW t \in Tags, OthersTag(t) PROVE IInv'
  <2>1. PICK b \in Branches :
            LET tip == server.branches[b]
                tagged == IF "tag" \in Foreign THEN Object("tag", t, <<tip>>) ELSE tip
            IN  /\ tip # None
                /\ server' = [server EXCEPT !.tags[t] = tagged, !.objects = @ \cup {tagged}]
    BY <1>3 DEF OthersTag
  <2> DEFINE tip == server.branches[b]
             tagged == IF "tag" \in Foreign THEN Object("tag", t, <<tip>>) ELSE tip
             N == server.objects \cup {tagged}
             T == [server.tags EXCEPT ![t] = tagged]
  <2>2. tip \in server.objects /\ Whole(tip) /\ History(tip) \subseteq server.objects
    BY <2>1, ServerParts
  <2>3. Whole(tagged) /\ History(tagged) \subseteq N
    <3>1. CASE "tag" \in Foreign
      <4> DEFINE ps == <<tip>>
      <4>1. ps \in Seq(server.objects) /\ Range(ps) = {tip} /\ Len(ps) = 1
        BY <2>2, Single
      <4> HIDE DEF ps
      <4> DEFINE n == Object("tag", t, ps)
      <4>2. Whole(n) /\ History(n) = {n} \cup UNION {History(d) : d \in Range(ps)}
        BY <2>2, <4>1, NewObject DEF Kinds
      <4>3. tagged = n
        BY <3>1 DEF ps
      <4>4. History(n) \subseteq server.objects \cup {n}
        BY <2>2, <4>1, <4>2
      <4> QED BY <4>2, <4>3, <4>4
    <3>2. CASE "tag" \notin Foreign
      BY <3>2, <2>2
    <3> QED BY <3>1, <3>2
  <2>4. server' = [server EXCEPT !.tags[t] = tagged, !.objects = @ \cup {tagged}]
    BY <2>1
  <2> HIDE DEF tagged, tip
  <2>5. \A n \in N : Whole(n) /\ History(n) \subseteq N
    BY <2>3, ServerParts
  <2>6. T \in [Tags -> N \cup {None}] /\ server.branches \in [Branches -> N \cup {None}]
        /\ server.past \in [Branches -> SUBSET N]
    BY ServerParts
  <2>7. server' = [branches |-> server.branches, tags |-> T, objects |-> N, past |-> server.past]
    <3>1. server = [branches |-> server.branches, tags |-> server.tags, objects |-> server.objects, past |-> server.past]
      BY ServerParts
    <3>2. server' = [server EXCEPT !.tags = T, !.objects = N]
      BY <2>4
    <3> HIDE DEF N, T
    <3> QED BY <3>1, <3>2
  <2>8. \A x \in Branches : server.branches[x] # None => server.branches[x] \in server.past[x]
    BY ServerParts
  <2>9. server.objects \subseteq N
    OBVIOUS
  <2> HIDE DEF N, T
  <2>10. ServerGood([branches |-> server.branches, tags |-> T, objects |-> N, past |-> server.past])
    BY <2>5, <2>6, <2>8, ServerOf
  <2>11. ServerGood(server') /\ server'.objects = N /\ server'.past = server.past
    BY <2>7, <2>10
  <2> QED BY <1>0, <2>9, <2>11, ServerMoves
<1> QED BY <1>1, <1>2, <1>3 DEF Others

-----------------------------------------------------------------------------
(***************************************************************************)
(* One file is written.                                                    *)
(***************************************************************************)
\* A step of the repository's own, by which a process gets a new task.
LEMMA LocalStep ==
    ASSUME IInv, NEW p \in Procs, NEW j, job' = [job EXCEPT ![p] = j], UNCHANGED server, FilesOK',
           objects \subseteq objects', Task(j, objects', server.objects, server.past)
    PROVE  IInv'
<1>1. More(objects, server.objects, server.past, objects', server.objects, server.past)
  BY DEF More
<1>2. JobsOK'
  BY <1>1, TasksKept DEF IInv, JobsOK
<1>3. ServerGood(server)'
  BY DEF IInv
<1> QED BY <1>2, <1>3 DEF IInv

\* The same where the files stay as they are.
LEMMA TaskStep ==
    ASSUME IInv, NEW p \in Procs, NEW j, job' = [job EXCEPT ![p] = j], UNCHANGED server, UNCHANGED local,
           Task(j, objects, server.objects, server.past)
    PROVE  IInv'
<1>1. FilesOK'
  BY FilesKept DEF IInv, More
<1>2. objects' = objects
  BY DEF local
<1> QED BY <1>1, <1>2, LocalStep

LEMMA StopStep ==
    ASSUME IInv, NEW p \in Procs, Stop(p), UNCHANGED server, UNCHANGED local
    PROVE  IInv'
BY IdleTask, TaskStep DEF Stop

LEMMA WritingStep ==
    ASSUME IInv, NEW p \in Procs, NEW todo, NEW then, Writing(p, todo, then), UNCHANGED server, FilesOK',
           objects \subseteq objects', Pending(todo, objects', server.objects, server.past), Follows(then)
    PROVE  IInv'
<1> DEFINE j == IF todo = <<>> /\ then = <<>> THEN Idle ELSE [at |-> "write", todo |-> todo, then |-> then]
<1>1. Task(j, objects', server.objects, server.past)
  BY WritingTask
<1>2. job' = [job EXCEPT ![p] = j]
  BY DEF Writing
<1> HIDE DEF j
<1> QED BY <1>1, <1>2, LocalStep

LEMMA TrackingWritten ==
    ASSUME FilesOK, NEW w, Bound(w, objects, server.objects, server.past)
    PROVE  LET t == NewTracking(w)
           IN  /\ t \in [Remotes -> [Branches -> objects \cup {None}]]
               /\ \A r \in Remotes, b \in Branches : t[r][b] # None => Was(b, t[r][b], server.past)
<1>0. /\ tracking \in [Remotes -> [Branches -> objects \cup {None}]]
      /\ \A r \in Remotes, b \in Branches : tracking[r][b] # None => Was(b, tracking[r][b], server.past)
  BY DEF FilesOK
<1>1. CASE w.file = "tracking"
  BY <1>1, <1>0 DEF NewTracking, Bound
<1>2. CASE w.file = "untrack"
  BY <1>2, <1>0 DEF NewTracking, Bound
<1>3. CASE w.file = "move"
  BY <1>3, <1>0 DEF NewTracking, Bound
<1>4. CASE w.file \notin {"tracking", "untrack", "move"}
  BY <1>0, <1>4 DEF NewTracking
<1> QED BY <1>1, <1>2, <1>3, <1>4

LEMMA MapWritten ==
    ASSUME FilesOK, NEW w, Bound(w, objects, server.objects, server.past)
    PROVE  LET m == NewMap(w)
           IN  m = [r \in Remotes |-> m[r]] /\ \A r \in Remotes : MapOf(m[r], objects, server.objects)
<1>0. map = [r \in Remotes |-> map[r]] /\ \A r \in Remotes : MapOf(map[r], objects, server.objects)
  BY DEF FilesOK
<1>1. MapOf(<<>>, objects, server.objects)
  BY DEF MapOf
<1>2. CASE w.file = "map"
  BY <1>2, <1>0 DEF NewMap, Bound
<1>3. CASE w.file = "remap"
  BY <1>3, <1>0, <1>1 DEF NewMap, Bound
<1>4. CASE w.file \notin {"map", "remap"}
  BY <1>0, <1>4 DEF NewMap
<1> QED BY <1>2, <1>3, <1>4

\* Writing what is bound for a file keeps the files right.
LEMMA BoundWritten ==
    ASSUME FilesOK, NEW w, Bound(w, objects, server.objects, server.past), UNCHANGED <<server, objects>>,
           heads' = IF w.file = "head" THEN [heads EXCEPT ![w.key] = w.value] ELSE heads,
           current' = IF w.file = "current" THEN w.value ELSE current,
           tags' = IF w.file = "tag" THEN [tags EXCEPT ![w.key] = w.value] ELSE tags,
           config' = IF w.file = "config" THEN w.value ELSE config,
           tracking' = NewTracking(w), map' = NewMap(w)
    PROVE  FilesOK'
BY TrackingWritten, MapWritten DEF FilesOK, Bound

\* So does writing objects whose histories are stored or written with them.
LEMMA ObjectsWritten ==
    ASSUME FilesOK, NEW V, \A c \in V : Ours(c) /\ History(c) \subseteq objects \cup V, objects' = objects \cup V,
           UNCHANGED <<server, current, tracking, tags, config, map>>, heads' \in [Branches -> objects' \cup {None}]
    PROVE  FilesOK'
BY MapGrows DEF FilesOK

LEMMA TailBounds ==
    ASSUME NEW s, s # <<>>, NEW O, NEW N, NEW P, Bounds(s, O, N, P)
    PROVE  Bound(Head(s), O, N, P) /\ Bounds(Tail(s), O, N, P)
<1>1. s \in Seq(Range(s)) /\ Len(s) \in Nat /\ Len(s) > 0
  BY DEF Bounds
<1>2. Head(s) \in Range(s)
  BY <1>1
<1>3. Tail(s) \in Seq(Range(s))
  BY <1>1
<1>4. Tail(s) \in Seq(Range(Tail(s)))
  BY <1>3, SeqOfItsOwn
<1>5. Range(Tail(s)) \subseteq Range(s)
  BY <1>3 DEF Range
<1> QED BY <1>2, <1>4, <1>5 DEF Bounds

LEMMA WriteFileStep ==
    ASSUME IInv, NEW p \in Procs, WriteFile(p)
    PROVE  IInv'
<1> DEFINE j == job[p]
           w == Head(j.todo)
<1>1. j.at = "write" /\ j.todo # <<>> /\ UNCHANGED server
  BY DEF WriteFile
<1>2. Pending(j.todo, objects, server.objects, server.past) /\ Follows(j.then)
  BY <1>1 DEF IInv, JobsOK, Task
<1>3. CASE Blocked(w)
  BY <1>3, <1>1, StopStep DEF WriteFile
<1>4. CASE ~ Blocked(w)
  <2>1. /\ objects' = IF w.file = "objects" THEN objects \cup w.value ELSE objects
        /\ heads' = IF w.file = "head" THEN [heads EXCEPT ![w.key] = w.value] ELSE heads
        /\ current' = IF w.file = "current" THEN w.value ELSE current
        /\ tags' = IF w.file = "tag" THEN [tags EXCEPT ![w.key] = w.value] ELSE tags
        /\ config' = IF w.file = "config" THEN w.value ELSE config
        /\ tracking' = NewTracking(w)
        /\ map' = NewMap(w)
        /\ Writing(p, Tail(j.todo), j.then)
    BY <1>4 DEF WriteFile
  <2>2. FilesOK
    BY DEF IInv
  <2> HIDE DEF w
  <2>3. CASE Bounds(j.todo, objects, server.objects, server.past)
    <3>1. Bound(w, objects, server.objects, server.past) /\ Bounds(Tail(j.todo), objects, server.objects, server.past)
      BY <1>1, <2>3, TailBounds DEF w
    <3>2. w.file # "objects"
      BY <3>1 DEF Bound
    <3>3. objects' = objects
      BY <2>1, <3>2
    <3>4. FilesOK'
      BY <1>1, <2>1, <2>2, <3>1, <3>3, BoundWritten
    <3>5. Pending(Tail(j.todo), objects', server.objects, server.past)
      BY <3>1, <3>3 DEF Pending
    <3> HIDE DEF j
    <3> QED BY <1>1, <1>2, <2>1, <3>3, <3>4, <3>5, WritingStep
  <2>4. CASE ~ Bounds(j.todo, objects, server.objects, server.past)
    <3> DEFINE V == w.value
    <3>1. /\ w.file = "objects"
          /\ \A c \in V : Ours(c) /\ History(c) \subseteq objects \cup V
          /\ Bounds(Tail(j.todo), objects \cup V, server.objects, server.past)
      BY <1>2, <2>4 DEF Pending, w
    <3>2. objects' = objects \cup V /\ heads' = heads /\ current' = current /\ tags' = tags /\ config' = config
      BY <2>1, <3>1
    <3>3. tracking' = tracking /\ map' = map
      BY <2>1, <3>1 DEF NewTracking, NewMap
    <3>4. heads' \in [Branches -> objects' \cup {None}]
      BY <2>2, <3>2 DEF FilesOK
    <3>5. FilesOK'
      BY <1>1, <2>2, <3>1, <3>2, <3>3, <3>4, ObjectsWritten
    <3>6. Pending(Tail(j.todo), objects', server.objects, server.past)
      BY <3>1, <3>2 DEF Pending
    <3>7. objects \subseteq objects'
      BY <3>2
    <3> HIDE DEF j
    <3> QED BY <1>1, <1>2, <2>1, <3>5, <3>6, <3>7, WritingStep
  <2> QED BY <2>3, <2>4
<1> QED BY <1>3, <1>4

-----------------------------------------------------------------------------
(***************************************************************************)
(* Commands that only say what is to be written, and what follows writes.  *)
(***************************************************************************)
LEMMA CrashStep ==
    ASSUME IInv, NEW p \in Procs, Crash(p)
    PROVE  IInv'
BY StopStep DEF Crash

LEMMA AdvertisedIs ==
    ASSUME ServerGood(server)
    PROVE  /\ DOMAIN Advertised = Branches \cup Tags
           /\ \A x \in Branches \cup Tags : Advertised[x] # None => Advertised[x] \in server.objects
           /\ \A b \in Branches : Advertised[b] # None => Advertised[b] \in server.past[b]
BY ServerParts DEF Advertised, Over

LEMMA FetchTaskIs ==
    ASSUME IInv, NEW r \in Remotes, NEW remotes \in SUBSET Remotes, NEW then, Follows(then)
    PROVE  Task(FetchTask(r, remotes, then), objects, server.objects, server.past)
<1> DEFINE j == FetchTask(r, remotes, then)
<1>1. /\ j.at = "fetch" /\ j.remote = r /\ j.adv = Advertised /\ j.map = map[r] /\ j.config = remotes
      /\ j.then = then
  BY DEF FetchTask
<1> HIDE DEF j
<1>2. MapOf(map[r], objects, server.objects)
  BY DEF IInv, FilesOK
<1>3. ServerGood(server)
  BY DEF IInv
<1>4. Fetching(j, objects, server.objects, server.past)
  BY <1>1, <1>2, <1>3, AdvertisedIs DEF Fetching
<1> QED BY <1>1, <1>4 DEF Task, j

LEMMA FetchStep ==
    ASSUME IInv, NEW p \in Procs, NEW r \in Remotes, Fetch(p, r) \/ Pull(p, r)
    PROVE  IInv'
<1>1. config \in SUBSET Remotes /\ current \in Branches
  BY DEF IInv, FilesOK
<1>2. CASE Fetch(p, r)
  <2>1. Follows(<<>>)
    BY DEF Follows
  <2> DEFINE j == FetchTask(r, config, <<>>)
  <2>2. Task(j, objects, server.objects, server.past)
    BY <1>1, <2>1, FetchTaskIs
  <2>3. job' = [job EXCEPT ![p] = j] /\ UNCHANGED server /\ UNCHANGED local
    BY <1>2 DEF Fetch, Begin
  <2> HIDE DEF j
  <2> QED BY <2>2, <2>3, TaskStep
<1>3. CASE Pull(p, r)
  <2>1. Follows(<<"merge", r, current>>)
    BY <1>1 DEF Follows
  <2> DEFINE j == FetchTask(r, config, <<"merge", r, current>>)
  <2>2. Task(j, objects, server.objects, server.past)
    BY <1>1, <2>1, FetchTaskIs
  <2>3. job' = [job EXCEPT ![p] = j] /\ UNCHANGED server /\ UNCHANGED local
    BY <1>3 DEF Pull, Begin
  <2> HIDE DEF j
  <2> QED BY <2>2, <2>3, TaskStep
<1> QED BY <1>2, <1>3

LEMMA CloneStep ==
    ASSUME IInv, NEW p \in Procs, NEW r \in Remotes, Clone(p, r)
    PROVE  IInv'
<1> DEFINE j == FetchTask(r, {r}, <<"adopt", r>>)
<1>1. Follows(<<"adopt", r>>)
  BY DEF Follows
<1>2. Task(j, objects, server.objects, server.past)
  BY <1>1, FetchTaskIs
<1>3. /\ job' = [job EXCEPT ![p] = j] /\ config' = {r}
      /\ UNCHANGED <<server, objects, heads, current, tracking, tags, map>>
  BY DEF Clone, Begin
<1> HIDE DEF j
<1>4. FilesOK'
  BY <1>3 DEF IInv, FilesOK
<1> QED BY <1>2, <1>3, <1>4, LocalStep

LEMMA ManageStep ==
    ASSUME IInv, NEW p \in Procs, NEW todo, Manage(p, todo), Bounds(todo, objects, server.objects, server.past)
    PROVE  IInv'
<1> DEFINE j == [at |-> "write", todo |-> todo, then |-> <<>>]
<1>1. j.at = "write" /\ j.todo = todo /\ j.then = <<>>
  OBVIOUS
<1>2. job' = [job EXCEPT ![p] = j] /\ UNCHANGED server /\ UNCHANGED local
  BY DEF Manage, Begin
<1> HIDE DEF j
<1>3. Pending(todo, objects, server.objects, server.past) /\ Follows(<<>>)
  BY DEF Pending, Follows
<1>4. Task(j, objects, server.objects, server.past)
  BY <1>1, <1>3 DEF Task
<1> QED BY <1>2, <1>4, TaskStep

LEMMA SetToSeqIs ==
    ASSUME NEW S, IsFiniteSet(S)
    PROVE  SetToSeq(S) \in Seq(S)
<1> DEFINE n == Cardinality(S)
<1>1. n \in Nat /\ ExistsBijection(1..n, S)
  BY FS_CardinalityType
<1>2. PICK f \in [1..n -> S] : IsInjective(f)
  BY <1>1 DEF ExistsBijection, Bijection, Injection, IsInjective
<1>3. SetToSeq(S) \in [1..n -> S]
  BY <1>2 DEF SetToSeq
<1> QED BY <1>1, <1>3

\* One write for each element of a finite set.
LEMMA WriteEach ==
    ASSUME NEW S, IsFiniteSet(S), NEW f, DOMAIN f = DOMAIN SetToSeq(S), f = [i \in DOMAIN f |-> f[i]], NEW O, NEW N, NEW P,
           \A i \in DOMAIN f : SetToSeq(S)[i] \in S => Bound(f[i], O, N, P)
    PROVE  Bounds(f, O, N, P)
BY SetToSeqIs, SeqDef DEF Range, Bounds

LEMMA RemoteStep ==
    ASSUME IInv, NEW p \in Procs, NEW r \in Remotes, NEW s \in Remotes,
           AddRemote(p, r) \/ RemoveRemote(p, r) \/ RenameRemote(p, r, s) \/ PruneRemote(p, r)
    PROVE  IInv'
<1> DEFINE Right(todo) == Bounds(todo, objects, server.objects, server.past)
<1>1. config \subseteq Remotes
  BY DEF IInv, FilesOK
<1>2. \A c : c \subseteq Remotes => Right(Write("config", None, c))
  BY OneWrite DEF Bound
<1>3. CASE AddRemote(p, r)
  BY <1>1, <1>2, <1>3, ManageStep DEF AddRemote
<1>4. CASE RemoveRemote(p, r)
  <2>1. Right(Write("config", None, config \ {r}))
    BY <1>1, <1>2
  <2>2. Right(Write("untrack", r, Branches))
    BY OneWrite DEF Bound
  <2>3. Right(Write("map", r, <<>>))
    BY OneWrite DEF MapOf, Bound
  <2>4. Right(Write("config", None, config \ {r}) \o Write("untrack", r, Branches) \o Write("map", r, <<>>))
    BY <2>1, <2>2, <2>3, MoreWrites
  <2> QED BY <1>4, <2>4, ManageStep DEF RemoveRemote
<1>5. CASE RenameRemote(p, r, s)
  <2>1. Right(Write("config", None, (config \ {r}) \cup {s}))
    BY <1>1, <1>2
  <2>2. Right(Write("move", r, s))
    BY OneWrite DEF Bound
  <2>3. Right(Write("remap", r, s))
    BY OneWrite DEF Bound
  <2>4. Right(Write("config", None, (config \ {r}) \cup {s}) \o Write("move", r, s) \o Write("remap", r, s))
    BY <2>1, <2>2, <2>3, MoreWrites
  <2> QED BY <1>5, <2>4, ManageStep DEF RenameRemote
<1>6. CASE PruneRemote(p, r)
  <2> DEFINE S == {b \in Tracked(r) : server.branches[b] = None}
             stale == SetToSeq(S)
             todo == [i \in DOMAIN stale |-> [file |-> "untrack", key |-> r, value |-> {stale[i]}]]
  <2>1. Manage(p, todo)
    BY <1>6 DEF PruneRemote
  <2>2. IsFiniteSet(S)
    <3>1. S \in SUBSET Branches
      BY DEF Tracked
    <3> HIDE DEF S
    <3> QED BY <3>1, FiniteNames, FS_Subset
  <2>3. \A i \in DOMAIN todo : Bound(todo[i], objects, server.objects, server.past)
    BY DEF Bound
  <2>4. DOMAIN todo = DOMAIN stale /\ todo = [i \in DOMAIN todo |-> todo[i]]
    OBVIOUS
  <2> HIDE DEF todo, S
  <2>5. Right(todo)
    BY <2>2, <2>3, <2>4, WriteEach
  <2> QED BY <2>1, <2>5, ManageStep
<1> QED BY <1>3, <1>4, <1>5, <1>6

\* A step by which no process gets another task.
LEMMA QuietStep ==
    ASSUME IInv, UNCHANGED <<server, job>>, FilesOK', objects \subseteq objects'
    PROVE  IInv'
BY TaskGrows DEF More, IInv, JobsOK

LEMMA CommitStep ==
    ASSUME IInv, NEW p \in Procs, Commit(p)
    PROVE  IInv'
<1> DEFINE h == heads[current]
           ps == IF h = None THEN <<>> ELSE <<h>>
           c == Object("pygit", left.commits, ps)
<1>1. /\ objects' = objects \cup {c} /\ heads' = [heads EXCEPT ![current] = c]
      /\ UNCHANGED <<server, current, tracking, tags, config, map, job>>
  BY DEF Commit
<1>2. FilesOK /\ current \in Branches /\ heads \in [Branches -> objects \cup {None}]
      /\ \A x \in objects : Ours(x) /\ History(x) \subseteq objects
  BY DEF IInv, FilesOK
<1>3. ps \in Seq(objects)
  <2>1. h # None => h \in objects
    BY <1>2
  <2> HIDE DEF h
  <2>2. CASE h = None
    BY <2>2
  <2>3. CASE h # None
    BY <2>1, <2>3, Single
  <2> QED BY <2>2, <2>3
<1> HIDE DEF ps
<1>4. \A d \in Range(ps) : Ours(d) /\ History(d) \subseteq objects
  BY <1>3, <1>2 DEF Range
<1>5. Ours(c) /\ History(c) = {c} \cup UNION {History(d) : d \in Range(ps)}
  BY <1>3, <1>4, NewCommit
<1> HIDE DEF c, h
<1>6. History(c) \subseteq objects \cup {c}
  BY <1>4, <1>5
<1>7. \A x \in {c} : Ours(x) /\ History(x) \subseteq objects \cup {c}
  BY <1>5, <1>6
<1>8. heads' \in [Branches -> objects' \cup {None}]
  BY <1>1, <1>2
<1>9. FilesOK'
  BY <1>1, <1>2, <1>7, <1>8, ObjectsWritten
<1> QED BY <1>1, <1>9, QuietStep

LEMMA CheckoutStep ==
    ASSUME IInv, NEW p \in Procs, NEW b \in Branches, Checkout(p, b)
    PROVE  IInv'
BY QuietStep DEF Checkout, IInv, FilesOK

\* Objects, then what needs them.
LEMMA StoredFirst ==
    ASSUME NEW V, NEW rest, NEW O, NEW N, NEW P, \A c \in V : Ours(c) /\ History(c) \subseteq O \cup V,
           Bounds(rest, O \cup V, N, P)
    PROVE  Pending(Write("objects", None, V) \o rest, O, N, P)
<1> DEFINE w == [file |-> "objects", key |-> None, value |-> V]
           s == <<w>> \o rest
<1>1. Write("objects", None, V) \o rest = s
  BY DEF Write
<1>2. w.file = "objects" /\ w.value = V
  OBVIOUS
<1> HIDE DEF w
<1> DEFINE S == Range(rest) \cup {w}
<1>3. rest \in Seq(S)
  BY DEF Bounds
<1>4. s \in Seq(S) /\ s # <<>> /\ Head(s) = w /\ Tail(s) = rest
  <2>1. <<w>> \in Seq(S)
    BY Single
  <2> HIDE DEF S
  <2> QED BY <1>3, <2>1
<1>5. s \in Seq(Range(s))
  BY <1>4, SeqOfItsOwn
<1> HIDE DEF s
<1> QED BY <1>1, <1>2, <1>4, <1>5 DEF Pending

LEMMA HeadWrite ==
    ASSUME NEW O, NEW N, NEW P, NEW b \in Branches, NEW c \in O
    PROVE  Bounds(Write("head", b, c), O, N, P)
BY OneWrite DEF Bound

LEMMA AfterPullStep ==
    ASSUME IInv, NEW p \in Procs, AfterPull(p)
    PROVE  IInv'
<1> DEFINE j == job[p]
           theirs == tracking[j.then[2]][j.then[3]]
           ours == heads[current]
<1>1. j.at = "write" /\ j.then # <<>> /\ j.then[1] = "merge" /\ UNCHANGED server /\ UNCHANGED local
  BY DEF AfterPull
<1>2. Follows(j.then)
  BY <1>1 DEF IInv, JobsOK, Task
<1>3. PICK r \in Remotes, b \in Branches : j.then = <<"merge", r, b>>
  BY <1>1, <1>2 DEF Follows
<1>4. /\ FilesOK /\ current \in Branches
      /\ \A x \in objects : Ours(x) /\ History(x) \subseteq objects
  BY DEF IInv, FilesOK
<1>5. theirs \in objects \cup {None} /\ ours \in objects \cup {None}
  BY <1>3 DEF IInv, FilesOK
<1>6. FilesOK' /\ objects' = objects
  BY <1>1, <1>4, FilesKept DEF More, local
<1>7. Stop(p) \/ (theirs # None /\ ours # None /\ Merge(p, ours, theirs))
  BY DEF AfterPull
<1>8. Follows(<<>>)
  BY DEF Follows
<1> HIDE DEF j, theirs, ours
<1>9. CASE Stop(p)
  BY <1>1, <1>9, StopStep
<1>10. CASE theirs # None /\ Writing(p, Write("head", current, theirs), <<>>)
  <2>1. Pending(Write("head", current, theirs), objects', server.objects, server.past)
    BY <1>4, <1>5, <1>6, <1>10, HeadWrite DEF Pending
  <2>2. objects \subseteq objects'
    BY <1>6
  <2> QED BY <1>1, <1>6, <1>8, <1>10, <2>1, <2>2, WritingStep
<1> DEFINE ps == <<ours, theirs>>
           c == Object("pygit", left.commits, ps)
<1>11. CASE theirs # None /\ ours # None /\ Writing(p, Write("objects", None, {c}) \o Write("head", current, c), <<>>)
  <2>1. ps \in Seq(objects) /\ \A d \in Range(ps) : d \in objects
    <3>1. ours \in objects /\ theirs \in objects
      BY <1>5, <1>11
    <3>2. ps \in Seq(objects)
      BY <3>1
    <3>3. \A i \in DOMAIN ps : ps[i] \in objects
      BY <3>2
    <3> HIDE DEF ps
    <3> QED BY <3>2, <3>3 DEF Range
  <2> HIDE DEF ps
  <2>2. Ours(c) /\ History(c) = {c} \cup UNION {History(d) : d \in Range(ps)}
    BY <1>4, <2>1, NewCommit
  <2> HIDE DEF c
  <2>3. \A x \in {c} : Ours(x) /\ History(x) \subseteq objects \cup {c}
    BY <1>4, <2>1, <2>2
  <2> DEFINE O == objects \cup {c}
             rest == Write("head", current, c)
  <2>4. Bounds(rest, O, server.objects, server.past)
    <3>1. c \in O
      OBVIOUS
    <3> HIDE DEF O
    <3> QED BY <1>4, <3>1, HeadWrite
  <2> HIDE DEF rest
  <2>5. Pending(Write("objects", None, {c}) \o rest, objects', server.objects, server.past)
    BY <1>6, <2>3, <2>4, StoredFirst
  <2>6. objects \subseteq objects'
    BY <1>6
  <2>7. Writing(p, Write("objects", None, {c}) \o rest, <<>>)
    BY <1>11 DEF rest
  <2> QED BY <1>1, <1>6, <1>8, <2>5, <2>6, <2>7, WritingStep
<1>12. Merge(p, ours, theirs) =>
          \/ Stop(p) \/ Writing(p, Write("head", current, theirs), <<>>)
          \/ Writing(p, Write("objects", None, {c}) \o Write("head", current, c), <<>>)
  BY DEF Merge
<1> QED BY <1>7, <1>9, <1>10, <1>11, <1>12

LEMMA AfterCloneStep ==
    ASSUME IInv, NEW p \in Procs, AfterClone(p)
    PROVE  IInv'
<1> DEFINE j == job[p]
<1>1. j.at = "write" /\ j.then # <<>> /\ j.then[1] = "adopt" /\ UNCHANGED server /\ UNCHANGED local
  BY DEF AfterClone
<1>2. Follows(j.then)
  BY <1>1 DEF IInv, JobsOK, Task
<1>3. PICK r \in Remotes : j.then = <<"adopt", r>>
  BY <1>1, <1>2 DEF Follows
<1>4. PICK b \in Branches :
          LET sha == tracking[j.then[2]][b]
          IN  IF sha = None THEN Stop(p) ELSE Writing(p, Write("head", b, sha) \o Write("current", None, b), <<>>)
  BY DEF AfterClone
<1> DEFINE sha == tracking[r][b]
<1>5. IF sha = None THEN Stop(p) ELSE Writing(p, Write("head", b, sha) \o Write("current", None, b), <<>>)
  BY <1>3, <1>4
<1>6. sha \in objects \cup {None}
  BY DEF IInv, FilesOK
<1>7. FilesOK' /\ objects' = objects
  BY <1>1, FilesKept DEF More, local, IInv
<1>8. Follows(<<>>)
  BY DEF Follows
<1> HIDE DEF sha, j
<1>9. CASE sha = None
  BY <1>1, <1>5, <1>9, StopStep
<1>10. CASE sha # None
  <2> DEFINE todo == Write("head", b, sha) \o Write("current", None, b)
  <2>1. Bounds(Write("head", b, sha), objects, server.objects, server.past)
    BY <1>6, <1>10, HeadWrite
  <2>2. Bounds(Write("current", None, b), objects, server.objects, server.past)
    BY OneWrite DEF Bound
  <2>3. Bounds(todo, objects, server.objects, server.past)
    BY <2>1, <2>2, MoreWrites
  <2>4. Writing(p, todo, <<>>)
    BY <1>5, <1>10
  <2> HIDE DEF todo
  <2>5. Pending(todo, objects', server.objects, server.past) /\ objects \subseteq objects'
    BY <1>7, <2>3 DEF Pending
  <2> QED BY <1>1, <1>7, <1>8, <2>4, <2>5, WritingStep
<1> QED BY <1>9, <1>10
-----------------------------------------------------------------------------
(***************************************************************************)
(* Fetching.  What is looked up is what the map does not say, and its      *)
(* commits are whole with what is stored; the map is right afterwards.     *)
(***************************************************************************)
LEMMA InvertedRight ==
    ASSUME NEW m, NEW O, NEW N, MapOf(m, O, N)
    PROVE  /\ DOMAIN Inverted(m) = Range(m)
           /\ \A n \in Range(m) : n \in N /\ Inverted(m)[n] = Imp(n) /\ Imp(n) \in DOMAIN m /\ Imp(n) \in O /\ m[Imp(n)] = n
<1>1. DOMAIN Inverted(m) = Range(m)
  BY DEF Inverted
<1>2. ASSUME NEW n \in Range(m)
      PROVE  n \in N /\ Inverted(m)[n] = Imp(n) /\ Imp(n) \in DOMAIN m /\ Imp(n) \in O /\ m[Imp(n)] = n
  <2> DEFINE c == CHOOSE d \in DOMAIN m : m[d] = n
  <2>1. Inverted(m)[n] = c
    BY DEF Inverted
  <2>2. c \in DOMAIN m /\ m[c] = n
    BY DEF Range
  <2> HIDE DEF c
  <2> QED BY <2>1, <2>2 DEF MapOf
<1> QED BY <1>1, <1>2

\* What a fetch finds: the objects its walks meet that the map does not name.
Found(wants, m) == UNION {LookedUp(n, Inverted(m)) : n \in wants}

LEMMA FoundCovers ==
    ASSUME NEW m, NEW O, NEW N, MapOf(m, O, N), \A n \in N : Whole(n) /\ History(n) \subseteq N,
           NEW wants \in SUBSET N
    PROVE  /\ Found(wants, m) \subseteq N
           /\ \A n \in wants : n \in Found(wants, m) \cup Range(m)
           /\ \A n \in Found(wants, m) : \A k \in History(n) :
                  k \in Found(wants, m) \/ \E e \in Range(m) : k \in History(e)
<1> DEFINE K == Range(m)
           F == Found(wants, m)
<1>1. F = UNION {Walked(n, K) \ K : n \in wants}
  BY InvertedRight DEF Found, LookedUp
<1> HIDE DEF F, K
<1>2. \A w \in wants : /\ Whole(w) /\ History(w) \subseteq N /\ w \in Walked(w, K) /\ Walked(w, K) \subseteq History(w)
                       /\ \A k \in History(w) : k \in Walked(w, K) \/ \E e \in Walked(w, K) \cap K : k \in History(e)
  BY WalkedCovers
<1>3. ASSUME NEW n \in F, NEW k \in History(n)
      PROVE  k \in F \/ \E e \in K : k \in History(e)
  <2>1. PICK w \in wants : n \in Walked(w, K) \ K
    BY <1>1
  <2>2. k \in History(w)
    BY <2>1, <1>2, <1>3, Parts
  <2>3. CASE k \in Walked(w, K)
    BY <2>3, <1>1 DEF History
  <2>4. CASE \E e \in Walked(w, K) \cap K : k \in History(e)
    BY <2>4
  <2> QED BY <2>2, <2>3, <2>4, <1>2
<1>4. F \subseteq N
  BY <1>1, <1>2
<1>5. \A n \in wants : n \in F \cup K
  BY <1>1, <1>2
<1> QED BY <1>3, <1>4, <1>5 DEF F, K

\* The commits made of them have their histories.
LEMMA FoundStored ==
    ASSUME NEW m, NEW O, NEW N, MapOf(m, O, N), \A n \in N : Whole(n) /\ History(n) \subseteq N,
           \A c \in O : History(c) \subseteq O, NEW wants \in SUBSET N
    PROVE  LET V == {Imp(n) : n \in Found(wants, m)}
           IN  /\ \A c \in V : Ours(c) /\ History(c) \subseteq O \cup V
               /\ \A n \in wants : Imp(n) \in O \cup V
<1> DEFINE F == Found(wants, m)
           V == {Imp(n) : n \in F}
<1>1. /\ F \subseteq N /\ \A n \in wants : n \in F \cup Range(m)
      /\ \A n \in F : \A k \in History(n) : k \in F \/ \E e \in Range(m) : k \in History(e)
  BY FoundCovers
<1>2. \A e \in Range(m) : e \in N /\ Imp(e) \in O
  BY InvertedRight
<1> HIDE DEF F
<1>3. ASSUME NEW e \in Range(m), NEW k \in History(e) PROVE Imp(k) \in O
  BY <1>2, ImportedHistory
<1>4. ASSUME NEW n \in F PROVE Ours(Imp(n)) /\ History(Imp(n)) \subseteq O \cup V
  BY <1>1, ImportedHistory, <1>3
<1>5. \A n \in wants : Imp(n) \in O \cup V
  BY <1>1, <1>2
<1>6. \A c \in V : Ours(c) /\ History(c) \subseteq O \cup V
  BY <1>4
<1> QED BY <1>5, <1>6 DEF F

\* The map with what was found in it.
LEMMA RemapsRight ==
    ASSUME NEW m, NEW O, NEW N, MapOf(m, O, N), \A n \in N : Whole(n) /\ History(n) \subseteq N,
           NEW wants \in SUBSET N, NEW x \in Remaps(m, Found(wants, m), Inverted(m))
    PROVE  MapOf(x, O \cup {Imp(n) : n \in Found(wants, m)}, N)
<1> DEFINE F == Found(wants, m)
           V == {Imp(n) : n \in F}
           known == Inverted(m)
<1>1. /\ F \subseteq N
      /\ \A n \in F : \A k \in History(n) : k \in F \/ \E e \in Range(m) : k \in History(e)
  BY FoundCovers
<1>2. \A n \in Range(m) : n \in N /\ Imp(n) \in DOMAIN m /\ m[Imp(n)] = n
  BY InvertedRight
<1>3. \A n \in F : Imported(n, known) = Imp(n)
  <2> TAKE n \in F
  <2>1. Whole(n)
    BY <1>1
  <2>2. \A k \in DOMAIN known : known[k] = Imp(k)
    BY InvertedRight
  <2> HIDE DEF known
  <2> QED BY <2>1, <2>2, ImportedKnown
<1>4. PICK f : f \in [V -> F] /\ x = Over(f, m) /\ \A c \in V : Imp(f[c]) = c
  <2>1. PICK f : f \in [{Imported(n, known) : n \in F} -> F] /\ x = Over(f, m)
                 /\ \A c \in {Imported(n, known) : n \in F} : Imported(f[c], known) = c
    BY DEF Remaps
  <2>2. {Imported(n, known) : n \in F} = V
    BY <1>3
  <2> HIDE DEF F, V, known
  <2> QED BY <2>1, <2>2, <1>3
<1> HIDE DEF known, F
<1>5. /\ DOMAIN x = V \cup DOMAIN m
      /\ \A c \in V : x[c] = f[c] /\ x[c] \in F /\ Imp(x[c]) = c
      /\ \A c \in DOMAIN m \ V : x[c] = m[c]
  <2> HIDE DEF V
  <2> QED BY <1>4 DEF Over
<1>6. \A c \in DOMAIN x : c \in O \cup V /\ x[c] \in N /\ Imp(x[c]) = c
  <2> HIDE DEF V
  <2> QED BY <1>1, <1>5 DEF MapOf
<1>7. ASSUME PlainOn(N) PROVE \A c \in DOMAIN x : History(x[c]) \subseteq Range(x)
  <2>1. \A e \in Range(m) : History(e) \subseteq Range(m)
    BY <1>7 DEF MapOf, Range
  <2>2. ASSUME NEW k \in F \cup Range(m) PROVE k \in Range(x)
    BY <1>1, <1>2, <1>5, <1>6, <1>7 DEF PlainOn, Range
  <2>3. ASSUME NEW c \in DOMAIN x, NEW k \in History(x[c]) PROVE k \in F \cup Range(m)
    BY <2>1, <2>3, <1>1, <1>5 DEF Range
  <2> QED BY <2>2, <2>3
<1> QED BY <1>6, <1>7 DEF MapOf, F

\* The refs that are written name what was advertised.
LEMMA RefWritesRight ==
    ASSUME NEW r \in Remotes, NEW adv, NEW known, NEW O, NEW N, NEW P,
           \A x \in Branches \cup Tags : adv[x] # None => Imported(adv[x], known) = Imp(adv[x]) /\ Imp(adv[x]) \in O,
           \A b \in Branches : adv[b] # None => adv[b] \in P[b]
    PROVE  Bounds(RefWrites(r, adv, known), O, N, P)
<1> DEFINE S == {x \in Branches : adv[x] # None}
           T == {x \in Tags : adv[x] # None}
           sha(x) == Imported(adv[x], known)
           s == SetToSeq(S)
           t == SetToSeq(T)
           wb == [i \in DOMAIN s |-> [file |-> "tracking", key |-> <<r, s[i]>>, value |-> sha(s[i])]]
           wt == [i \in DOMAIN t |-> [file |-> "tag", key |-> t[i], value |-> sha(t[i])]]
<1>1. RefWrites(r, adv, known) = wb \o wt
  BY DEF RefWrites
<1>2. IsFiniteSet(S) /\ IsFiniteSet(T)
  BY FiniteNames, FS_Subset
<1>3. \A i \in DOMAIN wb : s[i] \in S => Bound(wb[i], O, N, P)
  <2> SUFFICES ASSUME NEW i \in DOMAIN s, s[i] \in S
               PROVE  Bound([file |-> "tracking", key |-> <<r, s[i]>>, value |-> sha(s[i])], O, N, P)
    OBVIOUS
  <2> DEFINE b == s[i]
             w == [file |-> "tracking", key |-> <<r, b>>, value |-> sha(b)]
  <2>1. w.file = "tracking" /\ w.key = <<r, b>> /\ w.value = sha(b)
    OBVIOUS
  <2>2. b \in Branches /\ adv[b] # None /\ sha(b) = Imp(adv[b]) /\ sha(b) \in O /\ adv[b] \in P[b]
    BY Zenon
  <2> HIDE DEF w, b, sha
  <2>3. Was(b, w.value, P)
    BY <2>1, <2>2 DEF Was
  <2>4. Bound(w, O, N, P)
    BY <2>1, <2>2, <2>3 DEF Bound
  <2> QED BY <2>4 DEF w, b
<1>4. \A i \in DOMAIN wt : t[i] \in T => Bound(wt[i], O, N, P)
  <2> SUFFICES ASSUME NEW i \in DOMAIN t, t[i] \in T
               PROVE  Bound([file |-> "tag", key |-> t[i], value |-> sha(t[i])], O, N, P)
    OBVIOUS
  <2>1. t[i] \in Tags /\ sha(t[i]) \in O
    OBVIOUS
  <2> HIDE DEF sha
  <2> QED BY <2>1 DEF Bound
<1>5. DOMAIN wb = DOMAIN s /\ wb = [i \in DOMAIN wb |-> wb[i]] /\ DOMAIN wt = DOMAIN t /\ wt = [i \in DOMAIN wt |-> wt[i]]
  OBVIOUS
<1> HIDE DEF wb, wt, S, T
<1>6. Bounds(wb, O, N, P)
  BY <1>2, <1>3, <1>5, WriteEach
<1>7. Bounds(wt, O, N, P)
  BY <1>2, <1>4, <1>5, WriteEach
<1> QED BY <1>1, <1>6, <1>7, MoreWrites

LEMMA TransferStep ==
    ASSUME IInv, NEW p \in Procs, Transfer(p)
    PROVE  IInv'
<1> DEFINE j == job[p]
           N == server.objects
           P == server.past
           wants == Natives(j.adv)
           F == Found(wants, j.map)
           V == {Imp(n) : n \in F}
           refs == RefWrites(j.remote, j.adv, Inverted(j.map)) \o Write("config", None, j.config)
           made == {Imported(n, Inverted(j.map)) : n \in F}
<1>1. /\ j.at = "fetch" /\ UNCHANGED server /\ UNCHANGED local
      /\ \/ F = {} /\ Writing(p, refs, j.then)
         \/ \E m \in Remaps(j.map, F, Inverted(j.map)) :
               Writing(p, Write("objects", None, made) \o Write("map", j.remote, m) \o refs, j.then)
         \/ job' = [job EXCEPT ![p] = [Idle EXCEPT !.at = "missing"]]
         \/ Stop(p)
  BY DEF Transfer, Found, StoreFirst, Recorded
<1>2. Fetching(j, objects, N, P)
  BY <1>1 DEF IInv, JobsOK, Task
<1>3. MapOf(j.map, objects, N) /\ j.remote \in Remotes /\ j.config \subseteq Remotes /\ Follows(j.then)
  BY <1>2 DEF Fetching
<1>4. /\ DOMAIN j.adv = Branches \cup Tags
      /\ \A x \in Branches \cup Tags : j.adv[x] # None => j.adv[x] \in wants
      /\ \A b \in Branches : j.adv[b] # None => j.adv[b] \in P[b]
  BY <1>2 DEF Fetching, Natives, Range
<1>5. wants \in SUBSET N
  BY <1>2 DEF Fetching, Natives, Range
<1>6. (\A n \in N : Whole(n) /\ History(n) \subseteq N) /\ (\A c \in objects : History(c) \subseteq objects)
  BY DEF IInv, ServerGood, FilesOK
<1> HIDE DEF j, N, P, wants
<1>7. F \subseteq N
  BY <1>3, <1>5, <1>6, FoundCovers
<1>8. /\ \A c \in V : Ours(c) /\ History(c) \subseteq objects \cup V
      /\ \A n \in wants : Imp(n) \in objects \cup V
  BY <1>3, <1>5, <1>6, FoundStored
<1>9. \A n \in N : Imported(n, Inverted(j.map)) = Imp(n)
  BY <1>6, <1>3, InvertedRight, ImportedKnown
<1>10. made = V
  BY <1>7, <1>9
<1>11. Bounds(refs, objects \cup V, N, P)
  <2> DEFINE O == objects \cup V
  <2>1. \A x \in Branches \cup Tags :
            j.adv[x] # None => Imported(j.adv[x], Inverted(j.map)) = Imp(j.adv[x]) /\ Imp(j.adv[x]) \in O
    BY <1>4, <1>5, <1>8, <1>9
  <2> HIDE DEF O
  <2>2. Bounds(RefWrites(j.remote, j.adv, Inverted(j.map)), O, N, P)
    BY <1>3, <1>4, <2>1, RefWritesRight
  <2>3. Bound([file |-> "config", key |-> None, value |-> j.config], O, N, P)
    BY <1>3 DEF Bound
  <2>4. Bounds(Write("config", None, j.config), O, N, P)
    BY <2>3, OneWrite
  <2>5. Bounds(refs, O, N, P)
    BY <2>2, <2>4, MoreWrites
  <2> QED BY <2>5 DEF O
<1> HIDE DEF made, refs
<1>12. FilesOK' /\ objects' = objects /\ objects \subseteq objects'
  BY <1>1, FilesKept DEF IInv, More, local
<1>13. CASE F = {} /\ Writing(p, refs, j.then)
  BY <1>13, <1>11, <1>12, <1>1, <1>3, WritingStep DEF Pending, N, P
<1>14. CASE \E m \in Remaps(j.map, F, Inverted(j.map)) :
               Writing(p, Write("objects", None, made) \o Write("map", j.remote, m) \o refs, j.then)
  <2>1. PICK m \in Remaps(j.map, F, Inverted(j.map)) :
               Writing(p, Write("objects", None, made) \o Write("map", j.remote, m) \o refs, j.then)
    BY <1>14
  <2>2. MapOf(m, objects \cup V, N)
    BY <1>3, <1>5, <1>6, RemapsRight
  <2> HIDE DEF V, F
  <2> DEFINE O == objects \cup V
             mw == Write("map", j.remote, m)
  <2>3. Bound([file |-> "map", key |-> j.remote, value |-> m], O, N, P)
    BY <1>3, <2>2 DEF Bound
  <2>4. Bounds(mw, O, N, P)
    BY <2>3, OneWrite
  <2> HIDE DEF mw
  <2>5. Bounds(mw \o refs, O, N, P)
    BY <1>11, <2>4, MoreWrites
  <2> DEFINE rest == mw \o refs
  <2> HIDE DEF rest
  <2>6. Pending(Write("objects", None, V) \o rest, objects, N, P)
    BY <1>8, <2>5, StoredFirst DEF rest
  <2>7. Writing(p, Write("objects", None, V) \o rest, j.then)
    <3>1. \A u, v, t : u \in Seq(Range(u)) /\ v \in Seq(Range(v)) /\ t \in Seq(Range(t)) => (u \o v) \o t = u \o (v \o t)
      <4> TAKE u, v, t
      <4> SUFFICES ASSUME u \in Seq(Range(u)), v \in Seq(Range(v)), t \in Seq(Range(t)) PROVE (u \o v) \o t = u \o (v \o t)
        OBVIOUS
      <4> DEFINE S == Range(u) \cup Range(v) \cup Range(t)
      <4>1. u \in Seq(S) /\ v \in Seq(S) /\ t \in Seq(S)
        OBVIOUS
      <4> HIDE DEF S
      <4> QED BY <4>1, ConcatAssociative
    <3>2. Write("objects", None, V) \in Seq(Range(Write("objects", None, V)))
      <4> DEFINE w == [file |-> "objects", key |-> None, value |-> V]
      <4>1. Write("objects", None, V) = <<w>>
        BY DEF Write
      <4> HIDE DEF w
      <4>2. <<w>> \in Seq({w}) /\ Range(<<w>>) = {w}
        BY Single
      <4> QED BY <4>1, <4>2
    <3>3. mw \in Seq(Range(mw)) /\ refs \in Seq(Range(refs))
      BY <1>11, <2>4 DEF Bounds
    <3> DEFINE W == Write("objects", None, V)
    <3>4. Writing(p, (W \o mw) \o refs, j.then)
      BY <1>10, <2>1 DEF mw
    <3> HIDE DEF W
    <3>5. (W \o mw) \o refs = W \o (mw \o refs)
      BY <3>1, <3>2, <3>3 DEF W
    <3> QED BY <3>4, <3>5 DEF rest, W
  <2>8. Pending(Write("objects", None, V) \o rest, objects', N, P)
    BY <1>12, <2>6
  <2> QED BY <1>1, <1>3, <1>12, <2>7, <2>8, WritingStep DEF N, P
<1>15. CASE job' = [job EXCEPT ![p] = [Idle EXCEPT !.at = "missing"]]
  <2> DEFINE i == [Idle EXCEPT !.at = "missing"]
  <2>1. i.at = "missing"
    BY DEF Idle
  <2> HIDE DEF i
  <2>2. Task(i, objects, server.objects, server.past)
    BY <2>1 DEF Task
  <2> QED BY <1>1, <1>15, <2>2, TaskStep DEF i
<1>16. CASE Stop(p)
  BY <1>1, <1>16, StopStep
<1> QED BY <1>1, <1>13, <1>14, <1>15, <1>16

-----------------------------------------------------------------------------
(***************************************************************************)
(* Pushing.  What is made of the head comes back as the head, the map that *)
(* is to be written is right, and without force the old value is under the *)
(* new one.                                                                *)
(***************************************************************************)
LEMMA KnownOnServer ==
    ASSUME NEW m, NEW O, NEW N, MapOf(m, O, N), \A n \in N : Whole(n), NEW K \in SUBSET DOMAIN m
    PROVE  \A d \in K : Whole(m[d]) /\ Imp(m[d]) = d
BY DEF MapOf

LEMMA SentMapRight ==
    ASSUME NEW m, NEW O, NEW N, MapOf(m, O, N), \A n \in N : Whole(n) /\ History(n) \subseteq N,
           NEW h, Ours(h), History(h) \subseteq O, NEW K \in SUBSET DOMAIN m
    PROVE  LET walked == Walked(h, K)
               names == [c \in walked |-> Exported(c, m, K)]
           IN  /\ h \in walked /\ Whole(names[h]) /\ Imp(names[h]) = h
               /\ MapOf(Over(names, m), O, N \cup History(names[h]))
<1> DEFINE walked == Walked(h, K)
           names == [c \in walked |-> Exported(c, m, K)]
           new == Exported(h, m, K)
           x == Over(names, m)
           N2 == N \cup History(new)
<1>1. \A d \in K : Whole(m[d]) /\ Imp(m[d]) = d
  BY KnownOnServer
<1>2. Whole(h)
  BY DEF Ours
<1>3. /\ h \in walked /\ walked \subseteq History(h)
      /\ \A k \in History(h) : k \in walked \/ \E e \in walked \cap K : k \in History(e)
  BY <1>2, WalkedCovers
<1>4. Whole(new) /\ Imp(new) = h
  BY <1>1, ExportedComesBack
<1>5. \A c \in walked : names[c] \in History(new) /\ Imp(names[c]) = c
  <2> SUFFICES ASSUME NEW c \in walked PROVE Exported(c, m, K) \in History(new) /\ Imp(Exported(c, m, K)) = c
    OBVIOUS
  <2>1. Exported(c, m, K) \in History(new)
    BY <1>1, ExportedReaches
  <2>2. Ours(c)
    <3>1. c \in History(h)
      BY <1>3
    <3> QED BY <1>2, <3>1, Parts DEF Ours
  <2> QED BY <1>1, <2>1, <2>2, ExportedComesBack
<1>6. names[h] = new /\ DOMAIN names = walked
  BY <1>3
<1>7. \A e \in walked \cap K : m[e] \in N /\ Imp(m[e]) = e /\ Whole(m[e])
  BY <1>1 DEF MapOf
<1> HIDE DEF walked, names, new
<1>8. /\ DOMAIN x = walked \cup DOMAIN m
      /\ \A c \in walked : x[c] = names[c]
      /\ \A c \in DOMAIN m \ walked : x[c] = m[c]
  BY <1>6 DEF Over
<1> HIDE DEF x
<1>9. \A c \in DOMAIN x : c \in O /\ x[c] \in N2 /\ Imp(x[c]) = c
  BY <1>3, <1>5, <1>8 DEF MapOf
<1>10. ASSUME PlainOn(N2) PROVE \A c \in DOMAIN x : History(x[c]) \subseteq Range(x)
  <2>1. \A e \in DOMAIN m : History(m[e]) \subseteq Range(m)
    <3>1. PlainOn(N)
      BY <1>10 DEF PlainOn
    <3> QED BY <3>1 DEF MapOf
  <2>2. ASSUME NEW c \in DOMAIN m PROVE m[c] \in Range(x)
    BY <1>8, <1>9, <1>10 DEF MapOf, PlainOn, Range
  <2>3. Range(m) \subseteq Range(x)
    BY <2>2 DEF Range
  <2>4. ASSUME NEW k \in History(new) PROVE k \in Range(x)
    <3>1. Imp(k) \in History(h)
      BY <1>4, ImportedHistory
    <3>2. CASE Imp(k) \in walked
      BY <1>8, <3>2, <1>9, <1>10 DEF PlainOn, Range
    <3>3. CASE \E e \in walked \cap K : Imp(k) \in History(e)
      <4>1. PICK e \in walked \cap K : Imp(k) \in History(e)
        BY <3>3
      <4>2. Whole(m[e]) /\ Imp(m[e]) = e /\ m[e] \in N /\ e \in DOMAIN m
        BY <1>7
      <4>3. PICK l \in History(m[e]) : Imp(l) = Imp(k)
        BY <4>2, ImportedHistory, <4>1
      <4>4. l \in N2 /\ k \in N2
        BY <4>2, <4>3
      <4>5. l = k
        BY <4>3, <4>4, <1>10 DEF PlainOn
      <4> QED BY <4>2, <4>3, <4>5, <2>1, <2>3
    <3> QED BY <3>1, <3>2, <3>3, <1>3
  <2>5. ASSUME NEW c \in walked PROVE History(names[c]) \subseteq Range(x)
    BY <1>4, <1>5, Parts, <2>4
  <2> QED BY <2>1, <2>3, <2>5, <1>8
<1>11. MapOf(x, O, N2)
  BY <1>9, <1>10 DEF MapOf
<1> QED BY <1>3, <1>4, <1>6, <1>11 DEF walked, names, new, x

\* The commits the map has for the old value are met by the walk, if one of them is an ancestor of the head.
LEMMA SentKeepsOld ==
    ASSUME NEW m, NEW O, NEW N, MapOf(m, O, N), \A n \in N : Whole(n), \A c \in O : Ours(c),
           NEW h, Ours(h), NEW old,
           {c \in DOMAIN m : m[c] = old} \cap History(h) # {}
    PROVE  old \in History(Exported(h, m, Closure({c \in DOMAIN m : m[c] = old}) \cap DOMAIN m))
<1> DEFINE I == {c \in DOMAIN m : m[c] = old}
           K == Closure(I) \cap DOMAIN m
<1>1. PICK c \in DOMAIN m : m[c] = old /\ c \in History(h)
  OBVIOUS
<1>2. c \in K
  BY <1>1 DEF Closure, History
<1>3. \A e \in K : e \in History(c)
  BY <1>1 DEF Closure, MapOf
<1>4. K \in SUBSET DOMAIN m
  OBVIOUS
<1> HIDE DEF K
<1>5. \A d \in K : Whole(m[d]) /\ Imp(m[d]) = d
  BY <1>4, KnownOnServer
<1>6. Whole(h) /\ Whole(c)
  BY DEF Ours, MapOf
<1>7. c \in Walked(h, K)
  BY <1>1, <1>6, WalkedCovers, <1>3, UnderEachOther
<1>8. Exported(c, m, K) \in History(Exported(h, m, K))
  BY <1>5, <1>7, ExportedReaches
<1>9. Exported(c, m, K) = old
  <2> DEFINE known == [d \in K |-> m[d]]
  <2>1. c \in DOMAIN known /\ known[c] = old
    BY <1>1, <1>2
  <2> HIDE DEF known
  <2>2. Converted(c, "plain", known) = old
    BY <1>6, <2>1, ConvertedKnown
  <2> QED BY <2>2 DEF Exported, known
<1> QED BY <1>8, <1>9 DEF K

LEMMA PushStep ==
    ASSUME IInv, NEW p \in Procs, NEW r \in Remotes, NEW force \in BOOLEAN, Push(p, r, force)
    PROVE  IInv'
<1> DEFINE m == map[r]
           N == server.objects
           h == heads[current]
           old == server.branches[current]
           I == {c \in DOMAIN m : m[c] = old}
           internal == IF old = None THEN {} ELSE I
           K == Closure(internal) \cap DOMAIN m
           walked == Walked(h, K)
           names == [c \in walked |-> Exported(c, m, K)]
           pack == {names[c] : c \in walked \ K}
           x == Over(names, m)
           j == [at |-> "send", remote |-> r, force |-> force, branch |-> current, head |-> h,
                 old |-> old, new |-> names[h], pack |-> pack, map |-> x]
<1>1. /\ h # None /\ MayPush(force, h, old, internal)
      /\ job' = [job EXCEPT ![p] = j] /\ UNCHANGED server /\ UNCHANGED local
  BY DEF Push, Begin
<1>2. /\ MapOf(m, objects, N) /\ current \in Branches
      /\ \A n \in N : Whole(n) /\ History(n) \subseteq N
      /\ \A c \in objects : Ours(c) /\ History(c) \subseteq objects
  BY DEF IInv, ServerGood, FilesOK
<1>3. h \in objects
  BY <1>1 DEF IInv, FilesOK
<1>4. K \in SUBSET DOMAIN m
  OBVIOUS
<1>5. ~ force /\ old # None => old \in History(Exported(h, m, K))
  <2> SUFFICES ASSUME ~ force, old # None PROVE old \in History(Exported(h, m, K))
    OBVIOUS
  <2>1. internal = I /\ I \cap History(h) # {}
    BY <1>1 DEF MayPush
  <2>2. K = Closure(I) \cap DOMAIN m
    BY <2>1
  <2>3. Ours(h)
    BY <1>2, <1>3
  <2> HIDE DEF m, N, h, old, internal, K
  <2>4. old \in History(Exported(h, m, Closure(I) \cap DOMAIN m))
    BY <1>2, <2>1, <2>3, SentKeepsOld
  <2> QED BY <2>2, <2>4
<1>6. j.at = "send" /\ j.remote = r /\ j.force = force /\ j.branch = current /\ j.head = h /\ j.old = old
      /\ j.new = names[h] /\ j.map = x
  OBVIOUS
<1> HIDE DEF j, K, m, N, h, old
<1>7. h \in walked /\ Whole(names[h]) /\ Imp(names[h]) = h /\ MapOf(x, objects, N \cup History(names[h]))
  BY <1>2, <1>3, <1>4, SentMapRight
<1>8. names[h] = Exported(h, m, K)
  BY <1>7
<1> HIDE DEF names, x
<1>9. Sending(j, objects, N, server.past)
  BY <1>2, <1>3, <1>5, <1>6, <1>7, <1>8 DEF Sending
<1>10. Task(j, objects, server.objects, server.past)
  BY <1>6, <1>9 DEF Task, N
<1> QED BY <1>1, <1>10, TaskStep

LEMMA PushSendStep ==
    ASSUME IInv, NEW p \in Procs, PushSend(p)
    PROVE  IInv'
<1> DEFINE j == job[p]
           B == [server.branches EXCEPT ![j.branch] = j.new]
           accepted == Accepts(j.branch, j.old, j.new, j.pack)
           todo == Write("map", j.remote, j.map) \o Write("tracking", <<j.remote, j.branch>>, j.head)
<1>1. /\ j.at = "send" /\ UNCHANGED local
      /\ server' = IF accepted THEN Pointed(B) ELSE server
      /\ IF accepted THEN Writing(p, todo, <<>>) ELSE Stop(p)
  BY DEF PushSend, Expected, Reported, Sent
<1>2. Sending(j, objects, server.objects, server.past)
  BY <1>1 DEF IInv, JobsOK, Task
<1>3. CASE ~ accepted
  BY <1>1, <1>3, StopStep
<1>4. CASE accepted
  <2>1. server' = Pointed(B) /\ Writing(p, todo, <<>>) /\ j.new # None
    BY <1>1, <1>4 DEF Accepts
  <2> HIDE DEF j
  <2> DEFINE M == server.objects \cup {j.new}
  <2>2. ServerGood(server)
    BY DEF IInv
  <2>3. B \in [Branches -> M \cup {None}] /\ B[j.branch] = j.new /\ j.branch \in Branches
    BY <1>2, <2>2, ServerParts DEF Sending
  <2>4. \A n \in M : Whole(n)
    BY <1>2, <2>2, ServerParts DEF Sending
  <2> HIDE DEF B, M
  <2>5. /\ ServerGood(server')
        /\ server.objects \subseteq server'.objects /\ \A b \in Branches : server.past[b] \subseteq server'.past[b]
        /\ j.new \in server'.past[j.branch] /\ History(j.new) \subseteq server'.objects
    BY <2>1, <2>2, <2>3, <2>4, PointedGood
  <2>6. More(objects, server.objects, server.past, objects, server'.objects, server'.past)
    BY <2>5 DEF More
  <2>7. objects' = objects
    BY <1>1 DEF local
  <2>8. FilesOK'
    BY <1>1, <2>6, FilesKept DEF IInv
  <2>9. Bounds(Write("map", j.remote, j.map), objects, server'.objects, server'.past)
    <3>1. MapOf(j.map, objects, server'.objects)
      BY <1>2, <2>5, MapGrows DEF Sending
    <3>2. Bound([file |-> "map", key |-> j.remote, value |-> j.map], objects, server'.objects, server'.past)
      BY <1>2, <3>1 DEF Bound, Sending
    <3> QED BY <3>2, OneWrite
  <2>10. Bounds(Write("tracking", <<j.remote, j.branch>>, j.head), objects, server'.objects, server'.past)
    <3> DEFINE w == [file |-> "tracking", key |-> <<j.remote, j.branch>>, value |-> j.head]
    <3>1. w.file = "tracking" /\ w.key = <<j.remote, j.branch>> /\ w.value = j.head
      OBVIOUS
    <3> HIDE DEF w
    <3>2. Was(j.branch, j.head, server'.past) /\ j.head \in objects /\ j.remote \in Remotes
      BY <1>2, <2>5 DEF Was, Sending
    <3>3. Bound(w, objects, server'.objects, server'.past)
      BY <2>3, <3>1, <3>2 DEF Bound
    <3> QED BY <3>3, OneWrite DEF w
  <2>11. Bounds(todo, objects, server'.objects, server'.past)
    BY <2>9, <2>10, MoreWrites
  <2> HIDE DEF todo
  <2>12. Pending(todo, objects, server'.objects, server'.past) /\ Follows(<<>>)
    BY <2>11 DEF Pending, Follows
  <2> DEFINE k == IF todo = <<>> /\ <<>> = <<>> THEN Idle ELSE [at |-> "write", todo |-> todo, then |-> <<>>]
  <2>13. Task(k, objects, server'.objects, server'.past)
    BY <2>12, WritingTask
  <2>14. job' = [job EXCEPT ![p] = k]
    BY <2>1 DEF Writing
  <2> HIDE DEF k
  <2>15. JobsOK'
    BY <2>6, <2>13, TasksKept, <2>14, <2>7 DEF IInv, JobsOK
  <2> QED BY <2>5, <2>8, <2>15 DEF IInv
<1> QED BY <1>3, <1>4

-----------------------------------------------------------------------------
(***************************************************************************)
(* The invariant holds at the start and is kept by every step.             *)
(***************************************************************************)
LEMMA TipIs ==
    ASSUME NEW x \in Scenarios
    PROVE  /\ Whole(x.tip) /\ History(x.tip) = {x.tip}
           /\ Ours(Imp(x.tip)) /\ History(Imp(x.tip)) = {Imp(x.tip)}
<1>1. PICK kind \in Foreign \ {"tag"} : x.tip = Object(kind, x.tip.id, <<>>)
  BY Beginnings
<1>2. <<>> \in Seq({}) /\ Range(<<>>) = {}
  BY DEF Range
<1>3. Whole(x.tip) /\ History(x.tip) = {x.tip}
  <2> DEFINE ps == <<>>
             n == Object(kind, x.tip.id, ps)
  <2>1. kind # "tag" /\ kind \in Kinds /\ ps \in Seq({}) /\ \A d \in Range(ps) : Whole(d)
    BY <1>1, <1>2, ForeignKinds DEF Kinds
  <2>2. Range(ps) = {}
    BY <1>2
  <2> HIDE DEF ps
  <2>3. Whole(n) /\ History(n) = {n} \cup UNION {History(d) : d \in Range(ps)}
    BY <2>1, NewObject
  <2>4. History(n) = {n}
    BY <2>2, <2>3
  <2>5. x.tip = n
    BY <1>1 DEF ps
  <2> HIDE DEF n
  <2> QED BY <2>3, <2>4, <2>5
<1>4. Ours(Imp(x.tip)) /\ History(Imp(x.tip)) = {Imp(m) : m \in History(x.tip)}
  BY <1>3, ImportedHistory
<1>5. {Imp(m) : m \in {x.tip}} = {Imp(x.tip)}
  OBVIOUS
<1> QED BY <1>3, <1>4, <1>5

LEMMA InitIInv ==
    ASSUME Init
    PROVE  IInv
<1>1. PICK x \in Scenarios : Start(x)
  BY DEF Init
<1> DEFINE t == x.tip
           c == Imp(t)
           S == [NoBranches EXCEPT ![x.branch] = t]
           past == [b \in Branches |-> IF b = x.branch THEN {t} ELSE {}]
<1>2. Whole(t) /\ History(t) = {t} /\ Ours(c) /\ History(c) = {c}
  BY TipIs
<1>3. x.branch \in Branches /\ x.remotes \subseteq Remotes
  BY Beginnings
<1>4. /\ server = [branches |-> S, tags |-> [y \in Tags |-> None], objects |-> {t}, past |-> past]
      /\ current = x.branch /\ tags = [y \in Tags |-> None] /\ job = [y \in Procs |-> Idle]
  BY <1>1, <1>2 DEF Start
<1> HIDE DEF t, c
<1>5. server.objects = {t} /\ server.past = past
  BY <1>4
<1>6. ServerGood(server)
  <2>1. S \in [Branches -> {t} \cup {None}] /\ \A b \in Branches : S[b] # None => S[b] \in past[b]
    BY <1>3 DEF NoBranches
  <2>2. past \in [Branches -> SUBSET {t}] /\ [y \in Tags |-> None] \in [Tags -> {t} \cup {None}]
    OBVIOUS
  <2> HIDE DEF S, past
  <2>3. \A n \in {t} : Whole(n) /\ History(n) \subseteq {t}
    BY <1>2
  <2> QED BY <1>4, <2>1, <2>2, <2>3, ServerOf
<1>7. MapOf(<<>>, objects, {t})
  BY DEF MapOf
<1>8. FilesOK
  <2>1. CASE x.remotes = {}
    <3>1. /\ objects = {} /\ config = {} /\ heads = NoBranches
          /\ tracking = [r \in Remotes |-> NoBranches] /\ map = [r \in Remotes |-> <<>>]
      BY <1>1, <2>1 DEF Start
    <3>2. map = [r \in Remotes |-> map[r]] /\ \A r \in Remotes : MapOf(map[r], objects, server.objects)
      BY <1>5, <1>7, <3>1
    <3>3. tracking \in [Remotes -> [Branches -> objects \cup {None}]] /\ \A r \in Remotes, b \in Branches : tracking[r][b] = None
      BY <3>1 DEF NoBranches
    <3>4. heads \in [Branches -> objects \cup {None}] /\ tags \in [Tags -> objects \cup {None}]
      BY <1>4, <3>1 DEF NoBranches
    <3> QED BY <1>3, <1>4, <3>1, <3>2, <3>3, <3>4 DEF FilesOK
  <2>2. CASE x.remotes # {}
    <3> DEFINE H == [NoBranches EXCEPT ![x.branch] = c]
               m == [k \in {c} |-> t]
    <3>1. /\ objects = {c} /\ config = x.remotes /\ heads = H
          /\ tracking = [r \in Remotes |-> IF r \in x.remotes THEN H ELSE NoBranches]
          /\ map = [r \in Remotes |-> IF r \in x.remotes THEN m ELSE <<>>]
      BY <1>1, <2>2 DEF Start, Imp, c, t
    <3>2. H \in [Branches -> {c} \cup {None}] /\ NoBranches \in [Branches -> {c} \cup {None}]
          /\ \A b \in Branches : NoBranches[b] = None /\ (b # x.branch => H[b] = None) /\ (b = x.branch => H[b] = c)
      BY <1>3 DEF NoBranches
    <3>3. MapOf(m, {c}, {t})
      BY <1>2 DEF MapOf, Range, c
    <3> HIDE DEF H, m
    <3>4. Was(x.branch, c, past)
      BY <1>3 DEF Was, c
    <3>5. \A r \in Remotes, b \in Branches : tracking[r][b] # None => Was(b, tracking[r][b], server.past)
      BY <1>5, <3>1, <3>2, <3>4
    <3>6. map = [r \in Remotes |-> map[r]] /\ \A r \in Remotes : MapOf(map[r], objects, server.objects)
      BY <1>5, <1>7, <3>1, <3>3
    <3>7. tracking \in [Remotes -> [Branches -> objects \cup {None}]]
      BY <3>1, <3>2
    <3>8. tags \in [Tags -> objects \cup {None}]
      BY <1>4
    <3>9. \A y \in objects : Ours(y) /\ History(y) \subseteq objects
      BY <1>2, <3>1
    <3> QED BY <1>3, <1>4, <3>1, <3>2, <3>5, <3>6, <3>7, <3>8, <3>9 DEF FilesOK
  <2> QED BY <2>1, <2>2
<1>9. JobsOK
  BY <1>4, IdleTask DEF JobsOK
<1> QED BY <1>6, <1>8, <1>9 DEF IInv

LEMMA Unmoved ==
    ASSUME IInv, UNCHANGED vars
    PROVE  IInv'
BY FilesKept, QuietStep DEF vars, More, IInv, local

LEMMA CommandStep ==
    ASSUME IInv, NEW p \in Procs, Command(p)
    PROVE  IInv'
BY PushStep, RemoteStep, CloneStep, FetchStep DEF Command

LEMMA NextIInv ==
    ASSUME IInv, [Next]_vars
    PROVE  IInv'
<1>1. CASE UNCHANGED vars
  BY <1>1, Unmoved
<1>2. CASE Others
  BY <1>2, OthersStep
<1>3. ASSUME NEW p \in Procs,
             \/ Command(p) \/ Work(p) \/ Crash(p) \/ Commit(p)
             \/ \E b \in Branches : Checkout(p, b)
      PROVE  IInv'
  <2>1. CASE Command(p)
    BY <2>1, CommandStep
  <2>2. CASE Work(p)
    BY <2>2, TransferStep, PushSendStep, WriteFileStep, AfterPullStep, AfterCloneStep DEF Work
  <2>3. CASE Crash(p)
    BY <2>3, CrashStep
  <2>4. CASE Commit(p)
    BY <2>4, CommitStep
  <2>5. CASE \E b \in Branches : Checkout(p, b)
    BY <2>5, CheckoutStep
  <2> QED BY <1>3, <2>1, <2>2, <2>3, <2>4, <2>5
<1> QED BY <1>1, <1>2, <1>3 DEF Next

\* In every state there can be, the server, the files and what is pending in every job are right.
THEOREM Invariant == Spec => []IInv
<1>1. Init => IInv
  BY InitIInv
<1>2. IInv /\ [Next]_vars => IInv'
  BY NextIInv
<1> QED BY <1>1, <1>2, PTL DEF Spec

-----------------------------------------------------------------------------
(***************************************************************************)
(* What follows from it.                                                   *)
(***************************************************************************)
\* Whatever native object the map names, while no two are the same commit, it names the history of too, so
\* that what the server leaves out of a pack is known: fetch and push record every object they convert.
THEOREM MapsAreClosed == Spec => []HavesAreClosed
<1>1. IInv => HavesAreClosed
  BY DEF HavesAreClosed, Plain, PlainOn, Imp, IInv, FilesOK, MapOf, Range, Closure
<1> QED BY <1>1, Invariant, PTL

\* Whatever a ref or the map names is stored with all its history, though commands run at once, write their
\* files one by one and may be cut short: objects go first, then the map, then the refs.
THEOREM StoredWithHistory == Spec => []NamesAreStored
<1>1. IInv => NamesAreStored
  <2> SUFFICES ASSUME IInv PROVE NamesAreStored
    OBVIOUS
  <2> DEFINE names == Natives(heads) \cup Natives(tags) \cup UNION {Natives(tracking[r]) \cup DOMAIN map[r] : r \in Remotes}
  <2>1. FilesOK
    BY DEF IInv
  <2>2. Natives(heads) \subseteq objects /\ Natives(tags) \subseteq objects
    BY <2>1 DEF FilesOK, Natives, Range
  <2>3. ASSUME NEW r \in Remotes PROVE Natives(tracking[r]) \subseteq objects /\ DOMAIN map[r] \subseteq objects
    BY <2>1 DEF FilesOK, Natives, Range, MapOf
  <2>4. names \subseteq objects
    BY <2>2, <2>3
  <2> HIDE DEF names
  <2>5. Closure(names) \subseteq objects
    BY <2>1, <2>4 DEF FilesOK, Closure
  <2>6. \A r \in Remotes : \A c \in DOMAIN map[r] : Imported(map[r][c], <<>>) = c
    BY <2>1 DEF FilesOK, MapOf, Imp
  <2> QED BY <2>5, <2>6 DEF NamesAreStored, names
<1> QED BY <1>1, Invariant, PTL

\* A tracking ref names what its branch was on the server at some time, also when HEAD or the server moves
\* while the push or the fetch that sets it is under way.
THEOREM TrackingIsPast == Spec => []TrackingWasThere
<1>1. IInv => TrackingWasThere
  BY DEF IInv, FilesOK, Was, Imp, TrackingWasThere
<1> QED BY <1>1, Invariant, PTL

\* Only sending a push takes a process from the request to the writes.
LEMMA OwnStep ==
    ASSUME NEW q \in Procs,
           \/ Command(q) \/ Work(q) \/ Crash(q) \/ Commit(q)
           \/ \E b \in Branches : Checkout(q, b)
    PROVE  \/ UNCHANGED job
           \/ \E j : /\ job' = [job EXCEPT ![q] = j]
                     /\ PushSend(q) \/ job[q].at # "send" \/ j.at = "end"
<1>0. Idle.at = "end"
  BY DEF Idle
<1>1. \A task : Begin(q, task) => job' = [job EXCEPT ![q] = task] /\ job[q].at # "send"
  BY <1>0 DEF Begin
<1>2. \A todo : Manage(q, todo) => \E j : job' = [job EXCEPT ![q] = j] /\ job[q].at # "send"
  BY <1>1 DEF Manage
<1>3. CASE Command(q)
  <2>1. PICK r \in Remotes :
            \/ Clone(q, r) \/ Fetch(q, r) \/ Pull(q, r) \/ (\E force \in BOOLEAN : Push(q, r, force))
            \/ AddRemote(q, r) \/ RemoveRemote(q, r) \/ PruneRemote(q, r)
            \/ \E s \in Remotes : RenameRemote(q, r, s)
    BY <1>3 DEF Command
  <2>2. CASE Clone(q, r) \/ Fetch(q, r) \/ Pull(q, r)
    BY <2>2, <1>1 DEF Clone, Fetch, Pull
  <2>3. CASE \E force \in BOOLEAN : Push(q, r, force)
    BY <2>3, <1>1 DEF Push
  <2>4. CASE AddRemote(q, r) \/ RemoveRemote(q, r) \/ PruneRemote(q, r)
    BY <2>4, <1>2 DEF AddRemote, RemoveRemote, PruneRemote
  <2>5. CASE \E s \in Remotes : RenameRemote(q, r, s)
    BY <2>5, <1>2 DEF RenameRemote
  <2> QED BY <2>1, <2>2, <2>3, <2>4, <2>5
<1>4. Stop(q) => \E j : job' = [job EXCEPT ![q] = j] /\ j.at = "end"
  BY <1>0 DEF Stop
<1>5. \A todo, then : Writing(q, todo, then) => \E j : job' = [job EXCEPT ![q] = j]
  BY DEF Writing
<1>6. CASE Work(q)
  <2>1. CASE PushSend(q)
    BY <2>1, <1>4, <1>5 DEF PushSend
  <2>2. CASE Transfer(q)
    BY <2>2, <1>4, <1>5 DEF Transfer
  <2>3. CASE WriteFile(q)
    BY <2>3, <1>4, <1>5 DEF WriteFile
  <2>4. CASE AfterPull(q)
    BY <1>4, <1>5, <2>4 DEF Merge, AfterPull
  <2>5. CASE AfterClone(q)
    BY <2>5, <1>4, <1>5 DEF AfterClone
  <2> QED BY <1>6, <2>1, <2>2, <2>3, <2>4, <2>5 DEF Work
<1>7. CASE Crash(q)
  BY <1>7, <1>4 DEF Crash
<1>8. CASE Commit(q) \/ \E b \in Branches : Checkout(q, b)
  BY <1>8 DEF Commit, Checkout
<1> QED BY <1>3, <1>6, <1>7, <1>8

LEMMA OnlyPushSend ==
    ASSUME IInv, [Next]_vars, NEW p \in Procs, job[p].at = "send", job'[p].at = "write"
    PROVE  PushSend(p)
<1>1. job = [x \in Procs |-> job[x]]
  BY DEF IInv, JobsOK
<1>2. CASE UNCHANGED job
  BY <1>2
<1>3. CASE Others
  BY <1>2, <1>3 DEF Others
<1>4. ASSUME NEW q \in Procs,
             \/ Command(q) \/ Work(q) \/ Crash(q) \/ Commit(q)
             \/ \E b \in Branches : Checkout(q, b)
      PROVE  PushSend(p)
  <2>1. PICK j : job' = [job EXCEPT ![q] = j] /\ (PushSend(q) \/ job[q].at # "send" \/ j.at = "end")
    BY <1>4, OwnStep, <1>2
  <2>2. CASE q # p
    <3>1. job'[p] = job[p]
      BY <1>1, <2>1, <2>2
    <3> QED BY <3>1
  <2>3. CASE q = p
    BY <1>1, <2>1, <2>3
  <2> QED BY <2>2, <2>3
<1>5. UNCHANGED vars => UNCHANGED job
  BY DEF vars
<1> QED BY <1>2, <1>3, <1>4, <1>5 DEF Next

\* A push that is not forced takes no commit from a branch of the server, whoever moved it since the push read
\* the advertisement: what is under the new value is settled then, and the server compares the old value.
THEOREM PushKeepsHistory == Spec => UnforcedPushKeepsHistory
<1> DEFINE Keeps(p) == (job[p].at = "send" /\ job'[p].at = "write" /\ ~ job[p].force /\ server.branches[job[p].branch] # None)
                          => server.branches[job[p].branch] \in History(server'.branches[job[p].branch])
<1>1. IInv /\ [Next]_vars => \A p \in Procs : Keeps(p)
  <2> SUFFICES ASSUME IInv, [Next]_vars, NEW p \in Procs, job[p].at = "send", job'[p].at = "write", ~ job[p].force,
                      server.branches[job[p].branch] # None
               PROVE  server.branches[job[p].branch] \in History(server'.branches[job[p].branch])
    OBVIOUS
  <2> DEFINE j == job[p]
             B == [server.branches EXCEPT ![j.branch] = j.new]
             accepted == Accepts(j.branch, j.old, j.new, j.pack)
  <2>1. PushSend(p)
    BY OnlyPushSend
  <2>2. /\ server' = IF accepted THEN Pointed(B) ELSE server
        /\ ~ accepted => Stop(p)
    BY <2>1 DEF PushSend, Expected, Reported
  <2>3. ~ Stop(p)
    BY DEF Stop, Idle, IInv, JobsOK
  <2>4. server' = Pointed(B) /\ server.branches[j.branch] = j.old
    BY <2>2, <2>3 DEF Accepts
  <2>5. Sending(j, objects, server.objects, server.past)
    BY DEF IInv, JobsOK, Task
  <2>6. j.old \in History(j.new) /\ Whole(j.new) /\ j.branch \in Branches
    BY <2>4, <2>5 DEF Sending
  <2> HIDE DEF j
  <2> DEFINE M == server.objects \cup {j.new}
  <2>7. ServerGood(server) /\ \A n \in M : Whole(n)
    BY <2>6, ServerParts DEF IInv
  <2>8. B \in [Branches -> M \cup {None}] /\ B[j.branch] = j.new
    BY <2>6, <2>7, ServerParts
  <2> HIDE DEF B, M
  <2>9. server'.branches = B
    BY <2>4, <2>7, <2>8, PointedGood
  <2> QED BY <2>4, <2>6, <2>8, <2>9 DEF j
<1>2. (\A p \in Procs : Keeps(p)) <=>
      \A p \in Procs :
          (job[p].at = "send" /\ job'[p].at = "write" /\ ~ job[p].force /\ server.branches[job[p].branch] # None)
              => server.branches[job[p].branch] \in History(server'.branches[job[p].branch])
  OBVIOUS
<1> HIDE DEF Keeps
<1> QED BY <1>1, <1>2, Invariant, PTL DEF Spec, UnforcedPushKeepsHistory

\* Every object has a kind, only what is on the server is advertised or mapped to, and a process is never
\* in a state its commands do not have.
THEOREM TypeCorrect == Spec => []TypeOK
<1>1. IInv => TypeOK
  <2> SUFFICES ASSUME IInv PROVE TypeOK
    OBVIOUS
  <2>1. ServerGood(server) /\ FilesOK /\ JobsOK
    BY DEF IInv
  <2>2. ASSUME NEW n, Whole(n) PROVE IsObject(n)
    <3>1. n.kind \in Kinds /\ n.parents \in Seq(n.under)
      BY <2>2 DEF Whole, Made, History
    <3>2. IsFiniteSet(Range(n.parents))
      <4> DEFINE ps == n.parents
      <4>1. Len(ps) \in Nat /\ DOMAIN ps = 1..Len(ps) /\ ps \in [1..Len(ps) -> Range(ps)]
        BY <3>1 DEF Range
      <4>2. ps \in Surjection(1..Len(ps), Range(ps))
        BY <4>1 DEF Surjection, Range
      <4>3. IsFiniteSet(1..Len(ps))
        BY <4>1, FS_Interval
      <4> QED BY <4>2, <4>3, FS_Surjection
    <3> QED BY <3>1, <3>2 DEF IsObject, Kinds
  <2>3. \A n \in server.objects \cup objects : Whole(n)
    BY <2>1, ServerParts DEF FilesOK, Ours
  <2>4. Tips \subseteq server.objects
    BY <2>1, ServerParts DEF Tips, Natives, Range
  <2>5. \A r \in Remotes : Range(map[r]) \subseteq server.objects
    BY <2>1 DEF FilesOK, MapOf, Range
  <2>6. \A p \in Procs : job[p].at \in {"end", "fetch", "missing", "send", "write"}
    BY <2>1 DEF JobsOK, Task
  <2> QED BY <2>1, <2>2, <2>3, <2>4, <2>5, <2>6 DEF TypeOK, FilesOK
<1> QED BY <1>1, Invariant, PTL
=============================================================================

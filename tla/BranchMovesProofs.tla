------------------------- MODULE BranchMovesProofs --------------------------
(***************************************************************************)
(* Proofs about the branch commands, for every set of branch names and of  *)
(* names beneath them, every disk to start from, any number of commands    *)
(* and a failure or a kill at any write.                                   *)
(***************************************************************************)
EXTENDS BranchMoves, SequenceTheorems, TLAPS

-----------------------------------------------------------------------------
(***************************************************************************)
(* Paths.                                                                  *)
(***************************************************************************)
LEMMA Kinds ==
    ASSUME NEW f \in Files
    PROVE  \/ f \in {Config, Packed, HeadFile, Log(None)}
           \/ \E n \in Names : f = Loose(n) \/ f = Log(n)
BY DEF Files

\* Every path is a file of its own.
LEMMA Differ ==
    /\ {Config, Packed, HeadFile, Log(None)} \subseteq Files
    /\ Config # Packed /\ Config # HeadFile /\ Packed # HeadFile
    /\ Config # Log(None) /\ Packed # Log(None) /\ HeadFile # Log(None)
    /\ \A n \in Names : /\ Loose(n) \in Files /\ Log(n) \in Files
                        /\ {Loose(n), Log(n)} \cap {Config, Packed, HeadFile, Log(None)} = {}
    /\ \A m, n \in Names : /\ Loose(m) # Log(n)
                           /\ Loose(m) = Loose(n) => m = n
                           /\ Log(m) = Log(n) => m = n
BY Distinct DEF Files, Loose, Log, Config, Packed, HeadFile

\* Only refs and logs of branches lie beneath one another.
LEMMA OverNames ==
    ASSUME NEW f \in Files, NEW g \in Files, Over(f, g)
    PROVE  \E m, n \in Names : /\ <<n, m>> \in Under
                               /\ \/ f = Loose(m) /\ g = Loose(n)
                                  \/ f = Log(m) /\ g = Log(n)
<1>1. f[1] = g[1] /\ <<g[2], f[2]>> \in Under
  BY DEF Over
<1>2. g[2] \in Names /\ f[2] \in Names
  BY <1>1, UnderIsOrder
<1>3. \A h \in Files : h[2] \in Names => h = Loose(h[2]) \/ h = Log(h[2])
  BY Distinct DEF Files, Config, Packed, HeadFile, Loose, Log
<1>4. \A n : Loose(n)[1] = "refs" /\ Log(n)[1] = "logs"
  BY DEF Loose, Log
<1> DEFINE m == f[2]
           n == g[2]
<1>5. m \in Names /\ n \in Names /\ <<n, m>> \in Under
  BY <1>1, <1>2
<1>6. (f = Loose(m) /\ g = Loose(n)) \/ (f = Log(m) /\ g = Log(n))
  BY <1>1, <1>3, <1>4, <1>5
<1> HIDE DEF m, n
<1> QED BY <1>5, <1>6

LEMMA OverIs ==
    ASSUME NEW m \in Names, NEW n \in Names
    PROVE  /\ Over(Loose(m), Loose(n)) <=> <<n, m>> \in Under
           /\ Over(Log(m), Log(n)) <=> <<n, m>> \in Under
           /\ ~Over(Loose(m), Log(n)) /\ ~Over(Log(m), Loose(n))
BY DEF Over, Loose, Log

\* The config, the packed refs, HEAD and its log lie above nothing and beneath nothing.
LEMMA OverNothing ==
    ASSUME NEW f \in Files, NEW g \in {Config, Packed, HeadFile, Log(None)} PROVE ~Over(f, g) /\ ~Over(g, f)
<1>1. g[2] \notin Names
  BY Distinct DEF Config, Packed, HeadFile, Log
<1> QED BY <1>1, UnderIsOrder DEF Over

\* To lie above is a strict order.
LEMMA OverIsOrder ==
    ASSUME NEW f \in Files, NEW g \in Files, NEW h \in Files
    PROVE  /\ ~Over(f, f)
           /\ Over(f, g) /\ Over(g, h) => Over(f, h)
           /\ Over(f, g) => ~Over(g, f)
BY UnderIsOrder DEF Over

-----------------------------------------------------------------------------
(***************************************************************************)
(* What paths hold.                                                        *)
(***************************************************************************)
\* What each kind of path holds.
LEMMA Contents ==
    /\ Kept(Config) = [Names -> Settings] /\ MayHold(Config) = Kept(Config)
    /\ Kept(Packed) = [Names -> Oids \cup {None}] /\ MayHold(Packed) = Kept(Packed)
    /\ Kept(HeadFile) = Names \cup Oids /\ MayHold(HeadFile) = Kept(HeadFile)
    /\ Kept(Log(None)) = Seq(Records) \cup {None} /\ MayHold(Log(None)) = Kept(Log(None))
    /\ \A n \in Names : /\ Kept(Loose(n)) = Oids \cup {None} /\ MayHold(Loose(n)) = Kept(Loose(n)) \cup {Dir}
                        /\ Kept(Log(n)) = Seq(Records) \cup {None} /\ MayHold(Log(n)) = Kept(Log(n)) \cup {Dir}
<1>1. \A n : Loose(n)[1] = "refs" /\ Loose(n)[2] = n /\ Log(n)[1] = "logs" /\ Log(n)[2] = n
  BY DEF Loose, Log
<1>2. Config[1] = "config" /\ Packed[1] = "packed-refs" /\ HeadFile[1] = "HEAD"
  BY DEF Config, Packed, HeadFile
<1>3. None \notin Names
  BY Distinct
<1>4. Kept(Config) = [Names -> Settings] /\ MayHold(Config) = Kept(Config)
  BY <1>2 DEF Kept, MayHold, Holds
<1>5. Kept(Packed) = [Names -> Oids \cup {None}] /\ MayHold(Packed) = Kept(Packed)
  BY <1>2, Differ DEF Kept, MayHold, Holds
<1>6. Kept(HeadFile) = Names \cup Oids /\ MayHold(HeadFile) = Kept(HeadFile)
  BY <1>2, Differ DEF Kept, MayHold, Holds
<1>7. Kept(Log(None)) = Seq(Records) \cup {None} /\ MayHold(Log(None)) = Kept(Log(None))
  BY <1>1, <1>3, Differ DEF Kept, MayHold, Holds
<1>8. ASSUME NEW n \in Names
      PROVE  /\ Kept(Loose(n)) = Oids \cup {None} /\ MayHold(Loose(n)) = Kept(Loose(n)) \cup {Dir}
             /\ Kept(Log(n)) = Seq(Records) \cup {None} /\ MayHold(Log(n)) = Kept(Log(n)) \cup {Dir}
  BY <1>1, Differ DEF Kept, MayHold, Holds
<1> QED BY <1>4, <1>5, <1>6, <1>7, <1>8

LEMMA NoDir == ASSUME NEW f \in Files PROVE Dir \notin Kept(f) /\ Kept(f) \subseteq MayHold(f)
BY NothingIsNoFile, Distinct DEF Kept, MayHold

LEMMA NoSequence == None \notin Seq(Records) /\ Dir \notin Seq(Records)
<1>1. Log(None) \in Files /\ Holds(Log(None)) = Seq(Records)
  BY Differ DEF Log, Holds
<1> QED BY <1>1, NothingIsNoFile

Writes == {Refusal} \cup UNION {[at : {f}, to : Kept(f), prune : BOOLEAN] : f \in Files}

\* A write is to a file, and leaves no directory where it writes.
LEMMA WriteForm ==
    ASSUME NEW w \in Writes
    PROVE  /\ w.at \in Files
           /\ w # Refusal => w = [at |-> w.at, to |-> w.to, prune |-> w.prune] /\ w.to \in Kept(w.at) /\ w.to # Dir
<1>1. CASE w = Refusal
  BY <1>1, Differ DEF Refusal
<1>2. CASE w # Refusal
  BY <1>2, NoDir DEF Writes
<1> QED BY <1>1, <1>2

LEMMA IsAWrite ==
    ASSUME NEW f \in Files, NEW v \in Kept(f), NEW b \in BOOLEAN
    PROVE  /\ [at |-> f, to |-> v, prune |-> b] \in Writes
           /\ [at |-> f, to |-> v, prune |-> b] # Refusal
<1>1. v # Dir
  BY NoDir
<1> QED BY <1>1 DEF Writes, Refusal

-----------------------------------------------------------------------------
(***************************************************************************)
(* One write.                                                              *)
(***************************************************************************)
\* What is in a file: a directory holds nothing.
File(d, f) == IF d[f] = Dir THEN None ELSE d[f]

\* Whatever the disk, a write leaves one that has its shape.
LEMMA AfterShape ==
    ASSUME NEW d, Shaped(d), NEW w \in Writes, w # Refusal
    PROVE  Shaped(After(d, w))
<1> DEFINE e == After(d, w)
<1>1. w.at \in Files /\ w.to \in Kept(w.at)
  BY WriteForm
<1>2. e = [f \in Files |-> e[f]]
  BY DEF After
<1>3. ASSUME NEW f \in Files PROVE e[f] \in MayHold(f)
  <2>1. CASE f = w.at
    BY <1>1, <2>1, NoDir DEF After
  <2>2. CASE f # w.at /\ Over(f, w.at)
    <3>1. PICK n \in Names : f = Loose(n) \/ f = Log(n)
      BY <1>1, <2>2, OverNames
    <3>2. {None, Dir} \subseteq MayHold(f)
      BY <3>1, Contents
    <3>3. e[f] \in {None, Dir, d[f]}
      BY <2>2 DEF After
    <3> QED BY <3>2, <3>3 DEF Shaped
  <2>3. CASE f # w.at /\ ~Over(f, w.at)
    BY <2>3 DEF After, Shaped
  <2> QED BY <2>1, <2>2, <2>3
<1> QED BY <1>2, <1>3 DEF Shaped

\* A write that does not raise changes one file and makes or prunes directories above it.
LEMMA Writing ==
    ASSUME NEW d, Shaped(d), IsTree(d), NEW w \in Writes, w # Refusal, ~Blocked(d, w.at)
    PROVE  /\ Shaped(After(d, w)) /\ IsTree(After(d, w))
           /\ w.at \in Files /\ w.to \in Kept(w.at) /\ w.to # Dir
           /\ After(d, w)[w.at] = w.to
           /\ \A f \in Files \ {w.at} : /\ File(After(d, w), f) = File(d, f)
                                        /\ ~Over(f, w.at) => After(d, w)[f] = d[f]
                                        /\ Over(f, w.at) => {d[f], After(d, w)[f]} \subseteq {None, Dir}
           /\ w.to = None => \A f \in Files : After(d, w)[f] = Dir => d[f] = Dir
<1> DEFINE e == After(d, w)
<1>1. w # Refusal /\ w.at \in Files /\ w.to \in Kept(w.at) /\ w.to # Dir
  BY WriteForm
<1>2. d[w.at] # Dir /\ \A f \in Files : Over(f, w.at) => d[f] \in {None, Dir}
  BY DEF Blocked
<1>3. e[w.at] = w.to
  BY <1>1 DEF After
<1>4. \A f \in Files \ {w.at} : ~Over(f, w.at) => e[f] = d[f]
  BY DEF After
<1>5. \A f \in Files \ {w.at} : Over(f, w.at) => {d[f], e[f]} \subseteq {None, Dir}
  BY <1>2 DEF After
<1>6. \A f \in Files \ {w.at} : Over(f, w.at) /\ w.to # None => e[f] = Dir
  BY DEF After
<1>7. ASSUME NEW f \in Files \ {w.at}, Over(f, w.at), w.to = None
      PROVE  \/ e[f] = d[f]
             \/ e[f] = None /\ \A g \in Files \ {w.at} : Over(f, g) => d[g] = None \/ Over(g, w.at)
  BY <1>7 DEF After
<1>8. ASSUME NEW f \in Files \ {w.at}, Over(f, w.at), w.to = None, w.prune,
             \A g \in Files \ {w.at} : Over(f, g) => d[g] = None \/ Over(g, w.at)
      PROVE  e[f] = None
  BY <1>8 DEF After
<1>9. w.prune \/ ~w.prune
  OBVIOUS
<1>10. ASSUME ~w.prune, w.to = None, NEW f \in Files \ {w.at} PROVE e[f] = d[f]
  BY <1>10 DEF After
<1> HIDE DEF e
<1>11. ASSUME NEW f \in Files, NEW g \in Files, Over(f, g), e[g] # None PROVE e[f] = Dir
  <2>1. f # g
    BY <1>11, OverIsOrder
  <2>2. CASE g = w.at
    BY <1>3, <1>6, <1>11, <2>1, <2>2
  <2>3. CASE f = w.at
    BY <1>2, <1>11, <2>3, OverIsOrder, <1>4, <2>1 DEF IsTree
  <2>4. CASE f # w.at /\ g # w.at /\ d[g] = None
    <3>1. Over(g, w.at)
      BY <1>4, <1>11, <2>4
    <3>2. w.to # None
      BY <1>7, <1>11, <2>4, <3>1
    <3>3. Over(f, w.at)
      BY <1>1, <1>11, <3>1, OverIsOrder
    <3> QED BY <1>6, <2>4, <3>2, <3>3
  <2>5. CASE f # w.at /\ g # w.at /\ d[g] # None
    <3>1. d[f] = Dir
      BY <1>11, <2>5 DEF IsTree
    <3>2. CASE ~Over(f, w.at)
      BY <1>4, <2>5, <3>1, <3>2
    <3>3. CASE Over(f, w.at) /\ w.to # None
      BY <1>6, <2>5, <3>3
    <3>4. CASE Over(f, w.at) /\ w.to = None /\ ~w.prune
      BY <1>10, <2>5, <3>1, <3>4
    <3>5. CASE Over(f, w.at) /\ w.to = None /\ w.prune
      <4>1. SUFFICES ASSUME e[f] # Dir PROVE FALSE
        OBVIOUS
      <4>2. \A h \in Files \ {w.at} : Over(f, h) => d[h] = None \/ Over(h, w.at)
        BY <1>7, <2>5, <3>1, <3>5, <4>1
      <4>3. Over(g, w.at)
        BY <1>11, <2>5, <4>2
      <4>4. \A h \in Files \ {w.at} : Over(g, h) => d[h] = None \/ Over(h, w.at)
        BY <1>11, <4>2, OverIsOrder
      <4>5. e[g] = None
        BY <1>8, <2>5, <3>5, <4>3, <4>4
      <4> QED BY <1>11, <4>5
    <3> QED BY <3>2, <3>3, <3>4, <3>5
  <2> QED BY <2>2, <2>3, <2>4, <2>5
<1>12. IsTree(e)
  BY <1>11 DEF IsTree
<1>13. Shaped(e)
  BY <1>1, AfterShape DEF e
<1>14. \A f \in Files \ {w.at} : File(e, f) = File(d, f)
  BY <1>4, <1>5 DEF File
<1>15. ASSUME w.to = None, NEW f \in Files, e[f] = Dir PROVE d[f] = Dir
  BY <1>3, <1>15, Distinct, <1>4, <1>7
<1> QED BY <1>1, <1>3, <1>4, <1>5, <1>12, <1>13, <1>14, <1>15 DEF e

\* What a well-shaped disk holds where.
LEMMA Shapes ==
    ASSUME NEW d, Shaped(d)
    PROVE  /\ d[Config] \in [Names -> Settings]
           /\ d[Packed] \in [Names -> Oids \cup {None}]
           /\ d[HeadFile] \in Names \cup Oids
           /\ d[Log(None)] \in Seq(Records) \cup {None}
           /\ \A n \in Names : /\ d[Loose(n)] \in Oids \cup {None, Dir}
                               /\ d[Log(n)] \in Seq(Records) \cup {None, Dir}
           /\ \A n \in Names : Value(d, n) \in Oids \cup {None, Dir}
           /\ HeadValue(d) \in Oids \cup {None, Dir}
           /\ \A ref \in Names \cup {None} : History(d, ref) \in Seq(Records)
BY Differ, Contents, EmptySeq DEF Shaped, Value, HeadValue, History

-----------------------------------------------------------------------------
(***************************************************************************)
(* What a command is to keep on its way.  Here l is the record of the      *)
(* command begun last: its name, branches, and the disk it found.          *)
(***************************************************************************)
\* What Restorable says of the command begun last.
Fixable(l) ==
    \/ /\ l.cmd = "move" /\ <<l.src, l.dst>> \notin Under /\ <<l.dst, l.src>> \notin Under
       /\ \A f \in Files : Over(f, Loose(l.src)) \/ Over(f, Log(l.src)) => l.disk[f] \in {None, Dir}
    \/ l.cmd = "copy" /\ ~(l.disk[HeadFile] = l.dst /\ ~Exists(l.disk, l.dst))

Footprint(l) ==
    IF l.cmd = "move"
    THEN {Config, Packed, HeadFile, Log(None), Loose(l.src), Loose(l.dst), Log(l.src), Log(l.dst)}
    ELSE IF l.cmd = "copy" /\ Fixable(l) THEN {Config, Packed, Loose(l.dst), Log(l.dst)}
    ELSE Files

\* The commit of a branch being moved: at its new name, or still where it was.
RefKept(l, e) ==
    \/ e[Loose(l.dst)] = Value(l.disk, l.src)
    \/ e[Loose(l.src)] = l.disk[Loose(l.src)] /\ e[Packed][l.src] = l.disk[Packed][l.src]

HistoryKept(l, e) ==
    \/ File(e, Log(l.src)) = File(l.disk, Log(l.src))
    \/ IsPrefix(History(l.disk, l.src), History(e, l.dst))

ConfigKept(l, e) ==
    l.disk[Config][l.src] # None => e[Config][l.src] # None \/ e[Config][l.dst] # None

Survives(l, e) == l.cmd = "move" => RefKept(l, e) /\ HistoryKept(l, e) /\ ConfigKept(l, e)

\* Once more than the config and the packed refs has changed, the new ref is known to have its place.
Clear(l) ==
    /\ \A f \in Files \ Footprint(l) : Over(f, Loose(l.dst)) => File(l.disk, f) = None
    /\ l.cmd = "move" => l.disk[Log(l.src)] # Dir

Placed(l) == l.cmd \in {"move", "copy"} /\ Fixable(l) => Clear(l)

Started(l, e) == Placed(l) \/ \A f \in Files \ {Config, Packed} : File(e, f) = File(l.disk, f)

\* Nothing but the files a command lists changes, and the directories above them.
Untouched(l, e) ==
    /\ \A f \in Files \ Footprint(l) : File(e, f) = File(l.disk, f)
    /\ \A f \in Files : e[f] = Dir => l.disk[f] = Dir \/ \E g \in Footprint(l) : Over(f, g)

Good(l, e) == Shaped(e) /\ IsTree(e) /\ Survives(l, e) /\ Started(l, e) /\ Untouched(l, e)

Named(l) == l.cmd \in {"move", "copy"} => l.src \in Names /\ l.dst \in Names

\* Where a command may bring HEAD: a rename or a move only to the new name, once that has its ref.
Heads(l, e, to) ==
    \/ l.cmd = "delete"
    \/ /\ to = l.dst /\ l.cmd # "copy"
       /\ l.cmd = "move" => e[HeadFile] = l.src /\ e[Loose(l.dst)] # None

Follows(l, e, g) ==
    /\ g[HeadFile] = e[HeadFile] \/ Heads(l, e, g[HeadFile])
    /\ l.cmd \in {"move", "copy"} /\ g[HeadFile] = l.dst /\ e[Loose(l.dst)] # None => g[Loose(l.dst)] # None

\* From one disk to the next, HEAD resolves to the same commit.
HeadFixed(l, e, g) ==
    /\ l.cmd \in {"move", "copy", "rename", "delete", "create from"}
    /\ HeadValue(e) \in Oids /\ <<l.dst, e[HeadFile]>> \notin Under
    => HeadValue(g) = HeadValue(e) /\ Follows(l, e, g)

Ends(l, e) == Told(l.disk) => Told(e)

-----------------------------------------------------------------------------
(***************************************************************************)
(* Plans.  Passes: the disks from one write to the next are as they are to *)
(* be, as long as no write has raised.                                     *)
(***************************************************************************)
Until(ds, ws, i) == \A j \in 1..i : ~Raises(ds[j], ws[j])

Passes(l, ds, ws) ==
    /\ \A i \in 1..Len(ws) : ds[i + 1] = After(ds[i], ws[i]) /\ ws[i].at \in Footprint(l)
    /\ \A i \in 0..Len(ws) : Until(ds, ws, i) => Good(l, ds[i + 1])
    /\ \A i \in 1..Len(ws) : Until(ds, ws, i) => HeadFixed(l, ds[i], ds[i + 1])

\* The writes ws, made on d, keep what is to be kept, and at their end the logs tell.
Ready(l, d, ws) ==
    \E ds : /\ ds[1] = d
            /\ Passes(l, ds, ws)
            /\ Until(ds, ws, Len(ws)) => Ends(l, ds[Len(ws) + 1])

Traces(l, ds, p) ==
    /\ p = [disk |-> p.disk, writes |-> p.writes]
    /\ p.writes \in Seq(Writes) /\ Shaped(p.disk)
    /\ ds[1] = l.disk /\ ds[Len(p.writes) + 1] = p.disk
    /\ Passes(l, ds, p.writes)

\* A plan all of whose writes can be made, and one of which a write will raise.
Fine(l, p) == \E ds : Traces(l, ds, p) /\ Until(ds, p.writes, Len(p.writes))
Dead(l, p) == \E ds : Traces(l, ds, p) /\ ~Until(ds, p.writes, Len(p.writes))

Sound(l, p) == Fine(l, p) \/ Dead(l, p)

LEMMA FineIs == ASSUME NEW l, NEW p, Fine(l, p)
                PROVE  Good(l, p.disk) /\ Shaped(p.disk) /\ IsTree(p.disk) /\ p.writes \in Seq(Writes)
BY LenProperties DEF Fine, Traces, Passes, Good

LEMMA SoundIs == ASSUME NEW l, NEW p, Sound(l, p) PROVE Shaped(p.disk) /\ p.writes \in Seq(Writes)
BY DEF Sound, Fine, Dead, Traces

LEMMA Beginning ==
    ASSUME NEW l, Good(l, l.disk) PROVE Fine(l, Plan(l.disk))
<1> DEFINE ds == [i \in {1} |-> l.disk]
           p == Plan(l.disk)
<1>1. p = [disk |-> p.disk, writes |-> p.writes] /\ p.writes = <<>> /\ p.disk = l.disk /\ <<>> \in Seq(Writes)
  BY EmptySeq DEF Plan
<1>2. Len(<<>>) = 0
  BY EmptySeq
<1>3. ds[1] = l.disk /\ ds[0 + 1] = l.disk
  OBVIOUS
<1> HIDE DEF ds, p
<1>4. Passes(l, ds, <<>>)
  BY <1>2, <1>3 DEF Passes
<1>5. Until(ds, <<>>, 0)
  BY DEF Until
<1>6. Shaped(l.disk)
  BY DEF Good
<1> QED BY <1>1, <1>2, <1>3, <1>4, <1>5, <1>6 DEF Fine, Traces, p

\* Writes, and one more.
LEMMA OneMore ==
    ASSUME NEW l, NEW ds, NEW ws \in Seq(Writes), Passes(l, ds, ws), NEW d, ds[Len(ws) + 1] = d,
           NEW w \in Writes, w.at \in Footprint(l),
           Until(ds, ws, Len(ws)) /\ ~Raises(d, w) => Good(l, After(d, w)) /\ HeadFixed(l, d, After(d, w))
    PROVE  \E es : /\ es[1] = ds[1] /\ es[Len(ws) + 2] = After(d, w)
                   /\ Passes(l, es, Append(ws, w))
                   /\ Until(es, Append(ws, w), Len(ws) + 1) <=> Until(ds, ws, Len(ws)) /\ ~Raises(d, w)
<1> DEFINE n == Len(ws)
           vs == Append(ws, w)
           e == After(d, w)
           es == [i \in 1..(n + 2) |-> IF i <= n + 1 THEN ds[i] ELSE e]
<1>2. /\ n \in Nat /\ vs \in Seq(Writes) /\ Len(vs) = n + 1
      /\ \A i \in 1..n : vs[i] = ws[i]
      /\ vs[n + 1] = w
  BY AppendProperties, LenProperties
<1>4. /\ \A i \in 1..(n + 1) : es[i] = ds[i]
      /\ es[n + 2] = e
  BY <1>2
<1>5. ds[n + 1] = d /\ Passes(l, ds, ws)
  OBVIOUS
<1> HIDE DEF n, vs, e, es
<1>6. ASSUME NEW i \in 0..n PROVE Until(es, vs, i) <=> Until(ds, ws, i)
  <2>1. \A j \in 1..i : j \in 1..n /\ j \in 1..(n + 1)
    BY <1>2
  <2>2. \A j \in 1..i : es[j] = ds[j] /\ vs[j] = ws[j]
    BY <1>2, <1>4, <2>1
  <2> QED BY <2>2 DEF Until
<1>7. Until(es, vs, n + 1) <=> Until(ds, ws, n) /\ ~Raises(d, w)
  BY <1>2, <1>4, <1>5, <1>6 DEF Until
<1>8. Passes(l, es, vs)
  <2>1. ASSUME NEW i \in 1..(n + 1) PROVE es[i + 1] = After(es[i], vs[i]) /\ vs[i].at \in Footprint(l)
    <3>1. CASE i \in 1..n
      BY <1>2, <3>1, <1>5, <1>4 DEF Passes, n
    <3>2. CASE i = n + 1
      BY <1>2, <1>4, <1>5, <3>2 DEF e
    <3> QED BY <1>2, <3>1, <3>2
  <2>2. ASSUME NEW i \in 0..(n + 1), Until(es, vs, i) PROVE Good(l, es[i + 1])
    <3>1. CASE i \in 0..n
      BY <1>2, <1>6, <2>2, <3>1, <1>5, <1>4 DEF Passes, n
    <3>2. CASE i = n + 1
      BY <1>2, <1>4, <1>7, <2>2, <3>2 DEF n, e
    <3> QED BY <1>2, <3>1, <3>2
  <2>3. ASSUME NEW i \in 1..(n + 1), Until(es, vs, i) PROVE HeadFixed(l, es[i], es[i + 1])
    <3>1. CASE i \in 1..n
      BY <1>2, <1>6, <2>3, <3>1, <1>5, <1>4 DEF Passes, n
    <3>2. CASE i = n + 1
      BY <1>2, <1>4, <1>5, <1>7, <2>3, <3>2 DEF n, e
    <3> QED BY <1>2, <3>1, <3>2
  <2> QED BY <1>2, <2>1, <2>2, <2>3 DEF Passes
<1> QED BY <1>2, <1>4, <1>7, <1>8 DEF n, vs, e

\* A plan one write longer.
LEMMA Longer ==
    ASSUME NEW l, NEW p, NEW ds, Traces(l, ds, p), NEW w \in Writes, w # Refusal, w.at \in Footprint(l),
           Until(ds, p.writes, Len(p.writes)) /\ ~Raises(p.disk, w)
           => Good(l, After(p.disk, w)) /\ HeadFixed(l, p.disk, After(p.disk, w))
    PROVE  \E es : /\ Traces(l, es, Do(p, w))
                   /\ Until(es, Do(p, w).writes, Len(Do(p, w).writes))
                      <=> Until(ds, p.writes, Len(p.writes)) /\ ~Raises(p.disk, w)
<1> DEFINE ws == p.writes
           vs == Append(ws, w)
           e == After(p.disk, w)
           q == Do(p, w)
<1>1. q.disk = e /\ q.writes = vs /\ q = [disk |-> q.disk, writes |-> q.writes]
  BY DEF Do
<1>2. ws \in Seq(Writes) /\ vs \in Seq(Writes) /\ Len(vs) = Len(ws) + 1
  BY AppendProperties, LenProperties DEF Traces
<1>3. Shaped(e)
  BY AfterShape DEF Traces
<1>4. ds[1] = l.disk /\ Passes(l, ds, ws) /\ ds[Len(ws) + 1] = p.disk
  BY DEF Traces
<1>5. Len(vs) + 1 = Len(ws) + 2
  BY <1>2, LenProperties
<1> HIDE DEF ws, vs, e, q
<1>6. PICK es : /\ es[1] = ds[1] /\ es[Len(ws) + 2] = e
                /\ Passes(l, es, vs)
                /\ Until(es, vs, Len(ws) + 1) <=> Until(ds, ws, Len(ws)) /\ ~Raises(p.disk, w)
  BY <1>2, <1>4, OneMore DEF ws, vs, e
<1>7. Traces(l, es, q)
  BY <1>1, <1>2, <1>3, <1>4, <1>5, <1>6 DEF Traces
<1> QED BY <1>1, <1>2, <1>6, <1>7 DEF q, ws

\* A plan none of whose writes has raised stays one after a write that can be made, and is dead after one that cannot.
LEMMA DoFine ==
    ASSUME NEW l, NEW p, Fine(l, p), NEW w \in Writes, w # Refusal, w.at \in Footprint(l),
           ~Raises(p.disk, w) => Good(l, After(p.disk, w)) /\ HeadFixed(l, p.disk, After(p.disk, w))
    PROVE  IF Raises(p.disk, w) THEN Dead(l, Do(p, w)) ELSE Fine(l, Do(p, w))
BY Longer DEF Fine, Dead

\* Once a write has raised, what would follow does not matter.
LEMMA DoDead ==
    ASSUME NEW l, NEW p, Dead(l, p), NEW w \in Writes, w # Refusal, w.at \in Footprint(l)
    PROVE  Dead(l, Do(p, w))
BY Longer DEF Dead

-----------------------------------------------------------------------------
(***************************************************************************)
(* From plans to what is left to write.                                    *)
(***************************************************************************)
LEMMA ReadyIs ==
    ASSUME NEW l, NEW d, NEW ws \in Seq(Writes), Ready(l, d, ws)
    PROVE  Good(l, d) /\ (ws = <<>> => Ends(l, d))
<1>1. PICK ds : ds[1] = d /\ Passes(l, ds, ws) /\ (Until(ds, ws, Len(ws)) => Ends(l, ds[Len(ws) + 1]))
  BY DEF Ready
<1>2. 0 \in 0..Len(ws) /\ Until(ds, ws, 0) /\ 0 + 1 = 1
  BY LenProperties DEF Until
<1>3. Good(l, d)
  BY <1>1, <1>2 DEF Passes
<1>4. ASSUME ws = <<>> PROVE Ends(l, d)
  <2>1. Len(ws) = 0
    BY <1>4, EmptySeq
  <2> QED BY <1>1, <1>2, <2>1
<1> QED BY <1>3, <1>4

\* What is left after a write keeps what is to be kept as well, and HEAD resolves as before.
LEMMA ReadyStep ==
    ASSUME NEW l, NEW d, NEW ws \in Seq(Writes), Ready(l, d, ws), ws # <<>>, ~Raises(d, ws[1])
    PROVE  HeadFixed(l, d, After(d, ws[1])) /\ Ready(l, After(d, ws[1]), Tail(ws))
<1>1. PICK ds : ds[1] = d /\ Passes(l, ds, ws) /\ (Until(ds, ws, Len(ws)) => Ends(l, ds[Len(ws) + 1]))
  BY DEF Ready
<1> DEFINE n == Len(ws)
           vs == Tail(ws)
           es == [i \in 1..n |-> ds[i + 1]]
<1>2. n \in Nat /\ n >= 1 /\ Len(vs) = n - 1 /\ \A i \in 1..(n - 1) : vs[i] = ws[i + 1]
  BY EmptySeq, LenProperties, HeadTailProperties
<1>3. \A i \in 1..n : es[i] = ds[i + 1]
  OBVIOUS
<1>4. ds[2] = After(d, ws[1])
  BY <1>2, <1>1 DEF Passes
<1>5. Until(ds, ws, 1)
  BY <1>1 DEF Until
<1>6. HeadFixed(l, d, After(d, ws[1]))
  BY <1>2, <1>1, <1>5, <1>4 DEF Passes
<1> HIDE DEF n, vs, es
<1>7. ASSUME NEW i \in 0..(n - 1), Until(es, vs, i) PROVE Until(ds, ws, i + 1)
  <2>1. ASSUME NEW j \in 1..(i + 1) PROVE ~Raises(ds[j], ws[j])
    <3>1. CASE j = 1
      BY <1>1, <3>1
    <3>2. CASE j # 1
      <4>1. j - 1 \in 1..i /\ j - 1 \in 1..(n - 1) /\ j - 1 \in 1..n /\ (j - 1) + 1 = j
        BY <1>2, <3>2
      <4>2. ~Raises(es[j - 1], vs[j - 1])
        BY <1>7, <4>1 DEF Until
      <4>3. es[j - 1] = ds[j] /\ vs[j - 1] = ws[j]
        BY <1>2, <1>3, <4>1
      <4> QED BY <4>2, <4>3
    <3> QED BY <3>1, <3>2
  <2> QED BY <2>1 DEF Until
<1>8. Passes(l, es, vs)
  <2>1. ASSUME NEW i \in 1..(n - 1)
        PROVE  /\ es[i + 1] = After(es[i], vs[i]) /\ vs[i].at \in Footprint(l)
               /\ Until(es, vs, i) => HeadFixed(l, es[i], es[i + 1])
    <3>1. i + 1 \in 1..n /\ i \in 1..n /\ i \in 0..(n - 1)
      BY <1>2
    <3>2. es[i] = ds[i + 1] /\ es[i + 1] = ds[(i + 1) + 1] /\ vs[i] = ws[i + 1]
      BY <1>2, <1>3, <3>1
    <3>3. ds[(i + 1) + 1] = After(ds[i + 1], ws[i + 1]) /\ ws[i + 1].at \in Footprint(l)
      BY <1>1, <3>1 DEF Passes, n
    <3>4. Until(ds, ws, i + 1) => HeadFixed(l, ds[i + 1], ds[(i + 1) + 1])
      BY <1>1, <3>1 DEF Passes, n
    <3>5. Until(es, vs, i) => HeadFixed(l, es[i], es[i + 1])
      BY <1>7, <3>1, <3>2, <3>4
    <3>6. es[i + 1] = After(es[i], vs[i]) /\ vs[i].at \in Footprint(l)
      BY <3>2, <3>3
    <3> QED BY <3>5, <3>6
  <2>2. ASSUME NEW i \in 0..(n - 1), Until(es, vs, i) PROVE Good(l, es[i + 1])
    BY <1>2, <1>1, <1>7, <2>2, <1>3 DEF Passes, n
  <2> QED BY <1>2, <2>1, <2>2 DEF Passes
<1>9. es[1] = After(d, ws[1])
  BY <1>2, <1>3, <1>4
<1>10. ASSUME Until(es, vs, Len(vs)) PROVE Ends(l, es[Len(vs) + 1])
  BY <1>2, <1>7, <1>10, <1>1, <1>3 DEF n
<1>11. Ready(l, After(d, ws[1]), vs)
  BY <1>8, <1>9, <1>10 DEF Ready
<1> QED BY <1>6, <1>11 DEF vs

\* What a plan is to be for its command to be carried out.
Proper(l, p) == Dead(l, p) \/ (Fine(l, p) /\ Ends(l, p.disk))

\* A plan that keeps what is to be kept, and leaves logs that tell, can be carried out.
LEMMA PlanReady ==
    ASSUME NEW l, NEW p, Proper(l, p)
    PROVE  p.writes \in Seq(Writes) /\ Ready(l, l.disk, p.writes)
<1>1. CASE Fine(l, p) /\ Ends(l, p.disk)
  BY <1>1 DEF Fine, Traces, Ready
<1>2. CASE Dead(l, p)
  BY <1>2 DEF Dead, Traces, Ready
<1> QED BY <1>1, <1>2 DEF Proper

\* So can one whose last write is refused whatever the disk.
LEMMA RefusedReady ==
    ASSUME NEW l, NEW p, Sound(l, p), Config \in Footprint(l)
    PROVE  Append(p.writes, Refusal) \in Seq(Writes) /\ Ready(l, l.disk, Append(p.writes, Refusal))
<1>1. PICK ds : Traces(l, ds, p)
  BY DEF Sound, Fine, Dead
<1> DEFINE ws == p.writes
           vs == Append(ws, Refusal)
<1>2. Refusal \in Writes /\ Refusal.at = Config
  BY DEF Writes, Refusal
<1>3. ws \in Seq(Writes) /\ Passes(l, ds, ws) /\ ds[Len(ws) + 1] = p.disk /\ ds[1] = l.disk
  BY <1>1 DEF Traces
<1>4. vs \in Seq(Writes) /\ Len(vs) = Len(ws) + 1
  BY <1>2, <1>3, AppendProperties
<1>5. Raises(p.disk, Refusal)
  BY DEF Raises
<1> HIDE DEF ws, vs
<1>6. PICK es : es[1] = ds[1] /\ Passes(l, es, vs) /\ ~Until(es, vs, Len(ws) + 1)
  BY <1>2, <1>3, <1>5, OneMore DEF vs
<1> QED BY <1>3, <1>4, <1>6 DEF Ready, ws, vs

-----------------------------------------------------------------------------
(***************************************************************************)
(* One write of a plan.                                                    *)
(***************************************************************************)
LEMMA Touching ==
    ASSUME NEW l, NEW d, Good(l, d), NEW w \in Writes, w # Refusal, ~Blocked(d, w.at), w.at \in Footprint(l)
    PROVE  Untouched(l, After(d, w))
<1> DEFINE e == After(d, w)
<1>1. /\ w.at \in Files /\ w.to # Dir /\ e[w.at] = w.to
      /\ \A f \in Files \ {w.at} : File(e, f) = File(d, f) /\ (~Over(f, w.at) => e[f] = d[f])
  BY Writing DEF Good
<1>2. /\ \A f \in Files \ Footprint(l) : File(d, f) = File(l.disk, f)
      /\ \A f \in Files : d[f] = Dir => l.disk[f] = Dir \/ \E g \in Footprint(l) : Over(f, g)
  BY DEF Good, Untouched
<1> HIDE DEF e
<1> QED BY <1>1, <1>2 DEF Untouched, e

\* A write that keeps the branch being moved, its history and its config keeps a plan fine.
LEMMA Step ==
    ASSUME NEW l, NEW p, Fine(l, p), NEW w \in Writes, w # Refusal, w.at \in Footprint(l),
           ~Raises(p.disk, w) => /\ Survives(l, After(p.disk, w)) /\ Started(l, After(p.disk, w))
                                 /\ HeadFixed(l, p.disk, After(p.disk, w))
    PROVE  Dead(l, Do(p, w)) \/ (Fine(l, Do(p, w)) /\ ~Raises(p.disk, w))
<1>1. Good(l, p.disk) /\ Shaped(p.disk) /\ IsTree(p.disk)
  BY FineIs
<1>2. ASSUME ~Raises(p.disk, w) PROVE Good(l, After(p.disk, w))
  BY <1>2, <1>1, Touching, Writing DEF Raises, Good
<1> QED BY <1>2, DoFine

\* What a write that does not raise leaves alone.
LEMMA Wrote ==
    ASSUME NEW d, Shaped(d), IsTree(d), NEW w \in Writes, w # Refusal, ~Raises(d, w)
    PROVE  /\ Shaped(After(d, w)) /\ IsTree(After(d, w)) /\ w.at \in Files
           /\ After(d, w)[w.at] = w.to
           /\ \A f \in Files \ {w.at} : File(After(d, w), f) = File(d, f)
           /\ \A f \in Files \ {w.at} : ~Over(f, w.at) => After(d, w)[f] = d[f]
           /\ \A f \in Files \ {w.at} : Over(f, w.at) => d[f] \in {None, Dir} /\ After(d, w)[f] \in {None, Dir}
           /\ w.to = None => \A f \in Files : After(d, w)[f] = Dir => d[f] = Dir
<1>1. ~Blocked(d, w.at)
  BY DEF Raises
<1> QED BY <1>1, Writing

-----------------------------------------------------------------------------
(***************************************************************************)
(* What HEAD and the branches stand for after a write.                     *)
(***************************************************************************)
\* A branch keeps its value when its loose ref and its entry among the packed refs are as they were.
LEMMA SameValue ==
    ASSUME NEW d, NEW e, NEW n \in Names, e[Loose(n)] = d[Loose(n)], e[Packed][n] = d[Packed][n]
    PROVE  Value(e, n) = Value(d, n)
BY DEF Value

LEMMA SameHead ==
    ASSUME NEW d, NEW e, e[HeadFile] = d[HeadFile],
           d[HeadFile] \in Names => /\ e[Loose(d[HeadFile])] = d[Loose(d[HeadFile])]
                                    /\ e[Packed][d[HeadFile]] = d[Packed][d[HeadFile]]
    PROVE  HeadValue(e) = HeadValue(d)
BY SameValue DEF HeadValue

\* HEAD is out of the way of a write to the loose ref of another branch, unless it comes to lie above.
LEMMA LooseHead ==
    ASSUME NEW l, NEW d, Shaped(d), IsTree(d), NEW n \in Names, NEW w \in Writes, w # Refusal, w.at = Loose(n),
           ~Raises(d, w), Named(l),
           l.cmd \in {"move", "copy", "rename", "delete", "create from"} =>
               /\ w.to = None \/ n = l.dst
               /\ d[HeadFile] = n => HeadValue(d) \in {w.to, None, Dir}
    PROVE  HeadFixed(l, d, After(d, w))
<1> DEFINE e == After(d, w)
           v == w.to
           h == d[HeadFile]
<1>1. w.at = Loose(n) /\ w.to = v
  OBVIOUS
<1> HIDE DEF v
<1>2. /\ e[Loose(n)] = v
      /\ \A f \in Files \ {Loose(n)} : ~Over(f, Loose(n)) => e[f] = d[f]
      /\ \A f \in Files \ {Loose(n)} : Over(f, Loose(n)) => d[f] \in {None, Dir} /\ e[f] \in {None, Dir}
      /\ v = None => \A f \in Files : e[f] = Dir => d[f] = Dir
  <2>2. /\ After(d, w)[w.at] = w.to
        /\ \A f \in Files \ {w.at} : ~Over(f, w.at) => After(d, w)[f] = d[f]
        /\ \A f \in Files \ {w.at} : Over(f, w.at) => d[f] \in {None, Dir} /\ After(d, w)[f] \in {None, Dir}
        /\ w.to = None => \A f \in Files : After(d, w)[f] = Dir => d[f] = Dir
    BY Wrote
  <2> HIDE DEF e
  <2>3. e = After(d, w) /\ w.at = Loose(n) /\ w.to = v
    BY <1>1 DEF e
  <2> QED BY <2>2, <2>3
<1> HIDE DEF e
<1>3. SUFFICES ASSUME l.cmd \in {"move", "copy", "rename", "delete", "create from"},
                      HeadValue(d) \in Oids, <<l.dst, h>> \notin Under
               PROVE  HeadValue(e) = HeadValue(d) /\ Follows(l, d, e)
  BY DEF HeadFixed, e
<1>4. e[HeadFile] = h /\ e[Packed] = d[Packed]
  BY <1>2, Differ, OverNothing
<1>8. (h \in Names => (d[Loose(h)] # None => e[Loose(h)] # None)) => Follows(l, d, e)
  BY <1>4 DEF Follows, Named
<1>5. CASE h \notin Names
  BY <1>4, <1>5, <1>8 DEF HeadValue
<1>6. CASE h \in Names /\ h # n
  <2>1. Loose(h) \in Files \ {Loose(n)}
    BY <1>6, Differ
  <2>2. d[Loose(h)] \in Oids \cup {None}
    BY <1>3, <1>6, Distinct, Shapes DEF HeadValue, Value
  <2>3. e[Loose(h)] = d[Loose(h)]
    <3>1. CASE Over(Loose(h), Loose(n))
      <4>1. v = None
        BY <1>3, <1>6, <3>1, OverIs DEF v
      <4>2. d[Loose(h)] \in {None, Dir} /\ e[Loose(h)] \in {None, Dir} /\ (e[Loose(h)] = Dir => d[Loose(h)] = Dir)
        BY <1>2, <2>1, <3>1, <4>1
      <4>3. Dir \notin Oids /\ None # Dir
        BY Distinct
      <4>4. d[Loose(h)] = None
        BY <2>2, <4>2, <4>3
      <4>5. e[Loose(h)] = None
        BY <4>2, <4>3, <4>4
      <4> QED BY <4>4, <4>5
    <3>2. CASE ~Over(Loose(h), Loose(n))
      BY <1>2, <2>1, <3>2
    <3> QED BY <3>1, <3>2
  <2> QED BY <1>4, <1>8, <2>3, SameHead
<1>7. CASE h = n
  BY <1>3, <1>7, Distinct, <1>2, <1>4, <1>8 DEF v, HeadValue, Value
<1> QED BY <1>5, <1>6, <1>7

\* Where HEAD and the loose refs stay as they are, HEAD stays where it is.
LEMMA Following ==
    ASSUME NEW l, NEW d, NEW e, Named(l), e[HeadFile] = d[HeadFile], \A n \in Names : e[Loose(n)] = d[Loose(n)]
    PROVE  Follows(l, d, e)
BY DEF Follows, Named

-----------------------------------------------------------------------------
(***************************************************************************)
(* The writes to logs.                                                     *)
(***************************************************************************)
\* From d to e, of the files only the log of ref has changed.
LogOnly(d, e, ref) ==
    /\ \A f \in Files : f[1] # "logs" => e[f] = d[f]
    /\ \A f \in Files \ {Log(ref)} : File(e, f) = File(d, f)

LEMMA LogOnlyIs ==
    ASSUME NEW d, NEW e, NEW ref \in Names \cup {None}, LogOnly(d, e, ref)
    PROVE  /\ e[Config] = d[Config] /\ e[Packed] = d[Packed] /\ e[HeadFile] = d[HeadFile]
           /\ \A n \in Names : e[Loose(n)] = d[Loose(n)] /\ Value(e, n) = Value(d, n) /\ Stored(e, n) = Stored(d, n)
           /\ HeadValue(e) = HeadValue(d) /\ StoredHead(e) = StoredHead(d)
           /\ \A other \in (Names \cup {None}) \ {ref} : File(e, Log(other)) = File(d, Log(other))
<1>1. Config[1] # "logs" /\ Packed[1] # "logs" /\ HeadFile[1] # "logs" /\ \A n : Loose(n)[1] # "logs"
  BY DEF Config, Packed, HeadFile, Loose
<1>2. e[Config] = d[Config] /\ e[Packed] = d[Packed] /\ e[HeadFile] = d[HeadFile]
  BY <1>1, Differ DEF LogOnly
<1>3. \A n \in Names : e[Loose(n)] = d[Loose(n)]
  BY <1>1, Differ DEF LogOnly
<1>4. \A n \in Names : Value(e, n) = Value(d, n) /\ Stored(e, n) = Stored(d, n)
  BY <1>2, <1>3 DEF Value, Stored
<1>5. HeadValue(e) = HeadValue(d) /\ StoredHead(e) = StoredHead(d)
  BY <1>2, <1>4 DEF HeadValue, StoredHead
<1>6. ASSUME NEW other \in (Names \cup {None}) \ {ref} PROVE File(e, Log(other)) = File(d, Log(other))
  BY Differ DEF Log, LogOnly
<1> QED BY <1>2, <1>3, <1>4, <1>5, <1>6

LEMMA HistoryIs ==
    \A d1, d2, ref : File(d2, Log(ref)) = File(d1, Log(ref)) => History(d2, ref) = History(d1, ref)
BY NoSequence DEF History, File

LEMMA AMessage ==
    /\ Note \in Messages
    /\ \A d, to : Shaped(d) /\ to \in Names \cup Oids => Moving(d, to) \in Messages
BY Shapes DEF Note, Messages, Moving

\* What may be written to a log while a branch is being moved: its history stays somewhere.
KeepsHistory(l, d, ref, v) ==
    l.cmd = "move" =>
        \/ ref # l.src /\ File(d, Log(l.src)) = File(l.disk, Log(l.src))
        \/ ref = l.dst /\ v \in Seq(Records) /\ IsPrefix(History(l.disk, l.src), v)
        \/ ref # l.dst /\ IsPrefix(History(l.disk, l.src), History(d, l.dst))

\* Writing a log.
LEMMA LogWrite ==
    ASSUME NEW l, NEW p, Fine(l, p), Named(l), Placed(l),
           NEW ref \in Names \cup {None}, Log(ref) \in Footprint(l),
           NEW w \in Writes, w # Refusal, w.at = Log(ref), KeepsHistory(l, p.disk, ref, w.to)
    PROVE  \/ Dead(l, Do(p, w))
           \/ /\ Fine(l, Do(p, w)) /\ LogOnly(p.disk, Do(p, w).disk, ref) /\ Do(p, w).disk[Log(ref)] = w.to
              /\ p.disk[Log(ref)] # Dir
              /\ ref = None => HeadValue(p.disk) # Dir
<1> DEFINE d == p.disk
           e == After(d, w)
           v == w.to
<1>1. w.at = Log(ref) /\ w.to = v
  OBVIOUS
<1>2. Good(l, d) /\ Shaped(d) /\ IsTree(d)
  BY FineIs
<1>3. Do(p, w).disk = e
  BY DEF Do
<1> HIDE DEF d, v
<1>4. ASSUME ~Raises(d, w)
      PROVE  e[Log(ref)] = v /\ LogOnly(d, e, ref)
  <2>1. /\ e[w.at] = w.to
        /\ \A f \in Files \ {w.at} : File(e, f) = File(d, f)
        /\ \A f \in Files \ {w.at} : ~Over(f, w.at) => e[f] = d[f]
    BY <1>1, <1>2, <1>4, Wrote
  <2> HIDE DEF e
  <2>2. \A f \in Files : f[1] # "logs" => f # w.at /\ ~Over(f, w.at)
    BY <1>1 DEF Over, Log
  <2> QED BY <1>1, <2>1, <2>2 DEF LogOnly
<1> HIDE DEF e
<1>5. ASSUME ~Raises(d, w)
      PROVE  Survives(l, e) /\ Started(l, e) /\ HeadFixed(l, d, e)
  <2>1. /\ e[Config] = d[Config] /\ e[Packed] = d[Packed] /\ e[HeadFile] = d[HeadFile]
        /\ \A n \in Names : e[Loose(n)] = d[Loose(n)]
        /\ HeadValue(e) = HeadValue(d)
        /\ \A other \in (Names \cup {None}) \ {ref} : File(e, Log(other)) = File(d, Log(other))
    BY <1>4, <1>5, LogOnlyIs
  <2>2. Started(l, e) /\ HeadFixed(l, d, e)
    BY <2>1, Following DEF Started, HeadFixed
  <2>3. ASSUME l.cmd = "move" PROVE RefKept(l, e) /\ ConfigKept(l, e)
    BY <2>3, <1>2, <2>1 DEF Named, Good, Survives, RefKept, ConfigKept
  <2>4. ASSUME l.cmd = "move" PROVE HistoryKept(l, e)
    <3>1. l.src \in Names /\ l.dst \in Names
      BY <2>4 DEF Named
    <3>2. CASE ref # l.src /\ File(d, Log(l.src)) = File(l.disk, Log(l.src))
      BY <2>1, <3>1, <3>2 DEF HistoryKept
    <3>3. CASE ref = l.dst /\ v \in Seq(Records) /\ IsPrefix(History(l.disk, l.src), v)
      BY <1>4, <1>5, <3>3, NoSequence DEF History, HistoryKept
    <3>4. CASE ref # l.dst /\ IsPrefix(History(l.disk, l.src), History(d, l.dst))
      BY <2>1, <3>1, <3>4, HistoryIs DEF HistoryKept
    <3> QED BY <2>4, <3>2, <3>3, <3>4 DEF KeepsHistory, d, v
  <2> QED BY <2>2, <2>3, <2>4 DEF Survives
<1>6. Dead(l, Do(p, w)) \/ (Fine(l, Do(p, w)) /\ ~Raises(d, w))
  BY <1>1, <1>5, Step DEF d, e
<1>7. ~Raises(d, w) => d[Log(ref)] # Dir /\ (ref = None => HeadValue(d) # Dir)
  BY <1>1 DEF Raises, Blocked
<1> QED BY <1>3, <1>4, <1>6, <1>7 DEF d, v

LEMMA ALogWrite ==
    ASSUME NEW ref \in Names \cup {None}, NEW v \in Seq(Records) \cup {None}
    PROVE  \A b \in BOOLEAN : LET w == [at |-> Log(ref), to |-> v, prune |-> b]
                             IN  w \in Writes /\ w # Refusal /\ w.at = Log(ref) /\ w.to = v
BY Differ, Contents, IsAWrite

\* A record whatever happened, and one only of what changed.
Noted(q, p, ref, old, new, msg) == q = Logged(p, ref, old, new, msg, TRUE)
Changed(q, p, ref, old, new, msg) == q = Logged(p, ref, old, new, msg, FALSE)

\* A record that is made in any case.
LEMMA NotedIs ==
    ASSUME NEW l, NEW p, NEW q, Fine(l, p), Named(l), Placed(l), NEW ref \in Names \cup {None},
           NEW old \in Oids \cup {None, Dir}, NEW new \in Oids \cup {None, Dir}, NEW msg \in Messages,
           Noted(q, p, ref, old, new, msg),
           Log(ref) \in Footprint(l),
           KeepsHistory(l, p.disk, ref, Append(History(p.disk, ref), [old |-> old, new |-> new, msg |-> msg]))
    PROVE  \/ Dead(l, q)
           \/ /\ Fine(l, q) /\ LogOnly(p.disk, q.disk, ref)
              /\ History(q.disk, ref) = Append(History(p.disk, ref), [old |-> old, new |-> new, msg |-> msg])
              /\ ref = None => HeadValue(p.disk) # Dir
<1> DEFINE r == [old |-> old, new |-> new, msg |-> msg]
           v == Append(History(p.disk, ref), r)
           w == [at |-> Log(ref), to |-> v, prune |-> FALSE]
<1>1. q = Do(p, w)
  BY DEF Noted, Logged, Put
<1>2. History(p.disk, ref) \in Seq(Records) /\ r \in Records
  BY FineIs, Shapes DEF Records
<1>3. v \in Seq(Records)
  BY <1>2, AppendProperties
<1>4. w \in Writes /\ w # Refusal /\ w.at = Log(ref) /\ w.to = v
  BY <1>3, ALogWrite
<1>5. KeepsHistory(l, p.disk, ref, w.to)
  BY <1>4
<1> HIDE DEF v, r, w
<1>6. \/ Dead(l, q)
      \/ /\ Fine(l, q) /\ LogOnly(p.disk, q.disk, ref) /\ q.disk[Log(ref)] = v
         /\ ref = None => HeadValue(p.disk) # Dir
  BY <1>1, <1>4, <1>5, LogWrite
<1>7. q.disk[Log(ref)] = v => History(q.disk, ref) = v
  BY <1>3, NoSequence DEF History
<1>8. \/ Dead(l, q)
      \/ /\ Fine(l, q) /\ LogOnly(p.disk, q.disk, ref) /\ History(q.disk, ref) = v
         /\ ref = None => HeadValue(p.disk) # Dir
  BY <1>6, <1>7
<1> QED BY <1>8 DEF v, r

\* A record that is made when a value changes.
LEMMA ChangedIs ==
    ASSUME NEW l, NEW p, NEW q, Fine(l, p), Named(l), Placed(l), NEW ref \in Names \cup {None},
           NEW old \in Oids \cup {None, Dir}, NEW new \in Oids \cup {None, Dir}, NEW msg \in Messages,
           Changed(q, p, ref, old, new, msg),
           old # new => Log(ref) \in Footprint(l),
           KeepsHistory(l, p.disk, ref, Append(History(p.disk, ref), [old |-> old, new |-> new, msg |-> msg]))
    PROVE  \/ Dead(l, q)
           \/ /\ Fine(l, q) /\ LogOnly(p.disk, q.disk, ref)
              /\ History(q.disk, ref) = IF old = new THEN History(p.disk, ref)
                                        ELSE Append(History(p.disk, ref), [old |-> old, new |-> new, msg |-> msg])
              /\ ref = None /\ old # new => HeadValue(p.disk) # Dir
<1>1. CASE old = new
  BY <1>1 DEF Changed, Logged, LogOnly
<1>2. CASE old # new
  BY <1>2, NotedIs DEF Noted, Changed, Logged
<1> QED BY <1>1, <1>2

\* Records after a write that raised.
LEMMA LoggedDead ==
    ASSUME NEW l, NEW p, Dead(l, p), NEW ref \in Names \cup {None},
           NEW old \in Oids \cup {None, Dir}, NEW new \in Oids \cup {None, Dir},
           NEW msg \in Messages, NEW force \in BOOLEAN,
           (old = new /\ ~force) \/ Log(ref) \in Footprint(l)
    PROVE  Dead(l, Logged(p, ref, old, new, msg, force))
<1> DEFINE q == Logged(p, ref, old, new, msg, force)
           r == [old |-> old, new |-> new, msg |-> msg]
           v == Append(History(p.disk, ref), r)
<1>1. CASE old = new /\ ~force
  BY <1>1 DEF Logged
<1>2. CASE ~(old = new /\ ~force)
  <2>1. q = Do(p, [at |-> Log(ref), to |-> v, prune |-> FALSE])
    BY <1>2 DEF Logged, Put
  <2>2. History(p.disk, ref) \in Seq(Records) /\ r \in Records
    BY SoundIs, Shapes DEF Records, Sound
  <2>3. v \in Seq(Records)
    BY <2>2, AppendProperties
  <2> DEFINE w == [at |-> Log(ref), to |-> v, prune |-> FALSE]
  <2>a. w \in Writes /\ w # Refusal /\ w.at = Log(ref)
    BY <2>3, ALogWrite
  <2>b. q = Do(p, w)
    BY <2>1
  <2> HIDE DEF v, q, r, w
  <2>4. Dead(l, q)
    BY <1>2, <2>a, <2>b, DoDead
  <2> QED BY <2>4 DEF q
<1> QED BY <1>1, <1>2

-----------------------------------------------------------------------------
(***************************************************************************)
(* Logs that tell, oldest record first.                                    *)
(***************************************************************************)
Linked(h) == \A i \in 1..(Len(h) - 1) : h[i + 1].old \in {None, h[i].new}

LeadsTo(h, value) == Linked(h) /\ (h # <<>> => h[Len(h)].new = value)

\* Links, by the positions of the history itself.
LEMMA LinksIs ==
    ASSUME NEW d, NEW ref, History(d, ref) \in Seq(Records)
    PROVE  /\ Links(d, ref) <=> Linked(History(d, ref))
           /\ \A value : Tells(d, ref, value) <=> LeadsTo(History(d, ref), value)
<1> DEFINE h == History(d, ref)
           n == Len(h)
           shown == Shown(d, ref)
<1>1. n \in Nat /\ (h # <<>> <=> n > 0)
  BY EmptySeq, LenProperties
<1>2. shown = [i \in 1..n |-> h[(n - i) + 1]]
  BY DEF Shown, Reverse
<1>3. Len(shown) = n /\ (shown # <<>> <=> n > 0)
  BY <1>1, <1>2
<1>4. \A k : Selected(d, ref, k) = IF k < Len(shown) THEN shown[k + 1].new ELSE None
  BY DEF Selected
<1>5. Links(d, ref) <=> \A k \in 1..(Len(shown) - 1) : shown[k].old \in {None, Selected(d, ref, k)}
  BY DEF Links
<1>6. \A value : Tells(d, ref, value) <=> Links(d, ref) /\ (shown # <<>> => Selected(d, ref, 0) = value)
  BY DEF Tells
<1> HIDE DEF h, n, shown
<1>7. \A k \in 1..(n - 1) : shown[k] = h[(n - k) + 1] /\ Selected(d, ref, k) = h[n - k].new
  <2>1. ASSUME NEW k \in 1..(n - 1) PROVE shown[k] = h[(n - k) + 1] /\ Selected(d, ref, k) = h[n - k].new
    <3>1. k \in 1..n /\ k + 1 \in 1..n /\ (n - (k + 1)) + 1 = n - k /\ k < n
      BY <1>1
    <3>2. shown[k] = h[(n - k) + 1] /\ shown[k + 1] = h[(n - (k + 1)) + 1]
      BY <1>2, <3>1
    <3> QED BY <1>3, <1>4, <3>1, <3>2
  <2> QED BY <2>1
<1>8. Links(d, ref) <=> Linked(h)
  <2>1. ASSUME Links(d, ref), NEW i \in 1..(n - 1) PROVE h[i + 1].old \in {None, h[i].new}
    BY <1>1, <1>3, <1>5, <2>1, <1>7
  <2>2. ASSUME Linked(h), NEW k \in 1..(n - 1) PROVE shown[k].old \in {None, Selected(d, ref, k)}
    BY <1>1, <2>2, <1>7 DEF Linked, n
  <2> QED BY <1>3, <1>5, <2>1, <2>2 DEF Linked, n
<1>9. n > 0 => Selected(d, ref, 0) = h[n].new
  <2>1. n > 0 => 1 \in 1..n /\ (n - 1) + 1 = n /\ 0 < n /\ 0 + 1 = 1
    BY <1>1
  <2> QED BY <1>2, <1>3, <1>4, <2>1
<1> QED BY <1>1, <1>3, <1>6, <1>8, <1>9 DEF LeadsTo, h, n

LEMMA ToldIs ==
    ASSUME NEW d, Shaped(d)
    PROVE  Told(d) <=> /\ LeadsTo(History(d, None), StoredHead(d))
                       /\ \A n \in Names : /\ Linked(History(d, n))
                                           /\ Stored(d, n) # None => LeadsTo(History(d, n), Stored(d, n))
BY Shapes, LinksIs DEF Told

\* A record of how a ref went from where the log had left it, or from nothing.
LEMMA Grow ==
    ASSUME NEW h \in Seq(Records), Linked(h), NEW was, was # None => LeadsTo(h, was), NEW value, NEW msg
    PROVE  LeadsTo(Append(h, [old |-> was, new |-> value, msg |-> msg]), value)
<1> DEFINE r == [old |-> was, new |-> value, msg |-> msg]
           n == Len(h)
           g == Append(h, r)
<1>1. n \in Nat /\ Len(g) = n + 1 /\ g[n + 1] = r /\ (\A i \in 1..n : g[i] = h[i]) /\ g # <<>>
  BY AppendProperties, LenProperties
<1>2. r.old = was /\ r.new = value
  OBVIOUS
<1>3. n # 0 => h # <<>>
  BY EmptySeq
<1> HIDE DEF g, r, n
<1>4. ASSUME NEW i \in 1..n PROVE g[i + 1].old \in {None, g[i].new}
  <2>1. CASE i = n
    BY <1>1, <1>2, <1>3, <1>4, <2>1 DEF LeadsTo, n
  <2>2. CASE i # n
    BY <1>1, <2>2 DEF Linked, n
  <2> QED BY <2>1, <2>2
<1>5. Len(g) - 1 = n
  BY <1>1
<1> QED BY <1>1, <1>2, <1>4, <1>5 DEF Linked, LeadsTo, g, r

\* What there is of a branch depends on its files.
LEMMA StoredIs ==
    ASSUME NEW d, Shaped(d)
    PROVE  /\ \A n \in Names : Value(d, n) # Dir => Stored(d, n) = Value(d, n)
           /\ HeadValue(d) # Dir => StoredHead(d) = HeadValue(d)
           /\ \A e, n : Shaped(e) /\ n \in Names /\ File(e, Loose(n)) = File(d, Loose(n))
                        /\ e[Packed][n] = d[Packed][n] => Stored(e, n) = Stored(d, n)
BY Distinct, Shapes DEF Value, Stored, HeadValue, StoredHead, File

-----------------------------------------------------------------------------
(***************************************************************************)
(* HEAD moved.                                                             *)
(***************************************************************************)
\* A branch whose files are as they were has its history and its value.
LEMMA ToldElsewhere ==
    ASSUME NEW d, NEW e, Shaped(d), Shaped(e), Told(d), NEW n \in Names,
           File(e, Loose(n)) = File(d, Loose(n)), File(e, Log(n)) = File(d, Log(n)), e[Packed][n] = d[Packed][n]
    PROVE  /\ Linked(History(e, n))
           /\ Stored(e, n) # None => LeadsTo(History(e, n), Stored(e, n))
BY StoredIs, HistoryIs, ToldIs

\* A record of where HEAD went, or none when it stayed.
LEMMA ToldHead ==
    ASSUME NEW d, NEW e, Shaped(d), Shaped(e), Told(d),
           HeadValue(d) # Dir, HeadValue(e) # Dir,
           \A f \in Files \ {HeadFile, Log(None)} : File(e, f) = File(d, f), e[Packed] = d[Packed], NEW msg,
           \/ HeadValue(e) = HeadValue(d) /\ History(e, None) = History(d, None)
           \/ History(e, None) = Append(History(d, None), [old |-> HeadValue(d), new |-> HeadValue(e), msg |-> msg])
    PROVE  Told(e)
<1>1. StoredHead(d) = HeadValue(d) /\ StoredHead(e) = HeadValue(e)
  BY StoredIs
<1>2. LeadsTo(History(d, None), HeadValue(d)) /\ History(d, None) \in Seq(Records)
  BY <1>1, ToldIs, Shapes
<1>3. LeadsTo(History(e, None), HeadValue(e))
  <2>1. CASE HeadValue(e) = HeadValue(d) /\ History(e, None) = History(d, None)
    BY <1>2, <2>1
  <2>2. CASE History(e, None) = Append(History(d, None), [old |-> HeadValue(d), new |-> HeadValue(e), msg |-> msg])
    BY <1>2, <2>2, Grow DEF LeadsTo
  <2> QED BY <2>1, <2>2
<1>4. ASSUME NEW n \in Names
      PROVE  /\ Linked(History(e, n))
             /\ Stored(e, n) # None => LeadsTo(History(e, n), Stored(e, n))
  BY Differ, ToldElsewhere
<1> QED BY <1>1, <1>3, <1>4, ToldIs

At(d, x) == IF x \in Names THEN Value(d, x) ELSE x

\* Bringing HEAD elsewhere: it resolves to what is meant, and its log tells.
LEMMA SetHeadIs ==
    ASSUME NEW l, NEW p, Fine(l, p), Named(l), Placed(l), NEW to \in Names \cup Oids, NEW msg \in Messages,
           HeadFile \in Footprint(l), Log(None) \in Footprint(l),
           l.cmd = "move" => File(p.disk, Log(l.src)) = File(l.disk, Log(l.src)),
           /\ l.cmd \in {"move", "copy", "rename", "delete", "create from"}
           /\ HeadValue(p.disk) \in Oids /\ <<l.dst, p.disk[HeadFile]>> \notin Under
           => At(p.disk, to) = HeadValue(p.disk) /\ Heads(l, p.disk, to)
    PROVE  LET q == SetHead(p, to, msg)
           IN  \/ Dead(l, q)
               \/ /\ Fine(l, q) /\ q.disk[HeadFile] = to
                  /\ \A f \in Files \ {HeadFile} : f[1] # "logs" => q.disk[f] = p.disk[f]
                  /\ \A f \in Files \ {HeadFile, Log(None)} : File(q.disk, f) = File(p.disk, f)
                  /\ Told(p.disk) => Told(q.disk)
<1> DEFINE w == [at |-> HeadFile, to |-> to, prune |-> FALSE]
           d == p.disk
           e == After(d, w)
           p0 == Do(p, w)
           was == HeadValue(d)
           stays == d[HeadFile] = to /\ was = HeadValue(e)
           q == SetHead(p, to, msg)
<1>1. w \in Writes /\ w # Refusal /\ w.at = HeadFile /\ w.to = to
  BY Differ, Contents, IsAWrite
<1>2. Good(l, d) /\ Shaped(d) /\ IsTree(d)
  BY FineIs
<1>3. p0.disk = e
  BY DEF Do
<1>4. q = IF stays THEN p0 ELSE Logged(p0, None, was, HeadValue(e), msg, d[HeadFile] # to)
  BY <1>3 DEF SetHead, Put
<1>5. At(d, to) = IF to \in Names THEN Value(d, to) ELSE to
  BY DEF At
<1> HIDE DEF w, d, e, p0, was, q
<1>6. ASSUME ~Raises(d, w)
      PROVE  /\ e[HeadFile] = to /\ \A f \in Files \ {HeadFile} : e[f] = d[f]
             /\ HeadValue(e) = At(d, to) /\ was # Dir /\ Shaped(e)
  <2>1. e[HeadFile] = to /\ Shaped(e)
    BY <1>1, <1>2, <1>6, Wrote DEF e
  <2>2. ASSUME NEW f \in Files \ {HeadFile} PROVE e[f] = d[f]
    <3>1. f \in Files \ {w.at} /\ ~Over(f, w.at)
      BY <1>1, OverNothing
    <3>2. \A g \in Files \ {w.at} : ~Over(g, w.at) => After(d, w)[g] = d[g]
      BY <1>1, <1>2, <1>6, Wrote
    <3> QED BY <3>1, <3>2 DEF e
  <2>3. HeadValue(e) = At(d, to)
    <3>1. \A n \in Names : e[Loose(n)] = d[Loose(n)] /\ e[Packed] = d[Packed]
      BY <2>2, Differ
    <3>2. \A n \in Names : Value(e, n) = Value(d, n)
      BY <3>1, SameValue
    <3> QED BY <1>5, <2>1, <3>2 DEF HeadValue
  <2>4. was # Dir
    BY <1>1, <1>6 DEF Raises, was
  <2> QED BY <2>1, <2>2, <2>3, <2>4
<1>7. ASSUME ~Raises(d, w)
      PROVE  Survives(l, e) /\ Started(l, e) /\ HeadFixed(l, d, e)
  <2>1. /\ e[Config] = d[Config] /\ e[Packed] = d[Packed]
        /\ \A n \in Names : e[Loose(n)] = d[Loose(n)] /\ File(e, Log(n)) = File(d, Log(n))
    BY <1>6, <1>7, Differ DEF File
  <2>2. Started(l, e)
    BY DEF Started
  <2>3. HeadFixed(l, d, e)
    BY <1>6, <1>7, <2>1 DEF HeadFixed, Follows, Named, d
  <2>4. ASSUME l.cmd = "move" PROVE RefKept(l, e) /\ ConfigKept(l, e) /\ HistoryKept(l, e)
    <3>1. l.src \in Names /\ l.dst \in Names
      BY <2>4 DEF Named
    <3>2. RefKept(l, d) /\ ConfigKept(l, d)
      BY <1>2, <2>4 DEF Good, Survives
    <3>3. RefKept(l, e)
      BY <2>1, <3>1, <3>2 DEF RefKept
    <3>4. HistoryKept(l, e)
      BY <2>1, <2>4, <3>1 DEF HistoryKept, d
    <3> QED BY <2>1, <3>2, <3>3, <3>4 DEF ConfigKept
  <2> QED BY <2>2, <2>3, <2>4 DEF Survives
<1>8. Dead(l, p0) \/ (Fine(l, p0) /\ ~Raises(d, w))
  BY <1>1, <1>7, Step DEF d, e, p0
<1>9. was \in Oids \cup {None, Dir}
  BY <1>2, Shapes DEF was
<1>10. CASE Dead(l, p0)
  <2>1. Shaped(e) /\ HeadValue(e) \in Oids \cup {None, Dir}
    BY <1>3, <1>10, SoundIs, Shapes DEF Sound
  <2>2. Dead(l, q)
    BY <1>9, <1>10, <2>1, LoggedDead, <1>4
  <2> QED BY <2>2 DEF q
<1>11. CASE Fine(l, p0) /\ ~Raises(d, w) /\ stays
  <2>1. q = p0 /\ q.disk = e
    BY <1>3, <1>4, <1>11
  <2>2. \A f \in Files \ {HeadFile} : File(e, f) = File(d, f)
    BY <1>6, <1>11 DEF File
  <2>3. Told(d) => Told(e)
    <3>1. History(e, None) = History(d, None)
      BY Differ, <2>2, HistoryIs
    <3>2. e[Packed] = d[Packed] /\ HeadValue(d) # Dir /\ HeadValue(e) = HeadValue(d) /\ Shaped(e)
      BY <1>6, <1>11, Differ DEF was
    <3> QED BY <1>2, <2>2, <3>1, <3>2, ToldHead
  <2> QED BY <1>6, <1>11, <2>1, <2>2, <2>3 DEF d, q
<1>12. CASE Fine(l, p0) /\ ~Raises(d, w) /\ ~stays
  <2>1. Shaped(e) /\ HeadValue(e) \in Oids \cup {None, Dir}
    BY <1>6, <1>12, Shapes
  <2> DEFINE v == Append(History(e, None), [old |-> was, new |-> HeadValue(e), msg |-> msg])
  <2>2. KeepsHistory(l, e, None, v)
    <3>1. l.cmd = "move" => None # l.src /\ File(e, Log(l.src)) = File(d, Log(l.src))
      BY Differ, Distinct, <1>6, <1>12 DEF Named, File
    <3> QED BY <3>1 DEF KeepsHistory, d
  <2>3. ~(was = HeadValue(e) /\ ~(d[HeadFile] # to))
    BY <1>12
  <2>4. q = Logged(p0, None, was, HeadValue(e), msg, d[HeadFile] # to)
    BY <1>4, <1>12
  <2>5. \/ Dead(l, q)
        \/ /\ Fine(l, q) /\ LogOnly(e, q.disk, None) /\ History(q.disk, None) = v
           /\ HeadValue(e) # Dir
    <3>1. History(e, None) \in Seq(Records) /\ [old |-> was, new |-> HeadValue(e), msg |-> msg] \in Records
      BY <1>9, <2>1, Shapes DEF Records
    <3>2. v \in Seq(Records)
      BY <3>1, AppendProperties
    <3> DEFINE x == [at |-> Log(None), to |-> v, prune |-> FALSE]
    <3>3. q = Do(p0, x)
      BY <1>3, <2>3, <2>4 DEF Logged, Put
    <3>4. x \in Writes /\ x # Refusal /\ x.at = Log(None) /\ x.to = v
      BY <3>2, ALogWrite
    <3>5. KeepsHistory(l, p0.disk, None, v)
      BY <1>3, <2>2
    <3> HIDE DEF v, x
    <3>6. \/ Dead(l, q)
          \/ /\ Fine(l, q) /\ LogOnly(p0.disk, q.disk, None) /\ q.disk[Log(None)] = v
             /\ HeadValue(p0.disk) # Dir
      <4>1. KeepsHistory(l, p0.disk, None, x.to) /\ None \in Names \cup {None}
        BY <3>4, <3>5
      <4>2. \/ Dead(l, Do(p0, x))
            \/ /\ Fine(l, Do(p0, x)) /\ LogOnly(p0.disk, Do(p0, x).disk, None) /\ Do(p0, x).disk[Log(None)] = x.to
               /\ HeadValue(p0.disk) # Dir
        BY <1>12, <3>4, <4>1, LogWrite
      <4> QED BY <3>3, <3>4, <4>2
    <3>7. q.disk[Log(None)] = v => History(q.disk, None) = v
      BY <3>2, NoSequence DEF History
    <3> QED BY <1>3, <3>6, <3>7
  <2> HIDE DEF v
  <2>6. ASSUME Fine(l, q), LogOnly(e, q.disk, None), History(q.disk, None) = v, HeadValue(e) # Dir
        PROVE  /\ q.disk[HeadFile] = to
               /\ \A f \in Files \ {HeadFile} : f[1] # "logs" => q.disk[f] = d[f]
               /\ \A f \in Files \ {HeadFile, Log(None)} : File(q.disk, f) = File(d, f)
               /\ Told(d) => Told(q.disk)
    <3>1. q.disk[HeadFile] = to /\ q.disk[Packed] = d[Packed] /\ HeadValue(q.disk) = HeadValue(e) /\ Shaped(q.disk)
      BY <1>6, <1>12, <2>6, LogOnlyIs, Differ, FineIs
    <3>2. \A f \in Files \ {HeadFile} : f[1] # "logs" => q.disk[f] = d[f]
      BY <1>6, <1>12, <2>6 DEF LogOnly
    <3>3. \A f \in Files \ {HeadFile, Log(None)} : File(q.disk, f) = File(d, f)
      BY <1>6, <1>12, <2>6 DEF LogOnly, File
    <3>4. History(e, None) = History(d, None)
      <4>1. Log(None) \in Files \ {HeadFile}
        BY Differ
      <4>2. File(e, Log(None)) = File(d, Log(None))
        BY <1>6, <1>12, <4>1 DEF File
      <4> QED BY <4>2, HistoryIs
    <3>5. History(q.disk, None) = Append(History(d, None), [old |-> HeadValue(d), new |-> HeadValue(q.disk), msg |-> msg])
      BY <2>6, <3>1, <3>4 DEF v, was
    <3>6. Told(d) => Told(q.disk)
      <4>1. HeadValue(d) # Dir /\ HeadValue(q.disk) # Dir
        BY <1>6, <1>12, <2>6, <3>1 DEF was
      <4> QED BY <1>2, <3>1, <3>3, <3>5, <4>1, ToldHead
    <3> QED BY <3>1, <3>2, <3>3, <3>6
  <2> QED BY <2>5, <2>6 DEF d, q
<1> QED BY <1>8, <1>10, <1>11, <1>12

LEMMA SetHeadDead ==
    ASSUME NEW l, NEW p, Dead(l, p), NEW to \in Names \cup Oids, NEW msg \in Messages,
           HeadFile \in Footprint(l), Log(None) \in Footprint(l)
    PROVE  Dead(l, SetHead(p, to, msg))
<1> DEFINE w == [at |-> HeadFile, to |-> to, prune |-> FALSE]
           p0 == Do(p, w)
           was == HeadValue(p.disk)
           new == HeadValue(p0.disk)
           force == p.disk[HeadFile] # to
<1>1. w \in Writes /\ w # Refusal /\ w.at = HeadFile
  BY Differ, Contents, IsAWrite
<1>2. SetHead(p, to, msg) = IF p.disk[HeadFile] = to /\ was = new THEN p0 ELSE Logged(p0, None, was, new, msg, force)
  BY DEF SetHead, Put
<1> HIDE DEF w
<1>3. Dead(l, p0)
  BY <1>1, DoDead
<1>4. was \in Oids \cup {None, Dir} /\ new \in Oids \cup {None, Dir} /\ force \in BOOLEAN /\ None \in Names \cup {None}
  BY <1>3, SoundIs, Shapes DEF Sound
<1> HIDE DEF p0, was, new, force
<1>5. Dead(l, Logged(p0, None, was, new, msg, force))
  BY <1>3, <1>4, LoggedDead
<1> QED BY <1>2, <1>3, <1>5

-----------------------------------------------------------------------------
(***************************************************************************)
(* A branch set, deleted or given a history.                               *)
(***************************************************************************)
\* What a branch being set, and HEAD if it is on it, record.
LEMMA ToldBranch ==
    ASSUME NEW d, NEW e, Shaped(d), Shaped(e), Told(d), NEW n \in Names, NEW oid \in Oids, NEW msg,
           Value(d, n) # Dir, e[Loose(n)] = oid, e[Packed] = d[Packed], e[HeadFile] = d[HeadFile],
           \A f \in Files \ {Loose(n), Log(n), Log(None)} : File(e, f) = File(d, f),
           History(e, n) = IF Value(d, n) = oid THEN History(d, n)
                           ELSE Append(History(d, n), [old |-> Value(d, n), new |-> oid, msg |-> msg]),
           History(e, None) = IF d[HeadFile] # n \/ Value(d, n) = oid THEN History(d, None)
                              ELSE Append(History(d, None), [old |-> Value(d, n), new |-> oid, msg |-> msg])
    PROVE  Told(e)
<1>1. Stored(d, n) = Value(d, n) /\ Stored(e, n) = oid
  BY StoredIs DEF Stored
<1>2. ASSUME NEW ref \in Names \cup {None} PROVE History(d, ref) \in Seq(Records)
  BY Shapes
<1>3. LeadsTo(History(e, n), oid)
  BY <1>1, ToldIs, Distinct, <1>2, Grow
<1>4. ASSUME NEW m \in Names \ {n} PROVE File(e, Loose(m)) = File(d, Loose(m)) /\ File(e, Log(m)) = File(d, Log(m))
  BY Differ
<1>5. ASSUME NEW m \in Names
      PROVE  /\ Linked(History(e, m))
             /\ Stored(e, m) # None => LeadsTo(History(e, m), Stored(e, m))
  BY <1>1, <1>3, <1>4, ToldElsewhere DEF LeadsTo
<1>6. LeadsTo(History(e, None), StoredHead(e))
  <2>1. LeadsTo(History(d, None), StoredHead(d))
    BY ToldIs
  <2>2. CASE d[HeadFile] # n
    BY <1>4, <2>2, StoredIs, <2>1 DEF StoredHead
  <2>3. CASE d[HeadFile] = n /\ Value(d, n) = oid
    BY <1>1, <2>1, <2>3 DEF StoredHead
  <2>4. CASE d[HeadFile] = n /\ Value(d, n) # oid
    BY <1>1, <2>4, <1>2, <2>1, Grow DEF StoredHead, LeadsTo
  <2> QED BY <2>2, <2>3, <2>4
<1> QED BY <1>5, <1>6, ToldIs

HeadFast == {"move", "copy", "rename", "delete", "create from"}

\* Moving a branch: it has the commit, and its log, and HEAD's if HEAD is on it, tell.
LEMMA SetBranchIs ==
    ASSUME NEW l, NEW p, Fine(l, p), Named(l), NEW n \in Names, NEW oid \in Oids,
           Loose(n) \in Footprint(l), Log(n) \in Footprint(l),
           p.disk[HeadFile] = n /\ Value(p.disk, n) # oid => Log(None) \in Footprint(l),
           l.cmd = "move" => /\ n = l.dst /\ l.src # l.dst /\ oid = Value(l.disk, l.src)
                             /\ File(p.disk, Log(l.src)) = File(l.disk, Log(l.src))
                             /\ l.disk[Log(l.src)] # Dir,
           l.cmd = "copy" => n = l.dst,
           l.cmd \in HeadFast => n = l.dst /\ (p.disk[HeadFile] = n => HeadValue(p.disk) \in {oid, None, Dir})
    PROVE  LET q == SetBranch(p, n, oid)
           IN  \/ Dead(l, q)
               \/ /\ Fine(l, q) /\ Placed(l) /\ q.disk[Loose(n)] = oid
                  /\ \A f \in Files \ {Loose(n)} : f[1] # "logs" /\ ~Over(f, Loose(n)) => q.disk[f] = p.disk[f]
                  /\ \A f \in Files \ {Loose(n), Log(n), Log(None)} : File(q.disk, f) = File(p.disk, f)
                  /\ Told(p.disk) => Told(q.disk)
<1> DEFINE w == [at |-> Loose(n), to |-> oid, prune |-> FALSE]
           d == p.disk
           e == After(d, w)
           p0 == Do(p, w)
           was == Value(d, n)
           p1 == Logged(p0, n, was, oid, Note, FALSE)
           p2 == IF d[HeadFile] = n THEN Logged(p1, None, was, oid, Note, FALSE) ELSE p1
           r == [old |-> was, new |-> oid, msg |-> Note]
<1>1. w \in Writes /\ w # Refusal /\ w.at = Loose(n) /\ w.to = oid
  BY Differ, Contents, IsAWrite
<1>2. Good(l, d) /\ Shaped(d) /\ IsTree(d)
  BY FineIs
<1>3. p0.disk = e
  BY DEF Do
<1>4. SetBranch(p, n, oid) = p2
  BY DEF SetBranch, Put
<1>5. was \in Oids \cup {None, Dir} /\ oid \in Oids \cup {None, Dir} /\ Note \in Messages
  BY <1>2, Shapes, AMessage
<1> HIDE DEF w, d, e, p0, was, p1, p2, r
<1>14. Changed(p1, p0, n, was, oid, Note)
  BY DEF Changed, p1
<1>6. ASSUME ~Raises(d, w)
      PROVE  /\ e[Loose(n)] = oid
             /\ \A f \in Files \ {Loose(n)} : File(e, f) = File(d, f)
             /\ \A f \in Files \ {Loose(n)} : ~Over(f, Loose(n)) => e[f] = d[f]
             /\ \A f \in Files \ {Loose(n)} : Over(f, Loose(n)) => File(d, f) = None
             /\ Shaped(e) /\ was # Dir
  <2>1. /\ e[w.at] = w.to /\ Shaped(e)
        /\ \A f \in Files \ {w.at} : File(e, f) = File(d, f)
        /\ \A f \in Files \ {w.at} : ~Over(f, w.at) => e[f] = d[f]
        /\ \A f \in Files \ {w.at} : Over(f, w.at) => d[f] \in {None, Dir} /\ e[f] \in {None, Dir}
    BY <1>1, <1>2, <1>6, Wrote DEF e
  <2>2. d[Loose(n)] # Dir
    BY <1>1, <1>6 DEF Raises, Blocked
  <2>3. was # Dir
    BY <1>2, <2>2, Shapes, Distinct DEF Value, was
  <2> QED BY <1>1, <2>1, <2>3 DEF File
<1>7. ASSUME ~Raises(d, w) PROVE Placed(l)
  <2>1. SUFFICES ASSUME l.cmd \in {"move", "copy"}, Fixable(l) PROVE Clear(l)
    BY DEF Placed
  <2>2. n = l.dst
    BY <2>1
  <2>3. ASSUME NEW f \in Files \ Footprint(l), Over(f, Loose(l.dst)) PROVE File(l.disk, f) = None
    BY <1>6, <1>7, <2>2, <2>3, <1>2 DEF Good, Untouched
  <2> QED BY <2>3 DEF Clear
<1>8. ASSUME ~Raises(d, w) PROVE Survives(l, e) /\ Started(l, e) /\ HeadFixed(l, d, e)
  <2>1. Started(l, e)
    BY <1>7, <1>8 DEF Started
  <2>2. HeadFixed(l, d, e)
    BY <1>1, <1>2, <1>8, LooseHead DEF HeadFast, d, e
  <2>3. ASSUME l.cmd = "move" PROVE RefKept(l, e) /\ ConfigKept(l, e) /\ HistoryKept(l, e)
    <3>1. l.src \in Names /\ l.dst \in Names /\ n = l.dst /\ oid = Value(l.disk, l.src)
      BY <2>3 DEF Named
    <3>2. ConfigKept(l, d)
      BY <1>2, <2>3 DEF Good, Survives
    <3>3. RefKept(l, e)
      BY <1>6, <1>8, <3>1 DEF RefKept
    <3>4. HistoryKept(l, e)
      BY <3>1, Differ, <1>6, <1>8, <2>3 DEF HistoryKept, d
    <3>5. e[Config] = d[Config]
      BY <1>6, <1>8, Differ, OverNothing
    <3> QED BY <3>2, <3>3, <3>4, <3>5 DEF ConfigKept
  <2> QED BY <2>1, <2>2, <2>3 DEF Survives
<1>9. Dead(l, p0) \/ (Fine(l, p0) /\ ~Raises(d, w))
  BY <1>1, <1>8, Step DEF d, e, p0
<1>10. ASSUME NEW g, Dead(l, g) PROVE Dead(l, Logged(g, n, was, oid, Note, FALSE))
  BY <1>5, <1>10, LoggedDead
<1>11. ASSUME NEW g, Dead(l, g), d[HeadFile] = n PROVE Dead(l, Logged(g, None, was, oid, Note, FALSE))
  BY <1>11, <1>5, LoggedDead DEF was, d
<1>12. CASE Dead(l, p0)
  BY <1>10, <1>12, <1>11, <1>4 DEF p1, p2
<1>13. CASE Fine(l, p0) /\ ~Raises(d, w)
  <2>1. Placed(l)
    BY <1>7, <1>13
  <2>2. \/ Dead(l, p1)
        \/ /\ Fine(l, p1) /\ LogOnly(e, p1.disk, n)
           /\ History(p1.disk, n) = IF was = oid THEN History(e, n) ELSE Append(History(e, n), r)
    <3>1. KeepsHistory(l, p0.disk, n, Append(History(p0.disk, n), [old |-> was, new |-> oid, msg |-> Note]))
      <4>1. ASSUME l.cmd = "move" PROVE n # l.src /\ File(e, Log(l.src)) = File(l.disk, Log(l.src))
        BY <4>1, Differ, <1>6, <1>13 DEF Named, d
      <4> QED BY <1>3, <4>1 DEF KeepsHistory
    <3>2. n \in Names \cup {None}
      OBVIOUS
    <3>3. \/ Dead(l, p1)
          \/ /\ Fine(l, p1)
             /\ LogOnly(p0.disk, p1.disk, n)
             /\ History(p1.disk, n) =
                   IF was = oid THEN History(p0.disk, n)
                   ELSE Append(History(p0.disk, n), [old |-> was, new |-> oid, msg |-> Note])
      BY <1>5, <1>13, <1>14, <2>1, <3>1, <3>2, ChangedIs
    <3> QED BY <1>3, <3>3 DEF r
  <2>3. CASE Dead(l, p1)
    BY <1>4, <1>11, <2>3 DEF p2
  <2>4. CASE /\ Fine(l, p1) /\ LogOnly(e, p1.disk, n)
             /\ History(p1.disk, n) = IF was = oid THEN History(e, n) ELSE Append(History(e, n), r)
    <3>1. \/ Dead(l, p2)
          \/ /\ Fine(l, p2) /\ LogOnly(p1.disk, p2.disk, None)
             /\ History(p2.disk, None) = IF d[HeadFile] # n \/ was = oid THEN History(p1.disk, None)
                                         ELSE Append(History(p1.disk, None), r)
      <4>1. CASE d[HeadFile] # n
        BY <2>4, <4>1 DEF p2, LogOnly
      <4>2. CASE d[HeadFile] = n
        <5>1. KeepsHistory(l, p1.disk, None, Append(History(p1.disk, None), [old |-> was, new |-> oid, msg |-> Note]))
          <6>1. ASSUME l.cmd = "move" PROVE None # l.src /\ File(p1.disk, Log(l.src)) = File(l.disk, Log(l.src))
            BY <6>1, Differ, Distinct, <2>4, <1>6, <1>13 DEF Named, LogOnly, d
          <6> QED BY <6>1 DEF KeepsHistory
        <5>2. None \in Names \cup {None}
          OBVIOUS
        <5>3. was # oid => Log(None) \in Footprint(l)
          BY <4>2 DEF was, d
        <5>4. Changed(p2, p1, None, was, oid, Note)
          BY <4>2 DEF Changed, p2
        <5>5. \/ Dead(l, p2)
              \/ /\ Fine(l, p2) /\ LogOnly(p1.disk, p2.disk, None)
                 /\ History(p2.disk, None) =
                       IF was = oid THEN History(p1.disk, None)
                       ELSE Append(History(p1.disk, None), [old |-> was, new |-> oid, msg |-> Note])
          BY <1>5, <2>1, <2>4, <5>1, <5>2, <5>3, <5>4, ChangedIs
        <5> QED BY <4>2, <5>5 DEF r
      <4> QED BY <4>1, <4>2
    <3>2. ASSUME Fine(l, p2), LogOnly(p1.disk, p2.disk, None),
                 History(p2.disk, None) = IF d[HeadFile] # n \/ was = oid THEN History(p1.disk, None)
                                          ELSE Append(History(p1.disk, None), r)
          PROVE  /\ p2.disk[Loose(n)] = oid
                 /\ \A f \in Files \ {Loose(n)} : f[1] # "logs" /\ ~Over(f, Loose(n)) => p2.disk[f] = d[f]
                 /\ \A f \in Files \ {Loose(n), Log(n), Log(None)} : File(p2.disk, f) = File(d, f)
                 /\ Told(d) => Told(p2.disk)
      <4>1. \A f \in Files : f[1] # "logs" => p2.disk[f] = e[f]
        BY <2>4, <3>2 DEF LogOnly
      <4>2. p2.disk[Loose(n)] = oid
        BY Differ, <1>6, <1>13, <4>1 DEF Loose
      <4>3. \A f \in Files \ {Loose(n)} : f[1] # "logs" /\ ~Over(f, Loose(n)) => p2.disk[f] = d[f]
        BY <1>6, <1>13, <4>1
      <4>4. \A f \in Files \ {Loose(n), Log(n), Log(None)} : File(p2.disk, f) = File(d, f)
        BY <1>6, <1>13, <2>4, <3>2 DEF LogOnly
      <4>5. ASSUME Told(d) PROVE Told(p2.disk)
        <5>1. p2.disk[Packed] = d[Packed] /\ p2.disk[HeadFile] = d[HeadFile]
          BY Differ, <4>3, OverNothing DEF Packed, HeadFile
        <5>2. Log(n) \in Files \ {Loose(n), Log(None)} /\ Log(None) \in Files \ {Loose(n), Log(n)}
          BY Differ
        <5>3. History(p2.disk, n) = History(p1.disk, n) /\ History(e, n) = History(d, n)
          BY <1>6, <1>13, <3>2, <5>2, HistoryIs DEF LogOnly
        <5>4. History(p1.disk, None) = History(d, None)
          BY <1>6, <1>13, <2>4, <5>2, HistoryIs DEF LogOnly
        <5>5. /\ History(p2.disk, n) = IF was = oid THEN History(d, n) ELSE Append(History(d, n), r)
              /\ History(p2.disk, None) = IF d[HeadFile] # n \/ was = oid THEN History(d, None)
                                          ELSE Append(History(d, None), r)
          BY <2>4, <3>2, <5>3, <5>4
        <5>6. Shaped(p2.disk) /\ was # Dir
          BY <1>6, <1>13, <3>2, FineIs
        <5> QED BY <1>2, <4>2, <4>4, <4>5, <5>1, <5>5, <5>6, ToldBranch DEF was, r
      <4> QED BY <4>2, <4>3, <4>4, <4>5
    <3>3. CASE Dead(l, p2)
      BY <1>4, <3>3
    <3> QED BY <1>4, <2>1, <3>1, <3>2, <3>3 DEF d
  <2> QED BY <2>2, <2>3, <2>4
<1> QED BY <1>9, <1>12, <1>13

LEMMA SetBranchDead ==
    ASSUME NEW l, NEW p, Dead(l, p), NEW n \in Names, NEW oid \in Oids,
           Loose(n) \in Footprint(l), Log(n) \in Footprint(l),
           p.disk[HeadFile] = n /\ Value(p.disk, n) # oid => Log(None) \in Footprint(l)
    PROVE  Dead(l, SetBranch(p, n, oid))
<1> DEFINE w == [at |-> Loose(n), to |-> oid, prune |-> FALSE]
           p0 == Do(p, w)
           was == Value(p.disk, n)
           p1 == Logged(p0, n, was, oid, Note, FALSE)
           p2 == Logged(p1, None, was, oid, Note, FALSE)
<1>1. w \in Writes /\ w # Refusal /\ w.at = Loose(n)
  BY Differ, Contents, IsAWrite
<1>2. SetBranch(p, n, oid) = IF p.disk[HeadFile] = n THEN p2 ELSE p1
  BY DEF SetBranch, Put
<1>3. was \in Oids \cup {None, Dir} /\ oid \in Oids \cup {None, Dir} /\ Note \in Messages
  BY SoundIs, Shapes, AMessage DEF Sound
<1>4. p.disk[HeadFile] = n => (was = oid /\ ~FALSE) \/ Log(None) \in Footprint(l)
  OBVIOUS
<1> HIDE DEF w, p0, was, p1, p2
<1>5. Dead(l, p0)
  BY <1>1, DoDead DEF p0
<1>6. Dead(l, p1)
  BY <1>3, <1>5, LoggedDead DEF p1
<1>7. p.disk[HeadFile] = n => Dead(l, p2)
  BY <1>3, <1>4, <1>6, LoggedDead DEF p2
<1> QED BY <1>2, <1>6, <1>7

\* Nothing is done to the source of a move before its new name has its place.
Held(l, e) == e[Loose(l.src)] = l.disk[Loose(l.src)] /\ e[Packed][l.src] = l.disk[Packed][l.src]

\* The branch a command may delete, on d.
MayDelete(l, d, n) ==
    /\ l.cmd # "copy" /\ d[HeadFile] # n
    /\ l.cmd = "move" =>
          /\ l.src # l.dst /\ Value(l.disk, l.src) \in Oids /\ l.disk[Log(l.src)] # Dir
          /\ \/ n = l.dst /\ Held(l, d)
             \/ n = l.src /\ Placed(l) /\ d[Loose(l.dst)] = Value(l.disk, l.src)

LEMMA UnlinkRefIs ==
    ASSUME NEW l, NEW p, Fine(l, p), Shaped(l.disk), Named(l), NEW n \in Names, Loose(n) \in Footprint(l),
           MayDelete(l, p.disk, n)
    PROVE  LET q == Unlink(p, Loose(n))
           IN  \/ Dead(l, q)
               \/ /\ Fine(l, q) /\ MayDelete(l, q.disk, n) /\ q.disk[Loose(n)] = None
                  /\ \A f \in Files \ {Loose(n)} : /\ File(q.disk, f) = File(p.disk, f)
                                                   /\ f[1] # "refs" => q.disk[f] = p.disk[f]
                  /\ \A f \in Files : q.disk[f] = Dir => p.disk[f] = Dir
<1> DEFINE w == [at |-> Loose(n), to |-> None, prune |-> TRUE]
           d == p.disk
           e == After(d, w)
           q == Unlink(p, Loose(n))
<1>1. w \in Writes /\ w # Refusal /\ w.at = Loose(n) /\ w.to = None
  BY Differ, Contents, IsAWrite
<1>2. Good(l, d) /\ Shaped(d) /\ IsTree(d)
  BY FineIs
<1>3. q = IF d[Loose(n)] = None THEN p ELSE Do(p, w)
  BY DEF Unlink
<1>4. Do(p, w).disk = e
  BY DEF Do
<1> HIDE DEF w, d, e, q
<1>5. CASE d[Loose(n)] = None
  BY <1>3, <1>5 DEF d, q
<1>6. CASE d[Loose(n)] # None
  <2>1. ASSUME ~Raises(d, w)
        PROVE  /\ e[Loose(n)] = None
               /\ \A f \in Files \ {Loose(n)} : File(e, f) = File(d, f)
               /\ \A f \in Files \ {Loose(n)} : ~Over(f, Loose(n)) => e[f] = d[f]
               /\ \A f \in Files \ {Loose(n)} : Over(f, Loose(n)) => d[f] = Dir
               /\ \A f \in Files \ {Loose(n)} : f[1] # "refs" => e[f] = d[f]
               /\ \A f \in Files : e[f] = Dir => d[f] = Dir
    <3>1. /\ e[w.at] = w.to
          /\ \A f \in Files \ {w.at} : File(e, f) = File(d, f)
          /\ \A f \in Files \ {w.at} : ~Over(f, w.at) => e[f] = d[f]
          /\ w.to = None => \A f \in Files : e[f] = Dir => d[f] = Dir
      BY <1>1, <1>2, <2>1, Wrote DEF e
    <3>2. \A f \in Files : Over(f, Loose(n)) => d[f] = Dir
      BY <1>2, <1>6, Differ DEF IsTree
    <3>3. \A f \in Files : Over(f, Loose(n)) => f[1] = "refs"
      BY DEF Over, Loose
    <3> QED BY <1>1, <3>1, <3>2, <3>3
  <2>2. ASSUME ~Raises(d, w) PROVE MayDelete(l, e, n) /\ Placed(l)
    <3>1. e[HeadFile] = d[HeadFile] /\ e[Packed] = d[Packed]
      BY <2>1, <2>2, Differ, OverNothing
    <3>2. CASE l.cmd # "move"
      BY <3>1, <3>2 DEF MayDelete, Placed, d
    <3>3. CASE l.cmd = "move" /\ n = l.dst /\ l.src # l.dst /\ Held(l, d)
      <4>1. l.src \in Names /\ l.dst \in Names /\ Value(l.disk, l.src) \in Oids /\ l.disk[Log(l.src)] # Dir
        BY <3>3 DEF Named, MayDelete
      <4>2. l.disk[Loose(l.src)] \in Oids \cup {None} /\ Dir \notin Oids /\ None # Dir /\ None \notin Oids
        BY Distinct, <4>1, Shapes DEF Value
      <4>3. Loose(l.src) \in Files \ {Loose(n)}
        BY <3>3, <4>1, Differ
      <4>4. e[Loose(l.src)] = d[Loose(l.src)]
        BY <3>3, <4>2, <2>1, <2>2, <4>3 DEF Held, File
      <4>5. Held(l, e)
        BY <3>1, <3>3, <4>4 DEF Held
      <4>6. Placed(l)
        <5>1. ASSUME NEW f \in Files \ Footprint(l), Over(f, Loose(l.dst)) PROVE File(l.disk, f) = None
          BY <2>1, <2>2, <3>3, <5>1, <1>2 DEF File, Good, Untouched
        <5> QED BY <4>1, <5>1 DEF Placed, Clear
      <4> QED BY <3>1, <3>3, <4>1, <4>5, <4>6 DEF MayDelete, d
    <3>4. CASE l.cmd = "move" /\ n = l.src /\ l.src # l.dst /\ Placed(l) /\ d[Loose(l.dst)] = Value(l.disk, l.src)
      BY <3>4, Differ, Distinct, <2>1, <2>2, <3>1 DEF Named, MayDelete, d
    <3>5. l.cmd = "move" => l.src # l.dst /\ ((n = l.dst /\ Held(l, d)) \/ (n = l.src /\ Placed(l) /\ d[Loose(l.dst)] = Value(l.disk, l.src)))
      BY DEF MayDelete, d
    <3> QED BY <3>2, <3>3, <3>4, <3>5
  <2>3. ASSUME ~Raises(d, w) PROVE Survives(l, e) /\ Started(l, e) /\ HeadFixed(l, d, e)
    <3>1. Started(l, e)
      BY <2>2, <2>3 DEF Started
    <3>2. HeadFixed(l, d, e)
      BY <1>1, <1>2, <2>3, LooseHead DEF e, MayDelete, d
    <3>3. ASSUME l.cmd = "move" PROVE RefKept(l, e) /\ ConfigKept(l, e) /\ HistoryKept(l, e)
      <4>1. l.src \in Names /\ l.dst \in Names
        BY <3>3 DEF Named
      <4>2. ConfigKept(l, d) /\ HistoryKept(l, d)
        BY <1>2, <3>3 DEF Good, Survives
      <4>3. RefKept(l, e)
        BY <2>2, <2>3, <3>3 DEF RefKept, MayDelete, Held
      <4>4. Log(l.src) \in Files \ {Loose(n)} /\ Log(l.dst) \in Files \ {Loose(n)} /\ Config \in Files \ {Loose(n)}
        BY <4>1, Differ
      <4>5. HistoryKept(l, e)
        BY <2>1, <2>3, <4>4, HistoryIs, <4>2 DEF HistoryKept
      <4>6. e[Config] = d[Config]
        BY <2>1, <2>3, <4>4, OverNothing, Differ
      <4> QED BY <4>2, <4>3, <4>5, <4>6 DEF ConfigKept
    <3> QED BY <3>1, <3>2, <3>3 DEF Survives
  <2>4. Dead(l, Do(p, w)) \/ (Fine(l, Do(p, w)) /\ ~Raises(d, w))
    BY <1>1, <2>3, Step DEF d, e
  <2> QED BY <1>3, <1>4, <1>6, <2>1, <2>2, <2>4 DEF d, q
<1> QED BY <1>5, <1>6

\* The packed ref, once the loose one is gone.
LEMMA DropPackedIs ==
    ASSUME NEW l, NEW p, Fine(l, p), Named(l), NEW n \in Names, Packed \in Footprint(l),
           MayDelete(l, p.disk, n)
    PROVE  LET q == IF p.disk[Packed][n] = None THEN p ELSE Put(p, Packed, [p.disk[Packed] EXCEPT ![n] = None])
           IN  \/ Dead(l, q)
               \/ /\ Fine(l, q) /\ MayDelete(l, q.disk, n) /\ q.disk[Packed] = [p.disk[Packed] EXCEPT ![n] = None]
                  /\ \A f \in Files \ {Packed} : q.disk[f] = p.disk[f]
<1> DEFINE d == p.disk
           v == [d[Packed] EXCEPT ![n] = None]
           w == [at |-> Packed, to |-> v, prune |-> FALSE]
           e == After(d, w)
           q == IF d[Packed][n] = None THEN p ELSE Put(p, Packed, v)
<1>1. Good(l, d) /\ Shaped(d) /\ IsTree(d) /\ d[Packed] \in [Names -> Oids \cup {None}]
  BY FineIs, Shapes
<1>2. v \in [Names -> Oids \cup {None}] /\ v[n] = None /\ \A m \in Names \ {n} : v[m] = d[Packed][m]
  BY <1>1
<1>3. w \in Writes /\ w # Refusal /\ w.at = Packed /\ w.to = v
  BY <1>2, Differ, Contents, IsAWrite
<1>4. Do(p, w).disk = e
  BY DEF Do
<1>5. q = IF d[Packed][n] = None THEN p ELSE Do(p, w)
  BY DEF Put
<1>6. d[Packed][n] = None => v = d[Packed]
  BY <1>1
<1> HIDE DEF d, v, w, e, q
<1>7. CASE d[Packed][n] = None
  BY <1>5, <1>6, <1>7 DEF d, q, v
<1>8. CASE d[Packed][n] # None
  <2>1. ASSUME ~Raises(d, w) PROVE e[Packed] = v /\ \A f \in Files \ {Packed} : e[f] = d[f]
    BY <1>1, <1>3, <2>1, Wrote, OverNothing DEF e
  <2>2. ASSUME ~Raises(d, w) PROVE MayDelete(l, e, n)
    <3>1. e[HeadFile] = d[HeadFile]
      BY <2>1, <2>2, Differ
    <3>2. CASE l.cmd # "move"
      BY <3>1, <3>2 DEF MayDelete, d
    <3>3. CASE l.cmd = "move"
      <4>1. l.src \in Names /\ l.dst \in Names
        BY <3>3 DEF Named
      <4>2. e[Loose(l.src)] = d[Loose(l.src)] /\ e[Loose(l.dst)] = d[Loose(l.dst)]
        BY <2>1, <2>2, <4>1, Differ
      <4>3. n = l.dst /\ l.src # l.dst /\ Held(l, d) => Held(l, e)
        BY <1>2, <2>1, <2>2, <4>1, <4>2 DEF Held
      <4>4. MayDelete(l, d, n)
        BY DEF d
      <4> QED BY <3>1, <3>3, <4>2, <4>3, <4>4 DEF MayDelete
    <3> QED BY <3>2, <3>3
  <2>3. ASSUME ~Raises(d, w) PROVE Survives(l, e) /\ Started(l, e) /\ HeadFixed(l, d, e)
    <3>1. Started(l, e)
      BY <1>1, <2>1, <2>3 DEF Started, Good, File
    <3>2. HeadFixed(l, d, e)
      <4>1. d[HeadFile] # n /\ e[HeadFile] = d[HeadFile]
        BY <2>1, <2>3, Differ DEF MayDelete, d
      <4>2. d[HeadFile] \in Names => /\ e[Loose(d[HeadFile])] = d[Loose(d[HeadFile])]
                                     /\ e[Packed][d[HeadFile]] = d[Packed][d[HeadFile]]
        BY <1>2, <2>1, <2>3, <4>1, Differ
      <4>3. HeadValue(e) = HeadValue(d)
        BY <4>1, <4>2, SameHead
      <4>4. \A m \in Names : e[Loose(m)] = d[Loose(m)]
        BY <2>1, <2>3, Differ
      <4> QED BY <4>1, <4>3, <4>4, Following DEF HeadFixed
    <3>3. ASSUME l.cmd = "move" PROVE RefKept(l, e) /\ ConfigKept(l, e) /\ HistoryKept(l, e)
      <4>1. l.src \in Names /\ l.dst \in Names
        BY <3>3 DEF Named
      <4>2. ConfigKept(l, d) /\ HistoryKept(l, d)
        BY <1>1, <3>3 DEF Good, Survives
      <4>3. RefKept(l, e)
        BY <2>2, <2>3, <3>3 DEF RefKept, MayDelete, Held
      <4>4. HistoryKept(l, e)
        <5>1. File(e, Log(l.src)) = File(d, Log(l.src)) /\ File(e, Log(l.dst)) = File(d, Log(l.dst))
          BY <2>1, <2>3, <4>1, Differ DEF File
        <5>2. History(e, l.dst) = History(d, l.dst)
          BY <5>1, HistoryIs
        <5> QED BY <4>2, <5>1, <5>2 DEF HistoryKept
      <4>5. e[Config] = d[Config]
        BY <2>1, <2>3, Differ
      <4> QED BY <4>2, <4>3, <4>4, <4>5 DEF ConfigKept
    <3> QED BY <3>1, <3>2, <3>3 DEF Survives
  <2>4. Dead(l, Do(p, w)) \/ (Fine(l, Do(p, w)) /\ ~Raises(d, w))
    BY <1>3, <2>3, Step DEF d, e
  <2>5. q = Do(p, w)
    BY <1>5, <1>8
  <2>6. Dead(l, q) \/ (Fine(l, q) /\ MayDelete(l, q.disk, n) /\ q.disk[Packed] = v /\ \A f \in Files \ {Packed} : q.disk[f] = d[f])
    BY <1>4, <2>1, <2>2, <2>4, <2>5
  <2> QED BY <2>6 DEF d, q, v
<1> QED BY <1>7, <1>8

\* Deleting a branch HEAD is not on: the loose and the packed ref are gone, the rest stays.
LEMMA DeleteBranchIs ==
    ASSUME NEW l, NEW p, Fine(l, p), Shaped(l.disk), Named(l), NEW n \in Names, Loose(n) \in Footprint(l),
           Packed \in Footprint(l), MayDelete(l, p.disk, n)
    PROVE  LET q == DeleteBranch(p, n)
           IN  \/ Dead(l, q)
               \/ /\ Fine(l, q) /\ MayDelete(l, q.disk, n) /\ q.disk[Loose(n)] = None
                  /\ q.disk[Packed] = [p.disk[Packed] EXCEPT ![n] = None]
                  /\ \A f \in Files \ {Loose(n), Packed} : /\ File(q.disk, f) = File(p.disk, f)
                                                           /\ f[1] # "refs" => q.disk[f] = p.disk[f]
                  /\ \A f \in Files : q.disk[f] = Dir => p.disk[f] = Dir
                  /\ Told(p.disk) => Told(q.disk)
<1> DEFINE d == p.disk
           u == Unlink(p, Loose(n))
           e == u.disk
           v == [e[Packed] EXCEPT ![n] = None]
           q == DeleteBranch(p, n)
<1>1. q = IF e[Packed][n] = None THEN u ELSE Put(u, Packed, v)
  BY DEF DeleteBranch
<1>2. Good(l, d) /\ Shaped(d) /\ IsTree(d) /\ d[Packed] \in [Names -> Oids \cup {None}]
  BY FineIs, Shapes
<1>3. \/ Dead(l, u)
      \/ /\ Fine(l, u) /\ MayDelete(l, e, n) /\ e[Loose(n)] = None
         /\ \A f \in Files \ {Loose(n)} : /\ File(e, f) = File(d, f)
                                          /\ f[1] # "refs" => e[f] = d[f]
         /\ \A f \in Files : e[f] = Dir => d[f] = Dir
  BY UnlinkRefIs
<1>4. ASSUME Dead(l, u) PROVE Dead(l, q)
  <2> DEFINE w == [at |-> Packed, to |-> v, prune |-> FALSE]
  <2>1. e[Packed] \in [Names -> Oids \cup {None}]
    BY <1>4, SoundIs, Shapes DEF Sound
  <2>2. v \in Kept(Packed)
    BY <2>1, Contents
  <2>3. w \in Writes /\ w # Refusal /\ w.at = Packed
    BY <2>2, Differ, IsAWrite
  <2>4. Put(u, Packed, v) = Do(u, w)
    BY DEF Put
  <2> HIDE DEF w, u, q, v, e
  <2>5. Dead(l, Do(u, w))
    BY <1>4, <2>3, DoDead
  <2> QED BY <1>1, <1>4, <2>4, <2>5
<1>5. ASSUME Fine(l, u), MayDelete(l, e, n), e[Loose(n)] = None,
             \A f \in Files \ {Loose(n)} : File(e, f) = File(d, f) /\ (f[1] # "refs" => e[f] = d[f]),
             \A f \in Files : e[f] = Dir => d[f] = Dir
      PROVE  \/ Dead(l, q)
             \/ /\ Fine(l, q) /\ MayDelete(l, q.disk, n) /\ q.disk[Loose(n)] = None
                /\ q.disk[Packed] = [d[Packed] EXCEPT ![n] = None]
                /\ \A f \in Files \ {Loose(n), Packed} : /\ File(q.disk, f) = File(d, f)
                                                         /\ f[1] # "refs" => q.disk[f] = d[f]
                /\ \A f \in Files : q.disk[f] = Dir => d[f] = Dir
                /\ Told(d) => Told(q.disk)
  <2>1. \/ Dead(l, q)
        \/ Fine(l, q) /\ MayDelete(l, q.disk, n) /\ q.disk[Packed] = v /\ \A f \in Files \ {Packed} : q.disk[f] = e[f]
    BY <1>1, <1>5, DropPackedIs
  <2>2. Packed \in Files \ {Loose(n)} /\ Packed[1] # "refs" /\ Loose(n) \in Files \ {Packed}
    BY Differ DEF Packed
  <2>3. e[Packed] = d[Packed]
    BY <1>5, <2>2
  <2> HIDE DEF d, u, e, q
  <2>4. ASSUME Fine(l, q), MayDelete(l, q.disk, n), q.disk[Packed] = v, \A f \in Files \ {Packed} : q.disk[f] = e[f]
        PROVE  /\ q.disk[Loose(n)] = None
               /\ q.disk[Packed] = [d[Packed] EXCEPT ![n] = None]
               /\ \A f \in Files \ {Loose(n), Packed} : /\ File(q.disk, f) = File(d, f)
                                                        /\ f[1] # "refs" => q.disk[f] = d[f]
               /\ \A f \in Files : q.disk[f] = Dir => d[f] = Dir
               /\ Told(d) => Told(q.disk)
    <3> DEFINE g == q.disk
    <3>1. g[Loose(n)] = None /\ g[Packed] = [d[Packed] EXCEPT ![n] = None]
      BY <1>5, <2>2, <2>3, <2>4
    <3>2. \A f \in Files \ {Loose(n), Packed} : File(g, f) = File(d, f) /\ (f[1] # "refs" => g[f] = d[f])
      BY <1>5, <2>4 DEF File
    <3>3. Shaped(g)
      BY <2>4, FineIs
    <3> HIDE DEF g
    <3>4. ASSUME NEW f \in Files, g[f] = Dir PROVE d[f] = Dir
      <4>1. f # Packed
        BY <3>3, Shapes, NoDir, Differ, <3>4, Contents
      <4>2. e[f] = Dir
        BY <2>4, <3>4, <4>1 DEF g
      <4> QED BY <1>5, <4>2
    <3>5. ASSUME Told(d) PROVE Told(g)
      <4>1. ASSUME NEW m \in Names \ {n}
            PROVE  /\ File(g, Loose(m)) = File(d, Loose(m)) /\ File(g, Log(m)) = File(d, Log(m))
                   /\ g[Packed][m] = d[Packed][m]
        BY Differ, <1>2, <3>1, <3>2
      <4>2. ASSUME NEW m \in Names
            PROVE  /\ Linked(History(g, m))
                   /\ Stored(g, m) # None => LeadsTo(History(g, m), Stored(g, m))
        <5>1. CASE m = n
          <6>1. Stored(g, n) = None
            BY <1>2, <3>1, Distinct DEF Stored
          <6>2. History(g, n) = History(d, n)
            BY Differ, <3>2, HistoryIs
          <6>3. Linked(History(d, n))
            BY <1>2, <3>5, ToldIs
          <6> QED BY <5>1, <6>1, <6>2, <6>3
        <5>2. CASE m # n
          BY <1>2, <3>3, <3>5, <4>1, <5>2, ToldElsewhere
        <5> QED BY <5>1, <5>2
      <4>3. LeadsTo(History(g, None), StoredHead(g))
        <5>1. LeadsTo(History(d, None), StoredHead(d))
          BY <1>2, <3>5, ToldIs
        <5>2. {HeadFile, Log(None)} \subseteq Files \ {Loose(n), Packed} /\ HeadFile[1] # "refs"
          BY Differ DEF HeadFile
        <5>3. g[HeadFile] = d[HeadFile] /\ File(g, Log(None)) = File(d, Log(None))
          BY <3>2, <5>2
        <5>4. History(g, None) = History(d, None)
          BY <5>3, HistoryIs
        <5>5. d[HeadFile] # n
          BY DEF MayDelete, d
        <5>6. d[HeadFile] \in Names => Stored(g, d[HeadFile]) = Stored(d, d[HeadFile])
          BY <1>2, <3>3, <4>1, <5>5, StoredIs
        <5>7. StoredHead(g) = StoredHead(d)
          BY <5>3, <5>6 DEF StoredHead
        <5> QED BY <5>1, <5>4, <5>7
      <4> QED BY <3>3, <4>2, <4>3, ToldIs
    <3> QED BY <3>1, <3>2, <3>4, <3>5 DEF g
  <2> QED BY <2>1, <2>4
<1> HIDE DEF d, u, e, q, v
<1>6. CASE Dead(l, u)
  BY <1>4, <1>6 DEF q
<1>7. CASE ~Dead(l, u)
  BY <1>3, <1>5, <1>7 DEF d, q
<1> QED BY <1>6, <1>7

LEMMA DeleteBranchDead ==
    ASSUME NEW l, NEW p, Dead(l, p), NEW n \in Names, Loose(n) \in Footprint(l), Packed \in Footprint(l)
    PROVE  Dead(l, DeleteBranch(p, n))
<1> DEFINE x == [at |-> Loose(n), to |-> None, prune |-> TRUE]
           u == Unlink(p, Loose(n))
           v == [u.disk[Packed] EXCEPT ![n] = None]
           w == [at |-> Packed, to |-> v, prune |-> FALSE]
<1>1. x \in Writes /\ x # Refusal /\ x.at = Loose(n)
  BY Differ, Contents, IsAWrite
<1>2. u = p \/ u = Do(p, x)
  BY DEF Unlink
<1>3. DeleteBranch(p, n) = u \/ DeleteBranch(p, n) = Do(u, w)
  BY DEF DeleteBranch, Put
<1> HIDE DEF x, u, w
<1>4. Dead(l, u)
  BY <1>1, <1>2, DoDead
<1>5. u.disk[Packed] \in [Names -> Oids \cup {None}]
  BY <1>4, SoundIs, Shapes DEF Sound
<1>6. v \in Kept(Packed)
  BY <1>5, Contents
<1> HIDE DEF v
<1>7. w \in Writes /\ w # Refusal /\ w.at = Packed
  BY <1>6, Differ, IsAWrite DEF w
<1>8. Dead(l, Do(u, w))
  BY <1>4, <1>7, DoDead
<1> QED BY <1>3, <1>4, <1>8

\* Nothing to delete.
LEMMA DeleteNothing ==
    ASSUME NEW p, NEW n \in Names, Value(p.disk, n) = None
    PROVE  DeleteBranch(p, n) = p
BY DEF Value, DeleteBranch, Unlink

\* Whether the logs tell depends on the refs and the logs, not on directories left behind.
LEMMA ToldSame ==
    ASSUME NEW d, NEW e, Shaped(d), Shaped(e), Told(d), \A f \in Files \ {Config} : File(e, f) = File(d, f),
           e[Packed] = d[Packed], e[HeadFile] = d[HeadFile]
    PROVE  Told(e)
<1>1. \A n \in Names : File(e, Loose(n)) = File(d, Loose(n)) /\ File(e, Log(n)) = File(d, Log(n))
  BY Differ
<1>2. ASSUME NEW n \in Names
      PROVE  /\ Linked(History(e, n))
             /\ Stored(e, n) # None => LeadsTo(History(e, n), Stored(e, n))
  BY <1>1, ToldElsewhere
<1>3. History(e, None) = History(d, None)
  BY Differ, HistoryIs
<1>4. StoredHead(e) = StoredHead(d)
  BY <1>1, StoredIs DEF StoredHead
<1>5. LeadsTo(History(d, None), StoredHead(d))
  BY ToldIs
<1> QED BY <1>2, <1>3, <1>4, <1>5, ToldIs

\* Writing the config leaves the rest alone.
LEMMA SetConfigIs ==
    ASSUME NEW l, NEW p, Fine(l, p), Named(l), Config \in Footprint(l), NEW n \in Names, NEW v \in Settings,
           l.cmd = "move" /\ l.disk[Config][l.src] # None =>
               \E m \in {l.src, l.dst} : [p.disk[Config] EXCEPT ![n] = v][m] # None
    PROVE  LET q == SetConfig(p, n, v)
           IN  \/ Dead(l, q)
               \/ /\ Fine(l, q) /\ q.disk[Config] = [p.disk[Config] EXCEPT ![n] = v]
                  /\ \A f \in Files \ {Config} : q.disk[f] = p.disk[f]
                  /\ Told(p.disk) => Told(q.disk)
<1> DEFINE d == p.disk
           c == [d[Config] EXCEPT ![n] = v]
           w == [at |-> Config, to |-> c, prune |-> FALSE]
           e == After(d, w)
           q == SetConfig(p, n, v)
<1>1. Good(l, d) /\ Shaped(d) /\ IsTree(d) /\ d[Config] \in [Names -> Settings]
  BY FineIs, Shapes
<1>2. c \in [Names -> Settings]
  BY <1>1
<1>3. w \in Writes /\ w # Refusal /\ w.at = Config /\ w.to = c
  BY <1>2, Differ, Contents, IsAWrite
<1>4. Do(p, w).disk = e
  BY DEF Do
<1>5. q = IF d[Config][n] = v THEN p ELSE Do(p, w)
  BY DEF SetConfig, Put
<1>6. d[Config][n] = v => c = d[Config]
  BY <1>1
<1>7. l.cmd = "move" /\ l.disk[Config][l.src] # None => c[l.src] # None \/ c[l.dst] # None
  OBVIOUS
<1> HIDE DEF d, c, w, e, q
<1>8. CASE d[Config][n] = v
  BY <1>5, <1>6, <1>8 DEF d, q, c
<1>9. CASE d[Config][n] # v
  <2>1. ASSUME ~Raises(d, w) PROVE e[Config] = c /\ (\A f \in Files \ {Config} : e[f] = d[f]) /\ Shaped(e)
    BY <1>1, <1>3, <2>1, Wrote, OverNothing DEF e
  <2>2. ASSUME ~Raises(d, w) PROVE Survives(l, e) /\ Started(l, e) /\ HeadFixed(l, d, e)
    <3>1. Started(l, e)
      BY <1>1, <2>1, <2>2 DEF Started, Good, File
    <3>2. /\ e[HeadFile] = d[HeadFile] /\ e[Packed] = d[Packed]
          /\ \A m \in Names : e[Loose(m)] = d[Loose(m)] /\ File(e, Log(m)) = File(d, Log(m))
      BY <2>1, <2>2, Differ DEF File
    <3>3. HeadFixed(l, d, e)
      BY <3>2, SameHead, Following DEF HeadFixed
    <3>4. ASSUME l.cmd = "move" PROVE RefKept(l, e) /\ HistoryKept(l, e) /\ ConfigKept(l, e)
      <4>1. l.src \in Names /\ l.dst \in Names
        BY <3>4 DEF Named
      <4>2. RefKept(l, d) /\ HistoryKept(l, d)
        BY <1>1, <3>4 DEF Good, Survives
      <4>3. RefKept(l, e)
        BY <3>2, <4>1, <4>2 DEF RefKept
      <4>4. History(e, l.dst) = History(d, l.dst)
        BY <3>2, <4>1, HistoryIs
      <4>5. HistoryKept(l, e)
        BY <3>2, <4>1, <4>2, <4>4 DEF HistoryKept
      <4>6. ConfigKept(l, e)
        BY <1>7, <2>1, <2>2, <3>4 DEF ConfigKept
      <4> QED BY <4>3, <4>5, <4>6
    <3> QED BY <3>1, <3>3, <3>4 DEF Survives
  <2>3. Dead(l, Do(p, w)) \/ (Fine(l, Do(p, w)) /\ ~Raises(d, w))
    BY <1>3, <2>2, Step DEF d, e
  <2>4. ASSUME ~Raises(d, w), Told(d) PROVE Told(e)
    BY <2>1, <2>4, Differ, <1>1, ToldSame DEF File
  <2>5. q = Do(p, w)
    BY <1>5, <1>9
  <2>6. \/ Dead(l, q)
        \/ Fine(l, q) /\ q.disk[Config] = c /\ (\A f \in Files \ {Config} : q.disk[f] = d[f]) /\ (Told(d) => Told(q.disk))
    BY <1>4, <2>1, <2>3, <2>4, <2>5
  <2> QED BY <2>6 DEF d, q, c
<1> QED BY <1>8, <1>9

LEMMA SetConfigDead ==
    ASSUME NEW l, NEW p, Dead(l, p), Config \in Footprint(l), NEW n \in Names, NEW v \in Settings
    PROVE  Dead(l, SetConfig(p, n, v))
<1> DEFINE c == [p.disk[Config] EXCEPT ![n] = v]
           w == [at |-> Config, to |-> c, prune |-> FALSE]
<1>1. p.disk[Config] \in [Names -> Settings]
  BY SoundIs, Shapes DEF Sound
<1>2. c \in [Names -> Settings]
  BY <1>1
<1>3. w \in Writes /\ w # Refusal /\ w.at = Config
  BY <1>2, Differ, Contents, IsAWrite
<1>4. SetConfig(p, n, v) = p \/ SetConfig(p, n, v) = Do(p, w)
  BY DEF SetConfig, Put
<1> HIDE DEF c, w
<1> QED BY <1>3, <1>4, DoDead

\* A log that takes the history of another.
LEMMA TakeHistoryIs ==
    ASSUME NEW l, NEW p, Fine(l, p), Named(l), Placed(l), NEW n \in Names, Log(n) \in Footprint(l),
           NEW history \in Seq(Records), NEW oid \in Oids,
           l.cmd = "move" => n # l.src /\ File(p.disk, Log(l.src)) = File(l.disk, Log(l.src))
    PROVE  LET q == TakeHistory(p, n, history, oid)
           IN  \/ Dead(l, q)
               \/ /\ Fine(l, q) /\ LogOnly(p.disk, q.disk, n)
                  /\ History(q.disk, n) = Append(history, [old |-> oid, new |-> oid, msg |-> Note])
<1> DEFINE d == p.disk
           v == IF history # <<>> THEN history ELSE None
           w == [at |-> Log(n), to |-> v, prune |-> FALSE]
           u == IF history # <<>> \/ d[Log(n)] # None THEN Do(p, w) ELSE p
           q == TakeHistory(p, n, history, oid)
<1>1. Noted(q, u, n, oid, oid, Note)
  BY DEF Noted, TakeHistory, Put
<1>2. v \in Seq(Records) \cup {None} /\ n \in Names \cup {None}
  OBVIOUS
<1>3. w \in Writes /\ w # Refusal /\ w.at = Log(n) /\ w.to = v
  BY <1>2, ALogWrite
<1>4. \A x : KeepsHistory(l, d, n, x)
  BY DEF KeepsHistory
<1> HIDE DEF d, w, u, q
<1>5. Dead(l, u) \/ (Fine(l, u) /\ LogOnly(d, u.disk, n) /\ History(u.disk, n) = history)
  <2>1. CASE history # <<>> \/ d[Log(n)] # None
    BY <2>1, <1>4, <1>2, <1>3, LogWrite, NoSequence DEF u, d, History
  <2>2. CASE history = <<>> /\ d[Log(n)] = None
    BY <2>2 DEF u, LogOnly, History, d
  <2> QED BY <2>1, <2>2
<1>6. CASE Dead(l, u)
  BY AMessage, <1>2, <1>6, LoggedDead, <1>1 DEF Noted, q
<1>7. CASE Fine(l, u) /\ LogOnly(d, u.disk, n) /\ History(u.disk, n) = history
  <2>1. KeepsHistory(l, u.disk, n, Append(History(u.disk, n), [old |-> oid, new |-> oid, msg |-> Note]))
    <3>1. ASSUME l.cmd = "move" PROVE n # l.src /\ File(u.disk, Log(l.src)) = File(l.disk, Log(l.src))
      BY <3>1, Differ, <1>7 DEF Named, LogOnly, d
    <3> QED BY <3>1 DEF KeepsHistory
  <2>2. oid \in Oids \cup {None, Dir} /\ Note \in Messages
    BY AMessage
  <2>3. \/ Dead(l, q)
        \/ /\ Fine(l, q) /\ LogOnly(u.disk, q.disk, n)
           /\ History(q.disk, n) = Append(History(u.disk, n), [old |-> oid, new |-> oid, msg |-> Note])
    BY <1>1, <1>2, <1>7, <2>1, <2>2, NotedIs
  <2>4. LogOnly(u.disk, q.disk, n) => LogOnly(d, q.disk, n)
    BY <1>7 DEF LogOnly
  <2> QED BY <1>7, <2>3, <2>4 DEF d, q
<1> QED BY <1>5, <1>6, <1>7

LEMMA TakeHistoryDead ==
    ASSUME NEW l, NEW p, Dead(l, p), NEW n \in Names, Log(n) \in Footprint(l),
           NEW history \in Seq(Records), NEW oid \in Oids
    PROVE  Dead(l, TakeHistory(p, n, history, oid))
<1> DEFINE v == IF history # <<>> THEN history ELSE None
           w == [at |-> Log(n), to |-> v, prune |-> FALSE]
           u == IF history # <<>> \/ p.disk[Log(n)] # None THEN Do(p, w) ELSE p
<1>1. TakeHistory(p, n, history, oid) = Logged(u, n, oid, oid, Note, TRUE)
  BY DEF TakeHistory, Put
<1>2. v \in Seq(Records) \cup {None} /\ n \in Names \cup {None}
  OBVIOUS
<1>3. w \in Writes /\ w # Refusal /\ w.at = Log(n)
  BY <1>2, ALogWrite
<1> HIDE DEF v, w
<1>4. Dead(l, u)
  BY <1>3, DoDead
<1> HIDE DEF u
<1>5. (oid = oid /\ ~TRUE) \/ Log(n) \in Footprint(l)
  OBVIOUS
<1>6. oid \in Oids \cup {None, Dir} /\ Note \in Messages /\ TRUE \in BOOLEAN
  BY AMessage
<1>7. Dead(l, Logged(u, n, oid, oid, Note, TRUE))
  BY <1>2, <1>4, <1>5, <1>6, LoggedDead
<1> QED BY <1>1, <1>7

\* A history that leads to where its branch is, and the record that it was taken over.
LEMMA ToldTaken ==
    ASSUME NEW d, NEW e, Shaped(d), Shaped(e), Told(d), NEW n \in Names, LogOnly(d, e, n),
           NEW history \in Seq(Records), NEW oid \in Oids, LeadsTo(history, oid), Stored(d, n) = oid, NEW msg,
           History(e, n) = Append(history, [old |-> oid, new |-> oid, msg |-> msg])
    PROVE  Told(e)
<1>1. /\ \A m \in Names : Stored(e, m) = Stored(d, m)
      /\ StoredHead(e) = StoredHead(d)
      /\ \A other \in (Names \cup {None}) \ {n} : File(e, Log(other)) = File(d, Log(other))
  BY LogOnlyIs
<1>2. \A other \in (Names \cup {None}) \ {n} : History(e, other) = History(d, other)
  BY <1>1, HistoryIs
<1>3. LeadsTo(History(e, n), oid)
  <2>1. Linked(history)
    BY DEF LeadsTo
  <2> QED BY <2>1, Grow
<1>4. /\ LeadsTo(History(d, None), StoredHead(d))
      /\ \A m \in Names : /\ Linked(History(d, m))
                          /\ Stored(d, m) # None => LeadsTo(History(d, m), Stored(d, m))
  BY ToldIs
<1>5. None \in (Names \cup {None}) \ {n}
  BY Distinct
<1>6. ASSUME NEW m \in Names
      PROVE  /\ Linked(History(e, m))
             /\ Stored(e, m) # None => LeadsTo(History(e, m), Stored(e, m))
  BY <1>1, <1>3, <1>2, <1>4 DEF LeadsTo
<1> QED BY <1>1, <1>2, <1>4, <1>5, <1>6, ToldIs

-----------------------------------------------------------------------------
(***************************************************************************)
(* The plans of commands.                                                  *)
(***************************************************************************)
LEMMA AtFirst == ASSUME NEW l, Shaped(l.disk), IsTree(l.disk)
                 PROVE  Good(l, l.disk) /\ Fine(l, Plan(l.disk)) /\ Plan(l.disk).disk = l.disk
BY Beginning DEF Survives, RefKept, HistoryKept, ConfigKept, Started, Untouched, Good, Plan

LEMMA Free == ASSUME NEW l, l.cmd \notin {"move", "copy"} PROVE Named(l) /\ Placed(l) /\ Footprint(l) = Files
BY DEF Named, Placed, Footprint

\* commit, on a branch and off it; branch and checkout -b, with HEAD brought there; branch from @{-N}.
LEMMA CommitPlan ==
    ASSUME NEW l, l.cmd = "commit", Shaped(l.disk), IsTree(l.disk), NEW oid \in Oids
    PROVE  Proper(l, IF l.disk[HeadFile] \in Names THEN SetBranch(Plan(l.disk), l.disk[HeadFile], oid)
                     ELSE SetHead(Plan(l.disk), oid, Note))
<1>1. Fine(l, Plan(l.disk)) /\ Plan(l.disk).disk = l.disk /\ Named(l) /\ Placed(l) /\ Footprint(l) = Files
  BY AtFirst, Free
<1>2. CASE l.disk[HeadFile] \in Names
  <2> DEFINE n == l.disk[HeadFile]
             p == Plan(l.disk)
             q == SetBranch(p, n, oid)
  <2>1. n \in Names /\ Loose(n) \in Footprint(l) /\ Log(n) \in Footprint(l) /\ Log(None) \in Footprint(l)
    BY <1>1, <1>2, Differ
  <2>2. l.cmd # "move" /\ l.cmd # "copy" /\ l.cmd \notin HeadFast
    BY DEF HeadFast
  <2> HIDE DEF n, p
  <2>3. Dead(l, q) \/ (Fine(l, q) /\ (Told(p.disk) => Told(q.disk)))
    BY <1>1, <2>1, <2>2, SetBranchIs DEF p
  <2> QED BY <1>1, <1>2, <2>3 DEF Proper, Ends, n, p
<1>3. CASE l.disk[HeadFile] \notin Names
  <2> DEFINE p == Plan(l.disk)
             q == SetHead(p, oid, Note)
  <2>1. HeadFile \in Footprint(l) /\ Log(None) \in Footprint(l) /\ Note \in Messages /\ oid \in Names \cup Oids
    BY <1>1, Differ, AMessage
  <2> HIDE DEF p
  <2>2. Dead(l, q) \/ (Fine(l, q) /\ (Told(p.disk) => Told(q.disk)))
    BY <1>1, <2>1, SetHeadIs DEF p
  <2> QED BY <1>1, <1>3, <2>2 DEF Proper, Ends, p
<1> QED BY <1>2, <1>3

\* branch NAME, checkout -b NAME.
LEMMA CreatePlan ==
    ASSUME NEW l, l.cmd = "create", Shaped(l.disk), IsTree(l.disk), NEW n \in Names, NEW oid \in Oids
    PROVE  Proper(l, SetHead(SetBranch(Plan(l.disk), n, oid), n, Moving(l.disk, n)))
<1> DEFINE p == Plan(l.disk)
           q == SetBranch(p, n, oid)
           msg == Moving(l.disk, n)
           r == SetHead(q, n, msg)
<1>1. Fine(l, p) /\ p.disk = l.disk /\ Named(l) /\ Placed(l) /\ Footprint(l) = Files
  BY AtFirst, Free
<1>2. /\ Loose(n) \in Footprint(l) /\ Log(n) \in Footprint(l) /\ Log(None) \in Footprint(l) /\ HeadFile \in Footprint(l)
      /\ n \in Names \cup Oids /\ msg \in Messages
  BY <1>1, Differ, AMessage
<1>3. l.cmd # "move" /\ l.cmd # "copy" /\ l.cmd \notin HeadFast
  BY DEF HeadFast
<1> HIDE DEF p, msg
<1>4. Dead(l, q) \/ (Fine(l, q) /\ (Told(p.disk) => Told(q.disk)))
  BY <1>1, <1>2, <1>3, SetBranchIs
<1> HIDE DEF q
<1>5. Dead(l, q) => Dead(l, r)
  BY <1>2, SetHeadDead
<1>6. Fine(l, q) => Dead(l, r) \/ (Fine(l, r) /\ (Told(q.disk) => Told(r.disk)))
  BY <1>1, <1>2, <1>3, SetHeadIs DEF HeadFast
<1> HIDE DEF r
<1>7. Proper(l, r)
  BY <1>1, <1>4, <1>5, <1>6 DEF Proper, Ends
<1> QED BY <1>7 DEF r, q, p, msg

\* branch NAME @{-N}.
LEMMA CreateFromPlan ==
    ASSUME NEW l, l.cmd = "create from", Shaped(l.disk), IsTree(l.disk), NEW n \in Names, NEW oid \in Oids,
           l.dst = n, Readable(l.disk, n), Exists(l.disk, n) => l.disk[HeadFile] # n
    PROVE  Proper(l, SetBranch(Plan(l.disk), n, oid))
<1> DEFINE p == Plan(l.disk)
           q == SetBranch(p, n, oid)
<1>1. Fine(l, p) /\ p.disk = l.disk /\ Named(l) /\ Placed(l) /\ Footprint(l) = Files
  BY AtFirst, Free
<1>2. Loose(n) \in Footprint(l) /\ Log(n) \in Footprint(l) /\ Log(None) \in Footprint(l)
  BY <1>1, Differ
<1>3. l.cmd # "move" /\ l.cmd # "copy"
  OBVIOUS
<1>4. l.disk[HeadFile] = n => HeadValue(l.disk) = None
  BY Shapes DEF HeadValue, Exists, Readable
<1> HIDE DEF p
<1>7. p.disk[HeadFile] = n => HeadValue(p.disk) \in {oid, None, Dir}
  BY <1>1, <1>4
<1>8. /\ l.cmd \in HeadFast => n = l.dst /\ (p.disk[HeadFile] = n => HeadValue(p.disk) \in {oid, None, Dir})
      /\ p.disk[HeadFile] = n /\ Value(p.disk, n) # oid => Log(None) \in Footprint(l)
  BY <1>2, <1>7
<1>5. Dead(l, q) \/ (Fine(l, q) /\ (Told(p.disk) => Told(q.disk)))
  BY <1>1, <1>2, <1>3, <1>8, SetBranchIs
<1> HIDE DEF q
<1>6. Proper(l, q)
  BY <1>1, <1>5 DEF Proper, Ends
<1> QED BY <1>6 DEF q, p

\* checkout, of a branch or of a commit, and the start of an unborn branch.
LEMMA CheckoutPlan ==
    ASSUME NEW l, l.cmd \in {"checkout", "detach", "orphan"}, Shaped(l.disk), IsTree(l.disk),
           NEW to \in Names \cup Oids, NEW msg \in Messages
    PROVE  Proper(l, SetHead(Plan(l.disk), to, msg))
<1> DEFINE p == Plan(l.disk)
           q == SetHead(p, to, msg)
<1>1. Fine(l, p) /\ p.disk = l.disk /\ Named(l) /\ Placed(l) /\ Footprint(l) = Files
  BY AtFirst, Free
<1>2. Log(None) \in Footprint(l) /\ HeadFile \in Footprint(l)
  BY <1>1, Differ
<1>3. l.cmd # "move" /\ l.cmd \notin {"move", "copy", "rename", "delete", "create from"}
  OBVIOUS
<1> HIDE DEF p
<1>4. Dead(l, q) \/ (Fine(l, q) /\ (Told(p.disk) => Told(q.disk)))
  BY <1>1, <1>2, <1>3, SetHeadIs
<1> HIDE DEF q
<1>5. Proper(l, q)
  BY <1>1, <1>4 DEF Proper, Ends
<1> QED BY <1>5 DEF q, p

\* branch -d: HEAD is sent to where its branch was, and then the branch goes.
LEMMA DeletePlan ==
    ASSUME NEW l, l.cmd = "delete", Shaped(l.disk), IsTree(l.disk), NEW n \in Names
    PROVE  /\ l.disk[HeadFile] # n => Proper(l, DeleteBranch(Plan(l.disk), n))
           /\ \A to \in Names \cup Oids :
                 /\ l.disk[HeadFile] = n /\ to # n /\ At(l.disk, to) = Value(l.disk, n)
                 => Proper(l, DeleteBranch(SetHead(Plan(l.disk), to, Note), n))
<1> DEFINE p == Plan(l.disk)
<1>1. Fine(l, p) /\ p.disk = l.disk /\ Named(l) /\ Placed(l) /\ Footprint(l) = Files
  BY AtFirst, Free
<1>2. /\ Loose(n) \in Footprint(l) /\ Packed \in Footprint(l) /\ Log(None) \in Footprint(l) /\ HeadFile \in Footprint(l)
      /\ Note \in Messages
  BY <1>1, Differ, AMessage
<1> HIDE DEF p
<1>3. ASSUME l.disk[HeadFile] # n PROVE Proper(l, DeleteBranch(p, n))
  <2> DEFINE q == DeleteBranch(p, n)
  <2>1. MayDelete(l, p.disk, n)
    BY <1>1, <1>3 DEF MayDelete
  <2>2. Dead(l, q) \/ (Fine(l, q) /\ (Told(p.disk) => Told(q.disk)))
    BY <1>1, <1>2, <2>1, DeleteBranchIs
  <2> QED BY <1>1, <2>2 DEF Proper, Ends
<1>4. ASSUME NEW to \in Names \cup Oids, l.disk[HeadFile] = n, to # n, At(l.disk, to) = Value(l.disk, n)
      PROVE  Proper(l, DeleteBranch(SetHead(p, to, Note), n))
  <2> DEFINE q == SetHead(p, to, Note)
             r == DeleteBranch(q, n)
  <2>1. At(p.disk, to) = HeadValue(p.disk)
    BY <1>1, <1>4 DEF HeadValue
  <2>6. /\ l.cmd = "move" => File(p.disk, Log(l.src)) = File(l.disk, Log(l.src))
        /\ /\ l.cmd \in {"move", "copy", "rename", "delete", "create from"}
           /\ HeadValue(p.disk) \in Oids /\ <<l.dst, p.disk[HeadFile]>> \notin Under
           => At(p.disk, to) = HeadValue(p.disk) /\ Heads(l, p.disk, to)
    BY <2>1 DEF Heads
  <2>7. \/ Dead(l, q)
        \/ /\ Fine(l, q) /\ q.disk[HeadFile] = to
           /\ \A f \in Files \ {HeadFile} : f[1] # "logs" => q.disk[f] = p.disk[f]
           /\ \A f \in Files \ {HeadFile, Log(None)} : File(q.disk, f) = File(p.disk, f)
           /\ Told(p.disk) => Told(q.disk)
    BY <1>1, <1>2, <1>4, <2>6, SetHeadIs
  <2>2. Dead(l, q) \/ (Fine(l, q) /\ q.disk[HeadFile] = to /\ (Told(p.disk) => Told(q.disk)))
    BY <2>7
  <2> HIDE DEF q
  <2>3. Dead(l, q) => Dead(l, r)
    BY <1>2, DeleteBranchDead
  <2>4. Fine(l, q) /\ q.disk[HeadFile] = to => Dead(l, r) \/ (Fine(l, r) /\ (Told(q.disk) => Told(r.disk)))
    BY <1>4, <1>1, <1>2, DeleteBranchIs DEF MayDelete
  <2> HIDE DEF r
  <2>5. Proper(l, r)
    BY <1>1, <2>2, <2>3, <2>4 DEF Proper, Ends
  <2> QED BY <2>5 DEF r, q
<1> QED BY <1>3, <1>4 DEF p

\* HEAD follows a branch to its new name, and the old ref goes.
LEMMA MoveHeadIs ==
    ASSUME NEW l, NEW p, Fine(l, p), Shaped(l.disk), Named(l), Placed(l), l.cmd \in {"rename", "move"},
           NEW src \in Names, NEW dst \in Names, src # dst, l.src = src, l.dst = dst,
           NEW oid \in Oids, oid = Value(l.disk, src), p.disk[Loose(dst)] = oid,
           HeadFile \in Footprint(l), Log(None) \in Footprint(l), Loose(src) \in Footprint(l), Packed \in Footprint(l),
           ~Over(Loose(src), Loose(dst)) => Held(l, p.disk),
           l.cmd = "move" => File(p.disk, Log(src)) = File(l.disk, Log(src)) /\ l.disk[Log(src)] # Dir
    PROVE  LET q == MoveHead(p, src, dst)
           IN  \/ Dead(l, q)
               \/ /\ Fine(l, q) /\ q.disk[Loose(dst)] = oid
                  /\ \A n \in Names : File(q.disk, Log(n)) = File(p.disk, Log(n))
                  /\ Told(p.disk) => Told(q.disk)
<1> DEFINE d == p.disk
           u == IF d[HeadFile] = src THEN SetHead(p, dst, Note) ELSE p
           q == MoveHead(p, src, dst)
<1>1. q = DeleteBranch(u, src)
  BY DEF MoveHead
<1>2. Good(l, d) /\ Shaped(d) /\ IsTree(d)
  BY FineIs
<1>3. dst \in Names \cup Oids /\ Note \in Messages /\ Loose(src) \in Files /\ Loose(dst) \in Files
  BY AMessage, Differ
<1>4. None # oid /\ Dir # oid /\ None # Dir /\ Dir \notin Oids
  BY Distinct
<1>5. Value(d, dst) = oid /\ At(d, dst) = oid
  BY <1>4 DEF Value, At
<1>6. HeadValue(d) \in Oids /\ d[HeadFile] = src => HeadValue(d) = oid
  <2>1. SUFFICES ASSUME HeadValue(d) \in Oids, d[HeadFile] = src PROVE HeadValue(d) = oid
    OBVIOUS
  <2>2. HeadValue(d) = Value(d, src)
    BY <2>1 DEF HeadValue
  <2>3. CASE Over(Loose(src), Loose(dst))
    BY <1>2, <1>3, <1>4, <2>3, <2>1, <2>2 DEF IsTree, Value
  <2>4. CASE ~Over(Loose(src), Loose(dst))
    BY <2>4, <2>2, SameValue DEF Held
  <2> QED BY <2>3, <2>4
<1>7. /\ l.cmd = "move" => File(p.disk, Log(l.src)) = File(l.disk, Log(l.src))
      /\ /\ l.cmd \in {"move", "copy", "rename", "delete", "create from"}
         /\ HeadValue(p.disk) \in Oids /\ <<l.dst, p.disk[HeadFile]>> \notin Under
         /\ p.disk[HeadFile] = src
         => At(p.disk, dst) = HeadValue(p.disk) /\ Heads(l, p.disk, dst)
  BY <1>4, <1>5, <1>6 DEF Heads
<1> HIDE DEF u, q
<1>8. \/ Dead(l, u)
      \/ /\ Fine(l, u) /\ u.disk[HeadFile] # src /\ u.disk[Loose(dst)] = oid
         /\ \A n \in Names : File(u.disk, Log(n)) = File(d, Log(n))
         /\ Told(d) => Told(u.disk)
  <2>1. CASE d[HeadFile] # src
    BY <2>1 DEF u
  <2>2. CASE d[HeadFile] = src
    <3> DEFINE h == SetHead(p, dst, Note)
    <3>1. /\ l.cmd \in {"move", "copy", "rename", "delete", "create from"}
          /\ HeadValue(p.disk) \in Oids /\ <<l.dst, p.disk[HeadFile]>> \notin Under
          => At(p.disk, dst) = HeadValue(p.disk) /\ Heads(l, p.disk, dst)
      BY <1>7, <2>2
    <3>2. l.cmd = "move" => File(p.disk, Log(l.src)) = File(l.disk, Log(l.src))
      BY <1>7
    <3>3. \/ Dead(l, h)
          \/ /\ Fine(l, h) /\ h.disk[HeadFile] = dst
             /\ \A f \in Files \ {HeadFile} : f[1] # "logs" => h.disk[f] = p.disk[f]
             /\ \A f \in Files \ {HeadFile, Log(None)} : File(h.disk, f) = File(p.disk, f)
             /\ Told(p.disk) => Told(h.disk)
      <4>1. Fine(l, p) /\ Named(l) /\ Placed(l) /\ HeadFile \in Footprint(l) /\ Log(None) \in Footprint(l)
        OBVIOUS
      <4>2. LET x == SetHead(p, dst, Note)
            IN  \/ Dead(l, x)
                \/ /\ Fine(l, x) /\ x.disk[HeadFile] = dst
                   /\ \A f \in Files \ {HeadFile} : f[1] # "logs" => x.disk[f] = p.disk[f]
                   /\ \A f \in Files \ {HeadFile, Log(None)} : File(x.disk, f) = File(p.disk, f)
                   /\ Told(p.disk) => Told(x.disk)
        BY ONLY <1>3, <3>1, <3>2, <4>1, SetHeadIs
      <4> QED BY <4>2
    <3>4. Loose(dst) \in Files \ {HeadFile} /\ Loose(dst)[1] # "logs"
      BY Differ DEF Loose
    <3>5. \A n \in Names : Log(n) \in Files \ {HeadFile, Log(None)}
      BY Differ
    <3> HIDE DEF h
    <3>6. u = h
      BY <2>2 DEF u, h
    <3> QED BY <3>3, <3>4, <3>5, <3>6
  <2> QED BY <2>1, <2>2
<1>9. Dead(l, u) => Dead(l, q)
  BY <1>1, DeleteBranchDead
<1>10. ASSUME Fine(l, u), u.disk[HeadFile] # src, u.disk[Loose(dst)] = oid
       PROVE  \/ Dead(l, q)
              \/ /\ Fine(l, q) /\ q.disk[Loose(dst)] = oid
                 /\ \A n \in Names : File(q.disk, Log(n)) = File(u.disk, Log(n))
                 /\ Told(u.disk) => Told(q.disk)
  <2>1. MayDelete(l, u.disk, src)
    BY <1>10 DEF MayDelete
  <2>2. \/ Dead(l, q)
        \/ /\ Fine(l, q)
           /\ \A f \in Files \ {Loose(src), Packed} : File(q.disk, f) = File(u.disk, f)
           /\ Told(u.disk) => Told(q.disk)
    <3>1. Fine(l, u) /\ Shaped(l.disk) /\ Named(l) /\ Loose(src) \in Footprint(l) /\ Packed \in Footprint(l)
      BY <1>10
    <3>2. LET x == DeleteBranch(u, src)
          IN  \/ Dead(l, x)
              \/ /\ Fine(l, x) /\ MayDelete(l, x.disk, src) /\ x.disk[Loose(src)] = None
                 /\ x.disk[Packed] = [u.disk[Packed] EXCEPT ![src] = None]
                 /\ \A f \in Files \ {Loose(src), Packed} : /\ File(x.disk, f) = File(u.disk, f)
                                                            /\ f[1] # "refs" => x.disk[f] = u.disk[f]
                 /\ \A f \in Files : x.disk[f] = Dir => u.disk[f] = Dir
                 /\ Told(u.disk) => Told(x.disk)
      BY ONLY src \in Names, <2>1, <3>1, DeleteBranchIs
    <3> QED BY <1>1, <3>2
  <2>3. Loose(dst) \in Files \ {Loose(src), Packed} /\ \A n \in Names : Log(n) \in Files \ {Loose(src), Packed}
    BY Differ
  <2>4. File(q.disk, Loose(dst)) = File(u.disk, Loose(dst)) => q.disk[Loose(dst)] = oid
    BY <1>4, <1>10 DEF File
  <2> QED BY <2>2, <2>3, <2>4
<1>11. \/ Dead(l, q)
       \/ /\ Fine(l, q) /\ q.disk[Loose(dst)] = oid
          /\ \A n \in Names : File(q.disk, Log(n)) = File(p.disk, Log(n))
          /\ Told(p.disk) => Told(q.disk)
  BY <1>8, <1>9, <1>10
<1> QED BY <1>11 DEF q

LEMMA MoveHeadDead ==
    ASSUME NEW l, NEW p, Dead(l, p), NEW src \in Names, NEW dst \in Names,
           HeadFile \in Footprint(l), Log(None) \in Footprint(l), Loose(src) \in Footprint(l), Packed \in Footprint(l)
    PROVE  Dead(l, MoveHead(p, src, dst))
<1> DEFINE u == IF p.disk[HeadFile] = src THEN SetHead(p, dst, Note) ELSE p
<1>1. MoveHead(p, src, dst) = DeleteBranch(u, src)
  BY DEF MoveHead
<1>2. dst \in Names \cup Oids /\ Note \in Messages
  BY AMessage
<1>3. Dead(l, SetHead(p, dst, Note))
  BY <1>2, SetHeadDead
<1>4. Dead(l, u)
  BY <1>3
<1> HIDE DEF u
<1> QED BY <1>1, <1>4, DeleteBranchDead

\* What may be set is what stands, as the source of a move has to.
LEMMA HeldAfter ==
    ASSUME NEW l, NEW d, NEW e, NEW src \in Names, NEW dst \in Names, src # dst, l.src = src, Held(l, d),
           \A f \in Files \ {Loose(dst)} : f[1] # "logs" /\ ~Over(f, Loose(dst)) => e[f] = d[f]
    PROVE  ~Over(Loose(src), Loose(dst)) => Held(l, e)
BY Differ, OverNothing DEF Loose, Packed, Held

\* branch -m of a branch by its name.
LEMMA RenamePlan ==
    ASSUME NEW l, l.cmd = "rename", Shaped(l.disk), IsTree(l.disk), NEW src \in Names, NEW dst \in Names,
           l.src = src, l.dst = dst, Exists(l.disk, src), Value(l.disk, dst) = None
    PROVE  Proper(l, MoveHead(SetBranch(Plan(l.disk), dst, Value(l.disk, src)), src, dst))
<1> DEFINE p == Plan(l.disk)
           oid == Value(l.disk, src)
           q == SetBranch(p, dst, oid)
           r == MoveHead(q, src, dst)
<1>1. Fine(l, p) /\ p.disk = l.disk /\ Named(l) /\ Placed(l) /\ Footprint(l) = Files
  BY AtFirst, Free
<1>2. /\ Loose(dst) \in Footprint(l) /\ Log(dst) \in Footprint(l) /\ Log(None) \in Footprint(l)
      /\ HeadFile \in Footprint(l) /\ Packed \in Footprint(l) /\ Loose(src) \in Footprint(l)
  BY <1>1, Differ
<1>3. oid \in Oids /\ src # dst
  BY Distinct DEF Exists
<1>4. l.cmd # "move" /\ l.cmd # "copy" /\ l.cmd \in {"rename", "move"}
  OBVIOUS
<1> HIDE DEF p
<1>5. p.disk[HeadFile] = dst => HeadValue(p.disk) \in {oid, None, Dir}
  BY <1>1 DEF HeadValue
<1>6. /\ l.cmd \in HeadFast => dst = l.dst /\ (p.disk[HeadFile] = dst => HeadValue(p.disk) \in {oid, None, Dir})
      /\ p.disk[HeadFile] = dst /\ Value(p.disk, dst) # oid => Log(None) \in Footprint(l)
  BY <1>2, <1>5
<1>7. oid = Value(l.disk, src)
  OBVIOUS
<1> HIDE DEF oid, q, r
<1>8. \/ Dead(l, q)
      \/ /\ Fine(l, q) /\ q.disk[Loose(dst)] = oid
         /\ \A f \in Files \ {Loose(dst)} : f[1] # "logs" /\ ~Over(f, Loose(dst)) => q.disk[f] = p.disk[f]
         /\ Told(p.disk) => Told(q.disk)
  BY <1>1, <1>2, <1>3, <1>4, <1>6, SetBranchIs DEF q
<1>9. Held(l, p.disk)
  BY <1>1 DEF Held
<1>10. Dead(l, q) => Dead(l, r)
  BY <1>2, MoveHeadDead DEF r
<1>11. ASSUME Fine(l, q), q.disk[Loose(dst)] = oid,
              \A f \in Files \ {Loose(dst)} : f[1] # "logs" /\ ~Over(f, Loose(dst)) => q.disk[f] = p.disk[f]
       PROVE  Dead(l, r) \/ (Fine(l, r) /\ (Told(q.disk) => Told(r.disk)))
  <2>1. ~Over(Loose(src), Loose(dst)) => Held(l, q.disk)
    BY <1>3, <1>9, <1>11, HeldAfter
  <2> QED BY <1>1, <1>2, <1>3, <1>4, <1>7, <1>11, <2>1, MoveHeadIs DEF r
<1>12. Proper(l, r)
  BY <1>1, <1>8, <1>10, <1>11 DEF Proper, Ends
<1> QED BY <1>12 DEF r, q, p, oid

\* A branch that is there, and whose log tells, has a history that leads to where it is.
LEMMA HistoryLeads ==
    ASSUME NEW d, Shaped(d), NEW n \in Names, NEW oid \in Oids, oid = Value(d, n)
    PROVE  History(d, n) \in Seq(Records) /\ (Told(d) => LeadsTo(History(d, n), oid))
BY Distinct, StoredIs, ToldIs, Shapes

\* branch -c @{-N}.
LEMMA CopyPlan ==
    ASSUME NEW l, l.cmd = "copy", Shaped(l.disk), IsTree(l.disk), l.src \in Names, l.dst \in Names,
           Exists(l.disk, l.src), Readable(l.disk, l.dst),
           Exists(l.disk, l.dst) /\ l.dst # l.src => l.disk[HeadFile] # l.dst
    PROVE  Proper(l, Copy(l.disk, l.src, l.dst))
<1> DEFINE p == Plan(l.disk)
           oid == Value(l.disk, l.src)
           n == l.dst
           history == History(l.disk, l.src)
           q == SetBranch(p, n, oid)
           r == TakeHistory(q, n, history, oid)
           s == CopyConfig(r, l.src, n)
<1>1. Fine(l, p) /\ p.disk = l.disk /\ Named(l)
  BY AtFirst DEF Named
<1>2. oid \in Oids /\ n \in Names /\ l.src \in Names /\ oid = Value(l.disk, l.src) /\ n = l.dst
  BY DEF Exists
<1>3. l.disk[HeadFile] = n => Value(l.disk, n) \in {oid, None, Dir}
  BY Shapes DEF Exists
<1>4. /\ Loose(n) \in Footprint(l) /\ Log(n) \in Footprint(l) /\ Config \in Footprint(l)
      /\ Fixable(l) \/ Footprint(l) = Files
  BY Differ DEF Footprint
<1>5. l.disk[HeadFile] = n /\ Value(l.disk, n) # oid => Log(None) \in Footprint(l)
  BY <1>4, Differ DEF Fixable
<1>6. /\ l.cmd = "move" => /\ n = l.dst /\ l.src # l.dst /\ oid = Value(l.disk, l.src)
                           /\ File(p.disk, Log(l.src)) = File(l.disk, Log(l.src))
                           /\ l.disk[Log(l.src)] # Dir
      /\ l.cmd = "copy" => n = l.dst
      /\ l.cmd \in HeadFast => n = l.dst /\ (p.disk[HeadFile] = n => HeadValue(p.disk) \in {oid, None, Dir})
      /\ p.disk[HeadFile] = n /\ Value(p.disk, n) # oid => Log(None) \in Footprint(l)
  BY <1>1, <1>2, <1>3, <1>5 DEF HeadValue
<1>7. history \in Seq(Records) /\ (Told(l.disk) => LeadsTo(history, oid))
  BY <1>2, HistoryLeads
<1>8. Copy(l.disk, l.src, l.dst) = s
  BY DEF Copy
<1>9. l.cmd # "move" /\ l.disk[Config] \in [Names -> Settings]
  BY Shapes
<1> HIDE DEF p, oid, n, history, q, r, s
<1>10. \/ Dead(l, q)
       \/ /\ Fine(l, q) /\ Placed(l) /\ q.disk[Loose(n)] = oid
          /\ \A f \in Files \ {Loose(n)} : f[1] # "logs" /\ ~Over(f, Loose(n)) => q.disk[f] = p.disk[f]
          /\ \A f \in Files \ {Loose(n), Log(n), Log(None)} : File(q.disk, f) = File(p.disk, f)
          /\ Told(p.disk) => Told(q.disk)
  BY ONLY <1>1, <1>2, <1>4, <1>6, SetBranchIs DEF q
<1>11. CASE Dead(l, q)
  <2>1. Dead(l, r)
    BY ONLY <1>2, <1>4, <1>7, <1>11, TakeHistoryDead DEF r
  <2>2. r.disk[Config] \in [Names -> Settings]
    BY <2>1, SoundIs, Shapes DEF Sound
  <2>3. r.disk[Config][l.src] \in Settings
    BY <1>2, <2>2
  <2>4. Dead(l, SetConfig(r, n, r.disk[Config][l.src]))
    BY ONLY <1>2, <1>4, <2>1, <2>3, SetConfigDead
  <2> QED BY <1>8, <2>1, <2>4 DEF Proper, CopyConfig, s
<1>12. CASE Fine(l, q) /\ Placed(l) /\ q.disk[Loose(n)] = oid /\ (Told(p.disk) => Told(q.disk))
  <2>1. l.cmd = "move" => n # l.src /\ File(q.disk, Log(l.src)) = File(l.disk, Log(l.src))
    BY <1>9
  <2>2. \/ Dead(l, r)
        \/ /\ Fine(l, r) /\ LogOnly(q.disk, r.disk, n)
           /\ History(r.disk, n) = Append(history, [old |-> oid, new |-> oid, msg |-> Note])
    BY ONLY <1>1, <1>2, <1>4, <1>7, <1>12, <2>1, TakeHistoryIs DEF r
  <2>3. Stored(q.disk, n) = oid
    BY <1>2, <1>12 DEF Stored
  <2>4. Fine(l, r) /\ LogOnly(q.disk, r.disk, n)
        /\ History(r.disk, n) = Append(history, [old |-> oid, new |-> oid, msg |-> Note])
        => (Told(l.disk) => Told(r.disk))
    BY ONLY <1>1, <1>2, <1>7, <1>12, <2>3, FineIs, ToldTaken
  <2>5. CASE Dead(l, r)
    <3>1. r.disk[Config] \in [Names -> Settings]
      BY <2>5, SoundIs, Shapes DEF Sound
    <3>2. r.disk[Config][l.src] \in Settings
      BY <1>2, <3>1
    <3>3. Dead(l, SetConfig(r, n, r.disk[Config][l.src]))
      BY ONLY <1>2, <1>4, <2>5, <3>2, SetConfigDead
    <3> QED BY <1>8, <2>5, <3>3 DEF Proper, CopyConfig, s
  <2>6. CASE Fine(l, r) /\ (Told(l.disk) => Told(r.disk))
    <3> DEFINE v == r.disk[Config][l.src]
    <3>1. r.disk[Config] \in [Names -> Settings]
      BY <2>6, FineIs, Shapes
    <3>2. v \in Settings
      BY <1>2, <3>1
    <3>3. l.cmd = "move" /\ l.disk[Config][l.src] # None =>
             \E m \in {l.src, l.dst} : [r.disk[Config] EXCEPT ![n] = v][m] # None
      BY <1>9
    <3> HIDE DEF v
    <3>4. LET x == SetConfig(r, n, v)
          IN  \/ Dead(l, x)
              \/ /\ Fine(l, x) /\ x.disk[Config] = [r.disk[Config] EXCEPT ![n] = v]
                 /\ \A f \in Files \ {Config} : x.disk[f] = r.disk[f]
                 /\ Told(r.disk) => Told(x.disk)
      BY ONLY <1>1, <1>2, <1>4, <2>6, <3>2, <3>3, SetConfigIs
    <3>5. s = r \/ s = SetConfig(r, n, v)
      BY DEF s, CopyConfig, v
    <3>6. Dead(l, s) \/ (Fine(l, s) /\ (Told(l.disk) => Told(s.disk)))
      BY ONLY <2>6, <3>4, <3>5
    <3> QED BY <1>8, <3>6 DEF Proper, Ends
  <2> QED BY <2>2, <2>4, <2>5, <2>6
<1> QED BY <1>10, <1>11, <1>12

\* The branch section of the config: on every disk on the way there is one for the old name or the new.
LEMMA MoveConfigIs ==
    ASSUME NEW l, l.cmd = "move", Shaped(l.disk), IsTree(l.disk), Named(l)
    PROVE  LET q == MoveConfig(Plan(l.disk), l.src, l.dst)
           IN  \/ Dead(l, q)
               \/ /\ Fine(l, q) /\ \A f \in Files \ {Config} : q.disk[f] = l.disk[f]
                  /\ Told(l.disk) => Told(q.disk)
<1> DEFINE p == Plan(l.disk)
           c == l.disk[Config]
           src == l.src
           dst == l.dst
           u == IF c[dst] = None THEN SetConfig(p, dst, c[src]) ELSE p
           q == MoveConfig(p, src, dst)
<1>1. Fine(l, p) /\ p.disk = l.disk /\ Config \in Footprint(l) /\ src \in Names /\ dst \in Names
  BY AtFirst, Differ DEF Footprint, Named
<1>2. c \in [Names -> Settings] /\ c[src] \in Settings /\ None \in Settings
  BY <1>1, Shapes DEF Settings
<1>3. q = IF src = dst \/ c[src] = None THEN p ELSE SetConfig(u, src, None)
  BY <1>1 DEF MoveConfig
<1>4. p.disk[Config] = c
  BY <1>1
<1>5. CASE src = dst \/ c[src] = None
  BY <1>1, <1>3, <1>5
<1>6. CASE src # dst /\ c[src] # None
  <2> HIDE DEF p, u, q
  <2>1. \/ Dead(l, u)
        \/ /\ Fine(l, u) /\ u.disk[Config] \in [Names -> Settings] /\ u.disk[Config][dst] # None
           /\ \A f \in Files \ {Config} : u.disk[f] = l.disk[f]
           /\ Told(l.disk) => Told(u.disk)
    <3>1. CASE c[dst] # None
      BY <1>1, <1>2, <1>4, <3>1 DEF u
    <3>2. CASE c[dst] = None
      <4> DEFINE v == c[src]
      <4>1. [p.disk[Config] EXCEPT ![dst] = v][dst] # None /\ [p.disk[Config] EXCEPT ![dst] = v] \in [Names -> Settings]
        BY <1>1, <1>2, <1>4, <1>6
      <4>2. l.cmd = "move" /\ l.disk[Config][l.src] # None =>
               \E m \in {l.src, l.dst} : [p.disk[Config] EXCEPT ![dst] = v][m] # None
        BY <4>1
      <4>3. v \in Settings /\ Named(l)
        BY <1>2
      <4> HIDE DEF v
      <4>4. LET x == SetConfig(p, dst, v)
            IN  \/ Dead(l, x)
                \/ /\ Fine(l, x) /\ x.disk[Config] = [p.disk[Config] EXCEPT ![dst] = v]
                   /\ \A f \in Files \ {Config} : x.disk[f] = p.disk[f]
                   /\ Told(p.disk) => Told(x.disk)
        BY ONLY <1>1, <4>2, <4>3, SetConfigIs
      <4>5. u = SetConfig(p, dst, v)
        BY <3>2 DEF u, v
      <4> QED BY <1>1, <4>1, <4>4, <4>5
    <3> QED BY <3>1, <3>2
  <2>2. q = SetConfig(u, src, None)
    BY <1>3, <1>6
  <2>3. CASE Dead(l, u)
    <3>1. Dead(l, q)
      BY ONLY <1>1, <1>2, <2>2, <2>3, SetConfigDead
    <3> QED BY <3>1 DEF q, p
  <2>4. CASE /\ Fine(l, u) /\ u.disk[Config] \in [Names -> Settings] /\ u.disk[Config][dst] # None
             /\ \A f \in Files \ {Config} : u.disk[f] = l.disk[f]
             /\ Told(l.disk) => Told(u.disk)
    <3>1. [u.disk[Config] EXCEPT ![src] = None][dst] # None
      BY <1>1, <1>6, <2>4
    <3>2. l.cmd = "move" /\ l.disk[Config][l.src] # None =>
             \E m \in {l.src, l.dst} : [u.disk[Config] EXCEPT ![src] = None][m] # None
      BY <3>1
    <3>3. Named(l)
      OBVIOUS
    <3>4. LET x == SetConfig(u, src, None)
          IN  \/ Dead(l, x)
              \/ /\ Fine(l, x) /\ x.disk[Config] = [u.disk[Config] EXCEPT ![src] = None]
                 /\ \A f \in Files \ {Config} : x.disk[f] = u.disk[f]
                 /\ Told(u.disk) => Told(x.disk)
      BY ONLY <1>1, <1>2, <2>4, <3>2, <3>3, SetConfigIs
    <3>5. \/ Dead(l, q)
          \/ /\ Fine(l, q) /\ \A f \in Files \ {Config} : q.disk[f] = l.disk[f]
             /\ Told(l.disk) => Told(q.disk)
      BY ONLY <2>2, <2>4, <3>4
    <3> QED BY <3>5 DEF q, p
  <2> QED BY <2>1, <2>3, <2>4
<1> QED BY <1>5, <1>6

\* A branch that is gone and its log with it.
LEMMA ToldForgot ==
    ASSUME NEW d, NEW e, Shaped(d), Shaped(e), Told(d), NEW n \in Names, LogOnly(d, e, n), History(e, n) = <<>>
    PROVE  Told(e)
<1>1. /\ \A m \in Names : Stored(e, m) = Stored(d, m)
      /\ StoredHead(e) = StoredHead(d)
      /\ \A other \in (Names \cup {None}) \ {n} : File(e, Log(other)) = File(d, Log(other))
  BY LogOnlyIs
<1>2. \A other \in (Names \cup {None}) \ {n} : History(e, other) = History(d, other)
  BY <1>1, HistoryIs
<1>3. \A value : LeadsTo(<<>>, value)
  BY EmptySeq DEF LeadsTo, Linked
<1>4. /\ LeadsTo(History(d, None), StoredHead(d))
      /\ \A m \in Names : /\ Linked(History(d, m))
                          /\ Stored(d, m) # None => LeadsTo(History(d, m), Stored(d, m))
  BY ToldIs
<1>5. None \in (Names \cup {None}) \ {n}
  BY Distinct
<1>6. ASSUME NEW m \in Names
      PROVE  /\ Linked(History(e, m))
             /\ Stored(e, m) # None => LeadsTo(History(e, m), Stored(e, m))
  BY <1>3, <1>1, <1>2, <1>4 DEF LeadsTo
<1> QED BY <1>1, <1>2, <1>4, <1>5, <1>6, ToldIs

LEMMA PrefixOfAppend == \A h, r : h \in Seq(Records) /\ r \in Records => IsPrefix(h, Append(h, r))
<1>1. ASSUME NEW h \in Seq(Records), NEW r \in Records PROVE IsPrefix(h, Append(h, r))
  <2> DEFINE g == Append(h, r)
  <2>1. g \in Seq(Records) /\ Len(g) = Len(h) + 1 /\ Len(h) \in Nat /\ \A i \in 1..Len(h) : g[i] = h[i]
    BY AppendProperties, LenProperties
  <2>2. h = [i \in 1..Len(h) |-> h[i]]
    BY LenProperties
  <2>3. SubSeq(g, 1, Len(h)) = [i \in 1..Len(h) |-> g[i]]
    BY <2>1
  <2> QED BY <2>1, <2>2, <2>3 DEF IsPrefix
<1> QED BY <1>1

\* The source's log goes once the destination's has its history.
LEMMA ForgetLogIs ==
    ASSUME NEW l, NEW p, Fine(l, p), l.cmd = "move", Named(l), Placed(l), l.src # l.dst,
           IsPrefix(History(l.disk, l.src), History(p.disk, l.dst))
    PROVE  LET q == Unlink(p, Log(l.src))
           IN  Dead(l, q) \/ (Fine(l, q) /\ (Told(p.disk) => Told(q.disk)))
<1> DEFINE n == l.src
           w == [at |-> Log(n), to |-> None, prune |-> TRUE]
           q == Unlink(p, Log(n))
<1>1. n \in Names /\ n \in Names \cup {None} /\ None \in Seq(Records) \cup {None} /\ Log(n) \in Footprint(l)
  BY DEF Named, Footprint
<1>2. w \in Writes /\ w # Refusal /\ w.at = Log(n) /\ w.to = None
  BY <1>1, ALogWrite
<1>3. KeepsHistory(l, p.disk, n, w.to)
  BY DEF KeepsHistory
<1>4. q = IF p.disk[Log(n)] = None THEN p ELSE Do(p, w)
  BY DEF Unlink
<1> HIDE DEF w, q
<1>5. CASE q = p
  BY <1>5 DEF q
<1>6. CASE q = Do(p, w)
  <2>1. \/ Dead(l, Do(p, w))
        \/ /\ Fine(l, Do(p, w)) /\ LogOnly(p.disk, Do(p, w).disk, n) /\ Do(p, w).disk[Log(n)] = w.to
           /\ p.disk[Log(n)] # Dir
           /\ n = None => HeadValue(p.disk) # Dir
    BY <1>1, <1>2, <1>3, LogWrite
  <2>2. Dead(l, q) \/ (Fine(l, q) /\ LogOnly(p.disk, q.disk, n) /\ q.disk[Log(n)] = None)
    BY <1>2, <1>6, <2>1
  <2>3. q.disk[Log(n)] = None => History(q.disk, n) = <<>>
    BY DEF History
  <2>4. Fine(l, q) => Shaped(p.disk) /\ Shaped(q.disk)
    BY FineIs
  <2>5. Fine(l, q) /\ LogOnly(p.disk, q.disk, n) /\ q.disk[Log(n)] = None => (Told(p.disk) => Told(q.disk))
    BY <1>1, <2>3, <2>4, ToldForgot
  <2>6. Dead(l, q) \/ (Fine(l, q) /\ (Told(p.disk) => Told(q.disk)))
    BY <2>2, <2>5
  <2> QED BY <2>6 DEF q
<1> QED BY <1>4, <1>5, <1>6

LEMMA ForgetLogDead ==
    ASSUME NEW l, NEW p, Dead(l, p), NEW n \in Names, Log(n) \in Footprint(l)
    PROVE  Dead(l, Unlink(p, Log(n)))
<1> DEFINE w == [at |-> Log(n), to |-> None, prune |-> TRUE]
<1>1. n \in Names \cup {None} /\ None \in Seq(Records) \cup {None}
  OBVIOUS
<1>2. w \in Writes /\ w # Refusal /\ w.at = Log(n)
  BY <1>1, ALogWrite
<1>3. Unlink(p, Log(n)) = p \/ Unlink(p, Log(n)) = Do(p, w)
  BY DEF Unlink
<1> HIDE DEF w
<1> QED BY <1>2, <1>3, DoDead

\* What the command line lets through for branch -m @{-N}.
Movable(l, force) ==
    /\ l.cmd = "move" /\ l.src \in Names /\ l.dst \in Names
    /\ Exists(l.disk, l.src) /\ Readable(l.disk, l.dst)
    /\ ~force => Value(l.disk, l.dst) = None
    /\ Exists(l.disk, l.dst) => l.disk[HeadFile] # l.dst

LEMMA MoveFootprint ==
    ASSUME NEW l, l.cmd = "move", Named(l)
    PROVE  /\ Config \in Footprint(l) /\ Packed \in Footprint(l) /\ HeadFile \in Footprint(l) /\ Log(None) \in Footprint(l)
           /\ Loose(l.src) \in Footprint(l) /\ Loose(l.dst) \in Footprint(l)
           /\ Log(l.src) \in Footprint(l) /\ Log(l.dst) \in Footprint(l)
           /\ l.src \in Names /\ l.dst \in Names
BY DEF Footprint, Named

\* A move onto itself leaves a record.
LEMMA SameMove ==
    ASSUME NEW l, l.cmd = "move", Shaped(l.disk), IsTree(l.disk), Named(l), l.src = l.dst,
           l.disk[Log(l.src)] # Dir, NEW oid \in Oids, oid = Value(l.disk, l.src),
           NEW q, Noted(q, Plan(l.disk), l.dst, oid, oid, Note)
    PROVE  Proper(l, q)
<1> DEFINE p == Plan(l.disk)
           n == l.dst
           h == History(l.disk, l.src)
           v == Append(h, [old |-> oid, new |-> oid, msg |-> Note])
<1>1. Fine(l, p) /\ p.disk = l.disk /\ Good(l, l.disk)
  BY AtFirst
<1>2. n \in Names /\ n \in Names \cup {None} /\ Log(n) \in Footprint(l)
  BY MoveFootprint
<1>3. Placed(l)
  BY DEF Fixable, File, Placed, Clear
<1>4. h \in Seq(Records) /\ (Told(l.disk) => LeadsTo(h, oid))
  BY <1>2, HistoryLeads
<1>5. oid \in Oids \cup {None, Dir} /\ Note \in Messages
  BY AMessage
<1>6. KeepsHistory(l, p.disk, n, Append(History(p.disk, n), [old |-> oid, new |-> oid, msg |-> Note]))
  BY <1>5, <1>4, AppendProperties, PrefixOfAppend, <1>1 DEF Records, KeepsHistory
<1>7. Noted(q, p, n, oid, oid, Note) /\ Named(l)
  OBVIOUS
<1>8. History(p.disk, n) = h
  BY <1>1
<1> HIDE DEF p, n, h
<1>9. \/ Dead(l, q)
      \/ /\ Fine(l, q) /\ LogOnly(p.disk, q.disk, n)
         /\ History(q.disk, n) = Append(History(p.disk, n), [old |-> oid, new |-> oid, msg |-> Note])
         /\ n = None => HeadValue(p.disk) # Dir
  BY ONLY <1>1, <1>2, <1>3, <1>5, <1>6, <1>7, NotedIs
<1>10. Stored(l.disk, n) = oid
  BY Distinct, <1>2, StoredIs DEF n
<1>11. Fine(l, q) /\ LogOnly(p.disk, q.disk, n) /\ History(q.disk, n) = Append(h, [old |-> oid, new |-> oid, msg |-> Note])
       => (Told(l.disk) => Told(q.disk))
  <2>1. Fine(l, q) => Shaped(l.disk) /\ Shaped(q.disk)
    BY FineIs
  <2> QED BY ONLY oid \in Oids, <1>1, <1>2, <1>4, <1>10, <2>1, ToldTaken
<1> QED BY <1>8, <1>9, <1>11 DEF Proper, Ends

\* Up to the new ref: what stands under the new name goes, and the branch is set there.
LEMMA MoveRefIs ==
    ASSUME NEW l, l.cmd = "move", Shaped(l.disk), IsTree(l.disk), Named(l), l.src # l.dst,
           l.disk[Log(l.src)] # Dir, NEW oid \in Oids, oid = Value(l.disk, l.src),
           Readable(l.disk, l.dst), Exists(l.disk, l.dst) => l.disk[HeadFile] # l.dst,
           NEW p, Fine(l, p), \A f \in Files \ {Config} : p.disk[f] = l.disk[f]
    PROVE  LET q == SetBranch(IF Exists(l.disk, l.dst) THEN DeleteBranch(p, l.dst) ELSE p, l.dst, oid)
           IN  \/ Dead(l, q)
               \/ /\ Fine(l, q) /\ Placed(l) /\ q.disk[Loose(l.dst)] = oid
                  /\ ~Over(Loose(l.src), Loose(l.dst)) => Held(l, q.disk)
                  /\ File(q.disk, Log(l.src)) = File(l.disk, Log(l.src))
                  /\ Told(p.disk) => Told(q.disk)
<1> DEFINE n == l.dst
           u == IF Exists(l.disk, n) THEN DeleteBranch(p, n) ELSE p
           q == SetBranch(u, n, oid)
<1>1. /\ Packed \in Footprint(l) /\ Log(None) \in Footprint(l) /\ Loose(n) \in Footprint(l) /\ Log(n) \in Footprint(l)
      /\ l.src \in Names /\ n \in Names /\ n = l.dst /\ Fine(l, p) /\ Shaped(l.disk) /\ Named(l) /\ oid \in Oids
  BY MoveFootprint
<1>2. /\ p.disk[HeadFile] = l.disk[HeadFile] /\ p.disk[Packed] = l.disk[Packed]
      /\ \A m \in Names : p.disk[Loose(m)] = l.disk[Loose(m)] /\ p.disk[Log(m)] = l.disk[Log(m)]
  BY Differ
<1>3. Held(l, p.disk) /\ File(p.disk, Log(l.src)) = File(l.disk, Log(l.src))
  BY <1>1, <1>2 DEF Held, File
<1> HIDE DEF n, u, q
<1>4. \/ Dead(l, u)
      \/ /\ Fine(l, u) /\ Held(l, u.disk) /\ File(u.disk, Log(l.src)) = File(l.disk, Log(l.src))
         /\ u.disk[HeadFile] = n => HeadValue(u.disk) \in {oid, None, Dir}
         /\ Told(p.disk) => Told(u.disk)
  <2>1. CASE Exists(l.disk, n)
    <3>1. l.disk[HeadFile] # n
      BY <2>1 DEF n
    <3>2. MayDelete(l, p.disk, n)
      BY <1>1, <1>2, <1>3, <3>1 DEF MayDelete
    <3>3. LET x == DeleteBranch(p, n)
          IN  \/ Dead(l, x)
              \/ /\ Fine(l, x) /\ MayDelete(l, x.disk, n) /\ x.disk[Loose(n)] = None
                 /\ x.disk[Packed] = [p.disk[Packed] EXCEPT ![n] = None]
                 /\ \A f \in Files \ {Loose(n), Packed} : /\ File(x.disk, f) = File(p.disk, f)
                                                          /\ f[1] # "refs" => x.disk[f] = p.disk[f]
                 /\ \A f \in Files : x.disk[f] = Dir => p.disk[f] = Dir
                 /\ Told(p.disk) => Told(x.disk)
      BY ONLY <1>1, <3>2, DeleteBranchIs
    <3>4. u = DeleteBranch(p, n)
      BY <2>1 DEF u
    <3>5. Log(l.src) \in Files \ {Loose(n), Packed}
      BY <1>1, Differ
    <3>6. MayDelete(l, u.disk, n) => Held(l, u.disk) /\ u.disk[HeadFile] # n
      BY <1>1 DEF MayDelete
    <3> QED BY <1>3, <3>3, <3>4, <3>5, <3>6
  <2>2. CASE ~Exists(l.disk, n)
    BY <2>2, <1>1, <1>2, Shapes, <1>3 DEF u, HeadValue, Value, Exists
  <2> QED BY <2>1, <2>2
<1>5. CASE Dead(l, u)
  <2>1. Dead(l, q)
    BY ONLY <1>1, <1>5, SetBranchDead DEF q
  <2> QED BY <2>1 DEF q, u, n
<1>6. CASE /\ Fine(l, u) /\ Held(l, u.disk) /\ File(u.disk, Log(l.src)) = File(l.disk, Log(l.src))
           /\ u.disk[HeadFile] = n => HeadValue(u.disk) \in {oid, None, Dir}
           /\ Told(p.disk) => Told(u.disk)
  <2>1. /\ l.cmd = "move" => /\ n = l.dst /\ l.src # l.dst /\ oid = Value(l.disk, l.src)
                             /\ File(u.disk, Log(l.src)) = File(l.disk, Log(l.src))
                             /\ l.disk[Log(l.src)] # Dir
        /\ l.cmd = "copy" => n = l.dst
        /\ l.cmd \in HeadFast => n = l.dst /\ (u.disk[HeadFile] = n => HeadValue(u.disk) \in {oid, None, Dir})
        /\ u.disk[HeadFile] = n /\ Value(u.disk, n) # oid => Log(None) \in Footprint(l)
    BY <1>1, <1>6
  <2>2. \/ Dead(l, q)
        \/ /\ Fine(l, q) /\ Placed(l) /\ q.disk[Loose(n)] = oid
           /\ \A f \in Files \ {Loose(n)} : f[1] # "logs" /\ ~Over(f, Loose(n)) => q.disk[f] = u.disk[f]
           /\ \A f \in Files \ {Loose(n), Log(n), Log(None)} : File(q.disk, f) = File(u.disk, f)
           /\ Told(u.disk) => Told(q.disk)
    BY ONLY <1>1, <1>6, <2>1, SetBranchIs DEF q
  <2>3. Log(l.src) \in Files \ {Loose(n), Log(n), Log(None)} /\ l.src # n
    BY <1>1, Differ
  <2>4. (\A f \in Files \ {Loose(n)} : f[1] # "logs" /\ ~Over(f, Loose(n)) => q.disk[f] = u.disk[f])
        => (~Over(Loose(l.src), Loose(n)) => Held(l, q.disk))
    <3>1. l.src = l.src
      OBVIOUS
    <3> QED BY ONLY <1>1, <1>6, <2>3, <3>1, HeldAfter
  <2>5. \/ Dead(l, q)
        \/ /\ Fine(l, q) /\ Placed(l) /\ q.disk[Loose(n)] = oid
           /\ ~Over(Loose(l.src), Loose(n)) => Held(l, q.disk)
           /\ File(q.disk, Log(l.src)) = File(l.disk, Log(l.src))
           /\ Told(p.disk) => Told(q.disk)
    BY <1>6, <2>2, <2>3, <2>4
  <2> QED BY <2>5 DEF q, u, n
<1> QED BY <1>4, <1>5, <1>6

\* From the new ref on: HEAD follows, the old ref goes, the history is taken over and the old log goes.
LEMMA MoveLogIs ==
    ASSUME NEW l, l.cmd = "move", Shaped(l.disk), IsTree(l.disk), Named(l), l.src # l.dst,
           l.disk[Log(l.src)] # Dir, NEW oid \in Oids, oid = Value(l.disk, l.src),
           NEW p, Fine(l, p), Placed(l), p.disk[Loose(l.dst)] = oid,
           ~Over(Loose(l.src), Loose(l.dst)) => Held(l, p.disk),
           File(p.disk, Log(l.src)) = File(l.disk, Log(l.src)),
           Told(l.disk) => Told(p.disk)
    PROVE  Proper(l, MoveLog(MoveHead(p, l.src, l.dst), l.src, l.dst, History(l.disk, l.src), oid))
<1> DEFINE src == l.src
           dst == l.dst
           h == History(l.disk, src)
           q == MoveHead(p, src, dst)
           r == TakeHistory(q, dst, h, oid)
           s == Unlink(r, Log(src))
           record == [old |-> oid, new |-> oid, msg |-> Note]
<1>1. /\ Config \in Footprint(l) /\ Packed \in Footprint(l) /\ HeadFile \in Footprint(l) /\ Log(None) \in Footprint(l)
      /\ Loose(src) \in Footprint(l) /\ Loose(dst) \in Footprint(l)
      /\ Log(src) \in Footprint(l) /\ Log(dst) \in Footprint(l)
      /\ src \in Names /\ dst \in Names /\ src # dst /\ l.src = src /\ l.dst = dst
  BY MoveFootprint
<1>2. s = MoveLog(MoveHead(p, l.src, l.dst), l.src, l.dst, History(l.disk, l.src), oid)
  BY DEF MoveLog
<1>3. h \in Seq(Records) /\ (Told(l.disk) => LeadsTo(h, oid)) /\ record \in Records
  <2>1. record \in Records
    BY AMessage DEF Records
  <2> QED BY <1>1, <2>1, HistoryLeads
<1>4. /\ l.cmd = "move" /\ l.cmd \in {"rename", "move"} /\ Shaped(l.disk) /\ Named(l) /\ Placed(l) /\ Fine(l, p)
      /\ oid \in Oids /\ oid = Value(l.disk, src) /\ p.disk[Loose(dst)] = oid
      /\ ~Over(Loose(src), Loose(dst)) => Held(l, p.disk)
      /\ l.cmd = "move" => File(p.disk, Log(src)) = File(l.disk, Log(src)) /\ l.disk[Log(src)] # Dir
      /\ Told(l.disk) => Told(p.disk)
  OBVIOUS
<1>5. IsPrefix(h, Append(h, record))
  BY <1>3, PrefixOfAppend
<1>6. IsPrefix(h, Append(h, record)) /\ h = History(l.disk, src)
  BY <1>5
<1> HIDE DEF src, dst, h, q, r, s
<1>7. LET x == MoveHead(p, src, dst)
      IN  \/ Dead(l, x)
          \/ /\ Fine(l, x) /\ x.disk[Loose(dst)] = oid
             /\ \A n \in Names : File(x.disk, Log(n)) = File(p.disk, Log(n))
             /\ Told(p.disk) => Told(x.disk)
  BY ONLY <1>1, <1>4, MoveHeadIs
<1>8. CASE Dead(l, q)
  <2>1. Dead(l, r)
    BY ONLY <1>1, <1>3, <1>4, <1>8, TakeHistoryDead DEF r
  <2>2. Dead(l, s)
    BY ONLY <1>1, <2>1, ForgetLogDead DEF s
  <2> QED BY <1>2, <2>2 DEF Proper
<1>9. CASE /\ Fine(l, q) /\ q.disk[Loose(dst)] = oid
           /\ \A n \in Names : File(q.disk, Log(n)) = File(p.disk, Log(n))
           /\ Told(p.disk) => Told(q.disk)
  <2>1. l.cmd = "move" => dst # l.src /\ File(q.disk, Log(l.src)) = File(l.disk, Log(l.src))
    BY <1>1, <1>4, <1>9
  <2>2. \/ Dead(l, r)
        \/ /\ Fine(l, r) /\ LogOnly(q.disk, r.disk, dst)
           /\ History(r.disk, dst) = Append(h, [old |-> oid, new |-> oid, msg |-> Note])
    BY ONLY <1>1, <1>3, <1>4, <1>9, <2>1, TakeHistoryIs DEF r
  <2>3. CASE Dead(l, r)
    <3>1. Dead(l, s)
      BY ONLY <1>1, <2>3, ForgetLogDead DEF s
    <3> QED BY <1>2, <3>1 DEF Proper
  <2>4. CASE /\ Fine(l, r) /\ LogOnly(q.disk, r.disk, dst)
             /\ History(r.disk, dst) = Append(h, [old |-> oid, new |-> oid, msg |-> Note])
    <3>1. Stored(q.disk, dst) = oid
      BY <1>4, <1>9 DEF Stored
    <3>2. Shaped(q.disk) /\ Shaped(r.disk)
      BY <1>9, <2>4, FineIs
    <3>3. ASSUME Told(l.disk) PROVE Told(r.disk)
      <4>1. Told(q.disk) /\ LeadsTo(h, oid)
        BY <1>3, <1>4, <1>9, <3>3
      <4> QED BY ONLY <1>1, <1>3, <1>4, <2>4, <3>1, <3>2, <4>1, ToldTaken
    <3>4. IsPrefix(History(l.disk, l.src), History(r.disk, l.dst))
      BY <1>1, <1>6, <2>4
    <3>5. l.src # l.dst /\ Log(src) = Log(l.src)
      BY <1>1
    <3>6. LET x == Unlink(r, Log(l.src))
          IN  Dead(l, x) \/ (Fine(l, x) /\ (Told(r.disk) => Told(x.disk)))
      BY ONLY <1>4, <2>4, <3>4, <3>5, ForgetLogIs
    <3>7. Dead(l, s) \/ (Fine(l, s) /\ (Told(r.disk) => Told(s.disk)))
      BY <3>5, <3>6 DEF s
    <3> QED BY <1>2, <3>3, <3>7 DEF Proper, Ends
  <2> QED BY <2>2, <2>3, <2>4
<1> QED BY <1>7, <1>8, <1>9 DEF q

LEMMA MoveLogDead ==
    ASSUME NEW l, NEW p, Dead(l, p), l.cmd = "move", Named(l), NEW oid \in Oids, NEW h \in Seq(Records)
    PROVE  Dead(l, MoveLog(MoveHead(p, l.src, l.dst), l.src, l.dst, h, oid))
<1>1. /\ Packed \in Footprint(l) /\ HeadFile \in Footprint(l) /\ Log(None) \in Footprint(l)
      /\ Loose(l.src) \in Footprint(l) /\ Log(l.src) \in Footprint(l) /\ Log(l.dst) \in Footprint(l)
      /\ l.src \in Names /\ l.dst \in Names
  BY MoveFootprint
<1> DEFINE q == MoveHead(p, l.src, l.dst)
           r == TakeHistory(q, l.dst, h, oid)
<1>2. Dead(l, q)
  BY <1>1, MoveHeadDead
<1> HIDE DEF q
<1>3. Dead(l, r)
  BY <1>1, <1>2, TakeHistoryDead
<1> HIDE DEF r
<1>4. Dead(l, Unlink(r, Log(l.src)))
  BY <1>1, <1>3, ForgetLogDead
<1> QED BY <1>4 DEF MoveLog, q, r

\* branch -m @{-N}.
LEMMA MovePlan ==
    ASSUME NEW l, NEW force \in BOOLEAN, Shaped(l.disk), IsTree(l.disk), Movable(l, force)
    PROVE  /\ Move(l.disk, l.src, l.dst, force).writes \in Seq(Writes)
           /\ Ready(l, l.disk, Move(l.disk, l.src, l.dst, force).writes)
<1> DEFINE src == l.src
           dst == l.dst
           oid == Value(l.disk, src)
           p == MoveConfig(Plan(l.disk), src, dst)
           u == IF Exists(l.disk, dst) THEN DeleteBranch(p, dst) ELSE p
           q == SetBranch(u, dst, oid)
           h == History(l.disk, src)
           done == MoveLog(MoveHead(q, src, dst), src, dst, h, oid)
           noted == Logged(p, dst, oid, oid, Note, TRUE)
           m == Move(l.disk, src, dst, force)
<1>1. /\ l.cmd = "move" /\ Shaped(l.disk) /\ IsTree(l.disk) /\ Named(l) /\ oid \in Oids /\ oid = Value(l.disk, l.src)
      /\ Readable(l.disk, l.dst) /\ (Exists(l.disk, l.dst) => l.disk[HeadFile] # l.dst)
  BY DEF Movable, Named, Exists
<1>2. m = IF l.disk[Log(src)] = Dir \/ (force /\ l.disk[HeadFile] = dst)
          THEN [p EXCEPT !.writes = Append(@, Refusal)]
          ELSE IF src = dst THEN noted ELSE done
  BY DEF Move
<1>3. /\ Config \in Footprint(l) /\ Packed \in Footprint(l) /\ Log(None) \in Footprint(l)
      /\ Loose(dst) \in Footprint(l) /\ Log(dst) \in Footprint(l) /\ src \in Names /\ dst \in Names
  BY <1>1, MoveFootprint
<1>4. LET x == MoveConfig(Plan(l.disk), l.src, l.dst)
      IN  \/ Dead(l, x)
          \/ /\ Fine(l, x) /\ \A f \in Files \ {Config} : x.disk[f] = l.disk[f]
             /\ Told(l.disk) => Told(x.disk)
  BY ONLY <1>1, MoveConfigIs
<1>5. h \in Seq(Records)
  BY <1>1, <1>3, HistoryLeads
<1>6. src = dst => Noted(noted, Plan(l.disk), l.dst, oid, oid, Note)
  BY DEF MoveConfig, Noted
<1>7. p = MoveConfig(Plan(l.disk), l.src, l.dst) /\ src = l.src /\ dst = l.dst /\ h = History(l.disk, l.src)
  OBVIOUS
<1> HIDE DEF p, q, u, done, noted, m, oid, h
<1>8. ASSUME l.disk[Log(src)] = Dir \/ (force /\ l.disk[HeadFile] = dst)
      PROVE  m.writes \in Seq(Writes) /\ Ready(l, l.disk, m.writes)
  <2>1. Sound(l, p)
    BY <1>4, <1>7 DEF Sound
  <2>2. p = [disk |-> p.disk, writes |-> p.writes]
    BY <2>1 DEF Sound, Fine, Dead, Traces
  <2>3. m.writes = Append(p.writes, Refusal)
    BY <1>2, <1>8, <2>2
  <2>4. Append(p.writes, Refusal) \in Seq(Writes) /\ Ready(l, l.disk, Append(p.writes, Refusal))
    BY <1>3, <2>1, RefusedReady
  <2> QED BY <2>3, <2>4
<1>9. ASSUME l.disk[Log(src)] # Dir, src = dst PROVE Proper(l, noted)
  <2>1. l.disk[Log(l.src)] # Dir /\ l.src = l.dst /\ Noted(noted, Plan(l.disk), l.dst, oid, oid, Note)
    BY <1>6, <1>9
  <2> QED BY ONLY <1>1, <2>1, SameMove
<1>10. ASSUME l.disk[Log(src)] # Dir, src # dst PROVE Proper(l, done)
  <2>1. l.disk[Log(l.src)] # Dir /\ l.src # l.dst
    BY <1>10
  <2>2. CASE Dead(l, p)
    <3>1. Dead(l, DeleteBranch(p, dst))
      BY ONLY <1>3, <2>2, DeleteBranchDead
    <3>2. Dead(l, u)
      BY <2>2, <3>1 DEF u
    <3>3. Dead(l, q)
      BY ONLY <1>1, <1>3, <3>2, SetBranchDead DEF q
    <3>4. Dead(l, MoveLog(MoveHead(q, l.src, l.dst), l.src, l.dst, h, oid))
      BY ONLY <1>1, <1>5, <3>3, MoveLogDead
    <3> QED BY <3>4 DEF Proper, done
  <2>3. CASE Fine(l, p) /\ (\A f \in Files \ {Config} : p.disk[f] = l.disk[f]) /\ (Told(l.disk) => Told(p.disk))
    <3>1. LET x == SetBranch(IF Exists(l.disk, l.dst) THEN DeleteBranch(p, l.dst) ELSE p, l.dst, oid)
          IN  \/ Dead(l, x)
              \/ /\ Fine(l, x) /\ Placed(l) /\ x.disk[Loose(l.dst)] = oid
                 /\ ~Over(Loose(l.src), Loose(l.dst)) => Held(l, x.disk)
                 /\ File(x.disk, Log(l.src)) = File(l.disk, Log(l.src))
                 /\ Told(p.disk) => Told(x.disk)
      BY ONLY <1>1, <2>1, <2>3, MoveRefIs
    <3>2. \/ Dead(l, q)
          \/ /\ Fine(l, q) /\ Placed(l) /\ q.disk[Loose(l.dst)] = oid
             /\ ~Over(Loose(l.src), Loose(l.dst)) => Held(l, q.disk)
             /\ File(q.disk, Log(l.src)) = File(l.disk, Log(l.src))
             /\ Told(p.disk) => Told(q.disk)
      BY <3>1 DEF q, u
    <3>3. CASE Dead(l, q)
      <4>1. Dead(l, MoveLog(MoveHead(q, l.src, l.dst), l.src, l.dst, h, oid))
        BY ONLY <1>1, <1>5, <3>3, MoveLogDead
      <4> QED BY <4>1 DEF Proper, done
    <3>4. CASE /\ Fine(l, q) /\ Placed(l) /\ q.disk[Loose(l.dst)] = oid
               /\ ~Over(Loose(l.src), Loose(l.dst)) => Held(l, q.disk)
               /\ File(q.disk, Log(l.src)) = File(l.disk, Log(l.src))
               /\ Told(p.disk) => Told(q.disk)
      <4>1. Told(l.disk) => Told(q.disk)
        BY <2>3, <3>4
      <4>2. Proper(l, MoveLog(MoveHead(q, l.src, l.dst), l.src, l.dst, History(l.disk, l.src), oid))
        BY ONLY <1>1, <2>1, <3>4, <4>1, MoveLogIs
      <4> QED BY <1>7, <4>2 DEF done
    <3> QED BY <3>2, <3>3, <3>4
  <2> QED BY <1>4, <1>7, <2>2, <2>3
<1>11. m.writes \in Seq(Writes) /\ Ready(l, l.disk, m.writes)
  <2>1. CASE l.disk[Log(src)] = Dir \/ (force /\ l.disk[HeadFile] = dst)
    BY <1>8, <2>1
  <2>2. CASE ~(l.disk[Log(src)] = Dir \/ (force /\ l.disk[HeadFile] = dst))
    <3>1. Proper(l, m)
      BY <1>2, <1>9, <1>10, <2>2
    <3> QED BY <3>1, PlanReady
  <2> QED BY <2>1, <2>2
<1> QED BY <1>11 DEF m

-----------------------------------------------------------------------------
(***************************************************************************)
(* Putting files back.                                                     *)
(***************************************************************************)
\* What is known of the branches of a move or a copy that was let through.
Facts(l) ==
    /\ l.cmd \in {"move", "copy"} =>
          l.src \in Names /\ l.dst \in Names /\ Value(l.disk, l.src) \in Oids /\ l.disk[Loose(l.dst)] # Dir
    /\ l.cmd = "move" /\ HeadValue(l.disk) \in Oids => l.disk[HeadFile] # l.dst
    /\ l.cmd = "delete" => l.dst = None

Paths(l) == IF l.cmd = "move" THEN MovePaths(l.src, l.dst) ELSE CopyPaths(l.dst)
Many(l) == IF l.cmd = "move" THEN 8 ELSE 4

LEMMA MovePathsAre ==
    ASSUME NEW l, l.cmd = "move"
    PROVE  /\ Many(l) = 8 /\ Paths(l) \in Seq(Footprint(l)) /\ Len(Paths(l)) = 8
           /\ Paths(l)[1] = Config /\ Paths(l)[2] = Packed /\ Paths(l)[3] = HeadFile /\ Paths(l)[4] = Log(None)
           /\ Paths(l)[5] = Loose(l.src) /\ Paths(l)[6] = Loose(l.dst)
           /\ Paths(l)[7] = Log(l.src) /\ Paths(l)[8] = Log(l.dst)
BY DEF Paths, MovePaths, Footprint, Many

LEMMA CopyPathsAre ==
    ASSUME NEW l, l.cmd = "copy", Named(l)
    PROVE  /\ Many(l) = 4 /\ Paths(l) \in Seq(Footprint(l)) /\ Len(Paths(l)) = 4
           /\ Paths(l)[1] = Config /\ Paths(l)[2] = Packed /\ Paths(l)[3] = Loose(l.dst) /\ Paths(l)[4] = Log(l.dst)
<1>1. Paths(l) = <<Config, Packed, Loose(l.dst), Log(l.dst)>>
  BY DEF Paths, CopyPaths
<1>2. {Config, Packed, Loose(l.dst), Log(l.dst)} \subseteq Footprint(l)
  BY Differ DEF Footprint, Named
<1> QED BY <1>1, <1>2 DEF Many

\* Every file a command lists is among those put back, and no other.
LEMMA PathsCover ==
    ASSUME NEW l, l.cmd \in {"move", "copy"}, Named(l)
    PROVE  /\ Many(l) \in Nat /\ Len(Paths(l)) = Many(l) /\ Many(l) >= 4 /\ DOMAIN Paths(l) = 1..Many(l)
           /\ \A i \in 1..Many(l) : Paths(l)[i] \in Footprint(l) /\ Paths(l)[i] \in Files
           /\ l.cmd = "move" \/ Fixable(l) => \A f \in Footprint(l) : \E i \in 1..Many(l) : Paths(l)[i] = f
           /\ Paths(l)[1] = Config /\ Paths(l)[2] = Packed /\ Paths(l)[Many(l)] = Log(l.dst)
<1>1. Footprint(l) \subseteq Files
  BY Differ DEF Footprint, Named
<1>2. CASE l.cmd = "move"
  <2>1. Footprint(l) = {Config, Packed, HeadFile, Log(None), Loose(l.src), Loose(l.dst), Log(l.src), Log(l.dst)}
    BY <1>2 DEF Footprint
  <2>2. DOMAIN Paths(l) = 1..8
    BY <1>2, MovePathsAre
  <2>3. \A i \in 1..8 : Paths(l)[i] \in Footprint(l)
    BY <1>2, MovePathsAre, <2>2
  <2>4. \A f \in Footprint(l) : \E i \in 1..8 : Paths(l)[i] = f
    BY <1>2, <2>1, MovePathsAre
  <2>5. Many(l) = 8 /\ Len(Paths(l)) = 8 /\ Paths(l)[1] = Config /\ Paths(l)[2] = Packed /\ Paths(l)[8] = Log(l.dst)
    BY <1>2, MovePathsAre
  <2> QED BY ONLY <1>1, <2>2, <2>3, <2>4, <2>5
<1>3. CASE l.cmd = "copy"
  <2>1. Fixable(l) => Footprint(l) = {Config, Packed, Loose(l.dst), Log(l.dst)}
    BY <1>3 DEF Footprint
  <2>2. DOMAIN Paths(l) = 1..4
    BY <1>3, CopyPathsAre
  <2>3. \A i \in 1..4 : Paths(l)[i] \in Footprint(l)
    BY <1>3, CopyPathsAre, <2>2
  <2>4. Fixable(l) => \A f \in Footprint(l) : \E i \in 1..4 : Paths(l)[i] = f
    BY <1>3, <2>1, CopyPathsAre
  <2>5. Many(l) = 4 /\ Len(Paths(l)) = 4 /\ Paths(l)[1] = Config /\ Paths(l)[2] = Packed /\ Paths(l)[4] = Log(l.dst)
    BY <1>3, CopyPathsAre
  <2>6. l.cmd # "move"
    BY <1>3
  <2> QED BY ONLY <1>1, <2>2, <2>3, <2>4, <2>5, <2>6
<1> QED BY <1>2, <1>3

LEMMA FileKept ==
    ASSUME NEW d, Shaped(d), NEW f \in Files
    PROVE  File(d, f) \in Kept(f) /\ File(d, f) # Dir
<1>1. d[f] \in MayHold(f)
  BY DEF Shaped
<1>2. CASE f \in {Config, Packed, HeadFile, Log(None)}
  BY <1>1, <1>2, Contents, NoDir DEF File
<1>3. CASE \E n \in Names : f = Loose(n) \/ f = Log(n)
  BY <1>3, Contents, <1>1, NoDir DEF File
<1> QED BY <1>2, <1>3, Kinds

\* A write that puts back what a file held.
LEMMA Restoring ==
    ASSUME NEW l, Shaped(l.disk), Named(l), l.cmd \in {"move", "copy"}, NEW i \in 1..Many(l),
           NEW w, w = Snapshot(l.disk, Paths(l))[i]
    PROVE  /\ w \in Writes /\ w # Refusal /\ w.at = Paths(l)[i] /\ w.to = File(l.disk, Paths(l)[i])
           /\ w.at \in Files /\ w.at \in Footprint(l)
<1> DEFINE f == Paths(l)[i]
<1>1. f \in Files /\ f \in Footprint(l) /\ i \in DOMAIN Paths(l)
  BY PathsCover
<1>2. w = [at |-> f, to |-> File(l.disk, f), prune |-> FALSE]
  BY <1>1 DEF Snapshot, File
<1>3. File(l.disk, f) \in Kept(f) /\ FALSE \in BOOLEAN
  BY <1>1, FileKept
<1> HIDE DEF f
<1>4. w \in Writes /\ w # Refusal
  BY <1>1, <1>2, <1>3, IsAWrite
<1> QED BY <1>1, <1>2, <1>4 DEF f

\* The first k files are back.
Back(l, e, k) ==
    /\ Good(l, e)
    /\ \A i \in 1..k : File(e, Paths(l)[i]) = File(l.disk, Paths(l)[i])
    /\ l.cmd = "move" /\ k >= 5 => Held(l, e)

\* One write back: the ref of a move's source stays where it is, or comes back before the new one goes.
LEMMA BackStep ==
    ASSUME NEW l, Shaped(l.disk), IsTree(l.disk), Facts(l), Named(l), l.cmd \in {"move", "copy"},
           NEW e, NEW k \in Nat, k < Many(l), Back(l, e, k),
           NEW w, w = Snapshot(l.disk, Paths(l))[k + 1], ~Blocked(e, w.at)
    PROVE  Back(l, After(e, w), k + 1)
<1> DEFINE g == After(e, w)
           f == w.at
<1>1. Many(l) \in Nat /\ k + 1 \in 1..Many(l)
  BY PathsCover
<1>2. w \in Writes /\ w # Refusal /\ f = Paths(l)[k + 1] /\ w.to = File(l.disk, f) /\ f \in Files /\ f \in Footprint(l)
  BY <1>1, Restoring
<1>3. Good(l, e) /\ Shaped(e) /\ IsTree(e)
  BY DEF Back, Good
<1>4. /\ Shaped(g) /\ IsTree(g) /\ g[f] = File(l.disk, f) /\ File(l.disk, f) # Dir
      /\ \A x \in Files \ {f} : File(g, x) = File(e, x)
      /\ \A x \in Files \ {f} : ~Over(x, f) => g[x] = e[x]
      /\ \A x \in Files \ {f} : Over(x, f) => {e[x], g[x]} \subseteq {None, Dir}
      /\ File(l.disk, f) = None => \A x \in Files : g[x] = Dir => e[x] = Dir
  BY <1>2, <1>3, Writing
<1>5. Untouched(l, g)
  BY <1>2, <1>3, Touching
<1> HIDE DEF g, f
<1>6. File(g, f) = File(l.disk, f)
  BY <1>4 DEF File
<1>7. Started(l, g)
  BY <1>3, <1>4, <1>6 DEF Good, Started
<1>8. ASSUME NEW i \in 1..(k + 1) PROVE File(g, Paths(l)[i]) = File(l.disk, Paths(l)[i])
  <2>1. CASE Paths(l)[i] = f
    BY <1>6, <2>1
  <2>2. CASE Paths(l)[i] # f
    BY <1>1, <1>2, <2>2, PathsCover, <1>4 DEF Back
  <2> QED BY <2>1, <2>2
<1>9. ASSUME l.cmd = "move"
      PROVE  RefKept(l, g) /\ HistoryKept(l, g) /\ ConfigKept(l, g) /\ (k + 1 >= 5 => Held(l, g))
  <2>1. /\ l.src \in Names /\ l.dst \in Names /\ Value(l.disk, l.src) \in Oids
        /\ l.disk[Loose(l.src)] # Dir /\ Dir \notin Oids /\ None # Dir
    BY <1>9, Distinct DEF Facts, Value
  <2>2. RefKept(l, e) /\ HistoryKept(l, e) /\ ConfigKept(l, e) /\ (k >= 5 => Held(l, e))
    BY <1>3, <1>9 DEF Good, Survives, Back
  <2>3. f \in {Config, Packed, HeadFile, Log(None), Loose(l.src), Loose(l.dst), Log(l.src), Log(l.dst)}
    BY <1>2, <1>9 DEF Footprint
  <2>4. /\ k = 0 => f = Config
        /\ k = 1 => f = Packed
        /\ k = 2 => f = HeadFile
        /\ k = 3 => f = Log(None)
        /\ k = 4 => f = Loose(l.src)
        /\ k = 5 => f = Loose(l.dst)
        /\ k = 6 => f = Log(l.src)
        /\ k = 7 => f = Log(l.dst)
        /\ k \in 0..7
    BY <1>1, <1>2, <1>9, MovePathsAre
  <2>5. k >= 2 => e[Packed] = l.disk[Packed]
    <3>1. SUFFICES ASSUME k >= 2 PROVE e[Packed] = l.disk[Packed]
      OBVIOUS
    <3>2. 2 \in 1..k /\ Paths(l)[2] = Packed
      BY <1>9, <3>1, MovePathsAre
    <3>3. File(e, Packed) = File(l.disk, Packed)
      BY <3>2 DEF Back
    <3>4. e[Packed] # Dir /\ l.disk[Packed] # Dir
      BY <1>3, Differ, NoDir, Contents, Shapes
    <3> QED BY <3>3, <3>4 DEF File
  <2>6. CASE k \in {0, 1, 2, 3}
    <3>1. f \in {Config, Packed, HeadFile, Log(None)}
      BY <2>4, <2>6
    <3>2. \A x \in Files \ {f} : g[x] = e[x]
      BY <1>4, <3>1, OverNothing
    <3>3. /\ g[Loose(l.src)] = e[Loose(l.src)] /\ g[Loose(l.dst)] = e[Loose(l.dst)]
          /\ g[Log(l.src)] = e[Log(l.src)] /\ g[Log(l.dst)] = e[Log(l.dst)]
      BY <2>1, <3>1, <3>2, Differ
    <3>4. g[Packed] = e[Packed] \/ g[Packed] = l.disk[Packed]
      BY Differ, NoDir, Contents, Shapes, <1>4, <3>2 DEF File
    <3>5. g[Config] = e[Config] \/ g[Config] = l.disk[Config]
      BY Differ, NoDir, Contents, Shapes, <1>4, <3>2 DEF File
    <3>6. RefKept(l, g)
      BY <2>2, <3>3, <3>4 DEF RefKept
    <3>7. HistoryKept(l, g)
      BY <2>2, <3>3 DEF HistoryKept, File, History
    <3>8. ConfigKept(l, g)
      BY <2>2, <3>5 DEF ConfigKept
    <3> QED BY <2>6, <3>6, <3>7, <3>8
  <2>9. \A m, n \in Names :
           /\ Loose(m) \in Files /\ Log(m) \in Files
           /\ Loose(m) # Log(n) /\ ~Over(Loose(m), Log(n)) /\ ~Over(Log(m), Loose(n))
           /\ \A x \in {Config, Packed} : x \in Files /\ x # Loose(n) /\ x # Log(n)
                                        /\ ~Over(x, Loose(n)) /\ ~Over(x, Log(n))
    <3>1. ASSUME NEW m \in Names, NEW n \in Names
          PROVE  /\ Loose(m) \in Files /\ Log(m) \in Files
                 /\ Loose(m) # Log(n) /\ ~Over(Loose(m), Log(n)) /\ ~Over(Log(m), Loose(n))
      BY Differ, OverIs
    <3>2. ASSUME NEW n \in Names, NEW x \in {Config, Packed}
          PROVE  /\ x \in Files /\ x # Loose(n) /\ x # Log(n)
                 /\ ~Over(x, Loose(n)) /\ ~Over(x, Log(n))
      <4>1. x \in Files /\ x # Loose(n) /\ x # Log(n) /\ Loose(n) \in Files /\ Log(n) \in Files
        BY Differ
      <4> QED BY <4>1, OverNothing
    <3> QED BY <3>1, <3>2
  <2>7. CASE k \in {4, 5}
    <3>1. f \in {Loose(l.src), Loose(l.dst)} /\ (k = 4 => f = Loose(l.src)) /\ (k = 5 => f = Loose(l.dst))
      BY <2>4, <2>7
    <3>2. \A x \in {Config, Packed, Log(l.src), Log(l.dst)} : x \in Files /\ x # f /\ ~Over(x, f)
      BY <2>1, <2>9, <3>1
    <3>3. g[Packed] = e[Packed] /\ g[Config] = e[Config] /\ g[Log(l.src)] = e[Log(l.src)] /\ g[Log(l.dst)] = e[Log(l.dst)]
      BY <1>4, <3>2
    <3>4. g[Loose(l.src)] = l.disk[Loose(l.src)]
      <4>1. CASE f = Loose(l.src)
        BY <1>4, <2>1, <4>1 DEF File
      <4>2. CASE f # Loose(l.src)
        <5>1. f = Loose(l.dst) /\ k = 5 /\ Loose(l.src) \in Files \ {f} /\ e[Loose(l.src)] = l.disk[Loose(l.src)]
          BY <2>1, <2>2, <2>7, <3>1, <4>2, Differ DEF Held
        <5>2. CASE ~Over(Loose(l.src), f)
          BY <1>4, <5>1, <5>2
        <5>3. CASE Over(Loose(l.src), f)
          <6>1. l.disk[f] \in {None, Dir}
            BY <5>1, <1>2, <2>1, <5>3 DEF IsTree, f
          <6>2. File(l.disk, f) = None
            BY <6>1 DEF File
          <6>3. e[Loose(l.src)] \in {None, Dir} /\ g[Loose(l.src)] \in {None, Dir}
            BY <1>4, <5>1, <5>3
          <6>4. g[Loose(l.src)] = Dir => e[Loose(l.src)] = Dir
            BY <1>4, <5>1, <6>2
          <6> QED BY <2>1, <5>1, <6>3, <6>4
        <5> QED BY <5>2, <5>3
      <4> QED BY <4>1, <4>2
    <3>5. Held(l, g)
      BY <2>5, <2>7, <3>3, <3>4 DEF Held
    <3>6. RefKept(l, g)
      BY <3>5 DEF RefKept, Held
    <3>7. HistoryKept(l, g) /\ ConfigKept(l, g)
      BY <2>2, <3>3 DEF HistoryKept, ConfigKept, File, History
    <3> QED BY <3>5, <3>6, <3>7
  <2>8. CASE k \in {6, 7}
    <3>1. f \in {Log(l.src), Log(l.dst)} /\ (k = 6 => f = Log(l.src)) /\ (k = 7 => f = Log(l.dst))
      BY <2>4, <2>8
    <3>2. \A x \in {Config, Packed, Loose(l.src), Loose(l.dst)} : x \in Files /\ x # f /\ ~Over(x, f)
      BY <2>1, <2>9, <3>1
    <3>3. /\ g[Packed] = e[Packed] /\ g[Config] = e[Config]
          /\ g[Loose(l.src)] = e[Loose(l.src)] /\ g[Loose(l.dst)] = e[Loose(l.dst)]
      BY <1>4, <3>2
    <3>4. Held(l, g)
      BY <2>2, <2>8, <3>3 DEF Held
    <3>5. RefKept(l, g)
      BY <3>4 DEF RefKept, Held
    <3>6. ConfigKept(l, g)
      BY <2>2, <3>3 DEF ConfigKept
    <3>7. File(g, Log(l.src)) = File(l.disk, Log(l.src))
      BY <1>9, <2>8, MovePathsAre, <1>8
    <3>8. HistoryKept(l, g)
      BY <3>7 DEF HistoryKept
    <3> QED BY <3>4, <3>5, <3>6, <3>8
  <2> QED BY <2>4, <2>6, <2>7, <2>8
<1>10. Good(l, g)
  BY <1>4, <1>5, <1>7, <1>9 DEF Good, Survives
<1>11. Back(l, g, k + 1)
  BY <1>8, <1>9, <1>10 DEF Back
<1> QED BY <1>11 DEF g

\* Every file is back.
AllBack(l, e) == \A f \in Files : File(e, f) = File(l.disk, f)

\* Once all are back, every file is: no other was touched.
LEMMA BackDone ==
    ASSUME NEW l, Named(l), l.cmd \in {"move", "copy"}, l.cmd = "move" \/ Fixable(l), NEW e, Back(l, e, Many(l))
    PROVE  AllBack(l, e)
<1>1. ASSUME NEW f \in Footprint(l) PROVE File(e, f) = File(l.disk, f)
  BY PathsCover DEF Back
<1>2. \A f \in Files \ Footprint(l) : File(e, f) = File(l.disk, f)
  BY DEF Back, Good, Untouched
<1> QED BY <1>1, <1>2 DEF AllBack

\* The logs tell then if they did.
LEMMA AllBackTold ==
    ASSUME NEW l, NEW e, Shaped(l.disk), Shaped(e), AllBack(l, e), Told(l.disk)
    PROVE  Told(e)
<1>1. ASSUME NEW f \in {Packed, HeadFile} PROVE e[f] = l.disk[f]
  <2>1. f \in Files /\ e[f] \in Kept(f) /\ l.disk[f] \in Kept(f)
    BY Differ, Contents, Shapes
  <2>2. e[f] # Dir /\ l.disk[f] # Dir
    BY <2>1, NoDir
  <2> QED BY <2>1, <2>2 DEF AllBack, File
<1>2. \A f \in Files \ {Config} : File(e, f) = File(l.disk, f)
  BY DEF AllBack
<1> QED BY <1>1, <1>2, ToldSame

LEMMA AllBackSame == ASSUME NEW l, NEW e, AllBack(l, e) PROVE SameFiles(e, l.disk)
BY DEF AllBack, SameFiles, File

\* Of what is put back nothing lies above anything else.
LEMMA FixableApart ==
    ASSUME NEW l, Named(l), Fixable(l), NEW f \in Footprint(l), NEW g \in Footprint(l)
    PROVE  ~Over(f, g)
<1>1. SUFFICES ASSUME Over(f, g) PROVE FALSE
  OBVIOUS
<1>2. l.cmd \in {"move", "copy"} /\ l.dst \in Names /\ l.src \in Names
  BY DEF Fixable, Named
<1>3. f \in Files /\ g \in Files
  BY <1>2, Differ DEF Footprint
<1>4. PICK m, n \in Names : <<n, m>> \in Under /\ ((f = Loose(m) /\ g = Loose(n)) \/ (f = Log(m) /\ g = Log(n)))
  BY <1>1, <1>3, OverNames
<1>5. m \in {l.src, l.dst} /\ n \in {l.src, l.dst} /\ (l.cmd = "copy" => m = l.dst /\ n = l.dst)
  <2>1. ASSUME NEW x \in Names, Loose(x) \in Footprint(l) \/ Log(x) \in Footprint(l)
        PROVE  x \in {l.src, l.dst} /\ (l.cmd = "copy" => x = l.dst)
    <3>1. CASE l.cmd = "move"
      BY <3>1, <1>2, <2>1, Differ DEF Footprint
    <3>2. CASE l.cmd = "copy"
      BY <3>2, <1>2, <2>1, Differ DEF Footprint
    <3> QED BY <1>2, <3>1, <3>2
  <2> QED BY <1>4, <2>1
<1>6. m # n
  BY <1>4, UnderIsOrder
<1>7. l.cmd = "move" /\ <<l.src, l.dst>> \notin Under /\ <<l.dst, l.src>> \notin Under
  BY <1>2, <1>5, <1>6 DEF Fixable
<1> QED BY <1>4, <1>5, <1>6, <1>7

\* Where putting files back stops, what can be put back at all already is.
LEMMA StuckIs ==
    ASSUME NEW l, Shaped(l.disk), IsTree(l.disk), Facts(l), Named(l), l.cmd \in {"move", "copy"}, Fixable(l),
           NEW e, NEW k \in Nat, k < Many(l), Back(l, e, k),
           NEW w, w = Snapshot(l.disk, Paths(l))[k + 1], Blocked(e, w.at)
    PROVE  AllBack(l, e)
<1> DEFINE f == w.at
<1>1. Many(l) \in Nat /\ k + 1 \in 1..Many(l)
  BY PathsCover
<1>2. f = Paths(l)[k + 1] /\ f \in Files /\ f \in Footprint(l)
  BY <1>1, Restoring
<1>3. Good(l, e) /\ Shaped(e) /\ IsTree(e)
  BY DEF Back, Good
<1>4. e[f] = Dir \/ \E g \in Files : Over(g, f) /\ e[g] \notin {None, Dir}
  BY DEF Blocked
<1> HIDE DEF f
<1>5. ASSUME e[f] = Dir PROVE l.disk[f] = Dir
  BY <1>2, <1>3, <1>5, FixableApart DEF Good, Untouched
<1>6. ASSUME NEW g \in Files, Over(g, f) PROVE g \notin Footprint(l) /\ File(e, g) = File(l.disk, g)
  BY <1>2, <1>6, FixableApart, <1>3 DEF Good, Untouched
<1>7. ASSUME k >= 2, ~Placed(l) PROVE AllBack(l, e)
  BY <1>3, <1>7, PathsCover DEF Good, Started, Back, AllBack
<1>8. ASSUME f \in {Config, Packed, HeadFile, Log(None)} PROVE FALSE
  <2>1. e[f] # Dir
    BY <1>3, <1>8, Differ, Contents, Shapes, NoDir
  <2>2. \A g \in Files : ~Over(g, f)
    BY <1>8, OverNothing
  <2> QED BY <1>4, <2>1, <2>2
<1>9. CASE k + 1 = Many(l)
  <2>1. f = Log(l.dst)
    BY <1>2, <1>9, PathsCover
  <2>2. ASSUME NEW x \in Files \ {f} PROVE File(e, x) = File(l.disk, x)
    <3>1. CASE x \notin Footprint(l)
      BY <1>3, <3>1 DEF Good, Untouched
    <3>2. CASE x \in Footprint(l)
      BY <3>2, PathsCover, <1>2, <1>9, <2>2, <1>1 DEF Back
    <3> QED BY <3>1, <3>2
  <2>3. File(e, f) = File(l.disk, f)
    <3>1. CASE e[f] = Dir
      BY <1>5, <3>1 DEF File
    <3>2. CASE e[f] # Dir
      BY <1>4, <3>2, <1>6, <1>2, <1>3 DEF File, IsTree
    <3> QED BY <3>1, <3>2
  <2> QED BY <2>2, <2>3 DEF AllBack
<1>10. CASE k + 1 # Many(l)
  <2>1. \/ l.cmd = "move" /\ ((k = 4 /\ f = Loose(l.src)) \/ (k = 5 /\ f = Loose(l.dst)) \/ (k = 6 /\ f = Log(l.src)))
        \/ l.cmd = "copy" /\ k = 2 /\ f = Loose(l.dst)
    <3>1. CASE l.cmd = "move"
      <4>1. k \in 0..6
        <5>1. Many(l) = 8
          BY <3>1, MovePathsAre
        <5> QED BY <1>1, <1>10, <5>1
      <4>2. f \notin {Config, Packed, HeadFile, Log(None)}
        BY <1>8
      <4>3. k \notin 0..3
        BY <1>2, <3>1, <4>2, MovePathsAre
      <4> QED BY <1>2, <3>1, <4>1, <4>3, MovePathsAre
    <3>2. CASE l.cmd = "copy"
      BY <1>1, <1>10, <3>2, CopyPathsAre, <1>8, <1>2
    <3> QED BY <3>1, <3>2
  <2>2. k >= 2
    BY <2>1
  <2>3. CASE f = Loose(l.dst)
    <3>1. l.disk[Loose(l.dst)] # Dir
      BY DEF Facts
    <3>2. PICK g \in Files : Over(g, f) /\ e[g] \notin {None, Dir}
      BY <1>4, <1>5, <2>3, <3>1
    <3>3. g \in Files \ Footprint(l) /\ File(l.disk, g) # None
      BY <1>6, <3>2 DEF File
    <3>4. ~Placed(l)
      BY <2>3, <3>2, <3>3 DEF Placed, Clear
    <3> QED BY <1>7, <2>2, <3>4
  <2>4. CASE l.cmd = "move" /\ f \in {Loose(l.src), Log(l.src)}
    <3>1. ASSUME NEW g \in Files, Over(g, f) PROVE e[g] \in {None, Dir}
      BY <2>4, <3>1, <1>6 DEF Fixable, File
    <3>2. l.disk[f] = Dir
      BY <1>4, <1>5, <3>1
    <3>3. l.disk[Loose(l.src)] # Dir
      BY Distinct DEF Facts, Value
    <3>4. ~Placed(l)
      BY <2>4, <3>2, <3>3 DEF Placed, Clear
    <3> QED BY <1>7, <2>2, <3>4
  <2> QED BY <2>1, <2>3, <2>4
<1> QED BY <1>9, <1>10

-----------------------------------------------------------------------------
(***************************************************************************)
(* HEAD, on the way and while files are put back.                          *)
(***************************************************************************)
\* What Steady says of the command begun last, and BackTooEarly of the disk.
Calm(l) ==
    /\ l.cmd \in {"move", "copy", "rename", "delete", "create from", "pack"}
    /\ HeadValue(l.disk) \in Oids
    /\ <<l.dst, l.disk[HeadFile]>> \notin Under

TooEarly(l, e) ==
    /\ l.cmd = "move" /\ e[HeadFile] = l.src /\ l.disk[HeadFile] = l.src
    /\ e[Loose(l.src)] # l.disk[Loose(l.src)]

\* HEAD is where it was, or has followed the branch being moved to a ref of its own.
Followed(l, e) ==
    /\ <<l.dst, e[HeadFile]>> \notin Under
    /\ l.cmd \in {"move", "copy"} =>
          /\ \/ e[HeadFile] = l.disk[HeadFile]
             \/ l.cmd = "move" /\ l.disk[HeadFile] = l.src /\ e[HeadFile] = l.dst
          /\ e[HeadFile] = l.dst /\ (l.disk[HeadFile] = l.dst => l.disk[Loose(l.dst)] # None)
             => e[Loose(l.dst)] # None

HeadThere(l, e) == Calm(l) => Followed(l, e) /\ HeadValue(e) = HeadValue(l.disk)
HeadBack(l, e) == Calm(l) => Followed(l, e) /\ (HeadValue(e) = HeadValue(l.disk) \/ TooEarly(l, e))

HeadSafe(l, e, undoing) ==
    Calm(l) => \/ HeadValue(e) = HeadValue(l.disk)
               \/ TooEarly(l, e) /\ (undoing \/ l.how \in {"killed", "stuck"})

LEMMA ThereAtFirst == ASSUME NEW l PROVE HeadThere(l, l.disk)
BY DEF HeadThere, Calm, Followed

LEMMA ThereStep ==
    ASSUME NEW l, l.cmd # "pack", Facts(l), NEW e, NEW g, HeadThere(l, e), HeadFixed(l, e, g)
    PROVE  HeadThere(l, g)
<1>1. SUFFICES ASSUME Calm(l) PROVE Followed(l, g) /\ HeadValue(g) = HeadValue(l.disk)
  BY DEF HeadThere
<1>2. Followed(l, e) /\ HeadValue(e) = HeadValue(l.disk)
  BY <1>1 DEF HeadThere
<1>3. HeadValue(g) = HeadValue(e) /\ Follows(l, e, g)
  BY <1>1, <1>2 DEF Calm, Followed, HeadFixed
<1>4. <<l.dst, g[HeadFile]>> \notin Under
  <2>1. CASE g[HeadFile] = e[HeadFile]
    BY <1>2, <2>1 DEF Followed
  <2>2. CASE l.cmd = "delete"
    BY <2>2, Distinct, UnderIsOrder DEF Facts
  <2>3. CASE g[HeadFile] = l.dst
    BY <2>3, UnderIsOrder
  <2> QED BY <1>3, <2>1, <2>2, <2>3 DEF Follows, Heads
<1>5. ASSUME l.cmd \in {"move", "copy"}
      PROVE  /\ \/ g[HeadFile] = l.disk[HeadFile]
                \/ l.cmd = "move" /\ l.disk[HeadFile] = l.src /\ g[HeadFile] = l.dst
             /\ g[HeadFile] = l.dst /\ (l.disk[HeadFile] = l.dst => l.disk[Loose(l.dst)] # None)
                => g[Loose(l.dst)] # None
  BY <1>2, <1>3, <1>5 DEF Followed, Follows, Heads
<1> QED BY <1>2, <1>3, <1>4, <1>5 DEF Followed

\* One write back: HEAD leads where it did, but for the moment it is back before its branch is.
LEMMA BackHead ==
    ASSUME NEW l, Shaped(l.disk), IsTree(l.disk), Facts(l), Named(l), l.cmd \in {"move", "copy"},
           NEW e, NEW k \in Nat, k < Many(l), Back(l, e, k), HeadBack(l, e),
           NEW w, w = Snapshot(l.disk, Paths(l))[k + 1], ~Blocked(e, w.at), Back(l, After(e, w), k + 1)
    PROVE  HeadBack(l, After(e, w))
<1> DEFINE g == After(e, w)
           f == w.at
           d == l.disk
           h == l.disk[HeadFile]
<1>1. Many(l) \in Nat /\ k + 1 \in 1..Many(l)
  BY PathsCover
<1>2. w \in Writes /\ w # Refusal /\ f = Paths(l)[k + 1] /\ w.to = File(d, f) /\ f \in Files /\ f \in Footprint(l)
  BY <1>1, Restoring
<1>3. Good(l, e) /\ Shaped(e) /\ IsTree(e)
  BY DEF Back, Good
<1>4. /\ g[f] = File(d, f) /\ File(d, f) # Dir
      /\ \A x \in Files \ {f} : ~Over(x, f) => g[x] = e[x]
      /\ \A x \in Files \ {f} : Over(x, f) => {e[x], g[x]} \subseteq {None, Dir}
      /\ File(d, f) = None => \A x \in Files : g[x] = Dir => e[x] = Dir
  BY <1>2, <1>3, Writing
<1>5. Back(l, g, k + 1)
  OBVIOUS
<1> HIDE DEF g, f
<1>6. SUFFICES ASSUME Calm(l) PROVE Followed(l, g) /\ (HeadValue(g) = HeadValue(d) \/ TooEarly(l, g))
  BY DEF HeadBack, g
<1>7. /\ Followed(l, e) /\ (HeadValue(e) = HeadValue(d) \/ TooEarly(l, e))
      /\ HeadValue(d) \in Oids /\ <<l.dst, h>> \notin Under
      /\ l.src \in Names /\ l.dst \in Names /\ d[Loose(l.dst)] # Dir
      /\ l.cmd = "move" => h # l.dst
      /\ Dir \notin Oids /\ None # Dir /\ None \notin Oids
  BY <1>6, Distinct DEF HeadBack, Calm, Facts
<1>8. /\ k = 0 => f = Config
      /\ k = 1 => f = Packed
      /\ k = 2 => f = IF l.cmd = "move" THEN HeadFile ELSE Loose(l.dst)
      /\ f \in {Config, Packed, HeadFile, Log(None), Loose(l.src), Loose(l.dst), Log(l.src), Log(l.dst)}
      /\ l.cmd = "copy" => f \in {Config, Packed, Loose(l.dst), Log(l.dst)}
  <2>1. CASE l.cmd = "move"
    <3>1. f \in {Config, Packed, HeadFile, Log(None), Loose(l.src), Loose(l.dst), Log(l.src), Log(l.dst)}
      BY <1>2, <2>1 DEF Footprint
    <3> QED BY <1>2, <2>1, <3>1, MovePathsAre
  <2>2. CASE l.cmd = "copy"
    BY <2>2, <1>1, <1>2, CopyPathsAre DEF Many
  <2> QED BY <2>1, <2>2
<1>9. /\ e[Packed] # Dir /\ g[Packed] # Dir /\ d[Packed] # Dir
      /\ e[HeadFile] # Dir /\ g[HeadFile] # Dir /\ d[HeadFile] # Dir
  BY Differ, NoDir, Contents, <1>5, <1>3 DEF Back, Good, Shaped
<1>10. k >= 1 => g[Packed] = d[Packed]
  BY PathsCover, <1>5, <1>9 DEF Back, File
<1>11. \A x \in {Config, Packed, HeadFile, Log(None)} : x \in Files /\ (x # f => g[x] = e[x])
  BY <1>2, <1>4, Differ, OverNothing
<1>12. g[HeadFile] = e[HeadFile] \/ (l.cmd = "move" /\ g[HeadFile] = h)
  <2>1. CASE f = HeadFile
    BY <1>7, <1>8, <2>1, Differ, <1>4, <1>9 DEF File
  <2>2. CASE f # HeadFile
    BY <1>11, <2>2
  <2> QED BY <2>1, <2>2
<1>13. k >= 2 => g[HeadFile] = h
  <2>1. CASE l.cmd = "copy"
    <3>1. e[HeadFile] = h
      BY <1>7, <2>1 DEF Followed
    <3> QED BY <1>12, <3>1
  <2>2. CASE l.cmd = "move" /\ k >= 2
    BY <2>2, MovePathsAre, <1>5, <1>9 DEF Back, File
  <2> QED BY <2>1, <2>2
<1>14. ASSUME h \in Names, h # l.dst, l.cmd = "move" => h # l.src
       PROVE  e[HeadFile] = h /\ g[Loose(h)] = d[Loose(h)] /\ HeadValue(e) = HeadValue(d)
  <2>1. e[HeadFile] = h /\ HeadValue(e) = HeadValue(d)
    BY <1>7, <1>14 DEF Followed, TooEarly
  <2>2. Loose(h) \in Files \ Footprint(l)
    <3>1. CASE l.cmd = "move"
      BY <3>1, <1>7, <1>14, Differ DEF Footprint
    <3>2. CASE l.cmd = "copy"
      BY <1>14, <3>2, <1>7, Differ DEF Footprint, Fixable
    <3> QED BY <3>1, <3>2
  <2>3. e[Loose(h)] # Dir /\ d[Loose(h)] # Dir
    BY <1>7, <1>14, <2>1 DEF HeadValue, Value
  <2>4. e[Loose(h)] = d[Loose(h)]
    BY <1>3, <2>2, <2>3 DEF Good, Untouched, File
  <2>5. Loose(h) \in Files \ {f}
    BY <1>2, <2>2
  <2>6. CASE ~Over(Loose(h), f)
    BY <1>4, <2>1, <2>4, <2>5, <2>6
  <2>7. CASE Over(Loose(h), f)
    <3>1. f = Loose(l.src) \/ f = Loose(l.dst)
      <4>1. Loose(h) \in Files
        BY <2>2
      <4>2. f \notin {Config, Packed, HeadFile, Log(None)}
        BY <2>7, <4>1, OverNothing
      <4>3. f # Log(l.src) /\ f # Log(l.dst)
        BY <1>7, <1>14, <2>7, OverIs
      <4> QED BY <1>8, <4>2, <4>3
    <3>2. d[f] = None
      <4>1. CASE f = Loose(l.dst)
        BY <1>7, <1>14, <2>7, <4>1, OverIs
      <4>2. CASE f = Loose(l.src)
        BY <1>2, <2>2, <2>3, <2>7 DEF IsTree
      <4> QED BY <3>1, <4>1, <4>2
    <3>3. File(d, f) = None
      BY <3>2 DEF File
    <3>4. /\ e[Loose(h)] \in {None, Dir} /\ g[Loose(h)] \in {None, Dir}
          /\ g[Loose(h)] = Dir => e[Loose(h)] = Dir
      BY <1>4, <2>2, <2>5, <2>7, <3>3
    <3> QED BY <2>1, <2>3, <2>4, <3>4
  <2> QED BY <2>6, <2>7
<1>15. CASE f \in {Config, Log(None), Log(l.src), Log(l.dst)}
  <2>1. \A n \in Names : g[Loose(n)] = e[Loose(n)]
    <3>1. ASSUME NEW n \in Names PROVE Loose(n) \in Files \ {f} /\ ~Over(Loose(n), f)
      <4>1. Loose(n) \in Files /\ Loose(n) # f
        BY <1>7, <1>15, Differ
      <4> QED BY <1>7, <1>15, <4>1, OverNothing, OverIs
    <3> QED BY <1>4, <3>1
  <2>2. g[HeadFile] = e[HeadFile] /\ g[Packed] = e[Packed]
    BY <1>7, <1>11, <1>15, Differ
  <2>3. HeadValue(g) = HeadValue(e)
    BY <2>1, <2>2, SameHead
  <2>4. Followed(l, g) /\ (TooEarly(l, e) => TooEarly(l, g))
    BY <1>7, <2>1, <2>2 DEF Followed, TooEarly
  <2> QED BY <1>7, <2>3, <2>4
<1>16. ASSUME g[Packed] = d[Packed], g[HeadFile] = h,
              h = l.dst /\ l.cmd = "copy" => g[Loose(h)] = d[Loose(h)]
       PROVE  Followed(l, g) /\ (HeadValue(g) = HeadValue(d) \/ TooEarly(l, g))
  <2>1. Followed(l, g)
    BY <1>7, <1>16 DEF Followed
  <2>2. CASE h \notin Names
    BY <1>16, <2>1, <2>2 DEF HeadValue
  <2>3. CASE h \in Names /\ g[Loose(h)] = d[Loose(h)]
    BY <1>16, <2>1, <2>3, SameHead
  <2>4. CASE h \in Names /\ g[Loose(h)] # d[Loose(h)]
    BY <1>7, <1>14, <1>16, <2>4, <2>1 DEF TooEarly
  <2> QED BY <2>2, <2>3, <2>4
<1>17. CASE f = Packed
  <2>1. \A n \in Names : g[Loose(n)] = e[Loose(n)]
    BY <1>4, <1>17, Differ, OverNothing
  <2>2. g[HeadFile] = e[HeadFile] /\ g[Packed] = d[Packed]
    BY <1>4, <1>9, <1>17, <1>11, Differ DEF File
  <2>3. Followed(l, g) /\ (TooEarly(l, e) => TooEarly(l, g))
    BY <1>7, <2>1, <2>2 DEF Followed, TooEarly
  <2>4. CASE TooEarly(l, e)
    BY <2>3, <2>4
  <2>5. CASE HeadValue(e) = HeadValue(d) /\ e[HeadFile] = l.dst /\ e[Loose(l.dst)] # None
    BY <1>7, <2>1, <2>2, <2>3, <2>5 DEF HeadValue, Value
  <2>6. CASE e[HeadFile] = l.dst /\ e[Loose(l.dst)] = None
    BY <1>7, <2>6, <1>16, <2>1, <2>2 DEF Followed
  <2>7. CASE e[HeadFile] # l.dst
    BY <1>7, <2>7, <1>16, <2>2 DEF Followed
  <2> QED BY <1>7, <2>4, <2>5, <2>6, <2>7
<1>18. CASE f \in {HeadFile, Loose(l.src), Loose(l.dst)}
  <2>1. k >= 2
    <3>1. f # Config /\ f # Packed
      BY <1>7, <1>18, Differ
    <3>2. k # 0 /\ k # 1
      BY <1>8, <3>1
    <3> QED BY <3>2
  <2>2. h = l.dst /\ l.cmd = "copy" => g[Loose(h)] = d[Loose(h)]
    <3>1. SUFFICES ASSUME h = l.dst, l.cmd = "copy" PROVE g[Loose(h)] = d[Loose(h)]
      OBVIOUS
    <3>2. f = Loose(l.dst)
      BY <1>7, <1>8, <1>18, <3>1, Differ
    <3> QED BY <1>4, <1>7, <3>1, <3>2 DEF File
  <2> QED BY <1>10, <1>13, <1>16, <2>1, <2>2
<1> QED BY <1>8, <1>15, <1>17, <1>18

\* When all is back, so is what HEAD leads to.
LEMMA HeadBackDone ==
    ASSUME NEW l, l.cmd \in {"move", "copy"}, NEW e, Back(l, e, Many(l)), HeadBack(l, e)
    PROVE  HeadThere(l, e)
BY DEF Back, Held, Many, HeadThere, HeadBack, TooEarly

-----------------------------------------------------------------------------
(***************************************************************************)
(* The invariant.  A command that runs has writes left that keep what is   *)
(* to be kept; one that is undone has put some of its files back.          *)
(***************************************************************************)
Known(l) ==
    /\ DOMAIN l = {"cmd", "src", "dst", "disk", "how", "whole"}
    /\ l.src \in Names \cup {None} /\ l.dst \in Names \cup {None}
    /\ Shaped(l.disk) /\ IsTree(l.disk)
    /\ Facts(l)

Undoes(l, undo) ==
    \/ undo = <<>>
    \/ l.cmd \in {"move", "copy"} /\ undo = Snapshot(l.disk, Paths(l))

Running(l, d, j) ==
    /\ ~j.undoing
    /\ j.todo \in Seq(Writes) /\ j.todo # <<>>
    /\ Ready(l, d, j.todo)
    /\ HeadThere(l, d)
    /\ Undoes(l, j.undo)

Undoing(l, d, j) ==
    /\ j.undoing
    /\ l.cmd \in {"move", "copy"} /\ j.undo = Snapshot(l.disk, Paths(l))
    /\ HeadBack(l, d)
    /\ \E k \in Nat : /\ k < Many(l) /\ Back(l, d, k)
                      /\ j.todo \in Seq(Writes) /\ Len(j.todo) = Many(l) - k
                      /\ \A i \in 1..(Many(l) - k) : j.todo[i] = j.undo[k + i]

Busy(l, d, j) ==
    /\ DOMAIN j = {"cmd", "todo", "undo", "undoing"} /\ j.undoing \in BOOLEAN
    /\ j.cmd = l.cmd /\ l.cmd # "pack" /\ l.how = "running"
    /\ Running(l, d, j) \/ Undoing(l, d, j)

\* How the last command ended.
Ended(l, d) == l.how \in {"restored", "stuck"} /\ Fixable(l) => AllBack(l, d)

BranchInv ==
    /\ Shaped(disk) /\ IsTree(disk)
    /\ left \in [commands : Nat, mishaps : Nat]
    /\ Known(last)
    /\ Survives(last, disk)
    /\ job = Idle \/ Busy(last, disk, job)
    /\ Ended(last, disk)
    /\ HeadSafe(last, disk, job.undoing)
    /\ last.whole => IF job = Idle THEN Told(disk) ELSE Told(last.disk)

LEMMA KnownIs == ASSUME NEW l, Known(l)
                 PROVE  /\ Named(l) /\ Facts(l) /\ Shaped(l.disk) /\ IsTree(l.disk)
                        /\ l.src \in Names \cup {None} /\ l.dst \in Names \cup {None}
BY DEF Known, Named, Facts

\* What is said of a command depends on its name, its branches and the disk it found.
Alike(l, m) == m.cmd = l.cmd /\ m.src = l.src /\ m.dst = l.dst /\ m.disk = l.disk

LEMMA AlikeIs ==
    ASSUME NEW l, NEW m, Alike(l, m), NEW d
    PROVE  /\ Survives(m, d) <=> Survives(l, d)
           /\ Fixable(m) <=> Fixable(l)
           /\ Facts(m) <=> Facts(l)
           /\ AllBack(m, d) <=> AllBack(l, d)
           /\ Calm(m) <=> Calm(l)
           /\ TooEarly(m, d) <=> TooEarly(l, d)
<1>1. m.cmd = l.cmd /\ m.src = l.src /\ m.dst = l.dst /\ m.disk = l.disk
  BY DEF Alike
<1>2. Survives(m, d) <=> Survives(l, d)
  BY <1>1 DEF Survives, RefKept, HistoryKept, ConfigKept
<1>3. Fixable(m) <=> Fixable(l)
  BY <1>1 DEF Fixable
<1>4. Facts(m) <=> Facts(l)
  BY <1>1 DEF Facts
<1>5. AllBack(m, d) <=> AllBack(l, d)
  BY <1>1 DEF AllBack
<1>6. (Calm(m) <=> Calm(l)) /\ (TooEarly(m, d) <=> TooEarly(l, d))
  BY <1>1 DEF Calm, TooEarly
<1> QED BY <1>2, <1>3, <1>4, <1>5, <1>6

\* A command that runs, or is undone, has HEAD where it may be.
LEMMA BusySafe == ASSUME NEW l, NEW d, NEW j, Busy(l, d, j) PROVE HeadSafe(l, d, j.undoing)
BY DEF Busy, Running, Undoing, HeadThere, HeadBack, HeadSafe

LEMMA SnapshotIs ==
    ASSUME NEW l, Shaped(l.disk), Named(l), l.cmd \in {"move", "copy"}
    PROVE  Snapshot(l.disk, Paths(l)) \in Seq(Writes) /\ Len(Snapshot(l.disk, Paths(l))) = Many(l)
<1> DEFINE s == Snapshot(l.disk, Paths(l))
           n == Many(l)
<1>1. n \in Nat /\ DOMAIN Paths(l) = 1..n
  BY PathsCover
<1>2. s = [i \in 1..n |-> s[i]]
  BY <1>1 DEF Snapshot
<1>3. \A i \in 1..n : s[i] \in Writes
  BY Restoring
<1> HIDE DEF s, n
<1>4. s \in [1..n -> Writes]
  BY <1>2, <1>3
<1>5. s \in Seq(Writes) /\ Len(s) = n
  BY <1>1, <1>4
<1> QED BY <1>5 DEF s, n

-----------------------------------------------------------------------------
(***************************************************************************)
(* Commands begin.                                                         *)
(***************************************************************************)
\* A command that begins with a plan that can be carried out.
LEMMA BeginKeeps ==
    ASSUME BranchInv, NEW cmd, NEW src \in Names \cup {None}, NEW dst \in Names \cup {None}, NEW p, NEW undo,
           Begin(cmd, src, dst, p, undo), NEW l, l = last',
           cmd # "pack", Facts(l), p.writes \in Seq(Writes), Ready(l, l.disk, p.writes), Undoes(l, undo)
    PROVE  BranchInv'
<1>1. /\ job = Idle /\ left.commands > 0 /\ p.writes # <<>> /\ disk' = disk
      /\ job' = [cmd |-> cmd, todo |-> p.writes, undo |-> undo, undoing |-> FALSE]
      /\ last' = [cmd |-> cmd, src |-> src, dst |-> dst, disk |-> disk, how |-> "running", whole |-> last.whole]
      /\ left' = [left EXCEPT !.commands = @ - 1]
  BY DEF Begin
<1>2. /\ l.cmd = cmd /\ l.src = src /\ l.dst = dst /\ l.disk = disk /\ l.how = "running"
      /\ DOMAIN l = {"cmd", "src", "dst", "disk", "how", "whole"} /\ (l.whole => last.whole)
  BY <1>1
<1>3. Shaped(disk) /\ IsTree(disk) /\ left \in [commands : Nat, mishaps : Nat]
      /\ (last.whole => Told(disk))
  BY <1>1 DEF BranchInv
<1>4. left' \in [commands : Nat, mishaps : Nat]
  BY <1>1, <1>3
<1>5. Known(l) /\ Survives(l, disk)
  BY <1>2, <1>3, AtFirst DEF Known, Good
<1>6. /\ job'.cmd = cmd /\ job'.todo = p.writes /\ job'.undo = undo /\ ~job'.undoing
      /\ job'.undoing \in BOOLEAN /\ DOMAIN job' = {"cmd", "todo", "undo", "undoing"}
  BY <1>1
<1>7. Busy(l, disk, job')
  BY <1>2, ThereAtFirst, <1>1, <1>6 DEF Busy, Running
<1>8. job' # Idle
  BY <1>1, <1>6 DEF Idle
<1>9. Ended(l, disk)
  BY <1>2 DEF Ended
<1>10. l.whole => Told(l.disk)
  BY <1>2, <1>3
<1>11. HeadSafe(l, disk, job'.undoing)
  BY <1>7, BusySafe
<1> QED BY <1>1, <1>3, <1>4, <1>5, <1>7, <1>8, <1>9, <1>10, <1>11 DEF BranchInv

LEMMA Asked ==
    ASSUME NEW cmd, NEW src, NEW dst, NEW p, NEW undo, Begin(cmd, src, dst, p, undo)
    PROVE  \E l : l = last' /\ l.cmd = cmd /\ l.src = src /\ l.dst = dst /\ l.disk = disk
BY DEF Begin

\* Commands other than the moves and copies of a previous checkout.
LEMMA SimpleKeeps ==
    ASSUME BranchInv, NEW cmd, NEW src \in Names \cup {None}, NEW dst \in Names \cup {None}, NEW p,
           Simple(cmd, src, dst, p), cmd \notin {"move", "copy", "pack"}, cmd = "delete" => dst = None,
           \A l : l.cmd = cmd /\ l.src = src /\ l.dst = dst /\ l.disk = disk => Proper(l, p)
    PROVE  BranchInv'
BY Asked, PlanReady, BeginKeeps DEF Simple, Facts, Undoes

LEMMA CommitKeeps == ASSUME BranchInv, NEW oid \in Oids, Commit(oid) PROVE BranchInv'
<1> DEFINE p == IF disk[HeadFile] \in Names THEN SetBranch(Plan(disk), disk[HeadFile], oid)
                ELSE SetHead(Plan(disk), oid, Note)
<1>1. Simple("commit", None, None, p)
  BY DEF Commit
<1>2. ASSUME NEW l, l.cmd = "commit", l.disk = disk PROVE Proper(l, p)
  BY <1>2, CommitPlan DEF BranchInv
<1> HIDE DEF p
<1> QED BY <1>1, <1>2, SimpleKeeps

LEMMA CreateKeeps == ASSUME BranchInv, NEW n \in Names, NEW oid \in Oids, Create(n, oid) PROVE BranchInv'
<1> DEFINE p == SetHead(SetBranch(Plan(disk), n, oid), n, Moving(disk, n))
<1>1. Simple("create", None, n, p)
  BY DEF Create
<1>2. ASSUME NEW l, l.cmd = "create", l.disk = disk PROVE Proper(l, p)
  BY <1>2, CreatePlan DEF BranchInv
<1> HIDE DEF p
<1> QED BY <1>1, <1>2, SimpleKeeps

LEMMA RenameKeeps == ASSUME BranchInv, NEW old \in Names, NEW new \in Names, Rename(old, new) PROVE BranchInv'
<1> DEFINE p == MoveHead(SetBranch(Plan(disk), new, Value(disk, old)), old, new)
<1>1. Simple("rename", old, new, p) /\ Exists(disk, old) /\ Value(disk, new) = None
  BY DEF Rename
<1>2. ASSUME NEW l, l.cmd = "rename", l.src = old, l.dst = new, l.disk = disk PROVE Proper(l, p)
  BY <1>1, <1>2, RenamePlan DEF BranchInv
<1> HIDE DEF p
<1> QED BY <1>1, <1>2, SimpleKeeps

LEMMA CreateFromKeeps == ASSUME BranchInv, NEW n \in Names, NEW k, CreateFrom(n, k) PROVE BranchInv'
<1> DEFINE oid == Resolved(Expand(disk, k))
           p == SetBranch(Plan(disk), n, oid)
<1>1. Simple("create from", None, n, p) /\ oid \in Oids /\ Readable(disk, n) /\ (Exists(disk, n) => disk[HeadFile] # n)
  BY DEF CreateFrom
<1> HIDE DEF oid
<1>2. ASSUME NEW l, l.cmd = "create from", l.dst = n, l.disk = disk PROVE Proper(l, p)
  BY <1>1, <1>2, CreateFromPlan DEF BranchInv
<1> HIDE DEF p
<1> QED BY <1>1, <1>2, SimpleKeeps

\* HEAD brought elsewhere.
LEMMA SetHeadKeeps ==
    ASSUME BranchInv, NEW cmd \in {"checkout", "detach", "orphan"}, NEW to \in Names \cup Oids, NEW msg \in Messages,
           Simple(cmd, None, None, SetHead(Plan(disk), to, msg))
    PROVE  BranchInv'
<1> DEFINE p == SetHead(Plan(disk), to, msg)
<1>1. Simple(cmd, None, None, p) /\ cmd \notin {"move", "copy", "pack"}
  OBVIOUS
<1>2. ASSUME NEW l, l.cmd = cmd, l.disk = disk PROVE Proper(l, p)
  BY <1>2, CheckoutPlan DEF BranchInv
<1> HIDE DEF p
<1> QED BY <1>1, <1>2, SimpleKeeps

LEMMA CheckoutKeeps == ASSUME BranchInv, NEW x, Checkout(x) PROVE BranchInv'
BY AMessage, SetHeadKeeps DEF Checkout, BranchInv

LEMMA OrphanKeeps == ASSUME BranchInv, NEW n \in Names, Orphan(n) PROVE BranchInv'
BY AMessage, SetHeadKeeps DEF Orphan

\* What @{-N} stands for is a branch or a commit if it can be resolved.
LEMMA ResolvedIs == ASSUME NEW x, Resolved(x) \in Oids PROVE x \in Names \cup Oids
BY DEF Resolved

LEMMA DetachKeeps == ASSUME BranchInv, NEW k, Detach(k) PROVE BranchInv'
<1> DEFINE x == Expand(disk, k)
<1>1. Resolved(x) \in Oids /\ Simple("detach", None, None, SetHead(Plan(disk), Resolved(x), Moving(disk, x)))
  BY DEF Detach
<1> HIDE DEF x
<1>2. x \in Names \cup Oids
  BY <1>1, ResolvedIs
<1>3. Moving(disk, x) \in Messages /\ Resolved(x) \in Names \cup Oids
  BY <1>1, <1>2, AMessage DEF BranchInv
<1> QED BY <1>1, <1>3, SetHeadKeeps

LEMMA DeleteKeeps == ASSUME BranchInv, NEW n \in Names, Delete(n) PROVE BranchInv'
<1> DEFINE p == Plan(disk)
           same == {m \in Branches(disk) \ {n} : Value(disk, m) = Value(disk, n)}
<1>1. Shaped(disk) /\ IsTree(disk)
  BY DEF BranchInv
<1>2. ASSUME NEW l, l.cmd = "delete", l.disk = disk
      PROVE  /\ disk[HeadFile] # n => Proper(l, DeleteBranch(p, n))
             /\ \A to \in Names \cup Oids :
                   /\ disk[HeadFile] = n /\ to # n /\ At(disk, to) = Value(disk, n)
                   => Proper(l, DeleteBranch(SetHead(p, to, Note), n))
  BY <1>1, <1>2, DeletePlan
<1>3. CASE disk[HeadFile] # n
  <2>1. Simple("delete", n, None, DeleteBranch(p, n))
    BY <1>3 DEF Delete
  <2>2. \A l : l.cmd = "delete" /\ l.src = n /\ l.dst = None /\ l.disk = disk => Proper(l, DeleteBranch(p, n))
    BY <1>2, <1>3
  <2> HIDE DEF p
  <2> QED BY <2>1, <2>2, SimpleKeeps
<1>4. CASE disk[HeadFile] = n
  <2>1. ASSUME NEW to \in Names \cup Oids, to # n, At(disk, to) = Value(disk, n),
               Simple("delete", n, None, DeleteBranch(SetHead(p, to, Note), n))
        PROVE  BranchInv'
    <3>1. \A l : l.cmd = "delete" /\ l.src = n /\ l.dst = None /\ l.disk = disk
                 => Proper(l, DeleteBranch(SetHead(p, to, Note), n))
      BY <1>2, <1>4, <2>1
    <3> HIDE DEF p
    <3> QED BY <2>1, <3>1, SimpleKeeps
  <2>2. CASE same # {}
    BY <1>4, <2>2, <2>1 DEF Delete, Branches, At
  <2>3. CASE same = {} /\ Exists(disk, n)
    BY <1>4, <2>3, Distinct, <2>1 DEF Delete, Exists, At
  <2>4. CASE same = {} /\ ~Exists(disk, n)
    <3>1. Readable(disk, n) /\ Simple("delete", n, None, DeleteBranch(p, n))
      BY <1>4, <2>4 DEF Delete
    <3>2. Value(disk, n) = None
      BY <1>1, <2>4, <3>1, Shapes DEF Exists, Readable
    <3>3. DeleteBranch(p, n).writes = <<>>
      BY <3>2, DeleteNothing DEF Plan
    <3> QED BY <3>1, <3>3 DEF Simple, Begin
  <2> QED BY <2>2, <2>3, <2>4
<1> QED BY <1>3, <1>4

LEMMA MovePreviousKeeps ==
    ASSUME BranchInv, NEW k, NEW new \in Names, NEW force \in BOOLEAN, MovePrevious(k, new, force)
    PROVE  BranchInv'
<1> DEFINE old == Expand(disk, k)
           p == Move(disk, old, new, force)
           undo == Snapshot(disk, MovePaths(old, new))
<1>1. /\ old \in Names /\ Exists(disk, old) /\ Readable(disk, new)
      /\ ~force => Value(disk, new) = None
      /\ Exists(disk, new) => disk[HeadFile] # new
      /\ Begin("move", old, new, p, undo)
  BY DEF MovePrevious
<1> HIDE DEF old
<1>2. PICK l : l = last' /\ l.cmd = "move" /\ l.src = old /\ l.dst = new /\ l.disk = disk
  BY <1>1, Asked
<1>3. Shaped(l.disk) /\ IsTree(l.disk)
  BY <1>2 DEF BranchInv
<1>4. Movable(l, force)
  BY <1>1, <1>2 DEF Movable
<1>5. p.writes \in Seq(Writes) /\ Ready(l, l.disk, p.writes)
  BY <1>3, <1>4, MovePlan, <1>2
<1>6. Facts(l)
  BY <1>1, <1>2, Distinct DEF Readable, Value, Exists, HeadValue, Facts
<1>7. Undoes(l, undo)
  BY <1>2 DEF Undoes, Paths
<1> HIDE DEF p, undo
<1> QED BY <1>1, <1>2, <1>5, <1>6, <1>7, BeginKeeps

LEMMA CopyPreviousKeeps ==
    ASSUME BranchInv, NEW k, NEW dest \in Names, NEW force \in BOOLEAN, CopyPrevious(k, dest, force)
    PROVE  BranchInv'
<1> DEFINE source == Expand(disk, k)
           p == Copy(disk, source, dest)
           undo == Snapshot(disk, CopyPaths(dest))
<1>1. /\ source \in Names /\ Exists(disk, source) /\ Readable(disk, dest)
      /\ Exists(disk, dest) /\ dest # source => disk[HeadFile] # dest
      /\ Begin("copy", source, dest, p, undo)
  BY DEF CopyPrevious
<1> HIDE DEF source
<1>2. PICK l : l = last' /\ l.cmd = "copy" /\ l.src = source /\ l.dst = dest /\ l.disk = disk
  BY <1>1, Asked
<1>3. Shaped(l.disk) /\ IsTree(l.disk)
  BY <1>2 DEF BranchInv
<1>4. Proper(l, p)
  BY <1>1, <1>2, <1>3, CopyPlan
<1>6. Facts(l)
  BY <1>1, <1>2, Distinct DEF Readable, Value, Facts, Exists
<1>7. Undoes(l, undo)
  BY <1>2 DEF Undoes, Paths
<1> HIDE DEF p, undo
<1>5. p.writes \in Seq(Writes) /\ Ready(l, l.disk, p.writes)
  BY <1>4, PlanReady
<1> QED BY <1>1, <1>2, <1>5, <1>6, <1>7, BeginKeeps

\* Packing the refs leaves every branch what it was.
LEMMA PackKeeps == ASSUME BranchInv, Pack PROVE BranchInv'
<1> DEFINE e == disk'
           q == [n \in Names |-> IF disk[Loose(n)] \in Oids THEN disk[Loose(n)] ELSE disk[Packed][n]]
<1>1. /\ job = Idle /\ left.commands > 0 /\ job' = job
      /\ e = [f \in Files |-> IF f = Packed THEN q ELSE IF f[1] = "refs" THEN None ELSE disk[f]]
      /\ last' = [cmd |-> "pack", src |-> None, dst |-> None, disk |-> disk, how |-> "done", whole |-> last.whole]
      /\ left' = [left EXCEPT !.commands = @ - 1]
  BY DEF Pack
<1>2. Shaped(disk) /\ IsTree(disk) /\ left \in [commands : Nat, mishaps : Nat] /\ (last.whole => Told(disk))
  BY <1>1 DEF BranchInv
<1>3. left' \in [commands : Nat, mishaps : Nat]
  BY <1>1, <1>2
<1>4. /\ \A n \in Names : Loose(n)[1] = "refs" /\ Log(n)[1] = "logs"
      /\ Config[1] # "refs" /\ HeadFile[1] # "refs" /\ Log(None)[1] # "refs"
  BY DEF Loose, Log, Config, HeadFile
<1>5. q \in [Names -> Oids \cup {None}]
  BY <1>2, Shapes
<1> HIDE DEF q
<1>6. /\ e[Packed] = q /\ e[Config] = disk[Config] /\ e[HeadFile] = disk[HeadFile] /\ e[Log(None)] = disk[Log(None)]
      /\ \A n \in Names : e[Loose(n)] = None /\ e[Log(n)] = disk[Log(n)]
  <2>1. e[Packed] = q /\ e[Config] = disk[Config] /\ e[HeadFile] = disk[HeadFile] /\ e[Log(None)] = disk[Log(None)]
    BY <1>1, <1>4, Differ
  <2>2. ASSUME NEW n \in Names PROVE e[Loose(n)] = None /\ e[Log(n)] = disk[Log(n)]
    BY Differ, <1>1, <1>4
  <2> QED BY <2>1, <2>2
<1>7. e = [f \in Files |-> e[f]]
  BY <1>1
<1> HIDE DEF e
<1>8. Shaped(e)
  <2>1. ASSUME NEW f \in Files PROVE e[f] \in MayHold(f)
    <3>1. disk[f] \in MayHold(f)
      BY <1>2 DEF Shaped
    <3>2. CASE f \in {Config, Packed, HeadFile, Log(None)}
      BY <1>5, <1>6, <3>1, <3>2, Contents
    <3>3. CASE \E n \in Names : f = Loose(n) \/ f = Log(n)
      BY <1>6, <3>1, <3>3, Contents
    <3> QED BY <3>2, <3>3, Kinds
  <2> QED BY <1>7, <2>1 DEF Shaped
<1>9. IsTree(e)
  <2>1. SUFFICES ASSUME NEW f \in Files, NEW g \in Files, Over(f, g), e[g] # None PROVE e[f] = Dir
    BY DEF IsTree
  <2>2. PICK m, n \in Names : (f = Loose(m) /\ g = Loose(n)) \/ (f = Log(m) /\ g = Log(n))
    <3>1. \E m, n \in Names : /\ <<n, m>> \in Under
                             /\ \/ f = Loose(m) /\ g = Loose(n)
                                \/ f = Log(m) /\ g = Log(n)
      BY <2>1, OverNames
    <3> QED BY <3>1
  <2>3. f = Log(m) /\ g = Log(n)
    BY <1>6, <2>1, <2>2
  <2>4. disk[f] = Dir
    BY <1>2, <1>6, <2>1, <2>3 DEF IsTree
  <2> QED BY <1>6, <2>3, <2>4
<1>10. ASSUME NEW n \in Names PROVE Stored(e, n) = Stored(disk, n)
  BY <1>6, Distinct DEF q, Stored
<1>11. last.whole => Told(e)
  <2>1. SUFFICES ASSUME Told(disk) PROVE Told(e)
    BY <1>2
  <2>2. /\ History(e, None) = History(disk, None)
        /\ \A n \in Names : History(e, n) = History(disk, n)
    BY <1>6 DEF History
  <2>3. StoredHead(e) = StoredHead(disk)
    BY <1>6, <1>10 DEF StoredHead
  <2> QED BY <1>10, <2>1, <2>2, <2>3 DEF Told, Tells, Links, Shown, Selected
<1>12. HeadValue(disk) \in Oids => HeadValue(e) = HeadValue(disk)
  <2>1. SUFFICES ASSUME HeadValue(disk) \in Oids PROVE HeadValue(e) = HeadValue(disk)
    OBVIOUS
  <2>2. CASE disk[HeadFile] \in Names
    <3>1. PICK n \in Names : n = disk[HeadFile]
      BY <2>2
    <3>2. Value(disk, n) \in Oids /\ None \notin Oids
      BY <2>1, <3>1, Distinct DEF HeadValue
    <3>3. q[n] = Value(disk, n)
      BY <3>2 DEF q, Value
    <3> QED BY <1>6, <3>1, <3>2, <3>3 DEF HeadValue, Value
  <2>3. CASE disk[HeadFile] \notin Names
    BY <1>6, <2>3 DEF HeadValue
  <2> QED BY <2>2, <2>3
<1>14. PICK l : l = last'
  OBVIOUS
<1>15. /\ l.cmd = "pack" /\ l.src = None /\ l.dst = None /\ l.disk = disk /\ l.how = "done"
       /\ (l.whole => last.whole) /\ DOMAIN l = {"cmd", "src", "dst", "disk", "how", "whole"}
  BY <1>1, <1>14
<1>16. Known(l) /\ Survives(l, e) /\ Ended(l, e)
  BY <1>2, <1>15 DEF Known, Facts, Survives, Ended
<1>17. l.whole => Told(e)
  BY <1>11, <1>15
<1>13. HeadSafe(l, e, job.undoing)
  BY <1>12, <1>15 DEF HeadSafe, Calm
<1> QED BY <1>1, <1>3, <1>8, <1>9, <1>13, <1>14, <1>16, <1>17 DEF BranchInv, e

-----------------------------------------------------------------------------
(***************************************************************************)
(* Commands go on and end.                                                 *)
(***************************************************************************)
LEMMA FinishIs ==
    ASSUME Known(last), NEW how, Finish(how), NEW l, l = last'
    PROVE  /\ job' = Idle /\ l.how = how
           /\ Alike(last, l) /\ DOMAIN l = DOMAIN last
           /\ l.whole => last.whole /\ (how = "done" \/ (how = "restored" /\ last.cmd = "move"))
BY DEF Finish, Known, Alike

\* A command that ends.
LEMMA EndKeeps ==
    ASSUME BranchInv, NEW how, Finish(how), left' \in [commands : Nat, mishaps : Nat],
           Shaped(disk'), IsTree(disk'), Survives(last, disk'),
           how \in {"restored", "stuck"} /\ Fixable(last) => AllBack(last, disk'),
           HeadThere(last, disk') \/ (HeadSafe(last, disk', TRUE) /\ how \in {"killed", "stuck"}),
           last.whole /\ (how = "done" \/ (how = "restored" /\ last.cmd = "move")) => Told(disk')
    PROVE  BranchInv'
BY FinishIs, AlikeIs DEF BranchInv, Known, Alike, Ended, HeadSafe, HeadThere, Idle

\* A command that goes on.
LEMMA OnKeeps ==
    ASSUME BranchInv, UNCHANGED last, left' \in [commands : Nat, mishaps : Nat], job # Idle,
           Shaped(disk'), IsTree(disk'), Survives(last, disk'), Busy(last, disk', job'), job' # Idle
    PROVE  BranchInv'
BY BusySafe DEF BranchInv, Ended, Busy

LEMMA WriteKeeps == ASSUME BranchInv, Write PROVE BranchInv'
<1> DEFINE w == job.todo[1]
           e == After(disk, w)
           rest == Tail(job.todo)
<1>1. /\ job.todo # <<>> /\ ~job.undoing /\ ~Raises(disk, w) /\ disk' = e /\ left' = left
      /\ Len(job.todo) = 1 => Finish("done")
      /\ Len(job.todo) # 1 => job' = [job EXCEPT !.todo = rest] /\ UNCHANGED last
  BY DEF Write
<1>2. job # Idle
  BY <1>1 DEF Idle
<1>3. /\ Known(last) /\ Busy(last, disk, job) /\ left \in [commands : Nat, mishaps : Nat]
      /\ (last.whole => Told(last.disk))
  BY <1>2 DEF BranchInv
<1>4. /\ job.todo \in Seq(Writes) /\ Ready(last, disk, job.todo) /\ Undoes(last, job.undo)
      /\ DOMAIN job = {"cmd", "todo", "undo", "undoing"} /\ job.undoing \in BOOLEAN
      /\ job.cmd = last.cmd /\ last.cmd # "pack" /\ last.how = "running"
  BY <1>1, <1>3 DEF Busy, Running, Undoing
<1>5. HeadFixed(last, disk, e) /\ Ready(last, e, rest)
  BY <1>1, <1>4, ReadyStep
<1>11. HeadThere(last, e)
  BY <1>1, <1>3, <1>4, <1>5, KnownIs, ThereStep DEF Busy, Running, Undoing
<1>6. rest \in Seq(Writes) /\ (Len(job.todo) = 1 <=> rest = <<>>)
  <2>1. Len(job.todo) \in Nat /\ Len(rest) = Len(job.todo) - 1 /\ rest \in Seq(Writes)
    BY <1>1, <1>4
  <2> HIDE DEF rest
  <2>2. Len(rest) = 0 <=> rest = <<>>
    BY <2>1, EmptySeq
  <2> QED BY <2>1, <2>2
<1> HIDE DEF w, e, rest
<1>7. Good(last, e) /\ (rest = <<>> => Ends(last, e))
  BY <1>5, <1>6, ReadyIs
<1>8. Shaped(e) /\ IsTree(e) /\ Survives(last, e)
  BY <1>7 DEF Good
<1>9. CASE Len(job.todo) = 1
  <2>1. Finish("done")
    BY <1>1, <1>9
  <2>2. last.whole => Told(e)
    BY <1>3, <1>6, <1>7, <1>9 DEF Ends
  <2> QED BY <1>1, <1>3, <1>8, <1>11, <2>1, <2>2, EndKeeps
<1>10. CASE Len(job.todo) # 1
  <2>1. UNCHANGED last /\ job' = [job EXCEPT !.todo = rest]
    BY <1>1, <1>10
  <2>2. /\ job'.todo = rest /\ job'.undo = job.undo /\ job'.cmd = job.cmd /\ job'.undoing = job.undoing
        /\ DOMAIN job' = {"cmd", "todo", "undo", "undoing"}
    BY <1>4, <2>1
  <2>3. job' # Idle
    BY <1>6, <1>10, <2>2 DEF Idle
  <2>4. Running(last, e, job')
    BY <1>1, <1>4, <1>5, <1>6, <1>10, <1>11, <2>2 DEF Running
  <2>5. Busy(last, e, job')
    BY <1>4, <2>2, <2>4 DEF Busy
  <2> QED BY <1>1, <1>2, <1>3, <1>8, <2>1, <2>3, <2>5, OnKeeps
<1> QED BY <1>9, <1>10

LEMMA FailKeeps == ASSUME BranchInv, Fail PROVE BranchInv'
<1>1. /\ job.todo # <<>> /\ ~job.undoing /\ disk' = disk
      /\ left' = left \/ (left.mishaps > 0 /\ left' = [left EXCEPT !.mishaps = @ - 1])
      /\ job.undo = <<>> => Finish("raised")
      /\ job.undo # <<>> => job' = [job EXCEPT !.todo = job.undo, !.undoing = TRUE] /\ UNCHANGED last
  BY DEF Fail
<1>2. job # Idle
  BY <1>1 DEF Idle
<1>3. /\ Known(last) /\ Busy(last, disk, job) /\ left \in [commands : Nat, mishaps : Nat]
      /\ Shaped(disk) /\ IsTree(disk) /\ Survives(last, disk)
  BY <1>2 DEF BranchInv
<1>4. /\ job.todo \in Seq(Writes) /\ Ready(last, disk, job.todo) /\ Undoes(last, job.undo)
      /\ DOMAIN job = {"cmd", "todo", "undo", "undoing"} /\ job.undoing \in BOOLEAN
      /\ job.cmd = last.cmd /\ last.cmd # "pack" /\ last.how = "running"
  BY <1>1, <1>3 DEF Busy, Running, Undoing
<1>5. left' \in [commands : Nat, mishaps : Nat]
  BY <1>1, <1>3
<1>8. HeadThere(last, disk)
  BY <1>1, <1>3 DEF Busy, Running, Undoing
<1>6. CASE job.undo = <<>>
  BY <1>1, <1>6, <1>3, <1>5, <1>8, EndKeeps
<1>7. CASE job.undo # <<>>
  <2>1. UNCHANGED last /\ job' = [job EXCEPT !.todo = job.undo, !.undoing = TRUE]
    BY <1>1, <1>7
  <2>2. /\ job'.todo = job.undo /\ job'.undo = job.undo /\ job'.cmd = job.cmd /\ job'.undoing
        /\ job'.undoing \in BOOLEAN /\ DOMAIN job' = {"cmd", "todo", "undo", "undoing"}
    BY <1>4, <2>1
  <2>3. last.cmd \in {"move", "copy"} /\ job.undo = Snapshot(last.disk, Paths(last))
    BY <1>4, <1>7 DEF Undoes
  <2>4. Named(last) /\ Shaped(last.disk)
    BY <1>3, KnownIs
  <2>5. job.undo \in Seq(Writes) /\ Len(job.undo) = Many(last) /\ Many(last) \in Nat /\ Many(last) >= 4
    BY <2>3, <2>4, SnapshotIs, PathsCover
  <2>6. Back(last, disk, 0)
    BY <1>4, ReadyIs DEF Back
  <2>7. Undoing(last, disk, job')
    <3> DEFINE n == Many(last)
    <3>1. n \in Nat /\ 0 \in Nat /\ 0 < n
      BY <2>5
    <3> HIDE DEF n
    <3>2. n - 0 = n /\ \A i \in 1..n : 0 + i = i
      BY <3>1
    <3>3. /\ 0 \in Nat /\ 0 < n /\ Back(last, disk, 0) /\ job'.todo \in Seq(Writes) /\ Len(job'.todo) = n - 0
          /\ \A i \in 1..(n - 0) : job'.todo[i] = job'.undo[0 + i]
      BY <2>2, <2>5, <2>6, <3>1, <3>2 DEF n
    <3>4. \E k \in Nat : /\ k < n /\ Back(last, disk, k)
                         /\ job'.todo \in Seq(Writes) /\ Len(job'.todo) = n - k
                         /\ \A i \in 1..(n - k) : job'.todo[i] = job'.undo[k + i]
      BY <3>3
    <3>5. HeadBack(last, disk)
      BY <1>8 DEF HeadThere, HeadBack
    <3> QED BY <2>2, <2>3, <3>4, <3>5 DEF Undoing, n
  <2>8. Busy(last, disk, job')
    BY <1>4, <2>2, <2>7 DEF Busy
  <2>9. job' # Idle
    BY <1>7, <2>2 DEF Idle
  <2> QED BY <1>1, <1>2, <1>3, <1>5, <2>1, <2>8, <2>9, OnKeeps
<1> QED BY <1>6, <1>7

LEMMA CrashKeeps == ASSUME BranchInv, Crash PROVE BranchInv'
<1>1. /\ job # Idle /\ Finish("killed") /\ disk' = disk
      /\ left' = left \/ (left.mishaps > 0 /\ left' = [left EXCEPT !.mishaps = @ - 1])
  <2>1. job # Idle /\ Finish("killed") /\ disk' = disk
    BY DEF Crash
  <2>2. CASE left.mishaps > 0 /\ left' = [left EXCEPT !.mishaps = @ - 1]
    BY <2>1, <2>2
  <2>3. CASE UNCHANGED left
    BY <2>1, <2>3
  <2> QED BY <2>2, <2>3 DEF Crash
<1>2. left \in [commands : Nat, mishaps : Nat] /\ Shaped(disk) /\ IsTree(disk) /\ Survives(last, disk)
  BY DEF BranchInv
<1>3. left' \in [commands : Nat, mishaps : Nat]
  BY <1>1, <1>2
<1>4. HeadSafe(last, disk, TRUE)
  BY DEF BranchInv, HeadSafe
<1> QED BY <1>1, <1>2, <1>3, <1>4, EndKeeps

LEMMA PutBackKeeps == ASSUME BranchInv, PutBack PROVE BranchInv'
<1> DEFINE w == job.todo[1]
           e == After(disk, w)
           rest == Tail(job.todo)
           n == Many(last)
<1>1. /\ job.undoing /\ left' = left
      /\ Blocked(disk, w.at) => Finish("stuck") /\ disk' = disk
      /\ ~Blocked(disk, w.at) => /\ disk' = e
                                 /\ Len(job.todo) = 1 => Finish("restored")
                                 /\ Len(job.todo) # 1 => job' = [job EXCEPT !.todo = rest] /\ UNCHANGED last
  BY DEF PutBack
<1>2. job # Idle
  BY <1>1 DEF Idle
<1>3. /\ Known(last) /\ Busy(last, disk, job) /\ left \in [commands : Nat, mishaps : Nat]
      /\ Shaped(disk) /\ IsTree(disk) /\ Survives(last, disk) /\ (last.whole => Told(last.disk))
  BY <1>2 DEF BranchInv
<1>4. Undoing(last, disk, job)
  BY <1>1, <1>3 DEF Busy, Running
<1>5. /\ DOMAIN job = {"cmd", "todo", "undo", "undoing"} /\ job.undoing \in BOOLEAN
      /\ job.cmd = last.cmd /\ last.cmd # "pack" /\ last.how = "running"
  BY <1>3 DEF Busy
<1>6. last.cmd \in {"move", "copy"} /\ job.undo = Snapshot(last.disk, Paths(last))
  BY <1>4 DEF Undoing
<1>7. PICK k \in Nat : /\ k < n /\ Back(last, disk, k)
                       /\ job.todo \in Seq(Writes) /\ Len(job.todo) = n - k
                       /\ \A i \in 1..(n - k) : job.todo[i] = job.undo[k + i]
  BY <1>4 DEF Undoing
<1>8. Named(last) /\ Facts(last) /\ Shaped(last.disk) /\ IsTree(last.disk)
  BY <1>3, KnownIs
<1>9. n \in Nat
  BY <1>6, <1>8, PathsCover
<1> HIDE DEF n
<1>10. /\ 1 \in 1..(n - k) /\ Len(rest) = n - (k + 1) /\ rest \in Seq(Writes)
       /\ \A i \in 1..(n - (k + 1)) : rest[i] = job.todo[i + 1]
  BY <1>7, <1>9
<1>11. w = Snapshot(last.disk, Paths(last))[k + 1]
  BY <1>6, <1>7, <1>10
<1>12. \A i \in 1..(n - (k + 1)) : rest[i] = job.undo[(k + 1) + i]
  BY <1>7, <1>9, <1>10
<1> HIDE DEF w, e, rest
<1>13. HeadBack(last, disk)
  BY <1>4 DEF Undoing
<1>14. CASE Blocked(disk, w.at)
  <2>1. Finish("stuck") /\ disk' = disk
    BY <1>1, <1>14
  <2>2. Fixable(last) => AllBack(last, disk)
    BY <1>6, <1>7, <1>8, <1>11, <1>14, StuckIs DEF n
  <2>3. HeadSafe(last, disk, TRUE)
    BY <1>13 DEF HeadBack, HeadSafe
  <2> QED BY <1>1, <1>3, <2>1, <2>2, <2>3, EndKeeps
<1>15. CASE ~Blocked(disk, w.at)
  <2>1. Back(last, After(disk, w), k + 1)
    BY <1>6, <1>7, <1>8, <1>11, <1>15, BackStep DEF n
  <2>2. Back(last, e, k + 1)
    BY <2>1 DEF e
  <2>6. HeadBack(last, e)
    <3>1. HeadBack(last, After(disk, w))
      BY <1>6, <1>7, <1>8, <1>11, <1>13, <1>15, <2>1, BackHead DEF n
    <3> QED BY <3>1 DEF e
  <2>3. Shaped(e) /\ IsTree(e) /\ Survives(last, e) /\ disk' = e
    BY <1>1, <1>15, <2>2 DEF Back, Good
  <2>4. CASE Len(job.todo) = 1
    <3>1. Finish("restored") /\ k + 1 = n
      BY <1>1, <1>15, <2>4, <1>7, <1>9
    <3>2. Back(last, e, n)
      BY <2>2, <3>1
    <3>3. last.cmd = "move" \/ Fixable(last) => AllBack(last, e)
      BY <1>6, <1>8, <3>2, BackDone DEF n
    <3>4. last.whole /\ last.cmd = "move" => Told(e)
      BY <1>3, <1>8, <2>3, <3>3, AllBackTold
    <3>5. HeadThere(last, e)
      BY <1>6, <2>6, <3>2, HeadBackDone DEF n
    <3> QED BY <1>1, <1>3, <2>3, <3>1, <3>3, <3>4, <3>5, EndKeeps
  <2>5. CASE Len(job.todo) # 1
    <3>1. UNCHANGED last /\ job' = [job EXCEPT !.todo = rest]
      BY <1>1, <1>15, <2>5
    <3>2. /\ job'.todo = rest /\ job'.undo = job.undo /\ job'.cmd = job.cmd /\ job'.undoing
          /\ job'.undoing \in BOOLEAN /\ DOMAIN job' = {"cmd", "todo", "undo", "undoing"}
      BY <1>1, <1>5, <3>1
    <3>3. k + 1 \in Nat /\ k + 1 < n
      BY <1>7, <1>9, <2>5
    <3>4. Undoing(last, e, job')
      <4>1. \E j \in Nat : /\ j < n /\ Back(last, e, j)
                           /\ job'.todo \in Seq(Writes) /\ Len(job'.todo) = n - j
                           /\ \A i \in 1..(n - j) : job'.todo[i] = job'.undo[j + i]
        BY <1>10, <1>12, <2>2, <3>2, <3>3
      <4> QED BY <1>6, <2>6, <3>2, <4>1 DEF Undoing, n
    <3>5. Busy(last, e, job')
      BY <1>5, <3>2, <3>4 DEF Busy
    <3>6. job' # Idle
      BY <3>2 DEF Idle
    <3> QED BY <1>1, <1>2, <1>3, <2>3, <3>1, <3>5, <3>6, OnKeeps
  <2> QED BY <2>4, <2>5
<1> QED BY <1>14, <1>15

LEMMA PauseKeeps == ASSUME BranchInv, UNCHANGED vars PROVE BranchInv'
BY DEF vars, BranchInv

\* The invariant is inductive.
LEMMA StepKeeps == ASSUME BranchInv, [Next]_vars PROVE BranchInv'
<1>1. CASE UNCHANGED vars
  BY <1>1, PauseKeeps
<1>2. CASE \E oid \in Oids : Commit(oid)
  BY <1>2, CommitKeeps
<1>3. CASE \E n \in Names, oid \in Oids : Create(n, oid)
  BY <1>3, CreateKeeps
<1>4. CASE \E old, new \in Names : Rename(old, new)
  BY <1>4, RenameKeeps
<1>5. CASE \E n \in Names : Delete(n) \/ Orphan(n)
  BY <1>5, DeleteKeeps, OrphanKeeps
<1>6. CASE \E n \in Names, k \in Selectors : CreateFrom(n, k)
  BY <1>6, CreateFromKeeps
<1>7. CASE \E x \in Names \cup Oids : Checkout(x)
  BY <1>7, CheckoutKeeps
<1>8. CASE \E k \in Selectors : Detach(k)
  BY <1>8, DetachKeeps
<1>9. CASE \E n \in Names, k \in Selectors, force \in BOOLEAN : MovePrevious(k, n, force) \/ CopyPrevious(k, n, force)
  BY <1>9, MovePreviousKeeps, CopyPreviousKeeps
<1>10. CASE Pack
  BY <1>10, PackKeeps
<1>11. CASE Write \/ Fail \/ PutBack \/ Crash
  BY <1>11, WriteKeeps, FailKeeps, PutBackKeeps, CrashKeeps
<1> QED
  BY <1>1, <1>2, <1>3, <1>4, <1>5, <1>6, <1>7, <1>8, <1>9, <1>10, <1>11, Zenon DEF Next

LEMMA InitKeeps == ASSUME Init PROVE BranchInv
<1>1. /\ disk \in Starts /\ job = Idle
      /\ last = [cmd |-> "none", src |-> None, dst |-> None, disk |-> disk, how |-> "done", whole |-> TRUE]
      /\ left = [commands |-> MaxCommands, mishaps |-> MaxMishaps]
  BY DEF Init
<1>2. Shaped(disk) /\ IsTree(disk) /\ Told(disk)
  BY <1>1, StartsAreDisks, StartsTell
<1>3. left \in [commands : Nat, mishaps : Nat]
  BY <1>1, Bounds
<1>4. /\ last.cmd = "none" /\ last.src = None /\ last.dst = None /\ last.disk = disk /\ last.how = "done"
      /\ DOMAIN last = {"cmd", "src", "dst", "disk", "how", "whole"}
  BY <1>1
<1>5. Known(last) /\ Survives(last, disk) /\ Ended(last, disk) /\ HeadSafe(last, disk, job.undoing)
  BY <1>2, <1>4 DEF Known, Facts, Survives, Ended, HeadSafe, Calm
<1> QED BY <1>1, <1>2, <1>3, <1>5 DEF BranchInv

LEMMA AllKeep == Spec => []BranchInv
<1>1. Init => BranchInv
  BY InitKeeps
<1>2. BranchInv /\ [Next]_vars => BranchInv'
  BY StepKeeps
<1> QED BY <1>1, <1>2, PTL DEF Spec

-----------------------------------------------------------------------------
(***************************************************************************)
(* The theorems.                                                           *)
(***************************************************************************)
LEMMA WritesAre == ASSUME NEW w \in Writes PROVE IsWrite(w)
BY DEF Writes, IsWrite

LEMMA TypesOfInv == ASSUME BranchInv PROVE TypeOK
<1>1. Known(last) /\ Shaped(disk) /\ IsTree(disk) /\ left \in [commands : Nat, mishaps : Nat]
  BY DEF BranchInv
<1>2. /\ DOMAIN job = {"cmd", "todo", "undo", "undoing"} /\ job.undoing \in BOOLEAN
      /\ job.todo \in Seq(Writes) /\ job.undo \in Seq(Writes)
  <2>1. CASE job = Idle
    BY <2>1 DEF Idle
  <2>2. CASE Busy(last, disk, job)
    <3>1. DOMAIN job = {"cmd", "todo", "undo", "undoing"} /\ job.undoing \in BOOLEAN
      BY <2>2 DEF Busy
    <3>2. job.todo \in Seq(Writes)
      BY <2>2 DEF Busy, Running, Undoing
    <3>3. job.undo = <<>> \/ (last.cmd \in {"move", "copy"} /\ job.undo = Snapshot(last.disk, Paths(last)))
      BY <2>2 DEF Busy, Running, Undoing, Undoes
    <3>4. Named(last) /\ Shaped(last.disk)
      BY <1>1, KnownIs
    <3>5. last.cmd \in {"move", "copy"} => Snapshot(last.disk, Paths(last)) \in Seq(Writes)
      BY <3>4, SnapshotIs
    <3>6. job.undo \in Seq(Writes)
      BY EmptySeq, <3>3, <3>5
    <3> QED BY <3>1, <3>2, <3>6
  <2> QED BY <2>1, <2>2 DEF BranchInv
<1>3. \A s \in Seq(Writes) : \A i \in 1..Len(s) : s[i] \in Writes
  OBVIOUS
<1>4. /\ \A i \in 1..Len(job.todo) : IsWrite(job.todo[i])
      /\ \A i \in 1..Len(job.undo) : IsWrite(job.undo[i])
  BY <1>2, <1>3, WritesAre
<1> QED BY <1>1, <1>2, <1>4 DEF TypeOK, Known

\* Whatever commands are given, and wherever their writes fail or are killed, every path holds what
\* such a path may hold, and what lies above something is a directory.
THEOREM TypeCorrect == Spec => []TypeOK
BY AllKeep, TypesOfInv, PTL

LEMMA SurvivesIs == ASSUME BranchInv PROVE SourceSurvives
<1>1. CASE last.cmd # "move"
  BY <1>1 DEF SourceSurvives
<1>2. CASE last.cmd = "move"
  <2>1. Known(last) /\ RefKept(last, disk) /\ HistoryKept(last, disk) /\ ConfigKept(last, disk)
    BY <1>2 DEF BranchInv, Survives
  <2>2. last.src \in Names /\ last.dst \in Names /\ Value(last.disk, last.src) \in Oids /\ None \notin Oids
    BY <1>2, <2>1, KnownIs, Distinct DEF Facts
  <2>3. \E n \in {last.src, last.dst} : Value(disk, n) = Value(last.disk, last.src)
    BY <2>2, <2>1 DEF Value, RefKept
  <2>4. \E n \in {last.src, last.dst} : IsPrefix(History(last.disk, last.src), History(disk, n))
    <3>1. History(last.disk, last.src) \in Seq(Records)
      BY <2>1, <2>2, KnownIs, Shapes
    <3>2. IsPrefix(History(last.disk, last.src), History(last.disk, last.src))
      BY <3>1 DEF IsPrefix
    <3>3. CASE File(disk, Log(last.src)) = File(last.disk, Log(last.src))
      BY <3>3, Distinct, <3>2 DEF File, History
    <3>4. CASE IsPrefix(History(last.disk, last.src), History(disk, last.dst))
      BY <3>4
    <3> QED BY <2>1, <3>3, <3>4 DEF HistoryKept
  <2>5. last.disk[Config][last.src] # None => \E n \in {last.src, last.dst} : disk[Config][n] # None
    BY <2>1 DEF ConfigKept
  <2> QED BY <2>3, <2>4, <2>5 DEF SourceSurvives
<1> QED BY <1>1, <1>2

\* A branch that is moved is never lost: before, between and after the writes of branch -m, while
\* they are undone and when the command is killed, one of its names has its commit, one its history
\* and one its config.
THEOREM SourceAlwaysSurvives == Spec => []SourceSurvives
BY AllKeep, SurvivesIs, PTL

LEMMA RestoresIs == ASSUME BranchInv PROVE FailureRestores
BY AllBackSame DEF Restorable, Fixable, Apart, BranchInv, FailureRestores, Ended

\* A branch -m or -c of a previous checkout that fails, at whatever write, leaves every file as it
\* found it, unless a file lies where the source's ref or log would need a directory, the two
\* branches lie one beneath the other, or a copy went to the branch HEAD waits on.
THEOREM FailuresAreUndone == Spec => []FailureRestores
BY AllKeep, RestoresIs, PTL

\* Between commands none of which was left half done the logs end with what the refs and HEAD are,
\* and each of their records starts from what the one before it led to.
THEOREM LogsAreTold == Spec => []LogsTell
<1>1. BranchInv => LogsTell
  BY DEF BranchInv, LogsTell
<1> QED BY <1>1, AllKeep, PTL

LEMMA HeadKeepsIs == ASSUME BranchInv PROVE HeadKeeps
BY DEF BranchInv, HeadKeeps, Steady, BackTooEarly, HeadSafe, Calm, TooEarly

\* From before its first write, and while its writes are undone, a command that is not about HEAD,
\* packing the refs among them, leaves HEAD on the commit it found, however it ends; but for a move
\* of the branch HEAD is on that is undone: once HEAD is back on the old name, and until the ref of
\* that name is back too, or for good if the rollback is killed or stops there, it may lead elsewhere.
THEOREM HeadIsKept == Spec => []HeadKeeps
BY AllKeep, HeadKeepsIs, PTL
=============================================================================

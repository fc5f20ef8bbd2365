----------------------------- MODULE MergeLines -----------------------------
(***************************************************************************)
(* The three-way merge of texts, in the two forms the program has it:      *)
(* merge_file_data, which backs merge-file, and _merge_lines_three_way,    *)
(* which every porcelain merge and merge-tree use. A text is a sequence of *)
(* lines, no line occurring twice in it; a line that two texts share is    *)
(* the same line, in the same order.                                       *)
(***************************************************************************)
EXTENDS Naturals, Sequences, SequencesExt

\* What stands for the conflict markers in a merged text.
Ours == "<<<"
Base == "|||"
Mid == "==="
Theirs == ">>>"
Markers == {Ours, Base, Mid, Theirs}

Lines(text) == {text[i] : i \in DOMAIN text}

\* No line occurs twice, and the lines that both texts have are in the same order in both.
Alike(u, v) == \A i, j \in DOMAIN u, k, l \in DOMAIN v : u[i] = v[k] /\ u[j] = v[l] => (i < j <=> k < l)

\* One more line of base, or its end: what lies between the last line that side has, too, and this
\* one has given way, if side has this one.
WithGap(base, side, r, j) ==
    LET At(i) == IF i = 0 THEN 0 ELSE IF i > Len(base) THEN Len(side) + 1
                 ELSE CHOOSE k \in DOMAIN side : side[k] = base[i]
        edit == [from |-> r.kept, to |-> j - 1, new |-> SubSeq(side, At(r.kept) + 1, At(j) - 1)]
    IN  IF j <= Len(base) /\ base[j] \notin Lines(side) THEN r
        ELSE [kept  |-> j,
              edits |-> IF edit.from = edit.to /\ edit.new = <<>> THEN r.edits ELSE Append(r.edits, edit)]

\* The opcodes of difflib other than "equal": base[from..to) gives way to new.
Edits(base, side) ==
    LET upTo[j \in 0..Len(base) + 1] ==
            IF j = 0 THEN [kept |-> 0, edits |-> <<>>] ELSE WithGap(base, side, upTo[j - 1], j)
    IN  upTo[Len(base) + 1].edits

Slice(base, from, to) == SubSeq(base, from + 1, to)

Least(a, b) == IF a <= b THEN a ELSE b
Most(a, b) == IF a >= b THEN a ELSE b

(***************************************************************************)
(* The walk over the edits of both sides: o and t count those consumed, at *)
(* is the position in the base, out the text so far, marked the conflicts. *)
(***************************************************************************)
Take(base, k, e, side) ==
    [k EXCEPT !.out = @ \o Slice(base, k.at, e.from) \o e.new, !.at = e.to, ![side] = @ + 1]

Overlaps(e, start, end) == e.from < end /\ e.to > start

\* The edits of the side alone (a faulty Render).
RenderEdits(base, edits, start, end) == FoldLeft(LAMBDA text, e : text \o e.new, <<>>, edits)

\* _render_cluster: base[start..end) with the edits of one side applied.
Render(base, edits, start, end) ==
    LET text[i \in 0..Len(edits)] ==
            IF i = 0 THEN <<>>
            ELSE text[i-1] \o Slice(base, IF i = 1 THEN start ELSE edits[i-1].to, edits[i].from)
                 \o edits[i].new
    IN  text[Len(edits)] \o Slice(base, IF edits = <<>> THEN start ELSE edits[Len(edits)].to, end)

\* The cluster c with one more edit that overlaps it; c itself when none does.
Grown(ours, theirs, c) ==
    LET With(e, side) == [c EXCEPT !.start = Least(@, e.from), !.end = Most(@, e.to), ![side] = @ + 1]
    IN  IF c.o < Len(ours) /\ Overlaps(ours[c.o + 1], c.start, c.end) THEN With(ours[c.o + 1], "o")
        ELSE IF c.t < Len(theirs) /\ Overlaps(theirs[c.t + 1], c.start, c.end)
        THEN With(theirs[c.t + 1], "t")
        ELSE c

\* The edits that overlap c, or one that does, transitively.
Cluster(ours, theirs, c) ==
    LET grown[n \in 0..Len(ours) + Len(theirs)] ==
            IF n = 0 THEN c ELSE Grown(ours, theirs, grown[n - 1])
    IN  grown[Len(ours) + Len(theirs)]

Conflict(base, ours, theirs, start, end, style) ==
    <<Ours>> \o ours \o (IF style = "diff3" THEN <<Base>> \o Slice(base, start, end) ELSE <<>>)
    \o <<Mid>> \o theirs \o <<Theirs>>

\* merge-file: the whole cluster, both sides of it rendered in full.
ByCluster(base, ours, theirs, k, style) ==
    LET a == ours[k.o + 1]
        b == theirs[k.t + 1]
        c == Cluster(ours, theirs, [o |-> k.o, t |-> k.t, start |-> Least(a.from, b.from),
                                    end |-> Most(a.to, b.to)])
        left == Render(base, SubSeq(ours, k.o + 1, c.o), c.start, c.end)
        right == Render(base, SubSeq(theirs, k.t + 1, c.t), c.start, c.end)
    IN  [o |-> c.o, t |-> c.t, at |-> c.end, marked |-> k.marked + IF left = right THEN 0 ELSE 1,
         out |-> k.out \o Slice(base, k.at, c.start)
                 \o IF left = right THEN left
                    ELSE Conflict(base, left, right, c.start, c.end, style)]

\* _merge_lines_three_way: the two edits, and of each the new lines only.
ByPair(base, ours, theirs, k, style) ==
    LET a == ours[k.o + 1]
        b == theirs[k.t + 1]
        start == Least(a.from, b.from)
        end == Most(a.to, b.to)
    IN  IF a = b THEN [Take(base, k, a, "o") EXCEPT !.t = @ + 1]
        ELSE [o |-> k.o + 1, t |-> k.t + 1, at |-> end, marked |-> k.marked + 1,
              out |-> k.out \o Slice(base, k.at, start)
                      \o Conflict(base, a.new, b.new, start, end, style)]

Start == [o |-> 0, t |-> 0, at |-> 0, marked |-> 0, out |-> <<>>]

\* One step of the walk, which consumes an edit at least, of one side or of both.
Weave(base, ours, theirs, k, form, style) ==
    LET hasOurs == k.o < Len(ours)
        hasTheirs == k.t < Len(theirs)
        a == ours[k.o + 1]
        b == theirs[k.t + 1]
    IN  CASE ~hasOurs /\ ~hasTheirs -> k
          [] hasOurs /\ (hasTheirs => a.to <= b.from) -> Take(base, k, a, "o")
          [] hasTheirs /\ (hasOurs => b.to <= a.from /\ a.to > b.from) -> Take(base, k, b, "t")
          [] OTHER -> IF form = "merge-file" THEN ByCluster(base, ours, theirs, k, style)
                      ELSE ByPair(base, ours, theirs, k, style)

\* The walk over all edits, and the rest of the base.
WovenEdits(base, ours, theirs, form, style) ==
    LET walk[n \in 0..Len(ours) + Len(theirs)] ==
            IF n = 0 THEN Start ELSE Weave(base, ours, theirs, walk[n - 1], form, style)
        end == walk[Len(ours) + Len(theirs)]
    IN  [text |-> end.out \o Slice(base, end.at, Len(base)), conflicts |-> end.marked]

Woven(form, base, ours, theirs, style) ==
    WovenEdits(base, Edits(base, ours), Edits(base, theirs), form, style)

\* merge_file_data: what one side left alone is the other's.
MergeFile(base, ours, theirs, style) ==
    IF ours = theirs \/ theirs = base THEN [text |-> ours, conflicts |-> 0]
    ELSE IF ours = base THEN [text |-> theirs, conflicts |-> 0]
    ELSE Woven("merge-file", base, ours, theirs, style)

\* _merge_lines_three_way
MergeText(base, ours, theirs) == Woven("merge", base, ours, theirs, "merge")

(***************************************************************************)
(* Reading a text with markers                                             *)
(***************************************************************************)
\* One more line of a text with markers: r.in is whose lines these are, r.text what side has of them.
Read(r, l, side) ==
    CASE l = Ours -> [r EXCEPT !.in = "ours"]
      [] l = Base -> [r EXCEPT !.in = "base"]
      [] l = Mid -> [r EXCEPT !.in = "theirs"]
      [] l = Theirs -> [r EXCEPT !.in = "both"]
      [] OTHER -> IF r.in \in {"both", side} THEN [r EXCEPT !.text = Append(@, l)] ELSE r

\* The text with side taken out of every conflict.
Pick(text, side) ==
    LET read[n \in 0..Len(text)] ==
            IF n = 0 THEN [in |-> "both", text |-> <<>>] ELSE Read(read[n - 1], text[n], side)
    IN  read[Len(text)].text
=============================================================================

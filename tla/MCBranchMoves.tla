--------------------------- MODULE MCBranchMoves ---------------------------
(***************************************************************************)
(* main, a and a/b over two commits.  HEAD is on main, a was checked out   *)
(* before it.  a is loose, or packed, or packed with an older value and    *)
(* loose, its checkout then recorded by an older version.                  *)
(***************************************************************************)
EXTENDS BranchMoves

CONSTANTS main, a, ab, o1, o2, origin

MCUnder == {<<ab, a>>}

Entry(old, new, msg) == [old |-> old, new |-> new, msg |-> msg]

MainLog == <<Entry(None, o1, Note)>>
From(x, y) == [kind |-> "moved", from |-> x, to |-> y]

Visited(legacy) ==
    MainLog \o <<Entry(o1, o1, IF legacy THEN Legacy(a) ELSE From(main, a)),
                 Entry(o1, o2, Note),
                 Entry(o2, o1, IF legacy THEN Legacy(main) ELSE From(a, main))>>

Disk(loose, packed, legacy) ==
    [f \in Files |->
        CASE f = Config -> [n \in Names |-> IF n = a THEN origin ELSE None]
          [] f = Packed -> [n \in Names |-> IF n = a THEN packed ELSE None]
          [] f = HeadFile -> main
          [] f = Log(None) -> Visited(legacy)
          [] f = Loose(main) -> o1
          [] f = Loose(a) -> loose
          [] f = Log(main) -> MainLog
          [] f = Log(a) -> <<Entry(None, o1, Note), Entry(o1, o2, Note)>>
          [] OTHER -> None]

MCStarts == {Disk(o2, None, FALSE), Disk(None, o2, FALSE), Disk(o2, o1, TRUE)}

=============================================================================

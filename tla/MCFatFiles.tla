------------------------------ MODULE MCFatFiles ------------------------------
(***************************************************************************)
(* Images for TLC: six slots and two bytes a cluster, entries below 16.    *)
(***************************************************************************)
EXTENDS FatFiles

End == [kind |-> "end"]
L(name, i) == [kind |-> "long", of |-> name, at |-> i]
S(inode, size) == [kind |-> "short", inode |-> inode, size |-> size]
Dots == <<S(0, 0), S(0, 0)>>   \* "." and "..", which have no long names
Padded(slots) == slots \o [i \in 1 .. (6 - Len(slots)) |-> End]
Bytes(inode, from) == <<<<inode, from + 1>>, <<inode, from + 2>>>>

D(in, name, inode) ==
  [in |-> in, name |-> name, inode |-> inode, dir |-> TRUE, deleted |-> FALSE, legible |-> TRUE]
F(in, name, inode) == [D(in, name, inode) EXCEPT !.dir = FALSE]

\* /f, /a, /b; /a/b, /a/d over two clusters; /a/d/g whose pieces cross a cluster.
Deep ==
  [kind |-> "FAT32", sectors |-> "many", root |-> 2, piecesInARow |-> 2,
   fat |-> (2 :> 5) @@ (3 :> 15) @@ (4 :> 9) @@ (5 :> 15) @@ (6 :> 7) @@ (7 :> 15) @@ (8 :> 15)
           @@ (9 :> 15) @@ (10 :> 11) @@ (11 :> 15) @@ (12 :> 13) @@ (13 :> 15),
   dirs |-> (2 :> <<S(0, 0), L("f", 1), S(3, 1), L("a", 1), S(4, 0), L("b", 1)>>)
            @@ (5 :> Padded(<<S(6, 3)>>))
            @@ (4 :> Dots \o <<L("b", 1), S(8, 2), S(0, 0), L("d", 1)>>)
            @@ (9 :> Padded(<<S(10, 0)>>))
            @@ (10 :> Dots \o <<S(0, 0), S(0, 0), S(0, 0), L("g", 2)>>)
            @@ (11 :> Padded(<<L("g", 1), S(12, 4)>>)),
   bytes |-> (3 :> Bytes(3, 0)) @@ (6 :> Bytes(6, 0)) @@ (7 :> Bytes(6, 2)) @@ (8 :> Bytes(8, 0))
             @@ (12 :> Bytes(12, 0)) @@ (13 :> Bytes(12, 2)),
   tree |-> {F(-1, "f", 3), D(-1, "a", 4), F(-1, "b", 6), F(4, "b", 8), D(4, "d", 10),
             F(10, "g", 12)}]

\* A deleted /a before the live one, /b without a long name, /e which fills its
\* slot, and a piece without an entry before /f.
Odd ==
  [kind |-> "FAT32", sectors |-> "many", root |-> 2, piecesInARow |-> 2,
   fat |-> (2 :> 5) @@ [c \in 3 .. 8 |-> 15],
   dirs |-> (2 :> <<L("g", 1), L("f", 1), S(3, 2), L("a", 1), S(4, 0), L("a", 1)>>)
            @@ (5 :> Padded(<<S(6, 0), S(7, 1), L("e", 1), S(8, 0)>>))
            @@ (4 :> Padded(Dots)) @@ (6 :> Padded(Dots)) @@ (8 :> Padded(Dots)),
   bytes |-> (3 :> Bytes(3, 0)) @@ (7 :> Bytes(7, 0)),
   tree |-> {F(-1, "f", 3), [D(-1, "a", 4) EXCEPT !.deleted = TRUE], D(-1, "a", 6),
             [F(-1, "b", 7) EXCEPT !.legible = FALSE], [D(-1, "e", 8) EXCEPT !.legible = FALSE]}]

\* A FAT16: /f, /a, and /a/b with two clusters.
Small ==
  [kind |-> "FAT16", sectors |-> "few", root |-> 0, piecesInARow |-> 1,
   fat |-> (2 :> 15) @@ (3 :> 15) @@ (4 :> 5) @@ (5 :> 15),
   dirs |-> (1 :> Padded(Padded(<<S(0, 0), L("f", 1), S(2, 2), L("a", 1), S(3, 0)>>)))
            @@ (3 :> Padded(Dots \o <<L("b", 1), S(4, 3)>>)),
   bytes |-> (2 :> Bytes(2, 0)) @@ (4 :> Bytes(4, 0)) @@ (5 :> Bytes(4, 2)),
   tree |-> {F(-1, "f", 2), D(-1, "a", 3), F(3, "b", 4)}]

\* The same with more than a cluster of slots in the root, the same taken for a
\* FAT32 for its size, a full directory, and more pieces in a row than a name has.
Crowded ==
  [Small EXCEPT !.dirs[1] =
     <<S(0, 0), S(0, 0), L("f", 1), S(2, 2), L("a", 1), S(3, 0), End, End, End, End, End, End>>]
Mistaken == [Small EXCEPT !.sectors = "many"]
Full == [Odd EXCEPT !.dirs[4] = <<S(0, 0), S(0, 0), S(0, 0), S(0, 0), S(0, 0), S(0, 0)>>]
Leftovers ==
  [Odd EXCEPT !.dirs[2] = <<L("f", 1), S(3, 2), L("g", 1), L("g", 1), L("a", 1), S(6, 0)>>,
              !.piecesInARow = 3]

MCImages ==
  [Deep |-> Deep, Odd |-> Odd, Small |-> Small, Crowded |-> Crowded, Mistaken |-> Mistaken,
   Full |-> Full, Leftovers |-> Leftovers]

Fat(image) == [kind |-> "fat", image |-> image]
Table(parts) == [kind |-> "mbr", parts |-> parts]
Blank == [kind |-> "blank"]

MCDisks ==
  {<<Fat(i)>> : i \in {"Odd", "Crowded", "Mistaken", "Full", "Leftovers"}} \cup
  {<<Blank>>, <<Fat("Odd"), Table(<<Blank, Table(<<Fat("Small")>>), Fat("Deep")>>)>>,
   <<Table(<<Fat("Deep"), Table(<<Fat("Small"), Blank>>)>>), Blank>>}

\* Paths of up to four tokens, no two names next to each other.
Tokens == {"/", ".", "..", "a", "b", "d"}
MCArgs ==
  {p \in BoundedSeq(Tokens, 4) : \A i \in 1 .. Len(p) - 1 : p[i] = "/" \/ p[i + 1] = "/"}
    \cup {<<"/", "a", "/", "d", "/", "g">>, <<"d", "/", "..", "/", "b">>, <<"e">>, <<"e", "/", ".">>}

MCFont == <<"/", "f">>
MCClientPaths == {<<"/", "b">>, <<"/", "a", "/", "b">>, <<"/", "a", "/", "d", "/", "g">>}
MCPieces == [n \in {"a", "b", "d", "e", "f", "g"} |-> IF n = "g" THEN 2 ELSE 1]
MCDeltas == -1 .. 4
=============================================================================

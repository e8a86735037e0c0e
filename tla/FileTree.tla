------------------------------- MODULE FileTree -------------------------------
(***************************************************************************)
(* What any file system promises: names form a tree, and files are made,   *)
(* edited, removed and moved in it one at a time.                          *)
(***************************************************************************)
EXTENDS Sequences, SequencesExt

CONSTANTS
  Paths,   \* sequences of names, without the root
  Absent   \* what is at a path where nothing is

VARIABLE tree  \* path -> [kind, data], or Absent

IsDir(p) == p = <<>> \/ (p \in Paths /\ tree[p].kind = "dir")
OthersSame(p) == \A q \in Paths \ {p} : tree'[q] = tree[q]

Init == tree = [p \in Paths |-> Absent]

Make(p) ==
  /\ tree[p] = Absent /\ IsDir(Front(p))
  /\ tree'[p].kind \in {"file", "dir"} /\ tree'[p].data = <<>>
  /\ OthersSame(p)

Edit(p) == tree[p].kind = "file" /\ tree'[p].kind = "file" /\ OthersSame(p)

\* With a directory goes what is below it.
Discard(p) ==
  /\ tree[p] # Absent
  /\ tree' = [q \in Paths |-> IF IsPrefix(p, q) THEN Absent ELSE tree[q]]

\* What was at p and below is then at q and below, instead of what was there.
Moved(p, q, r) ==
  LET from == p \o SubSeq(r, Len(q) + 1, Len(r)) IN IF from \in Paths THEN tree[from] ELSE Absent
Move(p, q) ==
  /\ tree[p] # Absent /\ IsDir(Front(q)) /\ ~IsPrefix(p, q)
  /\ tree' = [r \in Paths |-> IF IsPrefix(q, r) THEN Moved(p, q, r)
                              ELSE IF IsPrefix(p, r) THEN Absent ELSE tree[r]]

Next ==
  \/ \E p \in Paths : Make(p) \/ Edit(p) \/ Discard(p)
  \/ \E p, q \in Paths : Move(p, q)

Spec == Init /\ [][Next]_tree
=============================================================================

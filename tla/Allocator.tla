------------------------------ MODULE Allocator ------------------------------
(***************************************************************************)
(* What a heap promises its clients, whatever its data structure: a block  *)
(* it hands out is not the block of anybody else until it is given back.   *)
(***************************************************************************)
EXTENDS Integers

CONSTANTS
  Starts,  \* the addresses a block can start at
  Sizes,   \* the sizes a block can have
  Limit    \* one past the memory that is handed out

VARIABLE live  \* the blocks clients hold, as records [start, size]

Disjoint(r, s) ==
  /\ r.start # s.start
  /\ r.start + r.size <= s.start \/ s.start + s.size <= r.start

Init == live = {}

Alloc ==
  \E start \in Starts, size \in Sizes :
    LET r == [start |-> start, size |-> size] IN
      /\ start + size <= Limit
      /\ \A s \in live : Disjoint(r, s)
      /\ live' = live \cup {r}

Release == \E r \in live : live' = live \ {r}

Next == Alloc \/ Release

Spec == Init /\ [][Next]_live
=============================================================================

----------------------------- MODULE AddressSpace -----------------------------
(***************************************************************************)
(* What platform_map and platform_unmap (x8664/map.cpp) promise: a         *)
(* function from virtual pages to what they are mapped to, changed at one  *)
(* page at a time; unmapping answers with the physical address of what was  *)
(* there, 0 for nothing.                                                   *)
(***************************************************************************)
EXTENDS Integers

CONSTANTS
  Virt,     \* virtual pages
  Targets,  \* what a page may be mapped to: records with an `addr`
  Unmapped  \* what stands for no mapping, with addr 0

VARIABLES
  space,   \* virtual page -> target, or Unmapped
  answer   \* what the last unmapping returned

Init == space \in [Virt -> Targets \cup {Unmapped}] /\ answer = 0

KeepOthers(v) == \A w \in Virt \ {v} : space'[w] = space[w]

Map(v) == space'[v] \in Targets /\ KeepOthers(v) /\ answer' = 0

Unmap(v) == space'[v] = Unmapped /\ KeepOthers(v) /\ answer' = space[v].addr

Next == \E v \in Virt : Map(v) \/ Unmap(v)

Spec == Init /\ [][Next]_<<space, answer>>
=============================================================================

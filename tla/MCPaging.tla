------------------------------- MODULE MCPaging -------------------------------
(***************************************************************************)
(* A small machine for TLC: pages of 4 bytes, tables of 3 slots, a kernel  *)
(* image of two pages, and three device pages that share tables with the   *)
(* image at different depths.                                              *)
(***************************************************************************)
EXTENDS Paging

V(a, b, c, d) == <<a, b, c, d>>
MCImage == {V(1, 0, 0, 0), V(1, 0, 0, 1)}
MCVirt == MCImage \cup {V(1, 0, 0, 2), V(1, 0, 1, 0), V(0, 2, 2, 2)}
MCDevices == {100}

E(offset, size, type) == [offset |-> offset, size |-> size, type |-> type]

\* An entry that EndPtr (28) cuts, an unaligned one, a reserved one, one below,
\* and one too short to hold the page malloc_add_region leaves out.
MCMaps == {
  <<E(0, 20, 1), E(20, 24, 1), E(44, 8, 2), E(53, 11, 1)>>,
  <<E(0, 40, 1), E(40, 8, 2), E(48, 16, 1)>>,
  <<E(40, 24, 1), E(24, 8, 1)>>}
=============================================================================

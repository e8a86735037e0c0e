------------------------------ MODULE MCStarFs ------------------------------
(***************************************************************************)
(* A disk for TLC with four blocks to give away.  Clients write at the     *)
(* start of a file, behind a gap, and across the end of a block.           *)
(***************************************************************************)
EXTENDS StarFs

MCWrites == {[offset |-> 0, size |-> 1], [offset |-> 2, size |-> 1], [offset |-> 8, size |-> 2]}
=============================================================================

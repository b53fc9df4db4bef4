--------------------------- MODULE MCPersistence ---------------------------
(***************************************************************************)
(* Small instances of Persistence for TLC.                                 *)
(***************************************************************************)
EXTENDS Persistence, TLC

\* The regions of a frame are interchangeable.
Symmetry == Permutations(Regions)
=============================================================================

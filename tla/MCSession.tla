----------------------------- MODULE MCSession -----------------------------
(***************************************************************************)
(* Small instances of Session for TLC.                                     *)
(***************************************************************************)
EXTENDS Session, TLC

\* The slots for worker threads are interchangeable.
Symmetry == Permutations(Workers)
=============================================================================

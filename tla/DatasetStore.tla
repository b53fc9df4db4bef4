---------------------------- MODULE DatasetStore ----------------------------
(***************************************************************************)
(* What FITS::deserialise, from_path, serialise and the destructor         *)
(* (src/src/fits.cpp) promise about a dataset over all runs of the server: *)
(* a store without files, blocks, flags or phases.                         *)
(*                                                                         *)
(* A run ends its start-up with the data, all of it and right, or without. *)
(* A run that has the data may leave a commit behind.  From then on every  *)
(* run has the data, whatever becomes of the FITS file and however the     *)
(* runs end.                                                               *)
(***************************************************************************)

VARIABLES
    up,         \* the server has the dataset open
    ready,      \* how the start-up ended: "none" so far, "data" or "nothing"
    committed   \* an earlier run has saved the data

vars == <<up, ready, committed>>

Init ==
    /\ up = FALSE
    /\ ready = "none"
    /\ committed = FALSE

Open ==
    /\ ~ up
    /\ up' = TRUE
    /\ UNCHANGED <<ready, committed>>

Serve ==
    /\ up
    /\ ready = "none"
    /\ \/ ready' = "data"
       \/ ~ committed /\ ready' = "nothing"
    /\ UNCHANGED <<up, committed>>

\* The end of a run, with a commit or, after a crash for instance, without.
Stop ==
    /\ up
    /\ up' = FALSE
    /\ ready' = "none"
    /\ \/ ready = "data" /\ committed' = TRUE
       \/ UNCHANGED committed

Next == Open \/ Serve \/ Stop

Spec == Init /\ [][Next]_vars

=============================================================================

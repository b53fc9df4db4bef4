---------------------------- MODULE MCDownload ----------------------------
(***************************************************************************)
(* Small instances of Download for TLC.                                    *)
(***************************************************************************)
EXTENDS Download

\* With pixels of 2 bytes and units of 4: images smaller and larger than a unit, cubes
\* whose last block is full, short or the only one, one with planes smaller than a
\* chunk, and data of other types whose stream is too short, as long, or too long.
\* The two faults meet on the images and on the smallest cube.
SmallCubes ==
    LET Float(planes, depths, faults) ==
            [plane : planes, depth : depths, bytes : {2}, float : {TRUE}, faults : {faults}]
        Other == [plane : {2}, depth : {3}, bytes : {1, 2, 4}, float : {FALSE}, faults : {{}}]
    IN  Float({1, 3}, {1}, {"memory", "disk"})
        \cup Float({2}, {2}, {"memory", "disk"})
        \cup Float({2}, {4}, {"disk"})
        \cup Float({3}, {4}, {"memory"})
        \cup Float({2}, {5}, {"memory"})
        \cup Float({1}, {6}, {"memory"})
        \cup Other
=============================================================================

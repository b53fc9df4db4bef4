--------------------------- MODULE MCRegionCache ---------------------------
(***************************************************************************)
(* Small instances of RegionCache for TLC.                                 *)
(***************************************************************************)
EXTENDS RegionCache, TLC

\* No restriction on the frames asked for.
AllFrames == Frames

\* Both sides of the boundary between two blocks: a miss on frame 3 also fills
\* frames of the next block, a miss on frame 4 is at the start of that block.
BoundaryFrames == {3, 4}

\* Request threads are interchangeable.
Symmetry == Permutations(Threads)
=============================================================================

--------------------------- MODULE MC_HandleGatherer ---------------------------
(* Model-checking instance of HandleGatherer: two files, offsets 0..2, so  *)
(* a handle reads [0,1), [1,2) or [0,2) of a file.                         *)
EXTENDS HandleGatherer

CONSTANTS r1, r2

\* Ranges and handles only compare resources for equality.
Symmetry == Permutations({r1, r2})

=============================================================================

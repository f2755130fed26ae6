------------------------------ MODULE MC_TocFile ------------------------------
(* Model-checking instance of TocFile: two writers creating one database,  *)
(* configured with different rounding blocks.                              *)
EXTENDS TocFile, TLC

CONSTANTS w1, w2

\* w1 rounds to 2 units, w2 to 4: their INIT records have the same size,
\* their WIPE records do not.
MCBlockOf == (w1 :> 2) @@ (w2 :> 4)

\* Segments are only compared for equality; the writers differ in BlockOf.
Symmetry == Permutations(Segments)

=============================================================================

---------------------------- MODULE MC_TocHandler ----------------------------
(* Model-checking instance of TocHandler: two keys, two segments.          *)
EXTENDS TocHandler, TLC

\* Keys and segments are only compared for equality.
Symmetry == Permutations(Keys) \cup Permutations(Segments)

=============================================================================

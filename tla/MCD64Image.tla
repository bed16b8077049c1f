----------------------------- MODULE MCD64Image -----------------------------
(* Symmetry of the model values of D64Image for TLC. *)
EXTENDS D64Image

Symmetry == Permutations(Channels) \cup Permutations(Names)
=============================================================================

----------------------------- MODULE MCRuntime -----------------------------
(* Small instances of Runtime for TLC.                                     *)
EXTENDS Runtime, TLC

\* Posters are interchangeable: no definition tells them apart.
PosterSymmetry == Permutations(Posters)

=============================================================================

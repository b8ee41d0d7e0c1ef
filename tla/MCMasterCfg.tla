----------------------------- MODULE MCMasterCfg -----------------------------
(* Small instances of MasterCfg for TLC.                                   *)
EXTENDS MasterCfg, TLC

\* Callers are interchangeable: no definition tells them apart.
CallerSymmetry == Permutations(Callers)

=============================================================================

---------------------------- MODULE MCSdoRequest ----------------------------
(* Small instances of SdoRequest for TLC.                                  *)
EXTENDS SdoRequest, TLC

\* Requests are interchangeable, but for those that are canceled.
RequestSymmetry == Permutations(Requests \ Cancelers)

=============================================================================

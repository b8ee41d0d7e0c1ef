---------------------------- MODULE MCCanAdapter ----------------------------
(* A small instance of CanAdapter for TLC.                                 *)
EXTENDS CanAdapter

\* The bus is quiet all the time.
MCStatuses == {[snderrcnt |-> 0, rcverrcnt |-> 0, errors |-> 0]}

=============================================================================

--------------------------- MODULE MCNodeServices ---------------------------
(* What the port keeps of the network for the application: the EMCY history *)
(* (EmcyHistory), the state, heartbeat and boot indications of the remote   *)
(* nodes (RemoteNodes) and the PDO transmission types (PdoTransmission);    *)
(* and the path its frames take (CanAdapter).  They share no state, so a    *)
(* behaviour is one of one component while the others rest.                 *)
EXTENDS EmcyHistory, RemoteNodes, PdoTransmission, CanAdapter, TLC

VARIABLE part

\* A quiet bus, and one that is off.
MCStatuses ==
    {[snderrcnt |-> 0, rcverrcnt |-> 0, errors |-> 0],
     [snderrcnt |-> 256, rcverrcnt |-> 0, errors |-> 1]}

\* The producers of emergencies are interchangeable: no definition tells them apart.
Symmetry == Permutations(Producers)

MCInit ==
    /\ part \in {"emcy", "remote", "pdo", "can"}
    /\ EmcyInit /\ RemoteInit /\ PdoInit /\ CanInit
    /\ part # "pdo" => od = [p \in Pdos |-> 0]
    /\ part # "can" => StateOf(bus) = "ACTIVE"

MCNext ==
    /\ UNCHANGED part
    /\ \/ part = "emcy" /\ EmcyNext /\ UNCHANGED <<remoteVars, pdoVars, canVars>>
       \/ part = "remote" /\ RemoteNext /\ UNCHANGED <<emcyVars, pdoVars, canVars>>
       \/ part = "pdo" /\ PdoNext /\ UNCHANGED <<emcyVars, remoteVars, canVars>>
       \/ part = "can" /\ CanNext /\ UNCHANGED <<emcyVars, remoteVars, pdoVars>>

MCSpec == MCInit /\ [][MCNext]_<<part, emcyVars, remoteVars, pdoVars, canVars>>

=============================================================================

--------------------------- MODULE MCCallsReturn ---------------------------
(* What a thread that uses the runtime may rely on in the end: a stop ends, *)
(* a posted command is answered (Runtime), and a configuration returns      *)
(* (MasterCfg).  The two modules share no state, so a behaviour is one of   *)
(* one of them while the other rests in a state in which nothing is fair.   *)
EXTENDS Runtime, MasterCfg, TLC

VARIABLE part

MCInit ==
    /\ part \in {"runtime", "cfg"}
    /\ Init
    /\ IF part = "cfg" THEN CfgInit
       ELSE NothingHeld /\ owner_at = "exit" /\ quiescing = TRUE

MCNext ==
    /\ UNCHANGED part
    /\ \/ part = "runtime" /\ Next /\ UNCHANGED masterCfgVars
       \/ part = "cfg" /\ CfgNext /\ UNCHANGED vars

MCSpec == /\ MCInit /\ [][MCNext]_<<part, vars, masterCfgVars>>
          /\ Fairness /\ CfgFairness

=============================================================================

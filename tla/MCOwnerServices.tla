-------------------------- MODULE MCOwnerServices --------------------------
(* What the owner thread does between its events: the deadlines it serves   *)
(* (Deadline) and the snapshots it publishes (Snapshots). They share no     *)
(* state, so a behaviour is one of one component while the other rests in a *)
(* state in which nothing of it is fair.                                    *)
EXTENDS Snapshots, Deadline, TLC

VARIABLE part

AtRest ==
    /\ t = 0 /\ phase = 0 /\ time = [last |-> 0, ticks |-> 0] /\ clock = 0
    /\ expiry = NoExpiry /\ next = NoExpiry /\ timer = 0 /\ clamped = FALSE
    /\ due = FALSE /\ wait = 0 /\ loop = "stop" /\ late = 0

MCInit ==
    /\ part \in {"snapshots", "deadline"}
    /\ SnapshotsInit
    /\ part # "snapshots" => high = {}
    /\ IF part = "deadline" THEN DeadlineInit ELSE AtRest

MCNext ==
    /\ UNCHANGED part
    /\ \/ part = "snapshots" /\ SnapshotsNext /\ UNCHANGED deadlineVars
       \/ part = "deadline" /\ DeadlineNext /\ UNCHANGED snapshotsVars

MCSpec == /\ MCInit /\ [][MCNext]_<<part, snapshotsVars, deadlineVars>>
          /\ SnapshotsFairness /\ DeadlineFairness

=============================================================================

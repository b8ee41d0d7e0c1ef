-------------------------- MODULE PdoTransmission --------------------------
(***************************************************************************)
(* The owner side of the PDO commands (master_pdo.c): reading and changing *)
(* the transmission type of a local PDO, with the restart of its service   *)
(* and the rollback when the restart fails, and triggering a TPDO.  Of     *)
(* Lely's PDO services (nmt_srv.c, rpdo.c, tpdo.c) it keeps which exist,   *)
(* the type each works with, and what it has pending.  Each operation runs *)
(* in the owner without interruption, so it is one step.  Writing the type *)
(* to the object dictionary past the port, through the local SDO server,   *)
(* is left out: Lely then takes the new type without a restart.            *)
(***************************************************************************)
EXTENDS Naturals

CONSTANTS
    Pdos,       \* the local PDOs
    Tpdos,      \* those that are TPDOs
    Types,      \* transmission types an application may ask for
    HasSync,    \* object 1005h exists
    StartMayFail  \* co_rpdo_start and co_tpdo_start may return -1, as rpdo.h
                  \* and tpdo.h say; the vendored ones only return 0

ASSUME PdoAssumption ==
    /\ Tpdos \subseteq Pdos
    /\ Types \subseteq 0 .. 255
    /\ HasSync \in BOOLEAN /\ StartMayFail \in BOOLEAN

Synchronous(type) == type <= 240

TransmissionSupported(type) == type <= 240 \/ type \in {254, 255}

Configured == {type \in Types : TransmissionSupported(type)}

NoType == 256
NoReply == [op |-> "none"]

VARIABLES
    od,         \* sub-index 2 of the PDO's communication parameter
    service,    \* "none", "running" or "stopped"
    mode,       \* the type the service works with
    transient,  \* type under which the service has an event timer running or
                \* a synchronous frame pending, or NoType
    reply       \* the command of this step and its result

pdoVars == <<od, service, mode, transient, reply>>

PdoInit ==
    /\ od \in [Pdos -> Configured]
    /\ service = [p \in Pdos |-> "none"]
    /\ mode = [p \in Pdos |-> NoType]
    /\ transient = [p \in Pdos |-> NoType]
    /\ reply = NoReply

Reply(op, p, type, err) ==
    reply' = [op |-> op, pdo |-> p, type |-> type, err |-> err]

-----------------------------------------------------------------------------
(* Lely: NMT creates and destroys the services, which collect state *)

\* co_nmt_srv_init_pdo creates and starts the services one after the other, until
\* one cannot be created: S is the set of those it got to.
NmtStart ==
    /\ \A p \in Pdos : service[p] = "none"
    /\ \E S \in SUBSET Pdos :
          /\ service' = [p \in Pdos |-> IF p \in S THEN "running" ELSE "none"]
          /\ mode' = [p \in Pdos |-> IF p \in S THEN od[p] ELSE NoType]
    /\ reply' = NoReply
    /\ UNCHANGED <<od, transient>>

\* co_nmt_srv_fini_pdo destroys them.
NmtLeave ==
    /\ service' = [p \in Pdos |-> "none"]
    /\ mode' = [p \in Pdos |-> NoType]
    /\ transient' = [p \in Pdos |-> NoType]
    /\ reply' = NoReply
    /\ UNCHANGED od

\* A frame, a SYNC or a timer: the service has something pending, or is done with it.
ServiceWork(p) ==
    /\ service[p] = "running"
    /\ transient' = [transient EXCEPT ![p] = IF @ = NoType THEN mode[p] ELSE NoType]
    /\ reply' = NoReply
    /\ UNCHANGED <<od, service, mode>>

-----------------------------------------------------------------------------
(* Reading and changing the transmission type *)

GetTransmission(p) ==
    /\ Reply("get", p, od[p], "EOK")
    /\ UNCHANGED <<od, service, mode, transient>>

\* Fault: a stopped service is not refused.
ServiceStoppedIgnored(p) == FALSE

ServiceStopped(p) == service[p] = "stopped"

\* The early returns of transmission_owner, in their order.
Refusal(p, type) ==
    CASE ~TransmissionSupported(type)         -> "EINVAL"
      [] Synchronous(type) /\ ~HasSync        -> "ENOSYS"
      [] ServiceStopped(p)                    -> "EBUSY"
      [] OTHER                                -> "none"

SetRefused(p, type) ==
    /\ Refusal(p, type) # "none"
    /\ Reply("set", p, type, Refusal(p, type))
    /\ UNCHANGED <<od, service, mode, transient>>

SetSame(p, type) ==
    /\ Refusal(p, type) = "none" /\ type = od[p]
    /\ Reply("set", p, type, "EOK")
    /\ UNCHANGED <<od, service, mode, transient>>

SetDenied(p, type) ==
    /\ Refusal(p, type) = "none" /\ type # od[p]
    /\ Reply("set", p, type, "ERROR")
    /\ UNCHANGED <<od, service, mode, transient>>

\* Fault: only a change to a synchronous type restarts the service.
NeedsRestartToSync(old, new) == Synchronous(new)

NeedsRestart(old, new) == Synchronous(old) \/ Synchronous(new)

\* The write is accepted and the service goes on, or is restarted.
SetAccepted(p, type) ==
    /\ Refusal(p, type) = "none" /\ type # od[p]
    /\ od' = [od EXCEPT ![p] = type]
    /\ Reply("set", p, type, "EOK")
    /\ IF service[p] = "none"
       THEN UNCHANGED <<mode, transient>>
       ELSE /\ mode' = [mode EXCEPT ![p] = type]
            /\ transient' = IF NeedsRestart(od[p], type)
                            THEN [transient EXCEPT ![p] = NoType]
                            ELSE transient
    /\ UNCHANGED service

\* restored is FALSE when writing the old type back fails.
RolledBack(p, type, restored) ==
    od' = IF restored THEN od ELSE [od EXCEPT ![p] = type]

\* The write is accepted, but the service does not start with the new type:
\* the old type is restored and the service started with it, which may fail.
\* No call of the vendored Lely takes this path; it is the port's answer to what
\* the interface allows.
SetRestartFailed(p, type) ==
    /\ StartMayFail
    /\ Refusal(p, type) = "none" /\ type # od[p]
    /\ service[p] = "running" /\ NeedsRestart(od[p], type)
    /\ Reply("set", p, type, "ERROR")
    /\ transient' = [transient EXCEPT ![p] = NoType]
    /\ \E restored, started \in BOOLEAN :
          /\ RolledBack(p, type, restored)
          /\ service' = [service EXCEPT ![p] =
                           IF restored /\ started THEN "running" ELSE "stopped"]
          /\ UNCHANGED mode

SetTransmission(p, type) ==
    \/ SetRefused(p, type) \/ SetSame(p, type) \/ SetDenied(p, type)
    \/ SetAccepted(p, type) \/ SetRestartFailed(p, type)

-----------------------------------------------------------------------------
(* Triggering a TPDO *)

\* The checks of pdo_dispatch, in their order; usable is FALSE when the COB-ID
\* is invalid or nothing is mapped.
EventRefusal(p, usable) ==
    CASE service[p] # "running"                         -> "EBUSY"
      [] ~usable \/ mode[p] \notin {0, 254, 255}        -> "EINVAL"
      [] mode[p] = 0 /\ ~HasSync                        -> "EBUSY"
      [] OTHER                                          -> "none"

\* An event that is sent starts the event timer, one that waits for the next SYNC
\* is pending.
TpdoEvent(p) ==
    /\ p \in Tpdos
    /\ \E usable \in BOOLEAN, err \in {"EOK", "ERROR"} :
          LET refusal == EventRefusal(p, usable)
          IN  /\ Reply("event", p, mode[p], IF refusal = "none" THEN err ELSE refusal)
              /\ \/ UNCHANGED transient
                 \/ /\ refusal = "none" /\ err = "EOK"
                    /\ transient' = [transient EXCEPT ![p] = mode[p]]
    /\ UNCHANGED <<od, service, mode>>

PdoNext ==
    \/ NmtStart \/ NmtLeave
    \/ \E p \in Pdos :
          \/ ServiceWork(p) \/ GetTransmission(p) \/ TpdoEvent(p)
          \/ \E type \in Types : SetTransmission(p, type)

PdoSpec == PdoInit /\ [][PdoNext]_pdoVars

-----------------------------------------------------------------------------
(* Properties *)

\* The types of the state; an unsupported transmission type never reaches the
\* object dictionary.
PdoTypeOK ==
    /\ od \in [Pdos -> Configured]
    /\ service \in [Pdos -> {"none", "running", "stopped"}]
    /\ mode \in [Pdos -> Configured \cup {NoType}]
    /\ transient \in [Pdos -> Configured \cup {NoType}]
    /\ reply = NoReply \/ reply.op \in {"get", "set", "event"}

\* A set that reports success has taken effect: not, as in a retry after a
\* restart that failed (StartMayFail), because the dictionary holds the value
\* already while the PDO is stopped.  A running PDO works with the type in the
\* dictionary, whatever failed in between: the rollback restores both or leaves
\* the service stopped.
SetEffective ==
    /\ reply.op = "set" /\ reply.err = "EOK" =>
          od[reply.pdo] = reply.type /\ service[reply.pdo] # "stopped"
    /\ \A p \in Pdos : service[p] = "running" => mode[p] = od[p]

\* An event timer or a pending synchronous frame never survives a change
\* between synchronous and event-driven transmission.
NoCrossing ==
    \A p \in Pdos : transient[p] # NoType =>
        /\ service[p] = "running"
        /\ Synchronous(transient[p]) <=> Synchronous(mode[p])

=============================================================================

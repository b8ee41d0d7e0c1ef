---------------------------- MODULE RemoteNodes ----------------------------
(***************************************************************************)
(* The master's supervision of remote nodes: the NMT state, heartbeat and  *)
(* boot indications of runtime.c, the two atomic words they publish per    *)
(* node, and the gate of master_sdo.c that keeps application SDO traffic   *)
(* off a node that is stopped, resetting or being booted by Lely.          *)
(*                                                                         *)
(* All handlers run in the owner thread, but applications read the two     *)
(* words at any time: a handler that stores to them more than once, or     *)
(* wakes a waiter in between, is split into a step per store.  Of Lely's   *)
(* boot processes and heartbeat consumers (nmt.c, nmt_hb.c; in full in     *)
(* NmtMaster) only what the runtime sees is kept: that one exists, and the *)
(* calls it makes.                                                         *)
(***************************************************************************)
EXTENDS Naturals, FiniteSets

CONSTANTS
    Nodes,      \* the remote nodes
    Mandatory,  \* booted by the master's own startup, not only on Boot-up
    Heartbeat,  \* nodes with a configured heartbeat consumer
    ResetAll    \* 1F80h bit 4: a lost mandatory node resets the master too

ASSUME RemoteNodesAssumption ==
    /\ Mandatory \subseteq Nodes
    /\ Heartbeat \subseteq Nodes
    /\ ResetAll \in BOOLEAN

UNAVAILABLE == "unavailable"       \* LELY_RTT_NMT_STATE_UNAVAILABLE
BOOTUP == "bootup"                 \* also the "no state known" of a boot
Usable == {"preop", "start"}
NmtStates == {BOOTUP, "stop"} \cup Usable

\* What a finished boot reports: no error, 'L' (already operational), or the
\* letter of a failure, with the state it learned (BOOTUP when none).
BootOutcomes ==
    ([es : {"ok"}, st : NmtStates \ {"start"}])
        \cup [es : {"L"}, st : {"start"}]
        \cup [es : {"failed"}, st : NmtStates]

Commands == {"start", "stop", "preop", "reset"}

NoResult == [valid |-> FALSE]

VARIABLES
    remote,     \* remote_nmt_state[n]: current, last, timeout
    result,     \* remote_boot_result[n]
    suspended,  \* sdo_suspended[n]
    held,       \* sdo_reset_pending[n]
    active,     \* sdo_active[n] is a request
    client,     \* sdo_clients[n] exists
    booting,    \* Lely has a boot process for n
    hb,         \* Lely's heartbeat consumer for n
    owner,      \* where the owner thread is in a handler
    fresh,      \* ghost: a boot completed since the last Boot-up of n
    behind,     \* ghost: a boot completed that remote[n] does not show yet
    confirmed,  \* ghost: the state of n Lely reported last
    resetSent,  \* ghost: n was commanded to reset and has not booted since
    unfit       \* ghost: n's boot ended unusable, nothing heard or sent since

words == <<remote, result>>
gate == <<suspended, held>>
sdo == <<active, client>>
lely == <<booting, hb>>
ghosts == <<fresh, behind, confirmed, resetSent, unfit>>
remoteVars == <<words, gate, sdo, lely, owner, ghosts>>

Word(current, last, timeout) ==
    [current |-> current, last |-> last, timeout |-> timeout]

HbOff == [on |-> FALSE, armed |-> FALSE, st |-> BOOTUP, occurred |-> FALSE]
HbIdle == [HbOff EXCEPT !.on = TRUE]
Idle == [pc |-> "idle"]

RemoteInit ==
    /\ remote = [n \in Nodes |-> Word(UNAVAILABLE, UNAVAILABLE, FALSE)]
    /\ result = [n \in Nodes |-> NoResult]
    /\ suspended = [n \in Nodes |-> FALSE]
    /\ held = [n \in Nodes |-> FALSE]
    /\ active = [n \in Nodes |-> FALSE]
    /\ client = [n \in Nodes |-> FALSE]
    /\ booting = [n \in Nodes |-> n \in Mandatory]
    /\ hb = [n \in Nodes |->
                IF n \in Heartbeat \ Mandatory THEN HbIdle ELSE HbOff]
    /\ owner = Idle
    /\ fresh = [n \in Nodes |-> TRUE]
    /\ behind = [n \in Nodes |-> FALSE]
    /\ confirmed = [n \in Nodes |-> UNAVAILABLE]
    /\ resetSent = [n \in Nodes |-> FALSE]
    /\ unfit = [n \in Nodes |-> FALSE]

-----------------------------------------------------------------------------
(* The SDO gate *)

SetSuspended(S, suspend, hold) ==
    /\ suspended' = [n \in Nodes |-> IF n \in S THEN suspend ELSE suspended[n]]
    /\ held' = [n \in Nodes |-> IF n \in S THEN hold ELSE held[n]]

CancelNodes(S) == active' = [n \in Nodes |-> n \notin S /\ active[n]]

NodeAvailable(n) == ~suspended[n] /\ ~booting[n]

\* The NMT state indication of a remote node, after Lely's own processing.
OnNmtState(n, st) ==
    \/ /\ st = BOOTUP
       /\ SetSuspended({n}, booting[n], booting[n])
       /\ UNCHANGED active
    \/ /\ st = "stop"
       /\ CancelNodes({n})
       /\ suspended' = [suspended EXCEPT ![n] = TRUE]
       /\ UNCHANGED held
    \/ /\ st \in Usable
       /\ IF held[n] THEN UNCHANGED gate ELSE SetSuspended({n}, FALSE, FALSE)
       /\ UNCHANGED active

\* Fault: a STOP command rewrites the reset hold as well.
OnNmtCommandStopClears(S, c) ==
    \/ c = "stop" /\ SetSuspended(S, TRUE, FALSE)
    \/ c = "reset" /\ SetSuspended(S, TRUE, TRUE)
    \/ /\ c \in {"start", "preop"}
       /\ suspended' = [n \in Nodes |->
                          IF n \in S /\ ~held[n] THEN FALSE ELSE suspended[n]]
       /\ UNCHANGED held

OnNmtCommand(S, c) ==
    \/ /\ c = "stop"
       /\ suspended' = [n \in Nodes |-> n \in S \/ suspended[n]]
       /\ UNCHANGED held
    \/ /\ c = "reset"
       /\ SetSuspended(S, TRUE, TRUE)
    \/ /\ c \in {"start", "preop"}
       /\ suspended' = [n \in Nodes |->
                          IF n \in S /\ ~held[n] THEN FALSE ELSE suspended[n]]
       /\ UNCHANGED held

\* Completion of a boot and usability for SDO are separate facts.
OnBootComplete(n, st) == SetSuspended({n}, st \notin Usable, FALSE)

-----------------------------------------------------------------------------
(* A Boot-up message: runtime.c's state indication, a step per store *)

\* co_nmt_recv_700 calls the state indication.
RecvBootup(n) ==
    /\ owner = Idle
    /\ owner' = [pc |-> "invalidate", node |-> n]
    /\ fresh' = [fresh EXCEPT ![n] = FALSE]
    /\ confirmed' = [confirmed EXCEPT ![n] = BOOTUP]
    /\ resetSent' = [resetSent EXCEPT ![n] = FALSE]
    /\ unfit' = [unfit EXCEPT ![n] = FALSE]
    /\ UNCHANGED <<words, gate, sdo, lely, behind>>

\* Fault: the previous result survives the Boot-up.
InvalidateForgotten(n) ==
    /\ owner = [pc |-> "invalidate", node |-> n]
    /\ owner' = [pc |-> "retire", node |-> n]
    /\ UNCHANGED <<words, gate, sdo, lely, ghosts>>

Invalidate(n) ==
    /\ owner = [pc |-> "invalidate", node |-> n]
    /\ result' = [result EXCEPT ![n] = NoResult]
    /\ owner' = [pc |-> "retire", node |-> n]
    /\ UNCHANGED <<remote, gate, sdo, lely, ghosts>>

\* Fault: the application's Client-SDO is left in place.
BeforeBootKeepsClient(n) ==
    /\ owner = [pc |-> "retire", node |-> n]
    /\ CancelNodes({n})
    /\ SetSuspended({n}, TRUE, TRUE)
    /\ owner' = [pc |-> "chain", node |-> n]
    /\ UNCHANGED <<words, client, lely, ghosts>>

\* before_boot: cancelling the request wakes its waiter.
BeforeBoot(n) ==
    /\ owner = [pc |-> "retire", node |-> n]
    /\ CancelNodes({n})
    /\ client' = [client EXCEPT ![n] = FALSE]
    /\ SetSuspended({n}, TRUE, TRUE)
    /\ owner' = [pc |-> "chain", node |-> n]
    /\ UNCHANGED <<words, lely, ghosts>>

\* boot_con: the boot process is gone before the indication; the heartbeat
\* consumer is running again, and armed when error control was started.
BootCon(n, b) ==
    /\ booting' = [booting EXCEPT ![n] = FALSE]
    /\ hb' = [hb EXCEPT ![n] =
                IF n \notin Heartbeat THEN HbOff
                ELSE IF b.es \in {"ok", "L"}
                     THEN [HbIdle EXCEPT !.armed = TRUE, !.st = b.st]
                     ELSE HbIdle]
    /\ behind' = [behind EXCEPT ![n] = TRUE]
    /\ confirmed' = [confirmed EXCEPT ![n] = b.st]
    /\ resetSent' = [resetSent EXCEPT ![n] = FALSE]
    /\ unfit' = [unfit EXCEPT ![n] = b.st \notin Usable]
    /\ UNCHANGED fresh

\* co_nmt_on_st and co_nmt_boot_req: a boot may be running already, fail to be
\* created, run in the background, or finish before the call returns.
Chain(n) ==
    /\ owner = [pc |-> "chain", node |-> n]
    /\ \/ /\ ~booting[n]
          /\ \E b \in BootOutcomes :
                /\ BootCon(n, b)
                /\ owner' = [pc |-> "boot", node |-> n, b |-> b, nested |-> TRUE]
       \/ /\ owner' = [pc |-> "outer", node |-> n]
          /\ \/ ~booting[n] /\ UNCHANGED booting
             \/ booting' = [booting EXCEPT ![n] = TRUE]
          /\ hb' = [hb EXCEPT ![n] = HbOff]
          /\ UNCHANGED ghosts
    /\ UNCHANGED <<words, gate, sdo>>

\* A boot in the background ends.
BootComplete(n) ==
    /\ owner = Idle
    /\ booting[n]
    /\ \E b \in BootOutcomes :
          /\ BootCon(n, b)
          /\ owner' = [pc |-> "boot", node |-> n, b |-> b, nested |-> FALSE]
    /\ UNCHANGED <<words, gate, sdo>>

\* Fault: the result is published before the state.
BootIndResultFirst(n) ==
    /\ owner.pc = "boot" /\ owner.node = n
    /\ OnBootComplete(n, owner.b.st)
    /\ result' = [result EXCEPT ![n] =
                    [valid |-> TRUE, st |-> owner.b.st, es |-> owner.b.es]]
    /\ owner' = [owner EXCEPT !.pc = "result"]
    /\ fresh' = [fresh EXCEPT ![n] = TRUE]
    /\ UNCHANGED <<remote, sdo, lely, behind, confirmed, resetSent, unfit>>

\* boot_ind: the gate and the state word first, then the result word.
BootInd(n) ==
    /\ owner.pc = "boot" /\ owner.node = n
    /\ OnBootComplete(n, owner.b.st)
    /\ remote' = [remote EXCEPT ![n] = Word(owner.b.st, owner.b.st, FALSE)]
    /\ behind' = [behind EXCEPT ![n] = FALSE]
    /\ owner' = [owner EXCEPT !.pc = "result"]
    /\ UNCHANGED <<result, sdo, lely, fresh, confirmed, resetSent, unfit>>

BootResult(n) ==
    /\ owner.pc = "result" /\ owner.node = n
    /\ result' = [result EXCEPT ![n] =
                    [valid |-> TRUE, st |-> owner.b.st, es |-> owner.b.es]]
    /\ fresh' = [fresh EXCEPT ![n] = TRUE]
    /\ owner' = IF owner.nested THEN [pc |-> "outer", node |-> n] ELSE Idle
    /\ UNCHANGED <<remote, gate, sdo, lely, behind, confirmed, resetSent, unfit>>

\* A valid result here was published inside the chain: boot_ind has the last
\* word on the gate and the state.
OuterBootup(n) ==
    /\ owner = [pc |-> "outer", node |-> n]
    /\ owner' = Idle
    /\ IF result[n].valid
       THEN UNCHANGED <<remote, gate, active>>
       ELSE /\ OnNmtState(n, BOOTUP)
            /\ remote' = [remote EXCEPT ![n] = Word(BOOTUP, BOOTUP, FALSE)]
    /\ UNCHANGED <<result, client, lely, ghosts>>

-----------------------------------------------------------------------------
(* Heartbeats *)

\* The heartbeat consumer reports a timeout as resolved before it reports a
\* changed state.
HeartbeatRecv(n, st) ==
    /\ owner = Idle
    /\ hb[n].on
    /\ hb' = [hb EXCEPT ![n] = [HbIdle EXCEPT !.armed = TRUE, !.st = st]]
    /\ remote' = IF hb[n].occurred /\ remote[n].timeout
                 THEN [remote EXCEPT
                         ![n] = Word(remote[n].last, remote[n].last, FALSE)]
                 ELSE remote
    /\ IF st = hb[n].st
       THEN UNCHANGED <<owner, confirmed, unfit>>
       ELSE /\ owner' = [pc |-> "state", node |-> n, st |-> st]
            /\ confirmed' = [confirmed EXCEPT ![n] = st]
            /\ unfit' = [unfit EXCEPT ![n] = FALSE]
    /\ UNCHANGED <<result, gate, sdo, booting, fresh, behind, resetSent>>

StateInd(n) ==
    /\ owner.pc = "state" /\ owner.node = n
    /\ OnNmtState(n, owner.st)
    /\ remote' = [remote EXCEPT ![n] = Word(owner.st, owner.st, FALSE)]
    /\ owner' = Idle
    /\ UNCHANGED <<result, client, lely, ghosts>>

\* The master's reset destroys every boot and heartbeat consumer without an
\* indication; its startup then boots the mandatory nodes.  A boot whose SDO is
\* outstanding may be destroyed twice by it, which is undefined behaviour
\* (DestroyedTwice of NmtMaster): the step is the case in which none is.
MasterReset ==
    /\ booting' = [n \in Nodes |-> n \in Mandatory]
    /\ hb' = [n \in Nodes |->
                IF n \in Heartbeat \ Mandatory THEN HbIdle ELSE HbOff]

\* Fault: the last confirmed state is lost with the heartbeat.
HeartbeatTimeoutForgets(n) ==
    /\ owner = Idle
    /\ hb[n].on /\ hb[n].armed
    /\ IF ResetAll /\ n \in Mandatory
       THEN MasterReset
       ELSE /\ hb' = [hb EXCEPT ![n].armed = FALSE, ![n].occurred = TRUE]
            /\ UNCHANGED booting
    /\ remote' = [remote EXCEPT ![n] = Word(UNAVAILABLE, UNAVAILABLE, TRUE)]
    /\ UNCHANGED <<result, gate, sdo, owner, ghosts>>

\* Lely acts on the timeout before the word is stored.
HeartbeatTimeout(n) ==
    /\ owner = Idle
    /\ hb[n].on /\ hb[n].armed
    /\ IF ResetAll /\ n \in Mandatory
       THEN MasterReset
       ELSE /\ hb' = [hb EXCEPT ![n].armed = FALSE, ![n].occurred = TRUE]
            /\ UNCHANGED booting
    /\ remote' = [remote EXCEPT ![n] = Word(UNAVAILABLE, remote[n].last, TRUE)]
    /\ UNCHANGED <<result, gate, sdo, owner, ghosts>>

-----------------------------------------------------------------------------
(* Commands and application SDO requests *)

\* dispatch_nmt; sent is FALSE when co_nmt_cs_req() fails.  Node-ID 0 is the
\* broadcast.
DispatchNmt(S, c) ==
    /\ owner = Idle
    /\ IF c \in {"stop", "reset"} THEN CancelNodes(S) ELSE UNCHANGED active
    /\ \E sent \in BOOLEAN :
          IF sent
          THEN /\ OnNmtCommand(S, c)
               /\ resetSent' = [n \in Nodes |->
                                  (n \in S /\ c = "reset") \/ resetSent[n]]
               /\ unfit' = [n \in Nodes |-> n \notin S /\ unfit[n]]
          ELSE UNCHANGED <<gate, resetSent, unfit>>
    /\ UNCHANGED <<words, client, lely, owner, fresh, behind, confirmed>>

SdoStart(n) ==
    /\ owner = Idle
    /\ NodeAvailable(n) /\ ~active[n]
    /\ active' = [active EXCEPT ![n] = TRUE]
    /\ client' = [client EXCEPT ![n] = TRUE]
    /\ UNCHANGED <<words, gate, lely, owner, ghosts>>

SdoFinish(n) ==
    /\ owner = Idle
    /\ active[n]
    /\ active' = [active EXCEPT ![n] = FALSE]
    /\ UNCHANGED <<words, gate, client, lely, owner, ghosts>>

RemoteNext ==
    \/ \E n \in Nodes :
          \/ RecvBootup(n) \/ Invalidate(n) \/ BeforeBoot(n) \/ Chain(n)
          \/ BootComplete(n) \/ BootInd(n) \/ BootResult(n) \/ OuterBootup(n)
          \/ \E st \in NmtStates \ {BOOTUP} : HeartbeatRecv(n, st)
          \/ StateInd(n) \/ HeartbeatTimeout(n)
          \/ SdoStart(n) \/ SdoFinish(n)
    \/ \E S \in {{n} : n \in Nodes} \cup {Nodes}, c \in Commands :
          DispatchNmt(S, c)

RemoteSpec == RemoteInit /\ [][RemoteNext]_remoteVars

-----------------------------------------------------------------------------
(* The application's view: one atomic load each *)

GetRemoteNmtState(n) ==
    IF remote[n].current = UNAVAILABLE THEN "EBUSY" ELSE remote[n].current

\* RT_EOK from get_remote_boot_status(), -RT_EBUSY otherwise.
GetRemoteBootStatusOk(n) == result[n].valid

-----------------------------------------------------------------------------
(* Properties *)

\* The types of the two published words, the gate, Lely's processes and the
\* owner's position in its handlers.
RemoteTypeOK ==
    /\ remote \in [Nodes -> [current : NmtStates \cup {UNAVAILABLE},
                             last : NmtStates \cup {UNAVAILABLE},
                             timeout : BOOLEAN]]
    /\ \A n \in Nodes :
          \/ result[n] = NoResult
          \/ [st |-> result[n].st, es |-> result[n].es] \in BootOutcomes
    /\ {suspended, held, active, client, booting} \subseteq [Nodes -> BOOLEAN]
    /\ hb \in [Nodes -> [on : BOOLEAN, armed : BOOLEAN,
                         st : NmtStates, occurred : BOOLEAN]]
    /\ \A n \in Nodes : (hb[n].armed \/ hb[n].occurred) => hb[n].on
    /\ owner.pc \in {"idle", "invalidate", "retire", "chain", "boot",
                     "result", "outer", "state"}
    /\ \A n \in Nodes : held[n] => suspended[n]

\* get_remote_boot_status() never returns the result of an earlier boot once
\* the Boot-up handler has made its first store: in particular not to a waiter
\* that the handler wakes by cancelling its SDO request, and not while Lely
\* boots the node.
ResultFresh ==
    \A n \in Nodes :
        owner # [pc |-> "invalidate", node |-> n]
            => (GetRemoteBootStatusOk(n) => fresh[n])

\* When boot_ind publishes a result, the state word already shows the state
\* that boot ended in: an application that sees the result and then asks for
\* the state never gets the one from before the boot.
StateBeforeResult ==
    [][\A n \in Nodes :
          result'[n] # result[n] /\ result'[n].valid => ~behind[n]]_remoteVars

\* Between events the state word holds the last state Lely reported, through
\* nested boots, timeouts and recoveries, and is only unavailable when nothing
\* was reported yet or the heartbeat timed out.  A node whose heartbeat Lely
\* considers lost is never published as available, and one published as timed out
\* is always one whose next heartbeat or boot Lely will report, so that the state
\* cannot stay unavailable.
LastConfirmed ==
    owner = Idle =>
        \A n \in Nodes :
            /\ remote[n].last = confirmed[n]
            /\ GetRemoteNmtState(n) # confirmed[n]
                 => \/ remote[n].timeout
                    \/ confirmed[n] = UNAVAILABLE
            /\ hb[n].occurred => GetRemoteNmtState(n) = "EBUSY"
            /\ remote[n].timeout
                 => \/ hb[n].occurred
                    \/ hb[n].on /\ hb[n].st = BOOTUP
                    \/ booting[n]

\* A reset command closes the node to application SDOs until the node's
\* Boot-up or the end of its boot, whatever other commands, late heartbeats
\* and recoveries come in between; a boot that ended without a usable state,
\* even inside the Boot-up handler, leaves the node closed until something else
\* is heard from it or sent to it.
GateClosed ==
    \A n \in Nodes : /\ resetSent[n] => suspended[n] /\ ~active[n]
                     /\ owner = Idle /\ unfit[n] => suspended[n]

\* While Lely boots a node there is no application SDO request on it and no
\* application Client-SDO that would receive the boot's answers.  The exception
\* is a mandatory node whose lost heartbeat makes the master reset itself: the
\* master's startup boots it without a Boot-up, and so without before_boot.
BootExclusive ==
    owner = Idle =>
        \A n \in Nodes : booting[n] =>
            (~active[n] /\ ~client[n]) \/ (ResetAll /\ n \in Mandatory)

=============================================================================

------------------------------ MODULE MasterCfg ------------------------------
(***************************************************************************)
(* Manual NMT configuration (master_cfg.c): a thread puts a request on its *)
(* own stack, posts its address to the owner and waits until the owner has *)
(* completed it (struct lely_rtt_master_sync in master_command.c).  The    *)
(* owner holds the address in the command queue, in cfg_active and in      *)
(* Lely's configuration service, so the frame may not be left before the   *)
(* last of them has let go of it, and must be left in the end.             *)
(*                                                                         *)
(* Of Lely's own sequence (upstream nmt.c and nmt_cfg.c) the model has the *)
(* stage and the callbacks it makes.  The owner's private data changes in  *)
(* one step per handler; the accesses to a request's sync object are       *)
(* separate steps, because the waiting thread runs between them.           *)
(***************************************************************************)
EXTENDS Integers, Sequences, FiniteSets

CONSTANTS Callers,       \* threads that call nmt_configure
          Nodes,         \* numbers of the remote nodes
          Sources,       \* nodes with an application DCF in cfg_sources
          Unsupported,   \* nodes that dispatch refuses: not in the network
                         \* list, restore requested, or nothing to configure
          None,          \* no request
          Automatic,     \* a configuration that Lely started by itself
          CommandDepth,  \* PKG_LELY_MASTER_COMMAND_QUEUE_DEPTH
          MaxCalls,      \* bound: calls per thread
          MaxCommands,   \* bound: NMT commands posted
          MaxAuto        \* bound: boots and automatic configurations begun, state
                         \* changes of the master, failures of co_nmt_cfg_req

ASSUME MasterCfgAssumption ==
    /\ IsFiniteSet(Callers) /\ IsFiniteSet(Nodes) /\ Nodes # {} /\ Nodes \subseteq 1..127
    /\ Sources \subseteq Nodes /\ Unsupported \subseteq Nodes
    /\ None \notin Callers /\ Automatic \notin Callers /\ None # Automatic
    /\ CommandDepth \in Nat \ {0}
    /\ MaxCalls \in Nat /\ MaxCommands \in Nat /\ MaxAuto \in Nat

VARIABLES
    \* the request on each caller's stack
    pc,                \* "idle": the frame does not exist; "wait", "fini"
    node,              \* result.node_id
    status,            \* result.status
    cancel_requested,
    done,              \* sync.done
    completion_refs,   \* sync.completion_refs
    calls,             \* calls made so far
    \* the command queue
    mq,                \* <<"CFG", caller>> or <<"NMT", command, target>>
    quiescing,         \* command_quiescing: stop() closed the queue
    commands,          \* NMT commands posted so far
    \* the owner
    owner_at,          \* where the owner is
    resume,            \* where it goes after the completions of todo
    todo,              \* completions the running handler has yet to make
    cfg_active,        \* request that each node is busy with
    cfg_resume,        \* cfg_resume_pending and cfg_resume_abort_code
    cfg_tearing_down,
    \* Lely
    stage,             \* of each node's configuration: "none", "xfer" (its own
                       \* transfers) or "user" (waits for co_nmt_cfg_res)
    who,               \* cfg_data: the request it will confirm, or Automatic
    dcf,               \* the application DCF is being downloaded
    booting,           \* co_nmt_is_booting
    autos,             \* the events that MaxAuto bounds
    \* history
    applied,           \* the sequence of this request ended without an abort
    hit                \* an NMT stop or reset was sent while it was active

callerVars == <<pc, node, calls>>
requestVars == <<status, cancel_requested, done, completion_refs>>
commandVars == <<mq, quiescing, commands>>
ownerVars == <<owner_at, resume, todo>>
cfgVars == <<cfg_active, cfg_resume, cfg_tearing_down>>
lelyVars == <<stage, who, dcf, booting, autos>>
history == <<applied, hit>>
masterCfgVars == <<callerVars, requestVars, commandVars, ownerVars, cfgVars, lelyVars, history>>

NothingHeld ==
    /\ pc = [c \in Callers |-> "idle"] /\ calls = [c \in Callers |-> 0]
    /\ node = [c \in Callers |-> CHOOSE n \in Nodes : TRUE]
    /\ status = [c \in Callers |-> "LOCAL_ERROR"]
    /\ cancel_requested = [c \in Callers |-> FALSE]
    /\ done = [c \in Callers |-> FALSE]
    /\ completion_refs = [c \in Callers |-> 0]
    /\ mq = <<>> /\ commands = 0 /\ resume = "events" /\ todo = <<>>
    /\ cfg_active = [n \in Nodes |-> None]
    /\ cfg_resume = [n \in Nodes |-> "NO"]
    /\ cfg_tearing_down = FALSE
    /\ stage = [n \in Nodes |-> "none"] /\ who = [n \in Nodes |-> None]
    /\ dcf = [n \in Nodes |-> FALSE] /\ booting = [n \in Nodes |-> FALSE]
    /\ autos = 0
    /\ applied = [c \in Callers |-> FALSE] /\ hit = [c \in Callers |-> FALSE]

CfgInit == NothingHeld /\ owner_at = "events" /\ quiescing = FALSE

-----------------------------------------------------------------------------
(* Application threads                                                     *)

\* master_command_post: the queue is open and has room.
CanPost == ~quiescing /\ Len(mq) < CommandDepth

\* nmt_configure up to the wait: initialise the request and post its address.
\* When the post is refused the call only has to undo sync_init.
Configure(c, n) ==
    /\ pc[c] = "idle" /\ calls[c] < MaxCalls
    /\ calls' = [calls EXCEPT ![c] = @ + 1]
    /\ node' = [node EXCEPT ![c] = n]
    /\ status' = [status EXCEPT ![c] = "LOCAL_ERROR"]
    /\ cancel_requested' = [cancel_requested EXCEPT ![c] = FALSE]
    /\ done' = [done EXCEPT ![c] = FALSE]
    /\ completion_refs' = [completion_refs EXCEPT ![c] = 0]
    /\ applied' = [applied EXCEPT ![c] = FALSE]
    /\ hit' = [hit EXCEPT ![c] = FALSE]
    /\ \/ CanPost /\ mq' = Append(mq, <<"CFG", c>>) /\ pc' = [pc EXCEPT ![c] = "wait"]
       \/ ~CanPost /\ pc' = [pc EXCEPT ![c] = "fini"] /\ UNCHANGED mq
    /\ UNCHANGED <<quiescing, commands, ownerVars, cfgVars, lelyVars>>

\* sync_wait: the event only shortens the wait; done is what ends it.
SyncWait(c) ==
    /\ pc[c] = "wait" /\ done[c]
    /\ pc' = [pc EXCEPT ![c] = "fini"]
    /\ UNCHANGED <<node, calls, requestVars, commandVars, ownerVars, cfgVars,
                   lelyVars, history>>

\* Fault: sync_fini does not wait for the completing owner.
SyncFiniNoWait(c) ==
    /\ pc[c] = "fini"
    /\ pc' = [pc EXCEPT ![c] = "idle"]
    /\ UNCHANGED <<node, calls, requestVars, commandVars, ownerVars, cfgVars,
                   lelyVars, history>>

\* sync_fini, and the call returns: the frame is gone.
SyncFini(c) ==
    /\ pc[c] = "fini" /\ completion_refs[c] = 0
    /\ pc' = [pc EXCEPT ![c] = "idle"]
    /\ UNCHANGED <<node, calls, requestVars, commandVars, ownerVars, cfgVars,
                   lelyVars, history>>

\* Any thread posts an NMT command, for a node or for all nodes (0); the master's
\* own number is refused.  RESET stands for reset node and reset communication.
NmtCommands == {"STOP", "RESET", "PREOP"}
Targets == Nodes \cup {0}

PostNmt(command, target) ==
    /\ commands < MaxCommands /\ CanPost
    /\ commands' = commands + 1
    /\ mq' = Append(mq, <<"NMT", command, target>>)
    /\ UNCHANGED <<callerVars, requestVars, quiescing, ownerVars, cfgVars, lelyVars,
                   history>>

\* runtime_stop
Stop ==
    /\ ~quiescing
    /\ quiescing' = TRUE
    /\ UNCHANGED <<callerVars, requestVars, mq, commands, ownerVars, cfgVars, lelyVars,
                   history>>

-----------------------------------------------------------------------------
(* The owner: completion of requests                                       *)

\* A handler completes the requests of list, then goes on at next.
Finish(list, next) ==
    /\ todo' = list /\ resume' = next
    /\ owner_at' = IF list = <<>> THEN next ELSE "complete_mark"

KeepTodo == UNCHANGED <<todo, resume>>

\* The part of cfg_complete that concerns the node: it forgets the request,
\* and with it a resume that was staged for it.
Release(n) ==
    /\ cfg_active' = [cfg_active EXCEPT ![n] = None]
    /\ cfg_resume' = [cfg_resume EXCEPT ![n] = "NO"]

\* cfg_complete stores the result; sync_complete does nothing more when the
\* request is done already.
CompleteMark ==
    /\ owner_at = "complete_mark"
    /\ LET c == todo[1][1]
       IN  /\ status' = [status EXCEPT ![c] = todo[1][2]]
           /\ IF done[c]
              THEN /\ todo' = Tail(todo)
                   /\ owner_at' = IF Len(todo) = 1 THEN resume ELSE "complete_mark"
                   /\ UNCHANGED completion_refs
              ELSE /\ completion_refs' = [completion_refs EXCEPT ![c] = 1]
                   /\ owner_at' = "complete_done" /\ UNCHANGED todo
    /\ UNCHANGED <<callerVars, cancel_requested, done, commandVars, resume, cfgVars,
                   lelyVars, history>>

\* From here on the waiting thread may run to the end of sync_fini.
CompleteDone ==
    /\ owner_at = "complete_done"
    /\ done' = [done EXCEPT ![todo[1][1]] = TRUE]
    /\ owner_at' = "complete_release"
    /\ UNCHANGED <<callerVars, status, cancel_requested, completion_refs, commandVars,
                   resume, todo, cfgVars, lelyVars, history>>

\* The event is sent and the last reference dropped.
CompleteRelease ==
    /\ owner_at = "complete_release"
    /\ completion_refs' = [completion_refs EXCEPT ![todo[1][1]] = 0]
    /\ todo' = Tail(todo)
    /\ owner_at' = IF Len(todo) = 1 THEN resume ELSE "complete_mark"
    /\ UNCHANGED <<callerVars, status, cancel_requested, done, commandVars, resume,
                   cfgVars, lelyVars, history>>

-----------------------------------------------------------------------------
(* Lely's configuration service and the callbacks it makes                 *)

\* Fault: the abort code decides before the cancellation does.
ConfirmedStatusAbortFirst(c, ac) ==
    IF ac = "ABORT" THEN "ABORT" ELSE IF cancel_requested[c] THEN "CANCELED" ELSE "OK"

\* cfg_con: what a request is told when Lely ends its sequence with ac.
ConfirmedStatus(c, ac) ==
    IF cancel_requested[c] THEN "CANCELED" ELSE ac

\* co_nmt_cfg_con: Lely destroys its configuration object and confirms; an
\* automatic configuration confirms to Lely itself.
Confirm(n, ac, next) ==
    /\ stage' = [stage EXCEPT ![n] = "none"]
    /\ who' = [who EXCEPT ![n] = None]
    /\ dcf' = [dcf EXCEPT ![n] = FALSE]
    /\ IF who[n] \in Callers
       THEN /\ Release(n)
            /\ Finish(<<<<who[n], ConfirmedStatus(who[n], ac)>>>>, next)
            /\ applied' = [applied EXCEPT ![who[n]] = ac = "OK"]
       ELSE /\ Finish(<<>>, next)
            /\ UNCHANGED <<cfg_active, cfg_resume, applied>>

InEvents == owner_at \in {"events", "drain"}

\* A transfer of Lely's own fails, at the latest with its timeout.
XferAbort(n) ==
    /\ InEvents /\ stage[n] = "xfer"
    /\ Confirm(n, "ABORT", owner_at)
    /\ UNCHANGED <<callerVars, requestVars, commandVars, cfg_tearing_down, booting,
                   autos, hit>>

\* Fault: a download that cannot start is not reported to the reaper.
CfgIndDropsFailure(n) ==
    /\ InEvents /\ stage[n] = "xfer"
    /\ cfg_active[n] # None /\ n \in Sources
    /\ stage' = [stage EXCEPT ![n] = "user"]
    /\ dcf' \in {dcf, [dcf EXCEPT ![n] = TRUE]}
    /\ UNCHANGED <<callerVars, requestVars, commandVars, ownerVars, cfgVars, who,
                   booting, autos, history>>

\* Lely's transfers are over and it calls cfg_ind.  Without a manual request or
\* without a DCF for the node the stage is confirmed at once; else the DCF
\* download is started, or its failure to start is left for the reaper.
CfgInd(n) ==
    /\ InEvents /\ stage[n] = "xfer"
    /\ \/ /\ cfg_active[n] = None \/ n \notin Sources
          /\ Confirm(n, "OK", owner_at)
       \/ /\ cfg_active[n] # None /\ n \in Sources
          /\ stage' = [stage EXCEPT ![n] = "user"]
          /\ \/ dcf' = [dcf EXCEPT ![n] = TRUE] /\ UNCHANGED cfg_resume
             \/ cfg_resume' = [cfg_resume EXCEPT ![n] = "ABORT"] /\ UNCHANGED dcf
          /\ UNCHANGED <<who, cfg_active, ownerVars, applied>>
    /\ UNCHANGED <<callerVars, requestVars, commandVars, cfg_tearing_down, booting,
                   autos, hit>>

\* dcf_con: the download has ended; the reaper will resume Lely's sequence.
DcfCon(n) ==
    /\ InEvents /\ dcf[n]
    /\ dcf' = [dcf EXCEPT ![n] = FALSE]
    /\ IF cfg_active[n] = None \/ cfg_tearing_down
       THEN UNCHANGED cfg_resume
       ELSE \E ac \in {"OK", "ABORT"} : cfg_resume' = [cfg_resume EXCEPT ![n] = ac]
    /\ UNCHANGED <<callerVars, requestVars, commandVars, ownerVars, cfg_active,
                   cfg_tearing_down, stage, who, booting, autos, history>>

\* Lely configures a node by itself: while booting it, or because object 1F25
\* was written.
AutoCfg(n) ==
    /\ InEvents /\ autos < MaxAuto /\ stage[n] = "none"
    /\ autos' = autos + 1
    /\ stage' = [stage EXCEPT ![n] = "xfer"] /\ who' = [who EXCEPT ![n] = Automatic]
    /\ UNCHANGED <<callerVars, requestVars, commandVars, ownerVars, cfgVars, dcf,
                   booting, history>>

BootBegin(n) ==
    /\ InEvents /\ autos < MaxAuto /\ ~booting[n]
    /\ autos' = autos + 1 /\ booting' = [booting EXCEPT ![n] = TRUE]
    /\ UNCHANGED <<callerVars, requestVars, commandVars, ownerVars, cfgVars, stage, who,
                   dcf, history>>

BootEnd(n) ==
    /\ InEvents /\ booting[n] /\ who[n] # Automatic
    /\ booting' = [booting EXCEPT ![n] = FALSE]
    /\ UNCHANGED <<callerVars, requestVars, commandVars, ownerVars, cfgVars, stage, who,
                   dcf, autos, history>>

\* co_nmt_slaves_fini destroys all configurations.  Stopping a transfer of
\* Lely's own confirms with an abort; during the download dcf_con is called
\* instead, which confirms nothing.  Heard: the nodes whose request is told.
\* co_nmt_cfg_con, confirming from within that destruction, destroys the
\* configuration once more, which is undefined behaviour; the model takes the
\* outcome in which nothing else is lost, because the port's part in it, the
\* request that must be told once, is the same.
Heard == {n \in Nodes : stage[n] = "xfer" /\ who[n] \in Callers}

SlavesFini ==
    /\ stage' = [n \in Nodes |-> "none"] /\ who' = [n \in Nodes |-> None]
    /\ dcf' = [n \in Nodes |-> FALSE] /\ booting' = [n \in Nodes |-> FALSE]

\* Fault: the resume staged for a retired request stays.
RetiredResumeKept(nodes) == cfg_resume

RetiredResume(nodes) == [n \in Nodes |-> IF n \in nodes THEN "NO" ELSE cfg_resume[n]]

\* Both handlers go through the nodes by number: the one sequence of these nodes.
ByNumber(nodes) ==
    {ns \in [1..Cardinality(nodes) -> nodes] :
        /\ \A i, j \in 1..Cardinality(nodes) : i < j => ns[i] < ns[j]
        /\ \A n \in nodes : \E i \in 1..Cardinality(nodes) : ns[i] = n}

SlavesFiniCompletions(ns) ==
    [i \in 1..Len(ns) |-> <<who[ns[i]], ConfirmedStatus(who[ns[i]], "ABORT")>>]

\* retire_all marks and completes the requests of nodes that are still active.
Retired(nodes) == {cfg_active[n] : n \in nodes} \ {None}

RetireAllCompletions(ns) == [i \in 1..Len(ns) |-> <<cfg_active[ns[i]], "CANCELED">>]

\* Those of slaves_fini, and after them those of retire_all for other nodes.
FinishAll(heard, retired, next) ==
    \E hs \in ByNumber(heard), ns \in ByNumber({n \in retired : cfg_active[n] # None}) :
        Finish(SlavesFiniCompletions(hs) \o RetireAllCompletions(ns), next)

\* cfg_on_local_nmt_state: the states that Lely enters through slaves_fini.
Retires(state) == state \in {"RESET", "PREOP"}

\* The master itself is reset, enters PRE-OP or is stopped, as objects 1029 and
\* 1F80 demand after an error: slaves_fini destroys the configurations before the
\* state indication retires the requests that heard nothing.  A stop leaves the
\* configurations running.
MasterState(state) ==
    /\ InEvents /\ autos < MaxAuto /\ autos' = autos + 1
    /\ LET resets == state # "STOP"
           heard == IF resets THEN Heard ELSE {}
           retired == IF Retires(state) THEN Nodes \ heard ELSE {}
       IN  /\ IF resets THEN SlavesFini ELSE UNCHANGED <<stage, who, dcf, booting>>
           /\ FinishAll(heard, retired, owner_at)
           /\ cancel_requested' = [c \in Callers |->
                                    cancel_requested[c] \/ c \in Retired(retired)]
           /\ cfg_active' = [n \in Nodes |->
                                IF n \in heard \cup retired THEN None ELSE cfg_active[n]]
           /\ cfg_resume' = RetiredResume(heard \cup retired)
    /\ UNCHANGED <<callerVars, status, done, completion_refs, commandVars,
                   cfg_tearing_down, history>>

-----------------------------------------------------------------------------
(* The owner: commands                                                     *)

IsCfg == mq # <<>> /\ mq[1][1] = "CFG"
IsNmt == mq # <<>> /\ mq[1][1] = "NMT"

OwnerPoll ==
    /\ owner_at = "events" /\ ~quiescing
    /\ owner_at' = "dispatch" /\ KeepTodo
    /\ UNCHANGED <<callerVars, requestVars, commandVars, cfgVars, lelyVars, history>>

\* What cfg_dispatch answers with a local error.
Refused(n) == cfg_active[n] # None \/ n \in Unsupported \/ booting[n]

\* cfg_dispatch.  cfg_active is set before co_nmt_cfg_req is called, which fails
\* when Lely is configuring the node already, and may fail for lack of memory.
DispatchCfg ==
    /\ owner_at = "dispatch" /\ IsCfg
    /\ mq' = Tail(mq)
    /\ LET c == mq[1][2]
           n == node[c]
       IN  \/ /\ Refused(n)
              /\ Finish(<<<<c, "LOCAL_ERROR">>>>, "dispatch")
              /\ UNCHANGED <<cfg_active, cfg_resume, stage, who, autos>>
           \/ /\ ~Refused(n) /\ stage[n] # "none"
              /\ Release(n) /\ Finish(<<<<c, "LOCAL_ERROR">>>>, "dispatch")
              /\ UNCHANGED <<stage, who, autos>>
           \/ /\ ~Refused(n) /\ autos < MaxAuto /\ autos' = autos + 1
              /\ Release(n) /\ Finish(<<<<c, "LOCAL_ERROR">>>>, "dispatch")
              /\ UNCHANGED <<stage, who>>
           \/ /\ ~Refused(n) /\ stage[n] = "none"
              /\ cfg_active' = [cfg_active EXCEPT ![n] = c]
              /\ stage' = [stage EXCEPT ![n] = "xfer"]
              /\ who' = [who EXCEPT ![n] = c]
              /\ UNCHANGED <<autos, cfg_resume, ownerVars>>
    /\ UNCHANGED <<callerVars, requestVars, quiescing, commands, cfg_tearing_down,
                   dcf, booting, history>>

\* The requests a command to target addresses.
Addressed(target) ==
    {cfg_active[n] : n \in IF target = 0 THEN Nodes ELSE {target}} \ {None}

\* cfg_on_nmt_command: a stop or reset marks the requests it addresses; they
\* are completed when Lely confirms.
OnNmtCommand(command, target) ==
    cancel_requested' = [c \in Callers |->
        \/ cancel_requested[c]
        \/ command # "PREOP" /\ c \in Addressed(target)]

\* dispatch_nmt.  A command to all nodes does not reach the master itself.  When
\* the command could not be sent nothing is marked.
DispatchNmt ==
    /\ owner_at = "dispatch" /\ IsNmt
    /\ mq' = Tail(mq)
    /\ \/ /\ OnNmtCommand(mq[1][2], mq[1][3])
          /\ hit' = [c \in Callers |->
                        \/ hit[c]
                        \/ mq[1][2] # "PREOP" /\ c \in Addressed(mq[1][3])]
       \/ UNCHANGED <<cancel_requested, hit>>
    /\ UNCHANGED <<callerVars, status, done, completion_refs, quiescing, commands,
                   ownerVars, cfgVars, lelyVars, applied>>

\* Afterwards the loop is drained once more.
DispatchEmpty ==
    /\ owner_at = "dispatch" /\ mq = <<>>
    /\ owner_at' = "drain" /\ KeepTodo
    /\ UNCHANGED <<callerVars, requestVars, commandVars, cfgVars, lelyVars, history>>

DrainEnd ==
    /\ owner_at = "drain"
    /\ owner_at' = "reap" /\ KeepTodo
    /\ UNCHANGED <<callerVars, requestVars, commandVars, cfgVars, lelyVars, history>>

\* cfg_reap for one node: co_nmt_cfg_res ends Lely's sequence, and confirms.
\* Without a configuration to resume it only logs.
Reap(n) ==
    /\ owner_at = "reap" /\ cfg_resume[n] # "NO"
    /\ IF cfg_tearing_down \/ cfg_active[n] = None \/ stage[n] = "none"
       THEN /\ cfg_resume' = [cfg_resume EXCEPT ![n] = "NO"]
            /\ UNCHANGED <<ownerVars, cfg_active, stage, who, dcf, applied>>
       ELSE Confirm(n, cfg_resume[n], "reap")
    /\ UNCHANGED <<callerVars, requestVars, commandVars, cfg_tearing_down, booting,
                   autos, hit>>

ReapEnd ==
    /\ owner_at = "reap" /\ \A n \in Nodes : cfg_resume[n] = "NO"
    /\ owner_at' = "events" /\ KeepTodo
    /\ UNCHANGED <<callerVars, requestVars, commandVars, cfgVars, lelyVars, history>>

-----------------------------------------------------------------------------
(* The owner: teardown                                                     *)

OwnerStop ==
    /\ owner_at = "events" /\ quiescing
    /\ owner_at' = "fini" /\ KeepTodo
    /\ UNCHANGED <<callerVars, requestVars, commandVars, cfgVars, lelyVars, history>>

\* command_fini: a request that was never dispatched is canceled, an NMT command
\* dropped.
RetireQueued ==
    /\ owner_at = "fini" /\ mq # <<>>
    /\ mq' = Tail(mq)
    /\ IF IsCfg
       THEN /\ cancel_requested' = [cancel_requested EXCEPT ![mq[1][2]] = TRUE]
            /\ Finish(<<<<mq[1][2], "CANCELED">>>>, "fini")
       ELSE UNCHANGED <<cancel_requested, ownerVars>>
    /\ UNCHANGED <<callerVars, status, done, completion_refs, quiescing, commands,
                   cfgVars, lelyVars, history>>

\* prepare_nmt_destroy: active requests are only marked, because Lely may still
\* confirm them.
PrepareNmtDestroy ==
    /\ owner_at = "fini" /\ mq = <<>>
    /\ cfg_tearing_down' = TRUE
    /\ cancel_requested' = [c \in Callers |-> cancel_requested[c]
                                \/ \E n \in Nodes : cfg_active[n] = c]
    /\ owner_at' = "destroy" /\ KeepTodo
    /\ UNCHANGED <<callerVars, status, done, completion_refs, commandVars, cfg_active,
                   cfg_resume, lelyVars, history>>

\* co_nmt_destroy, then after_nmt_destroy.
NmtDestroy ==
    /\ owner_at = "destroy"
    /\ FinishAll(Heard, Nodes \ Heard, "exit")
    /\ SlavesFini
    /\ cfg_active' = [n \in Nodes |-> None]
    /\ cfg_resume' = [n \in Nodes |-> "NO"]
    /\ cfg_tearing_down' = FALSE
    /\ UNCHANGED <<callerVars, requestVars, commandVars, autos, history>>

-----------------------------------------------------------------------------
CallerNext(c) == SyncWait(c) \/ SyncFini(c)

LelyNext(n) == XferAbort(n) \/ CfgInd(n) \/ DcfCon(n)

CfgOwnerNext ==
    \/ CompleteMark \/ CompleteDone \/ CompleteRelease
    \/ OwnerPoll \/ DispatchCfg \/ DispatchNmt \/ DispatchEmpty
    \/ DrainEnd \/ ReapEnd \/ \E n \in Nodes : Reap(n)
    \/ OwnerStop \/ RetireQueued \/ PrepareNmtDestroy \/ NmtDestroy

\* After the teardown, and when no call is left, nothing happens.
Finished ==
    /\ owner_at = "exit" /\ \A c \in Callers : pc[c] = "idle" /\ calls[c] = MaxCalls
    /\ UNCHANGED masterCfgVars

CfgNext ==
    \/ \E c \in Callers : CallerNext(c) \/ \E n \in Nodes : Configure(c, n)
    \/ \E k \in NmtCommands, t \in Targets : PostNmt(k, t)
    \/ \E n \in Nodes : LelyNext(n) \/ AutoCfg(n) \/ BootBegin(n) \/ BootEnd(n)
    \/ \E k \in NmtCommands : MasterState(k)
    \/ CfgOwnerNext
    \/ Stop \/ Finished

CfgSpec == CfgInit /\ [][CfgNext]_masterCfgVars

\* The owner and the threads inside a call keep running.  Lely's transfers end,
\* because a request carries a timeout of at least 1 ms.
CfgFairness ==
    /\ WF_masterCfgVars(CfgOwnerNext)
    /\ \A n \in Nodes : SF_masterCfgVars(XferAbort(n) \/ CfgInd(n)) /\ SF_masterCfgVars(DcfCon(n))
    /\ \A c \in Callers : WF_masterCfgVars(CallerNext(c))

CfgFairSpec == CfgSpec /\ CfgFairness

-----------------------------------------------------------------------------
(* Properties                                                              *)

InTodo(c) == \E i \in 1..Len(todo) : todo[i][1] = c
InQueue(c) == \E i \in 1..Len(mq) : mq[i] = <<"CFG", c>>

\* Type invariant.
CfgTypeOK ==
    /\ pc \in [Callers -> {"idle", "wait", "fini"}]
    /\ node \in [Callers -> Nodes] /\ calls \in [Callers -> 0..MaxCalls]
    /\ status \in [Callers -> {"OK", "ABORT", "CANCELED", "LOCAL_ERROR"}]
    /\ cancel_requested \in [Callers -> BOOLEAN] /\ done \in [Callers -> BOOLEAN]
    /\ completion_refs \in [Callers -> {0, 1}]
    /\ Len(mq) <= CommandDepth /\ quiescing \in BOOLEAN /\ commands \in 0..MaxCommands
    /\ cfg_active \in [Nodes -> Callers \cup {None}]
    /\ cfg_resume \in [Nodes -> {"NO", "OK", "ABORT"}]
    /\ cfg_tearing_down \in BOOLEAN
    /\ stage \in [Nodes -> {"none", "xfer", "user"}]
    /\ who \in [Nodes -> Callers \cup {None, Automatic}]
    /\ dcf \in [Nodes -> BOOLEAN] /\ booting \in [Nodes -> BOOLEAN]

\* A waiting request that is not done is held by exactly one of the queue, the
\* running handler, and cfg_active; and an active one has a sequence of Lely's
\* that will confirm it, so nobody waits for a callback that cannot come.  When
\* nmt_configure has returned, the request is in nobody's hands: in none of
\* those, nor in Lely's cfg_data.
HeldOnce ==
    \A c \in Callers :
        /\ pc[c] = "wait" /\ ~done[c] =>
              Cardinality({k \in 1..3 : <<InQueue(c), InTodo(c),
                   \E n \in Nodes : cfg_active[n] = c /\ who[n] = c>>[k]}) = 1
        /\ pc[c] = "idle" =>
              /\ ~InQueue(c) /\ ~InTodo(c)
              /\ \A n \in Nodes : cfg_active[n] # c /\ who[n] # c

\* A staged resume belongs to the sequence that staged it: the reaper never
\* confirms the application stage of a later request of the same node.
ResumeMatches ==
    \A n \in Nodes : cfg_resume[n] # "NO" =>
        /\ cfg_active[n] # None /\ who[n] = cfg_active[n]
        /\ stage[n] = "user" /\ ~dcf[n]

\* What the caller is told is true: OK only when Lely's whole sequence for this
\* request ended without an abort, and CANCELED whenever a stop or reset of the
\* node was sent in the meantime, however the sequence then ended.
ResultTrue ==
    \A c \in Callers : pc[c] # "idle" /\ done[c] =>
        /\ status[c] = "OK" => applied[c]
        /\ hit[c] => status[c] = "CANCELED"

\* Every call returns: with a result of Lely's, or because a reset or the
\* teardown retires the request.
CallReturns == \A c \in Callers : (pc[c] = "wait") ~> (pc[c] = "idle")

=============================================================================

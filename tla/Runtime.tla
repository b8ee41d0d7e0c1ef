------------------------------ MODULE Runtime ------------------------------
(***************************************************************************)
(* The lifetime protocol of one lely_rtt_runtime (port/rtthread/src/       *)
(* runtime.c, master_command.c, can.c, timer.c).  Four kinds of actors     *)
(* share the runtime:                                                      *)
(*                                                                         *)
(*   - the application's lifecycle thread: runtime_start, runtime_stop and *)
(*     runtime_destroy, which the header requires it to serialise;         *)
(*   - the owner thread: owner_entry, the only one to touch Lely objects;  *)
(*   - Posters: application threads in master_command_post;                *)
(*   - CAN and deadline-timer callbacks in interrupt context.              *)
(*                                                                         *)
(* Posters hold the queue with command_refs and callbacks hold the runtime *)
(* with callback_refs.  Every atomic load and store of those protocols is  *)
(* a step of its own.                                                      *)
(***************************************************************************)
EXTENDS Integers, Sequences, FiniteSets

CONSTANTS Posters,         \* threads that call master_command_post
          CanCallbacks,    \* contexts running can_rx_/can_status_indicate
          TimerCallbacks,  \* contexts running deadline_timeout
          MasterConfigured, \* runtime_configure_master was called
          QueueDepth,      \* PKG_LELY_MASTER_COMMAND_QUEUE_DEPTH
          MaxRuns,         \* bound: how often start() gets as far as prepare()
          DrainBeforeRestart \* the application calls start() only when no
                             \* post call of an earlier run is still executing

ASSUME RuntimeAssumption ==
    /\ IsFiniteSet(Posters)
    /\ IsFiniteSet(CanCallbacks)
    /\ IsFiniteSet(TimerCallbacks)
    /\ CanCallbacks \cap TimerCallbacks = {}
    /\ MasterConfigured \in BOOLEAN
    /\ QueueDepth \in Nat \ {0}
    /\ MaxRuns \in Nat \ {0}
    /\ DrainBeforeRestart \in BOOLEAN

VARIABLES
    app,                   \* program counter of the lifecycle thread
    owner_thread,          \* runtime->owner_thread # RT_NULL
    up,                    \* the last start() returned RT_EOK, no stop() completed
    freed,                 \* rt_free(runtime) was executed
    runs,                  \* number of start() calls that executed prepare()
    owner,                 \* program counter of the owner thread
    event,                 \* flags pending in runtime->event
    init_ok,               \* runtime->init_result = RT_EOK
    runtime_error,         \* runtime->runtime_error # RT_EOK
    count,                 \* commands taken in this master_command_dispatch
    command_mq,            \* runtime->command_mq # RT_NULL
    queue,                 \* content of the message queue
    command_refs, command_quiescing, command_stop_latched,
    registered,            \* runtime is in the CAN callback registry
    armed,                 \* the deadline timer may expire
    objects,               \* Lely objects (ctx, loop, can_net, master) exist
    callback_refs, callback_quiescing,
    post,                  \* program counter of each poster
    fate,                  \* what became of the poster's accepted command
    cb                     \* program counter of each callback context

Callbacks == CanCallbacks \cup TimerCallbacks

appVars == <<app, owner_thread, up, freed, runs>>
gateVars == <<command_refs, command_quiescing, command_stop_latched>>
queueVars == <<command_mq, queue, fate>>
deviceVars == <<registered, armed, objects>>
pinVars == <<callback_refs, callback_quiescing>>
statusVars == <<init_ok, runtime_error>>
vars == <<appVars, owner, event, statusVars, count, queueVars, gateVars,
          deviceVars, pinVars, post, cb>>

Flags == {"STOP", "READY", "EXIT", "COMMAND", "RX_READY", "TIMER_DUE"}
OWNER_MASK == {"STOP", "COMMAND", "RX_READY", "TIMER_DUE"}

\* runtime_create: rt_calloc leaves every counter and flag zero.
Init ==
    /\ app = "idle" /\ owner_thread = FALSE /\ up = FALSE /\ freed = FALSE
    /\ runs = 0
    /\ owner = "none" /\ event = {} /\ init_ok = TRUE /\ runtime_error = FALSE
    /\ count = 0
    /\ command_mq = FALSE /\ queue = <<>>
    /\ command_refs = 0 /\ command_quiescing = FALSE
    /\ command_stop_latched = FALSE
    /\ registered = FALSE /\ armed = FALSE /\ objects = FALSE
    /\ callback_refs = 0 /\ callback_quiescing = FALSE
    /\ post = [p \in Posters |-> "idle"]
    /\ fate = [p \in Posters |-> "none"]
    /\ cb = [c \in Callbacks |-> "idle"]

-----------------------------------------------------------------------------
(* lely_rtt_runtime_start                                                  *)

\* Fault: start() keeps the flags of an earlier run.
StartKeepsEvents ==
    /\ app = "idle" /\ ~freed /\ ~owner_thread
    /\ runs < MaxRuns
    /\ DrainBeforeRestart => \A p \in Posters : post[p] \in {"idle", "await"}
    /\ app' = "prepare_refs"
    /\ runs' = runs + 1
    /\ UNCHANGED <<owner_thread, up, freed, owner, event, statusVars, count,
                   queueVars, gateVars, deviceVars, pinVars, post, cb>>

\* The guard on owner_thread, then clear_events.
StartClearEvents ==
    /\ app = "idle" /\ ~freed /\ ~owner_thread
    /\ runs < MaxRuns
    /\ DrainBeforeRestart => \A p \in Posters : post[p] \in {"idle", "await"}
    /\ event' = {}
    /\ app' = "prepare_refs"
    /\ runs' = runs + 1
    /\ UNCHANGED <<owner_thread, up, freed, owner, statusVars, count, queueVars,
                   gateVars, deviceVars, pinVars, post, cb>>

\* The three stores of master_command_prepare.
PrepareRefs ==
    /\ app = "prepare_refs"
    /\ command_refs' = 0
    /\ app' = "prepare_latch"
    /\ UNCHANGED <<owner_thread, up, freed, runs, owner, event, statusVars,
                   count, queueVars, command_quiescing, command_stop_latched,
                   deviceVars, pinVars, post, cb>>

PrepareLatch ==
    /\ app = "prepare_latch"
    /\ command_stop_latched' = FALSE
    /\ app' = "prepare_quiescing"
    /\ UNCHANGED <<owner_thread, up, freed, runs, owner, event, statusVars,
                   count, queueVars, command_refs, command_quiescing,
                   deviceVars, pinVars, post, cb>>

\* The last store of prepare and the reset of the status fields.
PrepareQuiescing ==
    /\ app = "prepare_quiescing"
    /\ command_quiescing' = TRUE
    /\ init_ok' = FALSE
    /\ runtime_error' = FALSE
    /\ app' = "create_thread"
    /\ UNCHANGED <<owner_thread, up, freed, runs, owner, event, count,
                   queueVars, command_refs, command_stop_latched,
                   deviceVars, pinVars, post, cb>>

\* rt_thread_create and rt_thread_startup; when either fails start() returns
\* with owner_thread = RT_NULL.
CreateThread ==
    /\ app = "create_thread"
    /\ \/ /\ owner_thread' = TRUE /\ owner' = "init_ctx"
          /\ app' = "wait_ready"
       \/ /\ app' = "idle"
          /\ UNCHANGED <<owner_thread, owner>>
    /\ UNCHANGED <<up, freed, runs, event, statusVars, count, queueVars,
                   gateVars, deviceVars, pinVars, post, cb>>

\* rt_event_recv(READY | CLEAR) succeeds.
StartReady ==
    /\ app = "wait_ready" /\ "READY" \in event
    /\ event' = event \ {"READY"}
    /\ IF init_ok THEN app' = "idle" /\ up' = TRUE
                  ELSE app' = "wait_exit_start" /\ UNCHANGED up
    /\ UNCHANGED <<owner_thread, freed, runs, owner, statusVars, count,
                   queueVars, gateVars, deviceVars, pinVars, post, cb>>

\* The READY wait times out: start() latches STOP and leaves owner_thread set.
StartReadyTimeout ==
    /\ app = "wait_ready"
    /\ app' = "timeout_latch"
    /\ UNCHANGED <<owner_thread, up, freed, runs, owner, event, statusVars,
                   count, queueVars, gateVars, deviceVars, pinVars, post, cb>>

\* After a failed initialisation start() waits for EXIT; a timeout leaves
\* owner_thread set.
StartExit ==
    /\ app = "wait_exit_start"
    /\ \/ /\ "EXIT" \in event
          /\ event' = event \ {"EXIT"}
          /\ owner_thread' = FALSE
       \/ UNCHANGED <<event, owner_thread>>
    /\ app' = "idle"
    /\ UNCHANGED <<up, freed, runs, owner, statusVars, count, queueVars,
                   gateVars, deviceVars, pinVars, post, cb>>

-----------------------------------------------------------------------------
(* lely_rtt_runtime_stop                                                   *)

StopBegin ==
    /\ app = "idle" /\ ~freed /\ owner_thread
    /\ app' = "stop_latch"
    /\ UNCHANGED <<owner_thread, up, freed, runs, owner, event, statusVars,
                   count, queueVars, gateVars, deviceVars, pinVars, post, cb>>

\* The first store of master_command_quiesce_begin, from stop() and from the
\* timeout path of start().
AppLatch ==
    /\ app \in {"stop_latch", "timeout_latch"}
    /\ command_stop_latched' = TRUE
    /\ app' = IF app = "stop_latch" THEN "stop_quiesce" ELSE "timeout_quiesce"
    /\ UNCHANGED <<owner_thread, up, freed, runs, owner, event, statusVars,
                   count, queueVars, command_refs, command_quiescing,
                   deviceVars, pinVars, post, cb>>

\* Fault: the owner is not woken.
AppQuiesceNoWake ==
    /\ app \in {"stop_quiesce", "timeout_quiesce"}
    /\ command_quiescing' = TRUE
    /\ app' = IF app = "stop_quiesce" THEN "wait_exit" ELSE "idle"
    /\ UNCHANGED <<owner_thread, up, freed, runs, owner, event, statusVars,
                   count, queueVars, command_refs, command_stop_latched,
                   deviceVars, pinVars, post, cb>>

\* The second store of quiesce_begin, then rt_event_send(STOP).
AppQuiesce ==
    /\ app \in {"stop_quiesce", "timeout_quiesce"}
    /\ command_quiescing' = TRUE
    /\ event' = event \cup {"STOP"}
    /\ app' = IF app = "stop_quiesce" THEN "wait_exit" ELSE "idle"
    /\ UNCHANGED <<owner_thread, up, freed, runs, owner, statusVars, count,
                   queueVars, command_refs, command_stop_latched,
                   deviceVars, pinVars, post, cb>>

\* rt_event_recv(EXIT | CLEAR) succeeds: the owner is gone.
StopExit ==
    /\ app = "wait_exit" /\ "EXIT" \in event
    /\ event' = event \ {"EXIT"}
    /\ owner_thread' = FALSE /\ up' = FALSE
    /\ app' = "idle"
    /\ UNCHANGED <<freed, runs, owner, statusVars, count, queueVars,
                   gateVars, deviceVars, pinVars, post, cb>>

\* Fault: a timed-out stop() forgets the owner.
StopTimeoutForgets ==
    /\ app = "wait_exit"
    /\ app' = "idle" /\ owner_thread' = FALSE
    /\ UNCHANGED <<up, freed, runs, owner, event, statusVars, count, queueVars,
                   gateVars, deviceVars, pinVars, post, cb>>

\* The EXIT wait times out: storage stays, the caller may call stop() again.
StopExitTimeout ==
    /\ app = "wait_exit"
    /\ app' = "idle"
    /\ UNCHANGED <<owner_thread, up, freed, runs, owner, event, statusVars,
                   count, queueVars, gateVars, deviceVars, pinVars, post, cb>>

\* lely_rtt_runtime_destroy: refused while owner_thread is set.  The handle is
\* the application's, so no thread of its own is inside a post call.
Destroy ==
    /\ app = "idle" /\ ~freed /\ ~owner_thread
    /\ \A p \in Posters : post[p] \in {"idle", "await"}
    /\ freed' = TRUE
    /\ UNCHANGED <<app, owner_thread, up, runs, owner, event, statusVars,
                   count, queueVars, gateVars, deviceVars, pinVars, post, cb>>

-----------------------------------------------------------------------------
(* Owner thread: owner_init                                                *)

\* io_ctx_create and ev_loop_create, then callbacks_init.  A failure of one of
\* the first two leads to cleanup before callbacks_init has run.
OwnerInitCtx ==
    /\ owner = "init_ctx"
    /\ \/ /\ objects' = TRUE
          /\ callback_refs' = 0 /\ callback_quiescing' = FALSE
          /\ owner' = "init_dev"
       \/ /\ objects' \in BOOLEAN
          /\ owner' = "fail_latch"
          /\ UNCHANGED pinVars
    /\ UNCHANGED <<appVars, event, statusVars, count, queueVars, gateVars,
                   registered, armed, post, cb>>

\* timer_init and can_init: the registry entry is added after the last step
\* that precedes callbacks, so a failure can leave it absent or present.
OwnerInitDevices ==
    /\ owner = "init_dev"
    /\ \/ registered' = TRUE /\ armed' = TRUE /\ owner' = "init_master"
       \/ /\ registered' \in BOOLEAN /\ armed' \in BOOLEAN
          /\ owner' = "fail_latch"
    /\ UNCHANGED <<appVars, event, statusVars, count, queueVars, gateVars,
                   objects, pinVars, post, cb>>

\* io_can_net_create, master_init (which may find its OD unusable) and
\* master_command_init.
OwnerInitMaster ==
    /\ owner = "init_master"
    /\ \/ command_mq' = TRUE /\ owner' = "init_done"
       \/ owner' = "fail_latch" /\ UNCHANGED command_mq
    /\ UNCHANGED <<appVars, event, statusVars, count, queue, fate, gateVars,
                   deviceVars, pinVars, post, cb>>

\* First RX drain, timer advance and status poll; a deadline-timer failure has
\* latched runtime_error, sent STOP, and owner_init fails with the queue created.
OwnerInitDone ==
    /\ owner = "init_done"
    /\ \/ /\ init_ok' = TRUE /\ owner' = "open_check"
          /\ UNCHANGED <<runtime_error, event>>
       \/ /\ runtime_error' = TRUE /\ event' = event \cup {"STOP"}
          /\ owner' = "fail_latch" /\ UNCHANGED init_ok
    /\ UNCHANGED <<appVars, count, queueVars, gateVars, deviceVars,
                   pinVars, post, cb>>

-----------------------------------------------------------------------------
(* Owner thread: master_command_admission_open and the work loop           *)

OpenCheck ==
    /\ owner = "open_check"
    /\ owner' = IF ~command_mq \/ ~MasterConfigured \/ command_stop_latched
                THEN "ready" ELSE "open_store"
    /\ UNCHANGED <<appVars, event, statusVars, count, queueVars, gateVars,
                   deviceVars, pinVars, post, cb>>

OpenStore ==
    /\ owner = "open_store"
    /\ command_quiescing' = FALSE
    /\ owner' = "open_recheck"
    /\ UNCHANGED <<appVars, event, statusVars, count, queueVars, command_refs,
                   command_stop_latched, deviceVars, pinVars, post, cb>>

OpenRecheck ==
    /\ owner = "open_recheck"
    /\ command_quiescing' = (command_quiescing \/ command_stop_latched)
    /\ owner' = "ready"
    /\ UNCHANGED <<appVars, event, statusVars, count, queueVars, command_refs,
                   command_stop_latched, deviceVars, pinVars, post, cb>>

OwnerReady ==
    /\ owner = "ready"
    /\ event' = event \cup {"READY"}
    /\ owner' = "loop"
    /\ UNCHANGED <<appVars, statusVars, count, queueVars, gateVars,
                   deviceVars, pinVars, post, cb>>

\* Fault: the owner waits for a flag forever, without the safety poll.
OwnerWakeNoPoll ==
    /\ owner = "loop" /\ event \cap OWNER_MASK # {}
    /\ event' = event \ OWNER_MASK
    /\ count' = 0
    /\ owner' = IF "STOP" \in event THEN "fini_latch" ELSE "dispatch"
    /\ UNCHANGED <<appVars, statusVars, queueVars, gateVars, deviceVars,
                   pinVars, post, cb>>

\* rt_event_recv returns with flags, or with -RT_ETIMEOUT after the safety
\* poll.  STOP ends the loop; otherwise timer and CAN network are advanced,
\* which may fail, latch runtime_error and send STOP, and commands are
\* dispatched.
OwnerWake ==
    /\ owner = "loop"
    /\ count' = 0
    /\ \/ /\ "STOP" \in event
          /\ event' = event \ OWNER_MASK
          /\ owner' = "fini_latch" /\ UNCHANGED runtime_error
       \/ /\ "STOP" \notin event
          /\ event' = event \ OWNER_MASK
          /\ owner' = "dispatch" /\ UNCHANGED runtime_error
       \/ /\ "STOP" \notin event
          /\ event' = (event \ OWNER_MASK) \cup {"STOP"}
          /\ owner' = "fini_latch" /\ runtime_error' = TRUE
    /\ UNCHANGED <<appVars, init_ok, queueVars, gateVars, deviceVars, pinVars,
                   post, cb>>

\* One iteration of the loop in master_command_dispatch.
DispatchOne ==
    /\ owner = "dispatch" /\ count < QueueDepth /\ queue # <<>>
    /\ queue' = Tail(queue)
    /\ fate' = [fate EXCEPT ![Head(queue)] = "dispatched"]
    /\ count' = count + 1
    /\ UNCHANGED <<appVars, owner, event, statusVars, command_mq, gateVars,
                   deviceVars, pinVars, post, cb>>

\* The batch is complete or the queue is empty; the loop is drained again.
DispatchEnd ==
    /\ owner = "dispatch" /\ (count = QueueDepth \/ queue = <<>>)
    /\ owner' = "loop"
    /\ UNCHANGED <<appVars, event, statusVars, count, queueVars, gateVars,
                   deviceVars, pinVars, post, cb>>

-----------------------------------------------------------------------------
\* A CAN callback holds the registry lock from its lookup to the end of
\* callback_acquire.
HoldsRegistryLock(c) == cb[c] \in {"pin", "recheck", "reject"}
RegistryUnlocked == \A c \in CanCallbacks : ~HoldsRegistryLock(c)

(* Owner thread: owner_cleanup, from the loop (fini) or a failed init      *)
(* (fail); the two differ only in the flags sent at the end.               *)

\* The first store of master_command_quiesce_begin.
CleanupLatch ==
    /\ owner \in {"fini_latch", "fail_latch"}
    /\ command_stop_latched' = TRUE
    /\ owner' = IF owner = "fini_latch" THEN "fini_quiesce" ELSE "fail_quiesce"
    /\ UNCHANGED <<appVars, event, statusVars, count, queueVars, command_refs,
                   command_quiescing, deviceVars, pinVars, post, cb>>

\* Fault: the queue is deleted before the posters have been drained.
CleanupQuiesceDeletes ==
    /\ owner \in {"fini_quiesce", "fail_quiesce"}
    /\ command_quiescing' = TRUE /\ command_mq' = FALSE
    /\ owner' = IF owner = "fini_quiesce" THEN "fini_idle" ELSE "fail_idle"
    /\ UNCHANGED <<appVars, event, statusVars, count, queue, fate, command_refs,
                   command_stop_latched, deviceVars, pinVars, post, cb>>

\* The second store of quiesce_begin.
CleanupQuiesce ==
    /\ owner \in {"fini_quiesce", "fail_quiesce"}
    /\ command_quiescing' = TRUE
    /\ owner' = IF owner = "fini_quiesce" THEN "fini_idle" ELSE "fail_idle"
    /\ UNCHANGED <<appVars, event, statusVars, count, queueVars, command_refs,
                   command_stop_latched, deviceVars, pinVars, post, cb>>

\* master_command_wait_idle returns, then callbacks_quiesce_begin.
CleanupCommandsIdle ==
    /\ owner \in {"fini_idle", "fail_idle"}
    /\ command_refs = 0
    /\ callback_quiescing' = TRUE
    /\ owner' = IF owner = "fini_idle" THEN "fini_retire" ELSE "fail_retire"
    /\ UNCHANGED <<appVars, event, statusVars, count, queueVars, gateVars,
                   deviceVars, callback_refs, post, cb>>

\* master_command_fini retires the queued commands one by one.
RetireOne ==
    /\ owner \in {"fini_retire", "fail_retire"} /\ queue # <<>>
    /\ queue' = Tail(queue)
    /\ fate' = [fate EXCEPT ![Head(queue)] = "retired"]
    /\ UNCHANGED <<appVars, owner, event, statusVars, count, command_mq,
                   gateVars, deviceVars, pinVars, post, cb>>

\* Fault: the queue is deleted with its content.
DeleteFullQueue ==
    /\ owner \in {"fini_retire", "fail_retire"}
    /\ command_mq' = FALSE /\ queue' = <<>>
    /\ owner' = IF owner = "fini_retire" THEN "fini_can" ELSE "fail_can"
    /\ UNCHANGED <<appVars, event, statusVars, count, fate, gateVars,
                   deviceVars, pinVars, post, cb>>

\* rt_mq_recv finds the queue empty: rt_mq_delete.
DeleteQueue ==
    /\ owner \in {"fini_retire", "fail_retire"} /\ queue = <<>>
    /\ command_mq' = FALSE
    /\ owner' = IF owner = "fini_retire" THEN "fini_can" ELSE "fail_can"
    /\ UNCHANGED <<appVars, event, statusVars, count, queue, fate, gateVars,
                   deviceVars, pinVars, post, cb>>

\* can_quiesce, which ends with registry_remove under the registry lock, and
\* rt_timer_stop.  A driver that refuses to detach latches runtime_error.
CanQuiesce ==
    /\ owner \in {"fini_can", "fail_can"}
    /\ registered => RegistryUnlocked
    /\ registered' = FALSE /\ armed' = FALSE
    /\ runtime_error' \in {runtime_error, TRUE}
    /\ owner' = IF owner = "fini_can" THEN "fini_pins" ELSE "fail_pins"
    /\ UNCHANGED <<appVars, event, init_ok, count, queueVars, gateVars,
                   objects, pinVars, post, cb>>

\* Fault: unregistering is taken for the end of the last callback.
DestroyObjectsEarly ==
    /\ owner \in {"fini_pins", "fail_pins"}
    /\ objects' = FALSE
    /\ owner' = IF owner = "fini_pins" THEN "fini_exit" ELSE "fail_exit"
    /\ UNCHANGED <<appVars, event, statusVars, count, queueVars, gateVars,
                   registered, armed, pinVars, post, cb>>

\* callbacks_wait_idle returns; Master, CAN network, channel, timer, loop and
\* context are destroyed.
DestroyObjects ==
    /\ owner \in {"fini_pins", "fail_pins"}
    /\ callback_refs = 0
    /\ objects' = FALSE
    /\ owner' = IF owner = "fini_pins" THEN "fini_exit" ELSE "fail_exit"
    /\ UNCHANGED <<appVars, event, statusVars, count, queueVars, gateVars,
                   registered, armed, pinVars, post, cb>>

\* The last access of the owner to the runtime: EXIT, with READY when init
\* failed.
OwnerExit ==
    /\ owner \in {"fini_exit", "fail_exit"}
    /\ event' = event \cup (IF owner = "fini_exit" THEN {"EXIT"}
                                                   ELSE {"READY", "EXIT"})
    /\ owner' = "none"
    /\ UNCHANGED <<appVars, statusVars, count, queueVars, gateVars,
                   deviceVars, pinVars, post, cb>>

-----------------------------------------------------------------------------
(* Posters: master_command_post                                            *)

PostGoto(p, from, to) ==
    /\ post[p] = from
    /\ post' = [post EXCEPT ![p] = to]

\* The header asks for a started runtime.
PostBegin(p) ==
    /\ up /\ ~freed
    /\ PostGoto(p, "idle", "check_latch")
    /\ fate' = [fate EXCEPT ![p] = "none"]
    /\ UNCHANGED <<appVars, owner, event, statusVars, count, command_mq, queue,
                   gateVars, deviceVars, pinVars, cb>>

\* The first pair of loads of master_command_acquire.
CheckLatch(p) ==
    /\ PostGoto(p, "check_latch",
                IF command_stop_latched THEN "idle" ELSE "check_quiescing")
    /\ UNCHANGED <<appVars, owner, event, statusVars, count, queueVars,
                   gateVars, deviceVars, pinVars, cb>>

CheckQuiescing(p) ==
    /\ PostGoto(p, "check_quiescing", IF command_quiescing THEN "idle" ELSE "pin")
    /\ UNCHANGED <<appVars, owner, event, statusVars, count, queueVars,
                   gateVars, deviceVars, pinVars, cb>>

\* rt_atomic_add(&command_refs, 1)
PostPin(p) ==
    /\ PostGoto(p, "pin", "recheck_latch")
    /\ command_refs' = command_refs + 1
    /\ UNCHANGED <<appVars, owner, event, statusVars, count, queueVars,
                   command_quiescing, command_stop_latched, deviceVars,
                   pinVars, cb>>

\* The second pair of loads.
RecheckLatch(p) ==
    /\ PostGoto(p, "recheck_latch",
                IF command_stop_latched THEN "unpin" ELSE "recheck_quiescing")
    /\ UNCHANGED <<appVars, owner, event, statusVars, count, queueVars,
                   gateVars, deviceVars, pinVars, cb>>

RecheckQuiescing(p) ==
    /\ PostGoto(p, "recheck_quiescing",
                IF command_quiescing THEN "unpin" ELSE "load_mq")
    /\ UNCHANGED <<appVars, owner, event, statusVars, count, queueVars,
                   gateVars, deviceVars, pinVars, cb>>

\* if (!runtime->command_mq) goto out
LoadMq(p) ==
    /\ PostGoto(p, "load_mq", IF command_mq THEN "send" ELSE "unpin")
    /\ UNCHANGED <<appVars, owner, event, statusVars, count, queueVars,
                   gateVars, deviceVars, pinVars, cb>>

\* rt_mq_send: accepted, or refused when the queue is full.
MqSend(p) ==
    /\ \/ /\ Len(queue) < QueueDepth
          /\ PostGoto(p, "send", "signal")
          /\ queue' = Append(queue, p)
          /\ fate' = [fate EXCEPT ![p] = "queued"]
       \/ /\ Len(queue) = QueueDepth
          /\ PostGoto(p, "send", "unpin")
          /\ UNCHANGED <<queue, fate>>
    /\ UNCHANGED <<appVars, owner, event, statusVars, count, command_mq,
                   gateVars, deviceVars, pinVars, cb>>

\* rt_event_send(COMMAND); an IPC error is logged and the post still succeeds.
Signal(p) ==
    /\ PostGoto(p, "signal", "unpin_await")
    /\ event' \in {event, event \cup {"COMMAND"}}
    /\ UNCHANGED <<appVars, owner, statusVars, count, queueVars, gateVars,
                   deviceVars, pinVars, cb>>

\* master_command_release.  The caller of an accepted command then waits for
\* the owner's answer.
Unpin(p) ==
    /\ \/ PostGoto(p, "unpin", "idle")
       \/ PostGoto(p, "unpin_await", "await")
    /\ command_refs' = command_refs - 1
    /\ UNCHANGED <<appVars, owner, event, statusVars, count, queueVars,
                   command_quiescing, command_stop_latched, deviceVars,
                   pinVars, cb>>

\* The owner has dispatched or retired the command.
Answered(p) ==
    /\ fate[p] \in {"dispatched", "retired"}
    /\ PostGoto(p, "await", "idle")
    /\ UNCHANGED <<appVars, owner, event, statusVars, count, queueVars,
                   gateVars, deviceVars, pinVars, cb>>

-----------------------------------------------------------------------------
(* Callbacks: can_rx_indicate, can_status_indicate and deadline_timeout    *)

CallbackGoto(c, from, to) ==
    /\ cb[c] = from
    /\ cb' = [cb EXCEPT ![c] = to]

\* can_registry_acquire takes the registry lock, finds the runtime and enters
\* callback_acquire, whose first load must see no quiescing.
CanCallbackEnter(c) ==
    /\ registered /\ RegistryUnlocked /\ ~callback_quiescing
    /\ CallbackGoto(c, "idle", "pin")
    /\ UNCHANGED <<appVars, owner, event, statusVars, count, queueVars,
                   gateVars, deviceVars, pinVars, post>>

CanCallbackPin(c) ==
    /\ CallbackGoto(c, "pin", "recheck")
    /\ callback_refs' = callback_refs + 1
    /\ UNCHANGED <<appVars, owner, event, statusVars, count, queueVars,
                   gateVars, deviceVars, callback_quiescing, post>>

\* deadline_timeout: the timer interrupt loads callback_quiescing and adds its
\* pin before any thread runs again.
TimerCallbackEnter(c) ==
    /\ armed /\ ~callback_quiescing
    /\ CallbackGoto(c, "idle", "recheck")
    /\ callback_refs' = callback_refs + 1
    /\ UNCHANGED <<appVars, owner, event, statusVars, count, queueVars,
                   gateVars, deviceVars, callback_quiescing, post>>

\* The second load of callback_acquire; on success the registry lock is
\* released.
CallbackRecheck(c) ==
    /\ CallbackGoto(c, "recheck", IF callback_quiescing THEN "reject" ELSE "send")
    /\ UNCHANGED <<appVars, owner, event, statusVars, count, queueVars,
                   gateVars, deviceVars, pinVars, post>>

\* rt_event_send to the owner.
CallbackSend(c) ==
    /\ CallbackGoto(c, "send", "release")
    /\ event' = event \cup {IF c \in CanCallbacks THEN "RX_READY" ELSE "TIMER_DUE"}
    /\ UNCHANGED <<appVars, owner, statusVars, count, queueVars, gateVars,
                   deviceVars, pinVars, post>>

\* callback_release, of an admitted or of a speculative pin.
CallbackRelease(c) ==
    /\ \/ CallbackGoto(c, "release", "idle")
       \/ CallbackGoto(c, "reject", "idle")
    /\ callback_refs' = callback_refs - 1
    /\ UNCHANGED <<appVars, owner, event, statusVars, count, queueVars,
                   gateVars, deviceVars, callback_quiescing, post>>

-----------------------------------------------------------------------------
AppCall == PrepareRefs \/ PrepareLatch \/ PrepareQuiescing \/ CreateThread
           \/ StartReady \/ StartReadyTimeout \/ StartExit
           \/ AppLatch \/ AppQuiesce \/ StopExit \/ StopExitTimeout

AppNext == StartClearEvents \/ StopBegin \/ Destroy \/ AppCall

OwnerNext == OwnerInitCtx \/ OwnerInitDevices \/ OwnerInitMaster \/ OwnerInitDone
             \/ OpenCheck \/ OpenStore \/ OpenRecheck \/ OwnerReady
             \/ OwnerWake \/ DispatchOne \/ DispatchEnd
             \/ CleanupLatch \/ CleanupQuiesce \/ CleanupCommandsIdle
             \/ RetireOne \/ DeleteQueue \/ CanQuiesce \/ DestroyObjects
             \/ OwnerExit

PostStep(p) == CheckLatch(p) \/ CheckQuiescing(p) \/ PostPin(p)
               \/ RecheckLatch(p) \/ RecheckQuiescing(p) \/ LoadMq(p)
               \/ MqSend(p) \/ Signal(p) \/ Unpin(p) \/ Answered(p)

CanStep(c) == CanCallbackPin(c) \/ CallbackRecheck(c) \/ CallbackSend(c)
              \/ CallbackRelease(c)

TimerStep(c) == CallbackRecheck(c) \/ CallbackSend(c) \/ CallbackRelease(c)

\* Nothing is left to do once the handle has been destroyed.
Destroyed ==
    /\ freed /\ UNCHANGED vars

Next ==
    \/ AppNext
    \/ OwnerNext
    \/ \E p \in Posters : PostBegin(p) \/ PostStep(p)
    \/ \E c \in CanCallbacks : CanCallbackEnter(c) \/ CanStep(c)
    \/ \E c \in TimerCallbacks : TimerCallbackEnter(c) \/ TimerStep(c)
    \/ Destroyed

Spec == Init /\ [][Next]_vars

\* Every thread that is inside a call keeps running: RT-Thread schedules it,
\* and the waits of start() and stop() are bounded.  Nothing forces the
\* application to make a call or a device to raise a callback.
Fairness ==
    /\ WF_vars(AppCall)
    /\ WF_vars(OwnerNext)
    /\ \A p \in Posters : WF_vars(PostStep(p))
    /\ \A c \in CanCallbacks : WF_vars(CanStep(c))
    /\ \A c \in TimerCallbacks : WF_vars(TimerStep(c))

FairSpec == Spec /\ Fairness

-----------------------------------------------------------------------------
(* Properties                                                              *)

AppPcs == {"idle", "prepare_refs", "prepare_latch", "prepare_quiescing",
           "create_thread", "wait_ready", "wait_exit_start", "timeout_latch",
           "timeout_quiesce", "stop_latch", "stop_quiesce", "wait_exit"}
InitPcs == {"init_ctx", "init_dev", "init_master", "init_done"}
OpenPcs == {"open_check", "open_store", "open_recheck", "ready"}
LoopPcs == {"loop", "dispatch"}
FiniPcs == {"fini_latch", "fini_quiesce", "fini_idle", "fini_retire",
            "fini_can", "fini_pins", "fini_exit"}
FailPcs == {"fail_latch", "fail_quiesce", "fail_idle", "fail_retire",
            "fail_can", "fail_pins", "fail_exit"}
OwnerPcs == {"none"} \cup InitPcs \cup OpenPcs \cup LoopPcs \cup FiniPcs
            \cup FailPcs
PinnedPcs == {"recheck_latch", "recheck_quiescing", "load_mq", "send",
              "signal", "unpin", "unpin_await"}
PostPcs == {"idle", "check_latch", "check_quiescing", "pin", "await"}
           \cup PinnedPcs
CbPcs == {"idle", "pin", "recheck", "send", "release", "reject"}

Pinned == {p \in Posters : post[p] \in PinnedPcs}
CbPinned == {c \in Callbacks : cb[c] \in {"recheck", "send", "release", "reject"}}

BooleansOK ==
    /\ owner_thread \in BOOLEAN /\ up \in BOOLEAN /\ freed \in BOOLEAN
    /\ init_ok \in BOOLEAN /\ runtime_error \in BOOLEAN
    /\ command_mq \in BOOLEAN
    /\ command_quiescing \in BOOLEAN /\ command_stop_latched \in BOOLEAN
    /\ registered \in BOOLEAN /\ armed \in BOOLEAN /\ objects \in BOOLEAN
    /\ callback_quiescing \in BOOLEAN

ValuesOK ==
    /\ app \in AppPcs /\ owner \in OwnerPcs
    /\ runs \in 0..MaxRuns
    /\ event \subseteq Flags
    /\ count \in 0..QueueDepth
    /\ queue \in Seq(Posters) /\ Len(queue) <= QueueDepth
    /\ command_refs \in Int /\ callback_refs \in Int
    /\ post \in [Posters -> PostPcs]
    /\ fate \in [Posters -> {"none", "queued", "dispatched", "retired"}]
    /\ cb \in [Callbacks -> CbPcs]

\* Type invariant: the counters are integers, every flag set and program
\* counter is one the code has, and the queue never exceeds its depth.
TypeOK == BooleansOK /\ ValuesOK

\* internal.h calls command_refs the "number of command posters holding the
\* queue lifetime pin": it is exactly that number in every state.
RefsCountPosters == command_refs = Cardinality(Pinned)

\* The queue a poster has found non-NULL is not deleted before its rt_mq_send
\* returns, although owner_cleanup may run at any time in between.
QueuePinned == \A p \in Posters : post[p] \in {"send", "signal"} => command_mq

\* No thread is still sending a command once owner_cleanup has drained
\* command_refs, so nothing enters the queue while master_command_fini
\* retires its content.
TeardownExclusive ==
    owner \in {"fini_retire", "fini_can", "fini_pins", "fini_exit",
               "fail_retire", "fail_can", "fail_pins", "fail_exit"}
        => \A p \in Posters : post[p] \notin {"load_mq", "send", "signal"}

\* A callback that passed callback_acquire runs on live storage and on live
\* Lely objects until it releases its pin: owner_cleanup waits for it and
\* destroy() cannot have freed the runtime.
CallbackLifetime ==
    \A c \in Callbacks :
        cb[c] # "idle" => /\ ~freed
                          /\ objects
                          /\ owner \notin {"none", "fini_exit", "fail_exit"}

\* start() and stop() clear owner_thread, and destroy() frees the storage, only
\* after the owner has performed its last access and has released the queue,
\* the registry entry, the timer and the Lely objects of this run.
ExitBarrier ==
    ~owner_thread => /\ owner = "none"
                     /\ ~command_mq /\ ~registered /\ ~armed /\ ~objects

\* start() reports success only for an owner that finished owner_init, and
\* takes the failure path only for one whose owner_init failed: a READY or EXIT
\* flag left over from an earlier run never decides for this one.
StartVerdict ==
    /\ up => owner \notin InitPcs \cup FailPcs
    /\ app = "wait_exit_start" => owner \in FailPcs \cup {"none"}

\* Every command that rt_mq_send accepted has been dispatched or retired by the
\* time the owner exits: a caller blocked on its answer is never forgotten.
AcceptedResolved ==
    owner = "none" => /\ queue = <<>>
                      /\ \A p \in Posters : fate[p] # "queued"

\* A latched stop always ends with the owner's exit: the drain of posters and
\* of callbacks in owner_cleanup terminates.
StopCompletes == command_stop_latched ~> (owner = "none")

\* An accepted command is eventually dispatched or retired, even when the
\* COMMAND event could not be sent: the safety poll finds it.
AcceptedAnswered ==
    \A p \in Posters : (fate[p] = "queued") ~> (fate[p] # "queued")

=============================================================================

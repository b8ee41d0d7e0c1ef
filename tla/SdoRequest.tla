----------------------------- MODULE SdoRequest -----------------------------
(***************************************************************************)
(* The life of asynchronous SDO requests to one remote node                *)
(* (port/rtthread/src/master_sdo_request.c, master_sdo.c and               *)
(* master_sdo_client.c).  Each request belongs to one application thread,  *)
(* which posts, cancels, awaits and destroys it; the owner thread          *)
(* dispatches it from the command queue to the node's FIFO and to the SDO  *)
(* client, and completes it.  The two sides share the atomic field state;  *)
(* completion_refs keeps the request, sdo_cancel_refs and a callback pin   *)
(* keep the runtime, alive for the side that is still using it.            *)
(*                                                                         *)
(* master_command_post and callback_acquire, whose own protocol is module  *)
(* Runtime, are single steps here.  The runtime is stopped at most once.   *)
(***************************************************************************)
EXTENDS Integers, Sequences, FiniteSets, SequencesExt

CONSTANTS Requests,    \* request objects, each with its application thread
          None,        \* a null request pointer
          QueueDepth,  \* PKG_LELY_MASTER_COMMAND_QUEUE_DEPTH
          FifoDepth,   \* PKG_LELY_MASTER_SDO_QUEUE_DEPTH
          Cancelers,   \* requests whose thread may call request_cancel
          MaxCancels   \* bound: how often it does so

ASSUME SdoAssumption ==
    /\ IsFiniteSet(Requests) /\ None \notin Requests /\ Cancelers \subseteq Requests
    /\ QueueDepth \in Nat \ {0} /\ FifoDepth \in Nat \ {0} /\ MaxCancels \in Nat

VARIABLES
    state,            \* request->state
    status,           \* completion_status with its abort code
    completion_refs,  \* request->completion_refs
    done_event,       \* the DONE flag of request->completion
    pc,               \* program counter of the request's thread
    admitted,         \* local: the cancel command was queued
    holds,            \* local: runtime_pin
    cancels,          \* number of request_cancel calls
    accepted,         \* cancel returned RT_EOK before the transfer started
    mq,               \* commands in the owner's queue
    active,           \* sdo_active[node_id]
    pending,          \* sdo_pending[node_id]
    stop_pending,     \* sdo_stop_pending[node_id]
    available,        \* node_available
    sdo_cancel_refs,
    callback_refs, callback_quiescing,
    stopping,         \* runtime_stop was called
    freed,            \* runtime_destroy has freed the runtime
    owner,            \* program counter of the owner thread
    resume,           \* where the owner continues after its completions
    todo,             \* completions the current handler has left to publish
    seen              \* local of master_sdo_complete: the state it expects

requestVars == <<state, status, completion_refs, done_event>>
threadVars == <<pc, admitted, holds, cancels, accepted>>
nodeVars == <<active, pending, stop_pending, available>>
pinVars == <<sdo_cancel_refs, callback_refs, callback_quiescing>>
runtimeVars == <<stopping, freed>>
ownerVars == <<owner, resume, todo, seen>>
vars == <<requestVars, threadVars, mq, nodeVars, pinVars, runtimeVars, ownerVars>>

Init ==
    /\ state = [r \in Requests |-> "NEW"]
    /\ status = [r \in Requests |-> "NONE"]
    /\ completion_refs = [r \in Requests |-> 0]
    /\ done_event = [r \in Requests |-> FALSE]
    /\ pc = [r \in Requests |-> "idle"]
    /\ admitted = [r \in Requests |-> FALSE]
    /\ holds = [r \in Requests |-> FALSE]
    /\ cancels = [r \in Requests |-> 0]
    /\ accepted = [r \in Requests |-> FALSE]
    /\ mq = <<>>
    /\ active = None /\ pending = <<>> /\ stop_pending = FALSE
    /\ available \in BOOLEAN
    /\ sdo_cancel_refs = 0 /\ callback_refs = 0 /\ callback_quiescing = FALSE
    /\ stopping = FALSE /\ freed = FALSE
    /\ owner = "events" /\ resume = "events" /\ todo = <<>> /\ seen = "NEW"

CANCEL_DONE == {"PENDING_CANCEL_DONE", "ACTIVE_CANCEL_DONE"}
CANCEL_PINNED == {"PENDING_CANCEL_PINNED", "ACTIVE_CANCEL_PINNED"}

Staged(s) == IF s = "ACTIVE_CANCEL_PINNED" THEN "ACTIVE_CANCEL_DONE"
                                           ELSE "PENDING_CANCEL_DONE"

FiniPcs == {"fini_drain", "fini_refs", "fini_pins", "exit"}
OwnerDrained == owner \in FiniPcs \/ resume \in FiniPcs

Goto(r, from, to) ==
    /\ pc[r] = from
    /\ pc' = [pc EXCEPT ![r] = to]

-----------------------------------------------------------------------------
(* The request's thread: post, wait, destroy                               *)

\* runtime_post_sdo up to its call of master_command_post.
Post(r) ==
    /\ Goto(r, "idle", "posting")
    /\ ~stopping /\ state[r] = "NEW"
    /\ state' = [state EXCEPT ![r] = "QUEUED"]
    /\ UNCHANGED <<status, completion_refs, done_event, admitted, holds, cancels,
                   accepted, mq, nodeVars, pinVars, runtimeVars, ownerVars>>

\* master_command_post admits a command until owner_cleanup has drained the
\* posters, and refuses one when the queue is full or stop() has been called.
CommandAdmitted == ~OwnerDrained /\ Len(mq) < QueueDepth
CommandRefused == stopping \/ Len(mq) = QueueDepth

PostDone(r) ==
    /\ Goto(r, "posting", "idle")
    /\ \/ /\ CommandAdmitted
          /\ mq' = Append(mq, <<"SDO", r>>)
          /\ UNCHANGED state
       \/ /\ CommandRefused
          /\ state' = [state EXCEPT ![r] = "NEW"]
          /\ UNCHANGED mq
    /\ UNCHANGED <<status, completion_refs, done_event, admitted, holds, cancels,
                   accepted, nodeVars, pinVars, runtimeVars, ownerVars>>

\* request_wait on a posted request that is not DONE yet.
Wait(r) ==
    /\ Goto(r, "idle", "waiting")
    /\ state[r] \notin {"NEW", "DONE"}
    /\ UNCHANGED <<requestVars, admitted, holds, cancels, accepted, mq, nodeVars,
                   pinVars, runtimeVars, ownerVars>>

\* The event arrives, or the caller's timeout expires.
WaitEvent(r) ==
    /\ Goto(r, "waiting", "idle")
    /\ done_event[r]
    /\ done_event' = [done_event EXCEPT ![r] = FALSE]
    /\ UNCHANGED <<state, status, completion_refs, admitted, holds, cancels,
                   accepted, mq, nodeVars, pinVars, runtimeVars, ownerVars>>

WaitTimeout(r) ==
    /\ Goto(r, "waiting", "idle")
    /\ UNCHANGED <<requestVars, admitted, holds, cancels, accepted, mq, nodeVars,
                   pinVars, runtimeVars, ownerVars>>

\* request_destroy: refused with -RT_EBUSY in every other state.
Destroy(r) ==
    /\ Goto(r, "idle", "destroying")
    /\ state[r] \in {"NEW", "DONE"}
    /\ UNCHANGED <<requestVars, admitted, holds, cancels, accepted, mq, nodeVars,
                   pinVars, runtimeVars, ownerVars>>

\* The publisher has left rt_event_send: the request is freed.
DestroyFree(r) ==
    /\ Goto(r, "destroying", "gone")
    /\ completion_refs[r] = 0
    /\ UNCHANGED <<requestVars, admitted, holds, cancels, accepted, mq, nodeVars,
                   pinVars, runtimeVars, ownerVars>>

-----------------------------------------------------------------------------
(* The request's thread: request_cancel                                    *)

\* The compare-and-exchange of request_cancel; its loop repeats until the
\* state it has seen is the one it changes.  In every other state the call
\* returns at once.
Cancel(r) ==
    /\ pc[r] = "idle" /\ r \in Cancelers /\ cancels[r] < MaxCancels
    /\ cancels' = [cancels EXCEPT ![r] = @ + 1]
    /\ \/ /\ state[r] = "QUEUED"
          /\ state' = [state EXCEPT ![r] = "CANCEL_PENDING"]
          /\ accepted' = [accepted EXCEPT ![r] = TRUE]
          /\ UNCHANGED pc
       \/ /\ state[r] = "PENDING"
          /\ state' = [state EXCEPT ![r] = "PENDING_CANCEL_PINNED"]
          /\ pc' = [pc EXCEPT ![r] = "acquire"]
          /\ UNCHANGED accepted
       \/ /\ state[r] = "ACTIVE"
          /\ state' = [state EXCEPT ![r] = "ACTIVE_CANCEL_PINNED"]
          /\ pc' = [pc EXCEPT ![r] = "post_active"]
          /\ UNCHANGED accepted
    /\ UNCHANGED <<status, completion_refs, done_event, admitted, holds, mq,
                   nodeVars, pinVars, runtimeVars, ownerVars>>

\* callback_acquire, for a pending request only.
CancelAcquire(r) ==
    /\ \/ /\ ~callback_quiescing
          /\ Goto(r, "acquire", "post_pending")
          /\ callback_refs' = callback_refs + 1
          /\ holds' = [holds EXCEPT ![r] = TRUE]
       \/ /\ callback_quiescing
          /\ Goto(r, "acquire", "unpin_pending")
          /\ UNCHANGED <<callback_refs, holds>>
    /\ UNCHANGED <<requestVars, admitted, cancels, accepted, mq, nodeVars,
                   sdo_cancel_refs, callback_quiescing, runtimeVars, ownerVars>>

\* master_command_post of the cancel command.
CancelPost(r) ==
    /\ \/ Goto(r, "post_pending", "unpin_pending")
       \/ Goto(r, "post_active", "unpin_active")
    /\ \/ /\ CommandAdmitted
          /\ mq' = Append(mq, <<"SDO_CANCEL", r>>)
          /\ admitted' = [admitted EXCEPT ![r] = TRUE]
       \/ /\ CommandRefused
          /\ UNCHANGED <<mq, admitted>>
    /\ UNCHANGED <<requestVars, holds, cancels, accepted, nodeVars, pinVars,
                   runtimeVars, ownerVars>>

\* Fault: an admitted cancel of a pending request leaves it startable.
CancelUnpinToPending(r) ==
    /\ \/ /\ state[r] = "PENDING_CANCEL_PINNED"
          /\ Goto(r, "unpin_pending",
                  IF holds[r] /\ ~admitted[r] THEN "reschedule" ELSE "leave")
          /\ state' = [state EXCEPT ![r] = "PENDING"]
          /\ accepted' = [accepted EXCEPT ![r] = admitted[r]]
       \/ /\ state[r] = "ACTIVE_CANCEL_PINNED"
          /\ Goto(r, "unpin_active", "leave")
          /\ state' = [state EXCEPT ![r] = "ACTIVE"]
          /\ UNCHANGED accepted
    /\ UNCHANGED <<status, completion_refs, done_event, admitted, holds, cancels,
                   mq, nodeVars, pinVars, runtimeVars, ownerVars>>

\* cancel_unpin finds its pin still in place.
CancelUnpin(r) ==
    /\ \/ /\ state[r] = "PENDING_CANCEL_PINNED"
          /\ Goto(r, "unpin_pending",
                  IF holds[r] /\ ~admitted[r] THEN "reschedule" ELSE "leave")
          /\ state' = [state EXCEPT ![r] = IF admitted[r] THEN "CANCEL_PENDING"
                                                          ELSE "PENDING"]
          /\ accepted' = [accepted EXCEPT ![r] = admitted[r]]
       \/ /\ state[r] = "ACTIVE_CANCEL_PINNED"
          /\ Goto(r, "unpin_active", "leave")
          /\ state' = [state EXCEPT ![r] = "ACTIVE"]
          /\ UNCHANGED accepted
    /\ UNCHANGED <<status, completion_refs, done_event, admitted, holds, cancels,
                   mq, nodeVars, pinVars, runtimeVars, ownerVars>>

\* cancel_unpin finds a staged completion and publishes it.  Only this thread
\* could read completion_refs, which is 1 during the step and 0 after it.
CancelPublish(r) ==
    /\ state[r] \in CANCEL_DONE
    /\ \/ Goto(r, "unpin_pending", "drop_refs")
       \/ Goto(r, "unpin_active", "drop_refs")
    /\ state' = [state EXCEPT ![r] = "DONE"]
    /\ done_event' = [done_event EXCEPT ![r] = TRUE]
    /\ UNCHANGED <<status, completion_refs, admitted, holds, cancels, accepted,
                   mq, nodeVars, pinVars, runtimeVars, ownerVars>>

\* The last access of cancel_unpin to the runtime.
CancelDropRefs(r) ==
    /\ Goto(r, "drop_refs", "leave")
    /\ sdo_cancel_refs' = sdo_cancel_refs - 1
    /\ UNCHANGED <<requestVars, admitted, holds, cancels, accepted, mq, nodeVars,
                   callback_refs, callback_quiescing, runtimeVars, ownerVars>>

\* rt_event_send(COMMAND): the owner will look at the FIFO again.
CancelReschedule(r) ==
    /\ Goto(r, "reschedule", "leave")
    /\ UNCHANGED <<requestVars, admitted, holds, cancels, accepted, mq, nodeVars,
                   pinVars, runtimeVars, ownerVars>>

\* callback_release, then request_cancel returns.
CancelLeave(r) ==
    /\ Goto(r, "leave", "idle")
    /\ callback_refs' = IF holds[r] THEN callback_refs - 1 ELSE callback_refs
    /\ holds' = [holds EXCEPT ![r] = FALSE]
    /\ admitted' = [admitted EXCEPT ![r] = FALSE]
    /\ UNCHANGED <<requestVars, cancels, accepted, mq, nodeVars, sdo_cancel_refs,
                   callback_quiescing, runtimeVars, ownerVars>>

-----------------------------------------------------------------------------
(* The owner thread: master_sdo_complete                                   *)

\* Ends a handler that has the given completions to publish, in order.
Finish(completions, next) ==
    /\ todo' = completions
    /\ resume' = next
    /\ owner' = IF completions = <<>> THEN next ELSE "complete_load"
    /\ UNCHANGED seen

NextCompletion ==
    /\ todo' = Tail(todo)
    /\ owner' = IF Len(todo) = 1 THEN resume ELSE "complete_load"
    /\ seen' = "NEW"

Completing == todo[1][1]

\* The first load of state; a terminal or staged request is left alone.  The
\* result is written before the state says so.
CompleteLoad ==
    /\ owner = "complete_load"
    /\ \/ /\ state[Completing] \in {"DONE"} \cup CANCEL_DONE
          /\ NextCompletion /\ UNCHANGED status
       \/ /\ state[Completing] \notin {"DONE"} \cup CANCEL_DONE
          /\ status' = [status EXCEPT ![Completing] = todo[1][2]]
          /\ seen' = state[Completing]
          /\ owner' = "complete_mark" /\ UNCHANGED todo
    /\ UNCHANGED <<state, completion_refs, done_event, threadVars, mq, nodeVars,
                   pinVars, runtimeVars, resume>>

\* Fault: the owner does not retain the request while it publishes.
CompleteMarkNoRefs ==
    /\ owner = "complete_mark"
    /\ sdo_cancel_refs' = IF seen \in CANCEL_PINNED THEN sdo_cancel_refs + 1
                                                    ELSE sdo_cancel_refs
    /\ owner' = "complete_cas"
    /\ UNCHANGED <<requestVars, threadVars, mq, nodeVars, callback_refs,
                   callback_quiescing, runtimeVars, resume, todo, seen>>

\* A pinned request retains the runtime for the canceling thread; any other
\* retains itself for the owner.
CompleteMark ==
    /\ owner = "complete_mark"
    /\ IF seen \in CANCEL_PINNED
       THEN sdo_cancel_refs' = sdo_cancel_refs + 1 /\ UNCHANGED completion_refs
       ELSE /\ completion_refs' = [completion_refs EXCEPT ![Completing] = 1]
            /\ UNCHANGED sdo_cancel_refs
    /\ owner' = "complete_cas"
    /\ UNCHANGED <<state, status, done_event, threadVars, mq, nodeVars,
                   callback_refs, callback_quiescing, runtimeVars, resume, todo,
                   seen>>

\* The compare-and-exchange succeeds: staged for the canceling thread, or DONE.
CompleteCas ==
    /\ owner = "complete_cas" /\ state[Completing] = seen
    /\ IF seen \in CANCEL_PINNED
       THEN /\ state' = [state EXCEPT ![Completing] = Staged(seen)]
            /\ NextCompletion
       ELSE /\ state' = [state EXCEPT ![Completing] = "DONE"]
            /\ owner' = "complete_signal" /\ UNCHANGED <<todo, seen>>
    /\ UNCHANGED <<status, completion_refs, done_event, threadVars, mq, nodeVars,
                   pinVars, runtimeVars, resume>>

\* It fails: the mark is taken back and the loop repeats.
CompleteRetry ==
    /\ owner = "complete_cas" /\ state[Completing] # seen
    /\ IF seen \in CANCEL_PINNED
       THEN sdo_cancel_refs' = sdo_cancel_refs - 1 /\ UNCHANGED completion_refs
       ELSE /\ completion_refs' = [completion_refs EXCEPT ![Completing] = 0]
            /\ UNCHANGED sdo_cancel_refs
    /\ seen' = state[Completing]
    /\ owner' = "complete_mark"
    /\ UNCHANGED <<state, status, done_event, threadVars, mq, nodeVars,
                   callback_refs, callback_quiescing, runtimeVars, resume, todo>>

CompleteSignal ==
    /\ owner = "complete_signal"
    /\ done_event' = [done_event EXCEPT ![Completing] = TRUE]
    /\ owner' = "complete_release"
    /\ UNCHANGED <<state, status, completion_refs, threadVars, mq, nodeVars,
                   pinVars, runtimeVars, resume, todo, seen>>

\* The owner's last access to the request.
CompleteRelease ==
    /\ owner = "complete_release"
    /\ completion_refs' = [completion_refs EXCEPT ![Completing] = 0]
    /\ NextCompletion
    /\ UNCHANGED <<state, status, done_event, threadVars, mq, nodeVars, pinVars,
                   runtimeVars, resume>>

-----------------------------------------------------------------------------
(* The owner thread: transfers and node events                             *)

\* start_active: the client takes the request, or the request fails before or
\* after it became the active one.  stop is the value of stop_pending so far.
StartActive(r, stop, started, failed) ==
    \/ /\ active' = r /\ stop_pending' = FALSE
       /\ Finish(<<>>, started)
    \/ /\ stop_pending' \in {stop, TRUE} /\ UNCHANGED active
       /\ Finish(<<<<r, "LOCAL_ERROR">>>>, failed)

\* Fault: the owner does not look at the STOP flag.
OwnerPollIgnoresStop ==
    /\ owner = "events"
    /\ owner' = "dispatch"
    /\ UNCHANGED <<requestVars, threadVars, mq, nodeVars, pinVars, runtimeVars,
                   resume, todo, seen>>

\* The owner has nothing to do but the poll of its queue.
OwnerPoll ==
    /\ owner = "events" /\ ~stopping
    /\ owner' = "dispatch"
    /\ UNCHANGED <<requestVars, threadVars, mq, nodeVars, pinVars, runtimeVars,
                   resume, todo, seen>>

\* dn_con or up_con: the transfer ends, at the latest with its timeout.  OK and
\* a protocol abort are one result here; the copy of uploaded data may fail.
TransferEnd ==
    /\ owner = "events" /\ ~stopping /\ active # None
    /\ \E s \in {"PROTOCOL", "LOCAL_ERROR"} :
            Finish(<<<<active, s>>>>, "dispatch")
    /\ active' = None /\ stop_pending' = TRUE
    /\ UNCHANGED <<requestVars, threadVars, mq, pending, available, pinVars,
                   runtimeVars>>

CanceledNode ==
    (IF active = None THEN <<>> ELSE <<<<active, "CANCELED">>>>)
        \o [i \in 1..Len(pending) |-> <<pending[i], "CANCELED">>]

\* Fault: the FIFO is emptied without completing what it held.
NodeCancelDropsFifo ==
    /\ owner = "events" /\ ~stopping
    /\ Finish(IF active = None THEN <<>> ELSE <<<<active, "CANCELED">>>>, "dispatch")
    /\ active' = None /\ pending' = <<>> /\ stop_pending' = FALSE
    /\ available' \in BOOLEAN
    /\ UNCHANGED <<requestVars, threadVars, mq, pinVars, runtimeVars>>

\* cancel_node: an NMT stop or reset of the node, or the start of its boot.
NodeCancel ==
    /\ owner = "events" /\ ~stopping
    /\ Finish(CanceledNode, "dispatch")
    /\ active' = None /\ pending' = <<>> /\ stop_pending' = FALSE
    /\ available' \in BOOLEAN
    /\ UNCHANGED <<requestVars, threadVars, mq, pinVars, runtimeVars>>

\* The node's NMT state, boot or configuration opens or closes its gate.
NodeGate ==
    /\ owner = "events" /\ ~stopping
    /\ available' = ~available
    /\ owner' = "dispatch"
    /\ UNCHANGED <<requestVars, threadVars, mq, active, pending, stop_pending,
                   pinVars, runtimeVars, resume, todo, seen>>

-----------------------------------------------------------------------------
(* The owner thread: master_command_dispatch                               *)

IsCommand(type) == mq # <<>> /\ mq[1][1] = type
NodeBusy == active # None \/ pending # <<>>

ClaimedStart(r) ==
    /\ state[r] = "QUEUED" /\ available /\ ~NodeBusy
    /\ state' = [state EXCEPT ![r] = "ACTIVE"]
    /\ StartActive(r, stop_pending, "dispatch", "dispatch")
    /\ UNCHANGED pending

\* master_sdo_dispatch of a request whose claim succeeds.
Claimed(r) ==
    \/ ClaimedStart(r)
    \/ /\ state[r] = "QUEUED"
       /\ ~available \/ (NodeBusy /\ Len(pending) = FifoDepth)
       /\ state' = [state EXCEPT ![r] = "ACTIVE"]
       /\ Finish(<<<<r, "LOCAL_ERROR">>>>, "dispatch")
       /\ UNCHANGED <<active, pending, stop_pending>>
    \/ /\ state[r] = "QUEUED" /\ available /\ NodeBusy /\ Len(pending) < FifoDepth
       /\ state' = [state EXCEPT ![r] = "PENDING"]
       /\ pending' = Append(pending, r)
       /\ Finish(<<>>, "dispatch")
       /\ UNCHANGED <<active, stop_pending>>

\* A request canceled while it was queued is completed instead.
ClaimCanceled(r) ==
    /\ state[r] = "CANCEL_PENDING"
    /\ Finish(<<<<r, "CANCELED">>>>, "dispatch")
    /\ UNCHANGED <<state, active, pending, stop_pending>>

DispatchSdo ==
    /\ owner = "dispatch" /\ IsCommand("SDO")
    /\ mq' = Tail(mq)
    /\ Claimed(mq[1][2]) \/ ClaimCanceled(mq[1][2])
    /\ UNCHANGED <<status, completion_refs, done_event, threadVars, available,
                   pinVars, runtimeVars>>

\* cancel_dispatch: the request is found by its id as the active one or in the
\* FIFO, or it is no longer there.
DispatchCancel ==
    /\ owner = "dispatch" /\ IsCommand("SDO_CANCEL")
    /\ mq' = Tail(mq)
    /\ LET r == mq[1][2]
       IN  \/ /\ active = r
              /\ active' = None /\ stop_pending' = TRUE
              /\ Finish(<<<<r, "CANCELED">>>>, "dispatch")
              /\ UNCHANGED pending
           \/ /\ active # r
              /\ \E i \in 1..Len(pending) :
                    /\ pending[i] = r /\ \A j \in 1..i - 1 : pending[j] # r
                    /\ pending' = RemoveAt(pending, i)
              /\ Finish(<<<<r, "CANCELED">>>>, "dispatch")
              /\ UNCHANGED <<active, stop_pending>>
           \/ /\ active # r /\ \A i \in 1..Len(pending) : pending[i] # r
              /\ Finish(<<>>, "dispatch")
              /\ UNCHANGED <<active, pending, stop_pending>>
    /\ UNCHANGED <<requestVars, threadVars, available, pinVars, runtimeVars>>

DispatchEnd ==
    /\ owner = "dispatch" /\ mq = <<>>
    /\ owner' = "reap"
    /\ UNCHANGED <<requestVars, threadVars, mq, nodeVars, pinVars, runtimeVars,
                   resume, todo, seen>>

-----------------------------------------------------------------------------
(* The owner thread: master_sdo_reap                                       *)

\* Fault: a stop that was left pending is never done.
ReapNeverStops ==
    /\ owner = "reap"
    /\ IF active = None /\ available /\ ~stop_pending /\ pending # <<>>
       THEN /\ state[pending[1]] = "PENDING"
            /\ state' = [state EXCEPT ![pending[1]] = "ACTIVE"]
            /\ pending' = Tail(pending)
            /\ StartActive(pending[1], FALSE, "events", "reap")
       ELSE /\ Finish(<<>>, "events")
            /\ UNCHANGED <<state, active, pending, stop_pending>>
    /\ UNCHANGED <<status, completion_refs, done_event, threadVars, mq, available,
                   pinVars, runtimeVars>>

\* One iteration of the loop in reap: a stop that was left pending is done, and
\* start_pending looks at the head of the FIFO.  A canceled head ends the loop,
\* and so does one that its thread has pinned.
Reap ==
    /\ owner = "reap"
    /\ LET startable == active = None /\ available /\ pending # <<>>
           head == pending[1]
       IN  \/ /\ startable /\ state[head] = "PENDING"
              /\ state' = [state EXCEPT ![head] = "ACTIVE"]
              /\ pending' = Tail(pending)
              /\ StartActive(head, FALSE, "events", "reap")
           \/ /\ startable /\ state[head] = "CANCEL_PENDING"
              /\ pending' = Tail(pending)
              /\ stop_pending' = FALSE
              /\ Finish(<<<<head, "CANCELED">>>>, "events")
              /\ UNCHANGED <<state, active>>
           \/ /\ ~(startable /\ state[head] \in {"PENDING", "CANCEL_PENDING"})
              /\ stop_pending' = (stop_pending /\ active # None)
              /\ Finish(<<>>, "events")
              /\ UNCHANGED <<state, active, pending>>
    /\ UNCHANGED <<status, completion_refs, done_event, threadVars, mq, available,
                   pinVars, runtimeVars>>

-----------------------------------------------------------------------------
(* Teardown: owner_cleanup and master_sdo_fini                             *)

\* runtime_stop closes admission and wakes the owner.
Stop ==
    /\ ~stopping /\ stopping' = TRUE
    /\ UNCHANGED <<requestVars, threadVars, mq, nodeVars, pinVars, freed, ownerVars>>

\* owner_cleanup up to callbacks_quiesce_begin.
OwnerStop ==
    /\ owner = "events" /\ stopping
    /\ callback_quiescing' = TRUE
    /\ owner' = "fini_drain" /\ resume' = "fini_drain"
    /\ UNCHANGED <<requestVars, threadVars, mq, nodeVars, sdo_cancel_refs,
                   callback_refs, runtimeVars, todo, seen>>

\* cancel_queued for a request that was never dispatched.
RetireSdo ==
    /\ owner = "fini_drain" /\ IsCommand("SDO")
    /\ mq' = Tail(mq)
    /\ LET r == mq[1][2]
       IN  \/ /\ state[r] = "QUEUED"
              /\ state' = [state EXCEPT ![r] = "TEARDOWN_PENDING"]
              /\ Finish(<<<<r, "CANCELED_TEARDOWN">>>>, "fini_drain")
           \/ /\ state[r] = "CANCEL_PENDING"
              /\ Finish(<<<<r, "CANCELED">>>>, "fini_drain")
              /\ UNCHANGED state
    /\ UNCHANGED <<status, completion_refs, done_event, threadVars, nodeVars,
                   pinVars, runtimeVars>>

\* A cancel command is dropped: fini itself cancels the node.
RetireCancel ==
    /\ owner = "fini_drain" /\ IsCommand("SDO_CANCEL")
    /\ mq' = Tail(mq)
    /\ UNCHANGED <<requestVars, threadVars, nodeVars, pinVars, runtimeVars, ownerVars>>

\* master_sdo_fini: cancel_node(0).
FiniCancel ==
    /\ owner = "fini_drain" /\ mq = <<>>
    /\ Finish(CanceledNode, "fini_refs")
    /\ active' = None /\ pending' = <<>> /\ stop_pending' = FALSE
    /\ UNCHANGED <<requestVars, threadVars, mq, available, pinVars, runtimeVars>>

\* cancel_wait_idle returns.
FiniRefs ==
    /\ owner = "fini_refs" /\ sdo_cancel_refs = 0
    /\ owner' = "fini_pins" /\ resume' = "fini_pins"
    /\ UNCHANGED <<requestVars, threadVars, mq, nodeVars, pinVars, runtimeVars,
                   todo, seen>>

\* Fault: the owner exits while a canceling thread holds a callback pin.
FiniPinsNoWait ==
    /\ owner = "fini_pins"
    /\ owner' = "exit" /\ resume' = "exit"
    /\ UNCHANGED <<requestVars, threadVars, mq, nodeVars, pinVars, runtimeVars,
                   todo, seen>>

\* callbacks_wait_idle returns; the owner exits.
FiniPins ==
    /\ owner = "fini_pins" /\ callback_refs = 0
    /\ owner' = "exit" /\ resume' = "exit"
    /\ UNCHANGED <<requestVars, threadVars, mq, nodeVars, pinVars, runtimeVars,
                   todo, seen>>

\* runtime_destroy, by an application none of whose threads is in a post call.
RuntimeDestroy ==
    /\ owner = "exit" /\ ~freed
    /\ \A r \in Requests : pc[r] # "posting"
    /\ freed' = TRUE
    /\ UNCHANGED <<requestVars, threadVars, mq, nodeVars, pinVars, stopping, ownerVars>>

-----------------------------------------------------------------------------
ThreadCall(r) == PostDone(r) \/ WaitEvent(r) \/ DestroyFree(r)
                 \/ CancelAcquire(r) \/ CancelPost(r) \/ CancelUnpin(r)
                 \/ CancelPublish(r) \/ CancelDropRefs(r) \/ CancelReschedule(r)
                 \/ CancelLeave(r)

ThreadNext(r) == Post(r) \/ Wait(r) \/ WaitTimeout(r) \/ Destroy(r) \/ Cancel(r)
                 \/ ThreadCall(r)

OwnerNext == CompleteLoad \/ CompleteMark \/ CompleteCas \/ CompleteRetry
             \/ CompleteSignal \/ CompleteRelease
             \/ OwnerPoll \/ TransferEnd \/ NodeCancel \/ NodeGate
             \/ DispatchSdo \/ DispatchCancel \/ DispatchEnd \/ Reap
             \/ OwnerStop \/ RetireSdo \/ RetireCancel \/ FiniCancel
             \/ FiniRefs \/ FiniPins

\* Everything is over when the runtime and all requests have been freed.
Finished ==
    /\ freed /\ \A r \in Requests : pc[r] = "gone"
    /\ UNCHANGED vars

Next == \/ \E r \in Requests : ThreadNext(r)
        \/ OwnerNext
        \/ Stop \/ RuntimeDestroy \/ Finished

Spec == Init /\ [][Next]_vars

\* The owner and every thread inside a call keep running.  A transfer that
\* stays active ends, because start_active gives it a finite timeout.
Fairness ==
    /\ WF_vars(OwnerNext)
    /\ SF_vars(TransferEnd)
    /\ \A r \in Requests : WF_vars(ThreadCall(r))

FairSpec == Spec /\ Fairness

-----------------------------------------------------------------------------
(* Properties                                                              *)

States == {"NEW", "QUEUED", "PENDING", "CANCEL_PENDING", "TEARDOWN_PENDING",
           "ACTIVE", "DONE"} \cup CANCEL_PINNED \cup CANCEL_DONE
Results == {"PROTOCOL", "LOCAL_ERROR", "CANCELED", "CANCELED_TEARDOWN"}
CancelPcs == {"acquire", "post_pending", "post_active", "unpin_pending",
              "unpin_active", "drop_refs", "reschedule", "leave"}
ThreadPcs == {"idle", "posting", "waiting", "destroying", "gone"} \cup CancelPcs
OwnerPcs == {"complete_load", "complete_mark", "complete_cas", "complete_signal",
             "complete_release", "events", "dispatch", "reap"} \cup FiniPcs

\* Type invariant: in particular the FIFO and the command queue stay within
\* their depths and no pin count becomes negative.
TypeOK ==
    /\ state \in [Requests -> States]
    /\ status \in [Requests -> Results \cup {"NONE"}]
    /\ completion_refs \in [Requests -> {0, 1}]
    /\ done_event \in [Requests -> BOOLEAN]
    /\ pc \in [Requests -> ThreadPcs]
    /\ admitted \in [Requests -> BOOLEAN] /\ holds \in [Requests -> BOOLEAN]
    /\ cancels \in [Requests -> 0..MaxCancels]
    /\ accepted \in [Requests -> BOOLEAN]
    /\ mq \in Seq({"SDO", "SDO_CANCEL"} \X Requests) /\ Len(mq) <= QueueDepth
    /\ active \in Requests \cup {None}
    /\ pending \in Seq(Requests) /\ Len(pending) <= FifoDepth
    /\ stop_pending \in BOOLEAN /\ available \in BOOLEAN
    /\ sdo_cancel_refs \in Nat /\ callback_refs \in Nat
    /\ callback_quiescing \in BOOLEAN /\ stopping \in BOOLEAN /\ freed \in BOOLEAN
    /\ owner \in OwnerPcs /\ resume \in OwnerPcs
    /\ todo \in Seq(Requests \X Results) /\ seen \in States

InMq(r) == \E i \in 1..Len(mq) : mq[i] = <<"SDO", r>>
InFifo(r) == \E i \in 1..Len(pending) : pending[i] = r
InTodo(r) == \E i \in 1..Len(todo) : todo[i][1] = r

\* A request that its thread has destroyed is never reached again by the owner,
\* through the command queue, the FIFO, sdo_active or a completion in progress.
NoDanglingRequest ==
    \A r \in Requests :
        pc[r] = "gone" => ~InMq(r) /\ ~InFifo(r) /\ ~InTodo(r) /\ active # r

\* A thread inside request_cancel uses request->runtime only while that runtime
\* exists, even when stop() and destroy() run during the call.
CancelKeepsRuntime ==
    \A r \in Requests :
        pc[r] \in CancelPcs \ {"leave"} \/ holds[r] => ~freed

\* A posted request that is not DONE is always exactly one party's
\* responsibility: its poster's, the command queue's, the FIFO's, the client's,
\* the running handler's, or the canceling thread's that owes its publication.
NeverLost ==
    \A r \in Requests : state[r] \notin {"NEW", "DONE"} =>
        Cardinality({k \in 1..6 : <<pc[r] = "posting", InMq(r), InFifo(r),
                                    active = r, InTodo(r),
                                    state[r] \in CANCEL_DONE>>[k]}) = 1

\* runtime.h: a successful explicit cancel is reported as CANCELED with the
\* connection-unavailable code.  A cancel accepted before the transfer started
\* moreover keeps the request from ever becoming the active one.
CancelHonored ==
    \A r \in Requests : accepted[r] =>
        /\ active # r
        /\ state[r] = "DONE" => status[r] = "CANCELED"

\* A stop always ends with the owner's exit: neither a canceling thread nor a
\* completion can keep sdo_cancel_refs or callback_refs up.
StopDrains == stopping ~> (owner = "exit")

\* An accepted cancel ends in a published result, whatever the node's gate does,
\* and when the node stays available, every posted request is completed: a
\* canceled or pinned head of the FIFO never strands the requests behind it.
PostedCompletes ==
    /\ \A r \in Requests : accepted[r] ~> (state[r] = "DONE")
    /\ <>[]available =>
          \A r \in Requests : (state[r] = "QUEUED") ~> (state[r] \in {"NEW", "DONE"})

=============================================================================

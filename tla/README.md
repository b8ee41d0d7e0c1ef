# TLA+ models of the RT-Thread port of Lely CANopen

The repository packages the Lely CANopen stack (`upstream/`, vendored) for
RT-Thread and adds a port of its own in `port/rtthread/`: one owner thread per
runtime that runs Lely, a control plane through which application threads use the
CANopen master, and adapters for CAN devices and timers. The modules cover two layers:

* the port, where threads, interrupts, timeouts and teardown meet, and
* the parts of Lely the port is an interface to: the SDO protocol, both ends of it, the
  NMT master with its boot procedure, and the CAN channel below them. They are where
  lost frames, timeouts, retries and restarting nodes meet.

The rest of Lely appears only as far as it calls the port or is called by it, abstracted
to the state those calls depend on and mapped to the lines of `upstream/` that do it.
External in `PROJECT.json` are only RT-Thread, the CAN bus and the nodes on it.

All paths below are relative to the repository; `runtime.c`, `master_*.c` and the like
are in `port/rtthread/src/`, `csdo.c`, `ssdo.c` and `nmt*.c` in `upstream/src/co/`,
`io2/...` in `upstream/src/`.

## 1. Inventory

| Component | Source | State | Operations | Module |
|---|---|---|---|---|
| Runtime lifecycle | `runtime.c` | `owner_thread`, the event object (STOP, READY, EXIT, ...), `init_result`, `runtime_error` | `start`, `stop`, `destroy`; `owner_entry` with init, loop and cleanup | Runtime |
| Command admission and queue | `master_command.c` | `command_mq`, `command_refs`, `command_quiescing`, `command_stop_latched` | post, open, latch, quiesce, wait-idle, dispatch, retire | Runtime |
| Callback pins | `runtime.c`, `can.c`, `timer.c` | `callback_refs`, `callback_quiescing`, CAN registry | acquire, release, quiesce, drain | Runtime |
| SDO requests | `master_sdo_request.c`, `master_sdo.c`, `master_sdo_client.c` | `request->state`, `completion_refs`, `sdo_active`, `sdo_pending`, `sdo_cancel_refs` | create, post, wait, cancel, destroy; dispatch, start, complete, reap, fini | SdoRequest |
| Snapshots of SYNC, TIME and local OD change | `master_sync.c`, `master_time.c`, `master_od.c` | one sequence counter and its fields each | publish, reset, get | Snapshots |
| EMCY history | `master_emcy.c` | ring of guarded slots, `emcy_latest_sequence` | publish, reset, get with a backward scan | EmcyHistory |
| Manual NMT configuration | `master_cfg.c`, sync part of `master_command.c` | request on the caller's stack, `cfg_active`, `cfg_resume_pending`, `cfg_tearing_down` | `nmt_configure`, dispatch, `cfg_ind`, `cfg_con`, reap, teardown | MasterCfg |
| NMT state, heartbeat and boot indications | `runtime.c`, `master_sdo.c` | `remote_nmt_state`, `remote_boot_result`, `sdo_suspended`, `sdo_reset_pending` | state, heartbeat and boot indications; NMT commands | RemoteNodes |
| Deadline timer and time base | `timer.c`, `time.c` | `last_tick`, `ticks`, the one-shot timer | `time_now`, `setnext`, `advance`, the owner's wait | Deadline |
| PDO transmission type | `master_pdo.c` | object dictionary entry, running service | get, set with rollback, TPDO event | PdoTransmission |
| Lely SDO client and server | `csdo.c`, `ssdo.c`, `sdo.h` | state of each machine, toggle bit, sequence number, block size, timer, the request buffer | download, upload, block download and upload, concise DCF; receive, timer, abort, stop, start | SdoFrame, Csdo, Ssdo, SdoTransfer, SdoService |
| Lely NMT master | `nmt.c`, `nmt_hb.c` | NMT state, startup value, the slaves' boot verdicts, heartbeat consumers | commands, startup, error reaction, heartbeats | NmtMaster |
| Lely boot procedure | `nmt_boot.c` | state of each boot, error status, retries, timer, receiver | one handler per state and event | NmtBoot |
| CAN device adapter | `can.c` | device handle, last accepted status, registry | indications, bounded receive drain, status sampling, write, open and close | CanAdapter; registration and teardown in Runtime |
| Lely CAN channel and network interface | `io2/user/can.c`, `io2/can_net.c`, `io2/tqueue.c` | receive and transmit ring, read and write operation, wait of the timer queue, bus state, task queue | `on_msg`, `on_err`, read, write and timer tasks, send, set_time | CanAdapter |
| Local OD access, SYNC, TIME and EMCY owner commands | `master_od.c`, `master_sync.c`, `master_time.c`, `master_emcy.c` | Lely objects | read, write, set, push, pop, clear | planned |
| Automatic startup, logging, shell | `auto_init.c`, `log.c`, `msh*.c` | none that others read | | not modelled |
| Other Lely services | `upstream/src/` | | | partly or not modelled, section 6 |

**How they interact.** Only the owner thread touches Lely objects. Application
threads reach it through the command queue: a *synchronous* command leaves a request
on the caller's stack and waits on an event (MasterCfg models the longest-lived of
them); an *asynchronous* SDO request is a heap object with a state machine of its own
(SdoRequest). CAN and timer callbacks only set events, holding a callback pin.
In the other direction the owner publishes to application threads without locks:
sequence-locked snapshots, the EMCY ring, and one atomic word per node and purpose.

Below the port, Lely runs on the owner thread alone: a frame, a timer or a command is
handled to its end before the next. A boot and a configuration of a slave are chains
of SDO transfers; the NMT master runs up to one boot per slave at a time and decides
from their verdicts when it and the slaves become operational.

**What is hard.** Seven things recur in every component and are what the properties
are about:

* a protocol whose ends disagree: a frame is lost, an answer comes after the timeout,
  and what is left over meets the next request;
* slaves that fail, restart or fall silent while others are still booting;
* lifetime across teardown: a thread, callback or stack frame that still uses what
  `stop()` and `destroy()` release;
* the window between the load of an admission flag and the pin that relies on it;
* timeouts of `start()` and `stop()` with an owner that still runs, and retries;
* lock-free readers against a publishing owner, counter wraps and restarts;
* Lely callbacks in orders that depend on the bus: nested boots, resets of the master
  in the middle of a handler, late heartbeats, configurations that end after their
  request was canceled.

`PROJECT.json` lists them as hazards, each at the line where it bites and with the
properties that would catch it.

## 2. Modules

Each component has a module, and an `MC...` module instantiates it for TLC. Components
that share no state share a run: `MCCallsReturn`, `MCOwnerServices` and
`MCNodeServices` choose one component in the initial state and let the others rest, so
the state space is the sum of the components' and not their product, and no behaviour
of any of them is lost.
Definitions that begin with the comment `Fault:` are altered copies of an action; no
specification uses them. They record which mistake each property detects.

**Runtime** is the lifetime protocol: the lifecycle thread, the owner, any number of
posters (`master_command_post`) and of CAN and timer callbacks. Every atomic load and
store of the admission and pin protocols is one action (`CheckLatch`,
`CheckQuiescing`, `PostPin`, `RecheckLatch`, ...), because the hazards are between
them. The owner's init and cleanup have an action per step that can fail or that
others can observe. Not every interleaving is the code's: the timer callback's load
and pin are one step, as they are for a hard timer, which runs in interrupt context
on a single core; `rt_event_send` of STOP to a valid event object does not fail.
`DrainBeforeRestart` says that the application does not call `start()` over a post
call of the previous run that has not returned; section 5 says what happens without.

**SdoRequest** is the request state machine of one node: nodes do not share anything
but the queue. The three-sided races on `state` (requester, canceling call, owner)
are step by step, `CompleteLoad`, `CompleteMark`, `CompleteCas` being the loop of
`master_sdo_complete`. The post of a command and the callback pin are one step each,
since Runtime is about them. The outcomes "confirmed" and "aborted" of a transfer
are one, `PROTOCOL`: the code treats both alike.

**Snapshots** and **EmcyHistory** are the two kinds of lock-free readers, one load or
store per step. A field's value is the number of the publication that wrote it, so a
mixture is visible as such. `SeqMod`, `SequenceMod` and `GuardMod` are 2^32 in the
code and small here. A reader whose attempt sees a whole cycle of the counter (2^31 - 1
publications) cannot notice; the properties exempt exactly that (`during < Cycle`,
`Bounded`). Memory is sequentially consistent, as `rt_atomic_load` and
`rt_atomic_store` are on a single core.

**MasterCfg** has the calls of `nmt_configure` with the request in the caller's frame,
the command queue shared with NMT commands, Lely's configuration sequence as its stage
and the callbacks it makes (`CfgInd`, `Confirm`, `DcfCon`), the reaper, state changes of the
master that make Lely drop its sequences (section 5 says what the code risks there), and
teardown. Accesses to a sync object are
separate steps; the owner's private data changes in one step per handler. Where a
handler completes several requests it does so in the order of node numbers
(`ByNumber`, `FinishAll`), as the loops of the code do.

**RemoteNodes** is what the owner does when Lely reports a node. Handlers run in the
owner, so their only concurrency is with readers of the two words and with a thread
woken by a canceled request: each store is a step (`Invalidate`, `BeforeBoot`,
`Chain`, `BootInd`, `BootResult`, `OuterBootup`, `StateInd`). Lely's boot processes
and heartbeat consumers are modelled by the calls they make, including a boot that
ends inside the Boot-up indication and a heartbeat error that resets the master.
What a change of the master's own state does to configurations is MasterCfg's.

**Deadline** has the tick counter, its extension, both conversions to ticks, the user
timer's `setnext` and the owner's wait, in scaled units so that every rounding and
wrap happens within a few ticks. Of Lely's timer queue and network it has the deadline
that a handler leaves behind. It is always ahead of the clock: the network computes it
from the time it took over from that clock at the beginning of the handler, plus a
period that no caller of the port can make 0. An expired deadline, which
`io_user_timer_do_settime` would drop when no waiter is queued (`io2/tqueue.c:269`
precedes the submission at 286), appears only in the middle of `can_net_set_time` and is
replaced before it returns.

**PdoTransmission** has the owner's side of the PDO commands with each failure of the
rollback. The owner runs each command to its end, so a command is one step. NMT starts
and ends all PDO services in one handler (`NmtStart`, `NmtLeave`); starting may stop half
way, for lack of memory. The rollback answers a restart that fails, which `rpdo.h:90` and
`tpdo.h:93` allow and the vendored `co_rpdo_start` and `co_tpdo_start` never do: they only
return 0. The constant `StartMayFail` says which of the two is assumed; NodeServices has it
TRUE, so that the port's code for the case is checked, and the theorems hold for both.
Writes of a type to the object dictionary past the port (`tpdo.c:913`) are left out: Lely
takes those over without a restart.

**CanAdapter** is the way of a frame from the device to the stack and back, and of a
change of the bus status. The device and the deadline timer run beside the owner, who
has one action per step of its iteration and of its initialisation that the device can
run between (`Install`, `DrainRxOne`, `DrainRxEnd`, `ProcessStatus`, `TimerAdvance`,
`SyncCanNet`, ...). Lely runs in the owner as tasks of one FIFO queue; `tasks` is that
queue, in its order, and one task is one step (`ReadTask`, `ReadFrame`, `WriteTask`,
`WriteDone`, `TqueueTask`, `WaitNext`). A call of Lely's stack (`StackCall`) may send any number of
frames up to the bound, which the transmit ring may refuse, and may arm a timer anew: then
the network withdraws its wait from the timer queue, which cancels the wait of the user
timer and so posts a task to the loop (`NextFunc`; `io2/can_net.c:915`, `io2/tqueue.c:556`,
`io2/user/timer.c:270`). `tq` says where that wait is. A frame is told by what becomes of
it: it cannot be converted, it answers the outstanding request, or neither. Write
confirmations have no timeout: the port creates the network with `txtimeo = -1`.

**SdoFrame, Csdo, Ssdo, SdoTransfer** are an SDO channel. SdoFrame has the command
bytes of the protocol as bit fields (`sdo.h`), so that each end tests the bits the code
tests; the rest of a frame is its multiplexer, its data bytes and one number or block
header. Csdo and Ssdo are the two state machines, one operator per handler of the
source; SdoTransfer connects them by two ordered channels and adds what disturbs them:
lost frames, timeouts at any moment, stops, resets of the node, aborts by the
application, local writes. A data byte is a pair of the value it belongs to and its
place in it, so a mixture, a gap or a swap of values shows. The CRC is the sequence of
the bytes itself: it differs whenever the data does, which idealises the 16-bit sum.

**SdoService** is what the port takes that channel for: one request at a time; a value
is written as a whole or not at all; a download confirmed with success has been
written; an upload returns a value the object had while the request was pending; after
a failure the write may still happen, once. SdoTransfer with one fault implements it
(`Implements == Service!Spec`, an INSTANCE ... WITH that maps the service's variables to
the history variables of the channel); section 5 says what several faults can do. The
one concession is `quiet`: frames of an earlier request that are still under way when a
request is made may be taken for its answer, because segment frames carry no
multiplexer, and then nothing is promised of its confirmation.

**NmtBoot, NmtMaster** are the network start of CiA 302-2 as Lely implements it.
NmtBoot has the boot of one slave as a function from a boot record and an event to the
next record, one operator per handler. NmtMaster has the master, the slaves (which may
be switched off and on, answer, refuse or not answer), and one action per callback. A
handler of the code may call the next one, which may change the master's state, which
may begin further boots; all of that is one step, as in the code. The object
dictionary is a constant record per configuration (`Configs`): the bits of 1F80 and
1F81, which identity objects are checked, whether a heartbeat is consumed, which further
objects are there (`od`: the configuration date, a software identification other than 0,
the program data of 1F58, a stored configuration) and whether a boot time is set. The only
way an SDO request of a boot is refused is lack of memory for the first download after an
upload (`"nomem"`): its client is its own, and idle.

**RuntimeProofs, SdoRequestProofs, MasterCfgProofs, NmtProofs** and
**SdoTransferProofs** extend the module they are named after with its theorems;
**OwnerProofs** extends Deadline and Snapshots, **NodeProofs** extends CanAdapter,
RemoteNodes, EmcyHistory and PdoTransmission. **QueueLemmas** has what their proofs
share: which elements a queue holds after an append, a removal or a drain, and lists of
pairs in which each key occurs at most once (`OneKey`), which is how completions are
kept.

Each module of the port has a type invariant (`TypeOK`, `CfgTypeOK`, ...), which
documents its state and is the base of its inductive invariants. Those of Runtime,
SdoRequest, MasterCfg, RemoteNodes and PdoTransmission are proved as theorems; those of
Deadline, Snapshots, EmcyHistory and CanAdapter as the first conjunct of their inductive
invariants. For the two parts of Lely, SdoTransfer and NmtMaster, the types are stated
with the proofs (`SdoTypes`, `MasterRecord`), because there they say more than the kind
of value a variable has.

## 3. Runs

| Run | Instance | Shows |
|---|---|---|
| RuntimeSafety | 2 posters, 1 CAN and 1 timer callback, queue of 1, 2 runs | no queue, object or storage is used after its release (QueuePinned, CallbackLifetime, ExitBarrier); `start()` never believes a flag of an earlier run (StartVerdict); accepted commands are dispatched or retired (AcceptedResolved) |
| CallsReturn | Runtime: 1 poster, 1 CAN callback, 2 runs. MasterCfg: 1 caller with 2 calls, an unsupported node, 1 NMT command, 1 event of Lely. Fair | a latched stop ends with the owner's exit (StopCompletes); an accepted command is answered even if its wake-up event is lost (AcceptedAnswered); every configuration call returns (CallReturns) |
| RuntimeStalePost | 1 poster, 2 runs, no DrainBeforeRestart | refutes RefsCountPosters (section 5) |
| SdoSafety | 3 requests, one of them canceled, FIFO of 1 | no request or runtime is used after it is freed, through cancel, stop and destroy (NoDanglingRequest, CancelKeepsRuntime); none is lost or owned twice (NeverLost); an accepted cancel is reported as such (CancelHonored) |
| SdoLiveness | 2 requests, one canceled, fair | stop drains, and every posted request completes while the node is available, the canceled one and those behind it included |
| CfgSafety | 2 callers, 2 nodes, 2 calls each, 1 NMT command, 1 event of Lely | a waiting request is held exactly once, and its frame outlives every use of it (HeldOnce); a staged resume confirms only its own sequence (ResumeMatches); results are true (ResultTrue) |
| OwnerServices | Snapshots: 1 reader of either priority, 3 publications, counter modulo 6, 2 runs. Deadline: 12-value tick counter, 26 ticks. Fair | a getter returns one whole state, none older than its call and none unpublished (ReadStable), and returns also if it has the higher priority (ReadReturns); no tick is lost over two wraps, the timer is neither early nor more than a tick late and no deadline within range is orphaned (TimerExact), each deadline is served (DeadlineServed) |
| NodeServices | EMCY: 1 reader, 2 producers, ring of 2, 5 events, 2 runs. Remote nodes: 2, 1 mandatory, master reset enabled. PDO: 1 RPDO, 1 TPDO, 5 types. CAN: 3 frames received and 2 sent, batch and receive ring of 2, transmit ring of 1, 1 change of the bus status | the event returned is one whole event and the newest of its node, busy means that there is none (EventNewest); boot results are fresh (ResultFresh) and not ahead of the state (StateBeforeResult), the published state is the last confirmed one, timeouts included (LastConfirmed), the SDO gate is closed through resets and failed boots (GateClosed), boots are exclusive (BootExclusive); a type change reported as success is in effect and a running PDO has the dictionary's type (SetEffective), nothing pending crosses the edge between synchronous and event-driven (NoCrossing); when the owner sleeps no frame is left without a wakeup (NothingStranded) and the network knows the bus state of the last accepted sample (StateTold); draining the loop ends, whatever the device refuses (DrainTerminates) |
| AnswerOvertaken | 1 request at a time, 2 frames received | refutes AnswerNotOvertaken (section 5) |
| SdoTransferRefines | any 2 of 10 requests over 3 objects and a missing one, 1 fault, timeouts without bound, server timeout on or off, fair | the channel implements SdoService (Implements); an undisturbed request succeeds in every transfer mode without the ends ever waiting for each other (UndisturbedSucceeds); no timer runs in a state that cannot handle it (TimerHasHandler); every request is confirmed (RequestConfirmed) |
| NmtStartup | 11 object dictionaries with 2 slaves, up to 1 command and 1 power loss or late heartbeat, in two of them 2, fair | the master is operational by itself only with its mandatory slaves booted (MandatoryBooted), starts no slave that failed (FailedNotStarted), notices a slave that falls silent (SilenceNoticed), and reaches a verdict once the restarts end (StartupDecides) |
| NmtKeepAlive | 1 keep-alive slave, no fault | refutes BootTimerHandled (section 5) |

**Why the bounds are enough.** Two runs are one restart, which is what reuses state; a
queue or FIFO of one fills with the second element; three SDO requests are one active,
one waiting and one refused. Readers never store to what they read, so they do not
influence each other and one is enough. Three publications modulo 6 wrap the counter
once; five events in a ring of two wrap the event sequence (1..4) and the guard of the
first slot (modulo 6) and overwrite every slot. The two producers are interchangeable
(symmetry). RemoteNodes has no bound: its state is finite. Its node n1 is mandatory and
supervised by a heartbeat, n2 neither; nodes interact only through resets of the master.
Three frames are one more than the batch and than the ring, two frames and a status
change fill the ring, and of two sent frames the second is refused while the first is
under way. The event sequence of the run has 4 numbers, a multiple of the ring, so that
the slot follows the sequence across its wrap; a width that is no multiple of the ring, where
the wrap jumps to another slot, is covered by the theorem only. What an
answer does to its request matters to AnswerNotOvertaken only, so NodeServices receives
frames of the kind "other" and AnswerOvertaken both. The deadlines of OwnerServices are
passed by the time they are announced, within reach, or beyond what the RT timer reaches,
and end early enough before `Horizon` to be served. Publications are bounded, so ReadReturns
is about readers that the owner disturbs a few times, not without end. `MaxCommands` and
`MaxAuto` in MasterCfg count what the bus and other threads do to a configuration; CfgSafety has two callers with two calls
each, CallsReturn one, since a request that is held exactly once (HeldOnce) is not lost
to another caller.

Two requests on an SDO channel are what it takes for the left-overs of one to meet the
next. The ten requests are the cases the code tells apart: expedited and segmented
transfers, block transfers whose value ends inside a segment and inside a block, the
switch of a block upload to the segmented protocol, a DCF with an expedited and a
segmented entry, a read-only and a missing object. The server asks for blocks of
2 segments (`CO_SSDO_MAX_SEQNO`, 127 in the code) so that a value of a few segments
has several blocks; the client's 127 is kept. Two slaves are one that fails and one
that goes on. The eleven dictionaries of NmtStartup are chosen so that together every
state of the boot, every path that starts a slave and every reaction to an error is
taken. `MaxFaults` is part of what StartupDecides claims: a mandatory slave that restarts is
booted again, and two of them that restart in turn postpone the verdict for as long as they
do, in the model and in the code. With one fault each slave restarts at most once; with two,
one may restart while the other's second boot is under way. `SDO_RETRY = 1` (3 in the
code) makes the first timeout a retry and the second an end.

**Fairness** and what in the code justifies it:

* weak fairness of a thread or callback inside a call, and of the owner: RT-Thread
  schedules a runnable thread; no fairness for *making* a call, nor for `stop()`;
* strong fairness of the end of Lely's SDO transfers (SdoRequest, MasterCfg), which
  NMT commands may disable for a while: each has a nonzero timeout in Lely;
* Snapshots: strong fairness of the owner, who runs only while no reader of higher
  priority is awake. Readers sleep between attempts (`rt_thread_mdelay(1)`), so the
  owner is enabled again and again. That sleep is what ReadReturns depends on: a
  reader that spins instead violates it;
* Deadline: the tick interrupt, the wake-up of a runnable owner and the end of its
  iteration;
* SdoTransfer: a pending request's timer expires unless stopped, frames on the bus are
  delivered, a stopped end is started again;
* NmtMaster: a boot with a running timer or a pending request goes on (Lely's timers
  and SDO timeouts), the boot time passes, and the heartbeat timer of a silent slave
  expires. It is weak fairness, written out with the enabling condition as a state
  predicate (`BootGoesOn`, ...), which TLC evaluates far faster than ENABLED of these
  actions. Nothing is assumed of the slaves, nor of their power.

Deadlock is checked in every run but the SDO and NMT ones, where the system really may
stop (all requests made and confirmed, the network up). The one self-loop is Deadline's
`Stopped`: the owner has left its loop because the timer could not be started. That
the drain of CanAdapter's loop ends needs no fairness: DrainTerminates shows that each
task lowers a measure of what is left to do, which does not bound the frames sent.

## 4. Proofs

The theorems hold for every value of the constants that satisfies the module's named
assumption (`RuntimeAssumption`, `SdoAssumption`, ...): any finite set of threads,
callbacks, requests or readers, any set of nodes or PDOs, any depth of a queue or ring,
any width of a counter. The bounds on how often something happens (`MaxCalls`,
`MaxPublications`, ...) are arbitrary as well.

| Module | Theorems | Say |
|---|---|---|
| RuntimeProofs | TypeCorrect | the state is well typed; the queue never exceeds its depth |
| | ExitBarrierHolds, StartVerdictHolds | through every timeout and retry, the owner has exited and released everything before `start()` runs again or `destroy()` frees; `start()` reports this run's outcome |
| | CallbackLifetimeHolds | no callback uses a runtime or Lely object after its release |
| | RefsCountPostersHolds, QueuePinnedHolds, TeardownExclusiveHolds, AcceptedResolvedHolds | with DrainBeforeRestart: `command_refs` is exact, a sending poster finds the queue, none sends while the queue is retired and deleted, and every accepted command is resolved |
| SdoRequestProofs | SdoInvHolds, SdoTypeCorrect | the inductive invariant and the types |
| | NoDanglingRequestHolds, CancelKeepsRuntimeHolds | no request or runtime is used after it is freed |
| | NeverLostHolds, CancelHonoredHolds | a posted request is always one party's to complete; an accepted cancel is reported as such |
| MasterCfgProofs | CfgInvHolds, CfgTypeCorrect | the inductive invariant and the types |
| | HeldOnceHolds, ResumeMatchesHolds, ResultTrueHolds | a waiting request is in one hand and in none after the call; a resume confirms its own request only; results are true |
| NodeProofs | RemoteInvHolds, RemoteTypeCorrect | RemoteNodes: the inductive invariant and the types |
| | ResultFreshHolds, LastConfirmedHolds, GateClosedHolds, BootExclusiveHolds | the four invariants of NodeServices about remote nodes |
| | StateBeforeResultHolds | the action property: a boot result is published after its state |
| | EmcyInvHolds, EventNewestHolds | EmcyHistory: `get_emcy` returns one whole event, the newest that matches |
| | PdoTypeCorrect, SetEffectiveHolds, NoCrossingHolds | the invariants about PDOs |
| | CanInvHolds, NothingStrandedHolds, StateToldHolds | CanAdapter: a sleeping owner has nothing left to do, and the network knows the bus state |
| | DrainTerminatesHolds | the action property: every task of the drain leaves less to do |
| OwnerProofs | DeadlineInvHolds, TimerExactHolds | with WakesInTime: no tick is lost and the timer is exact |
| | SnapshotsInvHolds, ReadStableHolds | with DrainReaders: a getter returns one whole publication |
| NmtProofs | NmtInvHolds | the inductive invariant of the network start |
| | MandatoryBootedHolds, FailedNotStartedHolds | the master is operational by itself only with its mandatory slaves booted, and starts no slave whose boot failed or has not ended |
| SdoTransferProofs | SdoTypesHold, TimerHasHandlerHolds | whatever is lost or aborted: no frame takes an end out of its data or leaves an object without a value, and no timer runs where it is not handled |
| | ChannelInvHolds, UndisturbedSucceedsHolds | the joint states of an undisturbed transfer; such a request succeeds in every transfer mode and the ends never wait for each other |

Hardly any of these is inductive alone. Each argument starts from the types; TLC checked
each inductive invariant on the instance of the run before it was proved.

**Runtime.**

1. **Types**, in two halves: the Booleans, and the rest.
2. **LifeInv**: which positions of the owner go with which of the lifecycle thread
   (`Presence`: a running owner has `owner_thread` set and has not posted EXIT, and
   `start()` prepares only with both READY and EXIT clear; `Verdict`: READY is posted
   only on the branch where init succeeded; `Devices`: which of queue, registry entry,
   timer and objects exist at which position). ExitBarrier and StartVerdict follow.
3. **CallbackRefs**: `callback_refs` is the number of pinned callbacks, an argument
   about cardinalities (one callback changes, the others do not). With it
   **CallbacksLive** is inductive: the drain in cleanup has seen 0 when the objects go.
4. **RefsCountPosters** likewise for `command_refs`; **GateInv** (`Latched`: the latch
   is set from the first step of cleanup on; `Quiet`: after wait-idle no poster is
   past its recheck; `QueuePinned`). The recheck after the pin is what
   makes this inductive, and `DrainBeforeRestart` what keeps `prepare` from resetting
   the latch under a poster.
5. **Resolved**: an accepted and unanswered command is in the queue, and the queue is
   deleted only when empty.

**SdoRequest.** `SdoInv` says for each state of a request where it is (`Places`: in the
queue, the FIFO, the client or the completions of the running handler, and there once),
what its thread may be doing (`Threads`, `Cancels`), what the owner has loaded and not
yet stored in the completion loop (`Completions`), and what is gone at which step of
teardown (`Teardown`). `Counts` ties threads to the runtime: `sdo_cancel_refs` is the
number of threads that owe a staged completion plus the mark the owner puts up before
its compare-and-exchange, `callback_refs` the number of threads that hold a pin. The
mark is in the count because the owner raises it before the exchange that hands the
completion to the thread, so that the exchange itself keeps the count exact.

**MasterCfg.** `Holders`: as long as its caller waits and it is not done, a request is
held by exactly one of queue, `cfg_active` and the completions of the running handler,
and afterwards by none. `Completions`: what each of the three steps of a completion has
stored. `Links`: `cfg_active` and Lely's `cfg_data` agree node by node, so that a
confirmation finds its request and a resume is that request's. `Results`: a completion
carries OK only after a sequence without abort, and CANCELED if a stop was sent. A
handler that completes several requests (an NMT command to all nodes, teardown) needs
that the list of completions has each request once; the lemmas on `FinishAll` show it
for every order by number.

**RemoteNodes.** The properties speak of the moments between two handlers, so the
invariant says for every position of the owner inside a handler of a node what has been
stored and what has not: the state word (`AtWord`), the result (`AtResult`), the gate
(`AtGate`), the boot (`AtBoot`), with the shapes a heartbeat consumer and a word can
have (`HbShape`, `WordShape`). The other nodes are as at rest. The action property
StateBeforeResult follows from `AtWord` at the position before the store.

**PdoTransmission.** SetEffective and NoCrossing are inductive once the types are known.
The cases are the failures of the rollback and the edge between synchronous and
event-driven types.

**CanAdapter.** `LoopInv`: exactly one task in the event loop, or a registered wait,
stands for the read operation, and one for a write under way. Beside the latter a write
task may be left over from a write that the recovery from bus off canceled; it runs
before the completion of the canceled write because the loop is a FIFO, hence before the
next write is submitted. `FifoInv`: a frame in the device has its event or indication,
at each position of the owner. `ToldInv`: the newest status on its way through ring and
read operation, or else the state the network has, is that of the sample the port keeps.
`TimeInv`: a wait of the timer queue that was canceled or has expired has its task in the
loop, and a request whose deadline the clock has passed has such a wait; hence
NothingStranded for timers too. DrainTerminates: the measure is the pair
of `Calls`, how often the queued tasks can still call Lely's stack, and `Rest`, what is left
until the next such call. A frame counts two calls, because the call that processes it may
arm a timer and so post the timer queue's task, which leads to one call more; the call of an
expired timer posts none, because the network's wait is then not in the queue. A call
may send as many frames as it likes: it lowers `Calls`, and between two calls every task
lowers `Rest`, a write task and the frames in the transmit ring included. Tasks of a kind are
counted as the cardinality of a set of positions, so that an append or a removal changes the
count by a known amount without an induction over the queue. A completed write needs a
frame in the ring, which `LoopInv` supplies.

**EmcyHistory.** For every slot of the ring: how its guard, its contents and the sequence
number stored in it belong together at each step of the owner's store. For every reader:
that the slots its backward scan has passed held no newer matching event, unless they
have been overwritten since, in which case the event in them is newer than those it was
looking at. The exemption of a counter that goes all the way round during one scan
(`Bounded`) is part of the property.

**NmtMaster.** `SoundBoots`: each boot is waiting only for what its state handles, so the
event that comes next has a handler. `OutSound`: a start command of the master's own
accord went to a slave whose boot had ended without error. `Passed` and `Decided`: what
the loop over the slaves has already dealt with, up to its present position. One handler
may go through all slaves, and its effect on them is a recursive function of the node
number. What such a loop does is proved by taking the smallest node number at which
the claim would fail (`WFMin` of WellFoundedInduction), which needs no
induction theorem with an operator as its parameter.

**SdoTransfer.** `SdoTypes` holds whatever happens on the bus. It says what a frame
*may ask for* (`Announces`: a request to write an object has its data or announces its
size), because a frame of an abandoned transfer may reach an end in any state: without
it an object could be left without a value, or a client be sent beyond its data. The
agreement, `Agree`, lists the joint states of client, server and frames under way for
each transfer mode between two steps of an undisturbed transfer; each end's handlers
lead from one of them to another. A block under way is described by the segments that
remain (`Remain`). The arithmetic of blocks and segments is in lemmas of its own.

**Deadline.** `Sampled`: how far the last sample of the tick counter may be behind.
`Armed`: how the armed timer relates to the announced deadline. The hypothesis
`WakesInTime` has three parts: the owner's wait is bounded, which command ingress makes
it; a tick is at least one nanosecond; and two scheduling delays plus the bounded wait are
shorter than one turn of the counter. The counter has 32 bits, so that the last part asks for
delays below weeks at 1000 ticks per second. OwnerServices' instance satisfies it.

**Snapshots.** `Counters` and `Contents`: which fields a publication under way has
stored. `Floors`: a getter's lower bound is a publication that has been made.
`Attempts`: what a reader has copied so far is one publication's, unless the counter
moved since it was read, or turned a whole cycle. The hypothesis `DrainReaders` is the
exemption of section 5: no `start()` over a getter that has not returned.

**Only model-checked**

* liveness, which needs fairness and ENABLED: StopCompletes, AcceptedAnswered,
  CallReturns, StopDrains, PostedCompletes, ReadReturns, DeadlineServed,
  RequestConfirmed, SilenceNoticed and StartupDecides;
* Implements, the refinement of SdoService. It is not a theorem for every number of
  faults and requests: section 5 describes how two lost frames and three requests break
  it. The run's bounds, two requests and one fault, are therefore part of its claim.
  Everything the runs check besides is proved.

## 5. What the models say about the code

**A post delayed over a restart (run RuntimeStalePost).** `master_command_post` loads
both flags before it pins. A thread preempted there over `stop()` and into the next
`start()` has its pin overwritten by `master_command_prepare` (`command_refs = 0`,
`master_command.c:163`), or pins a run it was not admitted to. The count that
`internal.h:294` calls the "Number of command posters holding the queue lifetime pin"
is then wrong: its release takes it to -1 and the next teardown waits forever, or the
queue is deleted under a poster. Everything else about posters is checked and proved
with `DrainBeforeRestart`.

**A boot timer without a handler (run NmtKeepAlive).** A keep-alive slave (1F81 bit 4)
that is not operational is reset during its boot: `co_nmt_boot_reset_comm_on_enter`
starts the CAN timer (`nmt_boot.c:1484`), and `co_nmt_boot_reset_comm_on_recv` leaves
the state without stopping it, which `co_nmt_boot_chk_node_on_recv` takes care to do.
One second later the timer fires while the boot waits for the answer to its software
or configuration check. `co_nmt_boot_emit_time` says `assert(boot->state->on_time);`
(`nmt_boot.c:1044`), and these states have none. NmtStartup's properties treat a
failed assertion as the end of the behaviour (`m.crashed`).

**An answer overtaken by its timeout (run AnswerOvertaken).** An answer is in the
receive FIFO when the request's deadline passes, and one wakeup serves both. The owner
moves the answer to Lely's ring, moves the passive clock and drains the loop before it
calls `timer_sync_can_net`; "This ordering prevents an already-received CAN response
from being overtaken by its timeout" (`timer.c:215`, likewise `runtime.c:742` and
`internal.h:875`). But `io_can_net_read_func` itself sets the network's time from the
passive clock before it passes the frame on (`io2/can_net.c:801`), so the timer expires
first and the answer finds no request. The clock would have to be moved after the
drain.

The following cases are exempted in the properties, each named where the property is
defined, and are described here so that the exemption is visible:

* *A getter delayed over a restart.* The resets put the counter back to 0
  (`master_sync.c:101`, likewise TIME, OD change and EMCY). A getter that read counter
  2 and some fields before `stop()`, and the rest after the first publication of the
  next run, finds counter 2 again and returns a mixture. Snapshots and EmcyHistory
  therefore restart only when no getter is executing.
* *Boot without Boot-up.* When a mandatory node loses its heartbeat and 1F80h bit 4 is
  set, Lely resets the master from within the heartbeat indication and its startup
  boots the node; `before_boot` is not called, and an application request and client
  stay on the node during its boot, although `docs/en/master-control-plane.md:58` says
  that application requests cannot interleave with it. BootExclusive exempts
  mandatory nodes under ResetAll, so it says nothing of this case.
* *Deadlines beyond half the tick range.* The delay is clamped (`timer.c:79`). After
  the intermediate wakeup Lely's user timer does not announce the unchanged deadline
  again, so the timer is not re-armed; the deadline is served by the bounded wait of
  the command ingress, and not at all in a build without it. TimerExact
  exempts it (`clamped`); DeadlineServed does not, with `Ingress = TRUE`.
* *An answer to an earlier request.* `quiet` in SdoService, see section 2.
* *Two downloads in one value.* With more than one frame lost the channel does not
  implement SdoService. Three segmented downloads A, B, C of the same size to the same
  object follow each other, A and B abandoned by a timeout while their answers are under
  way. The client takes the server's answers to A's and B's initiation for those to B's
  and C's, and so sends B's first segment and, after B's timeout, C's first. If the abort
  of B and the initiation of C are lost, the server is still in B's transfer: it accepts
  B's first segment, takes C's first for a repetition (same toggle bit, `ssdo.c`,
  `co_ssdo_dn_seg_on_recv`), and the client takes the answer to B's first segment for
  that to C's. C's second segment completes the value, which begins with B and ends
  with C. The CAN controller repeats what is lost on the wire, so a loss means a full
  receive ring or a bus off, and these lose several frames at once. Block transfers have
  a CRC, and a master that sees a timeout can wait before it writes the object again.
* *Operational before the mandatory slaves.* A mandatory slave that is neither to be
  booted (1F81 bit 2 clear) nor watched ends its boot inside `co_nmt_slaves_boot`, and
  `co_nmt_preop_on_boot` then finds no boot of the slaves with higher numbers, which
  have not been begun. An optional keep-alive slave (bit 4) of that kind does
  the same. MandatoryBooted exempts those (`AtOnce`).
* *A boot or configuration destroyed twice.* When the master is reset or enters
  pre-operational again (a heartbeat loss under 1F80h bit 4 or object 1029h, for one),
  `co_nmt_slaves_fini` destroys the boots and configurations under way (`nmt.c:3892`,
  `nmt.c:3900`). One that waits for an SDO has its client stopped, which confirms the
  request as aborted; that may end the boot or configuration from within its own
  destruction, and `co_nmt_boot_con` (`nmt.c:2331`) or `co_nmt_cfg_con` (`nmt.c:2412`)
  destroys it once more. NmtMaster marks the case as undefined (`DestroyedTwice`,
  `m.crashed`), and its properties say nothing of what follows. RemoteNodes and MasterCfg
  are about what the port makes of the callbacks and go on as if the second destruction
  did nothing: their properties hold for the runs in which the memory survives it.
* *Restarts without end.* StartupDecides is about finitely many faults (`MaxFaults`):
  mandatory slaves that restart in turn postpone the verdict each time.
* *A software update that never ends.* `co_nmt_boot_wait_flash_on_up_con` asks again for
  as long as the flash status is not valid or the SDO fails. StartupDecides therefore
  assumes of every mandatory slave that may be started a boot time and no software update.

Observations that no property is about:

* a refused status change is found again by the next sample, but nothing asks for one:
  with indications, the network keeps the old state until the device indicates again;
* `rx_batch` may be configured above the channel's ring (32 frames); what a batch takes
  from the FIFO beyond that is lost, because the ring is drained only after the batch;
* the loss of the last segment of a block is not repaired. The receiver waits for a
  segment with the last flag or the last number of the block, so both ends time out,
  although `ssdo.c` and `csdo.c` say that dropped segments will be resent;
* a block transfer of an empty value works in neither direction. The port refuses an
  empty download (`master_sdo_request.c:314`); SdoTransfer assumes non-empty values;
* both ends read the bytes a frame should have, padding included (`Padded`), and not
  those it carries;
* a block upload of an empty object with a protocol switch threshold is answered by
  `co_ssdo_send_up_exp_res`, whose assertion excludes size 0;
* `co_nmt_start_on_enter` sends one broadcast only when every listed slave has bit 2
  of its assignment *clear*; with the usual assignments it starts slaves one by one.
  `booted` is not cleared when a slave boots again, so it may send a start command
  to a slave that is being booted;
* `reset_comm` waits for a boot-up message that the master's own receiver consumes; it
  goes on with the heartbeat that follows.

## 6. Not modelled, and why

* Of `upstream/`, everything but SDO, the NMT master and the CAN channel with its
  network interface. The configuration sequence (`nmt_cfg.c`), the PDO services, the
  timer queue and the user-space timer are abstracted to the few states the port's
  callbacks and calls depend on; EMCY, SYNC and TIME services are left out. The gateway, the DCF parser, the wireless transport, the Linux, POSIX and
  Windows back ends and the C++ layer are in the repository but not in the port's build
  (`lely_rtt_config.h`, `SConscript`), and LSS is off by default. With the public
  headers and the utilities they are most of the repository's lines, which is why the
  map covers a small share of them.
* In NmtMaster: node guarding by the master, the inhibit time of NMT commands, LSS
  before the boot, and a manual configuration at the same time as a boot (MasterCfg has
  it from the port's side). In SdoTransfer: objects with download hooks that refuse late,
  several channels (they share nothing).
* In CanAdapter: the conversion of frames beyond success and failure, custom status
  mappers, error counts of the network's diagnostics, and shutdown.
* Payloads, diagnostic counters, logging, shell commands, automatic startup: nothing
  in the control flow of another component depends on them.
* Tools, examples, build files.
* Weak memory: the models interleave atomic accesses.

## 7. Plan

Done: the port's components with the most concurrency, the SDO protocol with its abstract
service, the NMT startup, the CAN path, and the proofs of all their safety properties.
Next:

1. **Frame conversion** between RT-Thread and Lely (DLC, identifier, CAN FD flags)
   checked against a reference over bounded inputs.
2. **Concise DCF framing** (`master_cfg.c`, `validate_dcf`) as an operator over
   sequences, checked against a declarative definition of a well-framed DCF.
3. **Owner commands**: local OD read and write with the chain of download hooks, SYNC
   period, TIME role, EMCY push and pop.
4. An **abstract lifecycle** that Runtime implements under a refinement mapping.
5. **SDO contents**: the agreement of SdoTransferProofs extended by the bytes already
   moved, from which every step of an undisturbed request is a step of SdoService.

----------------------------- MODULE CanAdapter -----------------------------
(***************************************************************************)
(* The CAN path between an RT-Thread device and Lely's network object:     *)
(* indications and bounded drains (port/rtthread/src/can.c), the owner's   *)
(* iteration (runtime.c), Lely's passive channel (io2/user/can.c) and its  *)
(* network interface (io2/can_net.c) with their two rings.  Lely runs in   *)
(* the owner thread alone (LELY_NO_THREADS), as tasks of one FIFO loop;    *)
(* only the device and the timer run beside it.                            *)
(*                                                                         *)
(* A frame is told by what becomes of it: one that cannot be converted, an *)
(* answer to the outstanding request, or any other; a status the port      *)
(* injects is told by its state.  Of the timers of the stack, the one of   *)
(* that request is followed; the others may be armed or due at any time.   *)
(***************************************************************************)
EXTENDS Naturals, Sequences, FiniteSets

CONSTANTS
    RxBatch,          \* rx_batch
    RxLen,            \* LELY_IO_USER_CAN_RXLEN
    TxLen,            \* LELY_IO_CAN_NET_TXLEN
    FifoLen,          \* frames that RT-Thread's receive FIFO holds
    DeviceTx,         \* frames that its non-blocking transmit ring holds
    RxFrames, TxFrames,  \* kinds of frames that arrive and are sent
    Statuses,         \* bus statuses the device goes through
    StatusIndication, \* use_status_indication
    CommandIngress,   \* PKG_LELY_USING_MASTER_COMMAND
    MaxRx, MaxTx,     \* bounds: frames received and sent
    MaxStatus         \* bound: changes of the bus status

Frames == {"bad", "answer", "other"}

\* A status has the two error counters and, as one number, the five counts of
\* bus errors.
ASSUME CanAssumption ==
    /\ {RxBatch, RxLen, TxLen, FifoLen, DeviceTx} \subseteq Nat \ {0}
    /\ {MaxRx, MaxTx, MaxStatus} \subseteq Nat
    /\ {StatusIndication, CommandIngress} \subseteq BOOLEAN
    /\ RxFrames \subseteq Frames /\ TxFrames \subseteq {"bad", "other"}
    /\ Statuses \subseteq [snderrcnt : Nat, rcverrcnt : Nat, errors : Nat]

VARIABLES
    \* The device, and the events of the runtime.
    fifo,       \* received frames
    sending,    \* frames in the transmit ring
    bus,        \* the device's status
    indicate,   \* indications that the driver is about to make
    events,     \* RX_READY, CAN_STATUS, TIMER_DUE
    \* The owner.
    at,         \* where its iteration is
    seen,       \* local events
    batch,      \* local count of can_drain_rx
    last_can_status, \* or NoStatus while status_valid is not set
    tasks,      \* the loop's queue
    \* Lely.
    rxring, rxwait, \* the channel's ring; a wait is registered with it
    read, read_result, \* the network's read operation: "queue" or "task"; its result
    txring, txwait, \* the network's ring; a wait is registered with it
    write, errc,    \* its write operation: "idle", "queue" or "task"; its result
    state,      \* the bus state the network knows
    tq,         \* the network's wait for its next timer: "idle" when none is
                \* submitted, "waiting" for the user timer, "posted" while the
                \* task of the timer queue is, "expired" while its own task is
    request,    \* "none", "armed", "answered" or "timeout"
    due_at,     \* the request's deadline: "future", "passed", or "clock" once
                \* Lely's clock has been moved past it
    \* Bounds.
    received, produced, changes

otherDeviceVars == <<bus, indicate, received, changes>>
deviceVars == <<fifo, sending, otherDeviceVars>>
iterationVars == <<at, seen, batch, last_can_status>>
portVars == <<events, iterationVars>>
rxVars == <<rxring, rxwait, read, read_result>>
txVars == <<txring, txwait, write, errc, produced>>
timeVars == <<tq, request, due_at>>
lelyVars == <<tasks, rxVars, txVars, state, timeVars>>
canVars == <<deviceVars, portVars, lelyVars>>

NoStatus == [snderrcnt |-> 0, rcverrcnt |-> 0, errors |-> 0, none |-> TRUE]

StateOf(s) ==
    CASE s.snderrcnt >= 256 -> "BUSOFF"
      [] s.snderrcnt < 256 /\ (s.snderrcnt >= 128 \/ s.rcverrcnt >= 128) -> "PASSIVE"
      [] OTHER -> "ACTIVE"

\* The device is open and receives; no indication is installed yet.
CanInit ==
    /\ fifo = <<>> /\ sending = 0 /\ bus \in Statuses /\ indicate = {}
    /\ events = {} /\ at = "open" /\ seen = {} /\ batch = 0
    /\ last_can_status = NoStatus /\ tasks = <<>>
    /\ rxring = <<>> /\ rxwait = FALSE /\ read = "none" /\ read_result = "none"
    /\ txring = <<>> /\ txwait = FALSE /\ write = "idle" /\ errc = "ok"
    /\ state = "ACTIVE" /\ tq = "idle" /\ request = "none" /\ due_at = "future"
    /\ received = 0 /\ produced = 0 /\ changes = 0

-----------------------------------------------------------------------------
(* The device                                                              *)

Installed == at # "open"

\* A request is answered when it has been sent.
Receive(f) ==
    /\ received < MaxRx /\ Len(fifo) < FifoLen
    /\ f = "answer" => request = "armed" /\ txring = <<>>
    /\ fifo' = Append(fifo, f) /\ received' = received + 1
    /\ indicate' = indicate \cup (IF Installed THEN {"RX_READY"} ELSE {})
    /\ UNCHANGED <<sending, bus, changes, portVars, lelyVars>>

Transmitted ==
    /\ sending > 0 /\ StateOf(bus) # "BUSOFF"
    /\ sending' = sending - 1
    /\ UNCHANGED <<fifo, otherDeviceVars, portVars, lelyVars>>

StatusChange(s) ==
    /\ changes < MaxStatus /\ s # bus
    /\ bus' = s /\ changes' = changes + 1
    /\ indicate' = indicate \cup (IF Installed /\ StatusIndication THEN {"CAN_STATUS"} ELSE {})
    /\ UNCHANGED <<fifo, sending, received, portVars, lelyVars>>

\* can_rx_indicate, can_status_indicate: all they do is send the event.
Indicate(e) ==
    /\ e \in indicate
    /\ indicate' = indicate \ {e}
    /\ events' = events \cup {e}
    /\ UNCHANGED <<fifo, sending, bus, received, changes, iterationVars, lelyVars>>

\* The request's deadline passes, and the deadline timer expires.
DeadlinePasses ==
    /\ request = "armed" /\ due_at = "future"
    /\ due_at' = "passed"
    /\ events' = events \cup {"TIMER_DUE"}
    /\ UNCHANGED <<deviceVars, iterationVars, tasks, rxVars, txVars, state, tq, request>>

-----------------------------------------------------------------------------
(* Lely's channel and network interface                                    *)

\* io_user_can_chan_on_frame, when the ring has room: a registered wait is
\* signalled, which posts the read task.
OnFrame(f) ==
    /\ rxring' = Append(rxring, f)
    /\ rxwait' = FALSE
    /\ tasks' = tasks \o (IF rxwait THEN <<"read_task">> ELSE <<>>)
    /\ UNCHANGED <<read, read_result>>

\* io_can_net_send_func for the frames that one call of the stack sends: those the
\* ring has no room for are refused; the first that it takes signals a registered
\* wait, which submits the write.
Send ==
    \E n \in 0 .. MaxTx - produced :
      \E fs \in [1 .. IF n <= TxLen - Len(txring) THEN n ELSE TxLen - Len(txring) -> TxFrames] :
        /\ produced' = produced + n
        /\ txring' = txring \o fs
        /\ txwait' = (txwait /\ fs = <<>>)
        /\ write' = IF txwait /\ fs # <<>> THEN "queue" ELSE write
        /\ UNCHANGED errc

SendPosts == IF txwait /\ ~txwait' THEN <<"write_task">> ELSE <<>>

\* io_can_net_next_func, as often as the call changes the next timeout: a first
\* wait is submitted; one that is waited for is submitted again, and the timer
\* queue, empty for a moment, cancels its wait for the user timer, which posts its
\* task; one that is posted or has expired is found by its task.
NextFunc ==
    \/ UNCHANGED tq
    \/ tq = "idle" /\ tq' \in {"waiting", "posted"}
    \/ tq = "waiting" /\ tq' = "posted"

NextPosts == IF tq # "posted" /\ tq' = "posted" THEN <<"tqueue">> ELSE <<>>

\* A call of the stack between the tasks before and after: it sends and arms timers
\* in any order.
StackCall(before, after) ==
    /\ Send /\ NextFunc
    /\ \/ tasks' = before \o SendPosts \o NextPosts \o after
       \/ tasks' = before \o NextPosts \o SendPosts \o after

\* can_net_set_time: the request's timer expires if the clock has reached it.
AfterSetTime == IF request = "armed" /\ due_at = "clock" THEN "timeout" ELSE request

\* io_user_can_chan_read_task_func: the one read operation takes a frame from
\* the ring, or stays queued and a wait is registered.
ReadTask ==
    /\ Head(tasks) = "read_task"
    /\ IF rxring # <<>>
       THEN /\ read_result' = Head(rxring) /\ rxring' = Tail(rxring)
            /\ read' = "task" /\ tasks' = Append(Tail(tasks), "read")
            /\ UNCHANGED rxwait
       ELSE /\ rxwait' = TRUE /\ tasks' = Tail(tasks)
            /\ UNCHANGED <<rxring, read, read_result>>
    /\ UNCHANGED <<txVars, sending, state, timeVars>>

\* io_can_chan_submit_read: the read task is posted, it is never posted already.
SubmitRead == read' = "queue" /\ read_result' = "none" /\ UNCHANGED <<rxring, rxwait>>

\* io_can_net_read_func for a frame: the time is set before the frame is
\* processed; an answer to a request that has timed out finds nobody.
ReadFrame ==
    /\ Head(tasks) = "read" /\ read_result \in Frames
    /\ request' = IF read_result = "answer" /\ AfterSetTime = "armed"
                  THEN "answered" ELSE AfterSetTime
    /\ StackCall(Tail(tasks), <<"read_task">>)
    /\ SubmitRead
    /\ UNCHANGED <<due_at, state, sending>>

\* io_can_net_read_func for a status: recovery from bus off cancels the write
\* operation, unless the device has answered it already.
ReadError ==
    /\ Head(tasks) = "read" /\ read_result \notin Frames
    /\ state' = read_result
    /\ IF state = "BUSOFF" /\ read_result # "BUSOFF" /\ write = "queue"
       THEN /\ write' = "task" /\ errc' = "canceled"
            /\ tasks' = Tail(tasks) \o <<"write", "read_task">>
       ELSE UNCHANGED <<write, errc>> /\ tasks' = Append(Tail(tasks), "read_task")
    /\ SubmitRead
    /\ UNCHANGED <<txring, txwait, produced, sending, timeVars>>

\* Fault: a full transmit ring is reported as a write that would block.
CanWriteAgain(f) ==
    IF f = "bad" THEN {"inval"}
    ELSE {"io"} \cup (IF sending < DeviceTx THEN {"ok"} ELSE {"again"})

\* lely_rtt_can_write: what became of the frame.
CanWrite(f) ==
    IF f = "bad" THEN {"inval"}
    ELSE {"io"} \cup (IF sending < DeviceTx THEN {"ok"} ELSE {"nobufs"})

\* io_user_can_chan_write_task_func.  A write that would block stays queued and
\* is tried again at once; a canceled one is gone from the queue.
WriteTask ==
    /\ Head(tasks) = "write_task"
    /\ IF write = "queue"
       THEN \E e \in CanWrite(Head(txring)) :
              /\ sending' = IF e = "ok" THEN sending + 1 ELSE sending
              /\ IF e = "again"
                 THEN tasks' = Append(Tail(tasks), "write_task") /\ UNCHANGED <<write, errc>>
                 ELSE write' = "task" /\ errc' = e /\ tasks' = Append(Tail(tasks), "write")
       ELSE tasks' = Tail(tasks) /\ UNCHANGED <<write, errc, sending>>
    /\ UNCHANGED <<txring, txwait, produced, rxVars, state, timeVars>>

\* io_can_net_write_func: the frame leaves the ring, or all of them when the
\* write was canceled; the next one is submitted or waited for.
WriteDone ==
    /\ Head(tasks) = "write"
    /\ txring' = IF errc = "canceled" THEN <<>> ELSE Tail(txring)
    /\ txwait' = (txring' = <<>>)
    /\ write' = IF txring' = <<>> THEN "idle" ELSE "queue"
    /\ tasks' = Tail(tasks) \o (IF txring' = <<>> THEN <<>> ELSE <<"write_task">>)
    /\ errc' = "ok"
    /\ UNCHANGED <<produced, sending, rxVars, state, timeVars>>

\* io_tqueue_wait_func: a wait that is due is posted, any other waits for the user
\* timer again.
TqueueTask ==
    /\ Head(tasks) = "tqueue"
    /\ \/ tq' = "expired" /\ tasks' = Append(Tail(tasks), "wait_next")
       \/ /\ ~(request = "armed" /\ due_at = "clock")
          /\ tq' = "waiting" /\ tasks' = Tail(tasks)
    /\ UNCHANGED <<sending, rxVars, txVars, state, request, due_at>>

\* io_can_net_wait_next_func: timers of the stack expire; if one is left, the
\* network waits for it.
WaitNext ==
    /\ Head(tasks) = "wait_next"
    /\ request' = AfterSetTime
    /\ Send /\ tasks' = Tail(tasks) \o SendPosts
    /\ tq' \in IF request' = "armed" THEN {"waiting"} ELSE {"idle", "waiting"}
    /\ UNCHANGED <<due_at, sending, rxVars, state>>

\* ev_loop_poll_one.
RunTask ==
    ReadTask \/ ReadFrame \/ ReadError \/ WriteTask \/ WriteDone \/ TqueueTask \/ WaitNext

-----------------------------------------------------------------------------
(* The owner                                                               *)

\* owner_init: the indications are installed, the channel and the network are
\* created, and io_can_net_start() submits its operations.
Install ==
    /\ at = "open"
    /\ at' = "master"
    /\ txwait' = TRUE /\ read' = "queue" /\ tasks' = <<"read_task">>
    /\ UNCHANGED <<deviceVars, events, seen, batch, last_can_status, rxring, rxwait,
                   read_result, txring, write, errc, produced, state, timeVars>>

\* master_init starts the stack.
MasterInit ==
    /\ at = "master"
    /\ at' = "probe"
    /\ StackCall(tasks, <<>>)
    /\ UNCHANGED <<deviceVars, events, seen, batch, last_can_status, rxVars, state,
                   request, due_at>>

\* can_drain_rx takes one frame; one that the channel has no room for is lost.
DrainRxOne ==
    /\ at \in {"probe", "rx"} /\ batch < RxBatch /\ fifo # <<>>
    /\ fifo' = Tail(fifo) /\ batch' = batch + 1
    /\ IF Head(fifo) # "bad" /\ Len(rxring) < RxLen
       THEN OnFrame(Head(fifo)) ELSE UNCHANGED <<tasks, rxVars>>
    /\ UNCHANGED <<otherDeviceVars, sending, events, at, seen, last_can_status, txVars,
                   state, timeVars>>

AfterRx ==
    CASE at = "probe" -> "init_advance"
      [] at = "rx" /\ "CAN_STATUS" \in seen -> "status"
      [] OTHER -> "advance"

\* Fault: a drain that ends at the limit of its batch is not continued.
DrainRxEndForgets ==
    /\ at \in {"probe", "rx"} /\ (batch = RxBatch \/ fifo = <<>>)
    /\ at' = AfterRx /\ batch' = 0
    /\ UNCHANGED <<deviceVars, events, seen, last_can_status, lelyVars>>

\* can_drain_rx ends; at the limit of the batch the owner wakes itself again.
DrainRxEnd ==
    /\ at \in {"probe", "rx"} /\ (batch = RxBatch \/ fifo = <<>>)
    /\ at' = AfterRx /\ batch' = 0
    /\ events' = IF batch = RxBatch THEN events \cup {"RX_READY"} ELSE events
    /\ UNCHANGED <<deviceVars, seen, last_can_status, lelyVars>>

\* can_default_status_mapper: the state or an error counter changed; a first
\* sample counts only when the bus is not active.
StatusChanged(s) ==
    IF last_can_status = NoStatus
    THEN StateOf(s) # "ACTIVE"
    ELSE StateOf(s) # StateOf(last_can_status) \/ s.errors # last_can_status.errors

StatusPcs == {"status", "sample", "init_status"}

AfterStatus == IF at = "status" THEN "advance" ELSE "drain"

\* Fault: a sample that Lely had no room for is taken for delivered.
ProcessStatusForgets ==
    /\ at \in StatusPcs
    /\ at' = AfterStatus
    /\ last_can_status' = bus
    /\ IF StatusChanged(bus) /\ Len(rxring) < RxLen
       THEN OnFrame(StateOf(bus)) ELSE UNCHANGED <<tasks, rxVars>>
    /\ UNCHANGED <<deviceVars, events, seen, batch, txVars, state, timeVars>>

\* can_process_status: the sample is kept when nothing changed or the channel has
\* taken the change, so that a refused change is found again by the next sample.
\* The device may fail to answer.
ProcessStatus ==
    /\ at \in StatusPcs
    /\ at' = AfterStatus
    /\ \/ UNCHANGED <<last_can_status, tasks, rxVars>>
       \/ /\ StatusChanged(bus) /\ Len(rxring) < RxLen
          /\ OnFrame(StateOf(bus))
          /\ last_can_status' = bus
       \/ /\ ~StatusChanged(bus)
          /\ last_can_status' = bus
          /\ UNCHANGED <<tasks, rxVars>>
    /\ UNCHANGED <<deviceVars, events, seen, batch, txVars, state, timeVars>>

\* BSPs without indications are sampled after a wakeup by a frame or the timer.
AfterCommands ==
    IF ~StatusIndication /\ seen \cap {"RX_READY", "TIMER_DUE"} # {}
    THEN "sample" ELSE "drain"

\* timer_advance moves Lely's clock; a deadline that it passes, of the request
\* or of another timer of the stack, ends the wait of the timer queue.
TimerAdvance ==
    /\ at \in {"advance", "init_advance"}
    /\ at' = CASE at = "init_advance" -> "init_status"
               [] at = "advance" /\ CommandIngress -> "queued"
               [] OTHER -> AfterCommands
    /\ due_at' = IF due_at = "passed" THEN "clock" ELSE due_at
    /\ \/ tq = "waiting" /\ tq' = "posted" /\ tasks' = Append(tasks, "tqueue")
       \/ /\ ~(tq = "waiting" /\ request = "armed" /\ due_at = "passed")
          /\ UNCHANGED <<tq, tasks>>
    /\ UNCHANGED <<deviceVars, events, seen, batch, last_can_status, rxVars, txVars,
                   state, request>>

\* drain_loop runs the queued tasks, once before the commands and once after.
DrainLoop ==
    /\ at \in {"queued", "drain"} /\ tasks # <<>>
    /\ RunTask
    /\ UNCHANGED <<fifo, otherDeviceVars, portVars>>

\* timer_sync_can_net, when the loop is empty.
SyncCanNet ==
    /\ at = "queued" /\ tasks = <<>>
    /\ at' = "command"
    /\ request' = AfterSetTime
    /\ StackCall(<<>>, <<>>)
    /\ UNCHANGED <<deviceVars, events, seen, batch, last_can_status, rxVars, state, due_at>>

\* A command calls the stack; one that sends a request arms its timer.
Dispatch ==
    /\ at = "command"
    /\ StackCall(tasks, <<>>)
    /\ \/ UNCHANGED <<request, due_at>>
       \/ /\ request # "armed" /\ produced' > produced
          /\ request' = "armed" /\ due_at' = "future" /\ tq' # "idle"
    /\ UNCHANGED <<deviceVars, portVars, rxVars, state>>

DispatchDone ==
    /\ at = "command"
    /\ at' = AfterCommands
    /\ UNCHANGED <<deviceVars, events, seen, batch, last_can_status, lelyVars>>

\* The iteration, or the initialisation, ends.
IterationEnd ==
    /\ at = "drain" /\ tasks = <<>>
    /\ at' = "wait" /\ seen' = {}
    /\ UNCHANGED <<deviceVars, events, batch, last_can_status, lelyVars>>

\* rt_event_recv returns the events, or none at the end of its bounded wait.
EventRecv ==
    /\ at = "wait" /\ (events # {} \/ CommandIngress)
    /\ seen' = events /\ events' = {}
    /\ at' = CASE "RX_READY" \in events -> "rx"
               [] "RX_READY" \notin events /\ "CAN_STATUS" \in events -> "status"
               [] OTHER -> "advance"
    /\ UNCHANGED <<deviceVars, batch, last_can_status, lelyVars>>

OwnerRuns ==
    \/ Install \/ MasterInit \/ DrainRxOne \/ DrainRxEnd \/ ProcessStatus \/ TimerAdvance \/ DrainLoop
    \/ SyncCanNet \/ Dispatch \/ DispatchDone \/ IterationEnd

CanNext ==
    \/ \E f \in RxFrames : Receive(f)
    \/ \E s \in Statuses : StatusChange(s)
    \/ \E e \in indicate : Indicate(e)
    \/ Transmitted \/ DeadlinePasses
    \/ OwnerRuns \/ EventRecv

CanSpec == CanInit /\ [][CanNext]_canVars

-----------------------------------------------------------------------------
(* Properties                                                              *)

\* Type invariant.
CanTypeOK ==
    /\ Len(fifo) <= FifoLen /\ sending \in 0 .. DeviceTx /\ bus \in Statuses
    /\ indicate \subseteq {"RX_READY", "CAN_STATUS"}
    /\ events \subseteq {"RX_READY", "CAN_STATUS", "TIMER_DUE"}
    /\ batch \in 0 .. RxBatch
    /\ Len(rxring) <= RxLen /\ Len(txring) <= TxLen
    /\ read \in {"none", "queue", "task"} /\ write \in {"idle", "queue", "task"}
    /\ errc \in {"ok", "inval", "io", "nobufs", "canceled"}
    /\ state \in {"ACTIVE", "PASSIVE", "BUSOFF"}
    /\ tq \in {"idle", "waiting", "posted", "expired"}
    /\ request \in {"none", "armed", "answered", "timeout"}

\* rt-thread-integration.md: a bounded drain and a probe after the start leave no
\* frame behind.  Whenever the owner sleeps, a frame that is still in the device
\* has its event or its indication under way, every frame that the channel took
\* has been processed, every frame that the stack queued has been given to the
\* device or reported, and the next one of either kind will be noticed.  A request
\* whose deadline the clock has passed has timed out, and for one that is still
\* outstanding the network waits for the user timer.
NothingStranded ==
    at = "wait" =>
        /\ fifo # <<>> => "RX_READY" \in events \cup indicate
        /\ rxring = <<>> /\ read = "queue" /\ rxwait
        /\ txring = <<>> /\ write = "idle" /\ txwait
        /\ request = "armed" => tq = "waiting" /\ due_at # "clock"

\* can.c: a status change that the full receive ring refused is retried by the next sample
\* instead of being lost.  Whenever the owner sleeps, the state that Lely's network
\* knows is the one of the last sample the port keeps.
StateTold ==
    at = "wait" =>
        state = IF last_can_status = NoStatus THEN "ACTIVE" ELSE StateOf(last_can_status)

Count(q, kinds) == Cardinality({i \in 1 .. Len(q) : q[i] \in kinds})

\* How often the queued tasks can still call into the stack.  A frame counts twice:
\* the call that processes it may arm a timer, which costs a call of its own.
Calls ==
    2 * Len(rxring) + 2 * Count(tasks, {"read"}) + Count(tasks, {"tqueue", "wait_next"})

\* What is left to do until the next such call: a task that posts another counts twice.
Rest ==
    Len(rxring) + 2 * Len(txring) + Len(tasks) + Count(tasks, {"write_task", "tqueue"})

\* can.c: "the single-owner loop cannot busy-spin by immediately reposting the same
\* frame".  drain_loop, which runs until the loop is empty, ends: every task that it
\* runs uses up a call of the stack or, between two calls, leaves less to do, however
\* many frames the stack sends, however often it arms its timers, and however long
\* the device and the bus refuse frames.
DrainTerminates ==
    [][DrainLoop => Calls' < Calls \/ (Calls' = Calls /\ Rest' < Rest)]_canVars

\* timer.c: the order of drain_loop and timer_sync_can_net "prevents an
\* already-received CAN response from being overtaken by its timeout".  A request
\* does not time out while its answer is in the channel's ring or being delivered.
AnswerNotOvertaken ==
    [][request' = "timeout" /\ request # "timeout"
         => read_result # "answer" /\ \A i \in DOMAIN rxring : rxring[i] # "answer"]_canVars

=============================================================================

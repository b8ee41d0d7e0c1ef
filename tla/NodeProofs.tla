---------------------------- MODULE NodeProofs ------------------------------
(***************************************************************************)
(* Proofs about what the node keeps of its bus and of the other nodes:     *)
(* CanAdapter, RemoteNodes, EmcyHistory and PdoTransmission, the           *)
(* components that MCNodeServices checks. They share no variable; each has *)
(* its part below, with its inductive invariant and its theorems.          *)
(***************************************************************************)
EXTENDS CanAdapter, RemoteNodes, EmcyHistory, PdoTransmission, QueueLemmas, FiniteSetTheorems

-----------------------------------------------------------------------------
(***************************************************************************)
(* Proofs about CanAdapter for every batch, ring and FIFO length.          *)
(*                                                                         *)
(* That nothing is stranded when the owner sleeps rests on the tasks in    *)
(* the event loop: exactly one of them, or a registered wait, stands for   *)
(* the read operation, and exactly one stands for a write under way, next  *)
(* to which a write task may be left over from a write that the recovery   *)
(* from bus off has canceled.  The leftover runs before the completion of  *)
(* the canceled write, because the loop is a FIFO, and so before another   *)
(* write can be submitted.                                                 *)
(*                                                                         *)
(* What the network knows of the bus is followed through the channel: the  *)
(* last status under way in the ring or in the read operation, or else the *)
(* state of the network, is the one of the sample that the port keeps.     *)
(*                                                                         *)
(* The wait for the next timer is followed through the timer queue: while  *)
(* it is not waiting for the user timer, a task in the loop stands for it, *)
(* and once the clock has passed the deadline of a request, it is one that *)
(* will let the request time out.                                          *)
(***************************************************************************)
-----------------------------------------------------------------------------
(* The invariant                                                           *)

TaskKinds == {"read_task", "read", "write_task", "write", "tqueue", "wait_next"}

States == {"ACTIVE", "PASSIVE", "BUSOFF"}

OwnerPcs == {"open", "master", "probe", "rx", "init_advance", "status", "advance", "queued", "command",
             "sample", "drain", "init_status", "wait"}

CanValues ==
    /\ fifo \in Seq(Frames) /\ tasks \in Seq(TaskKinds)
    /\ rxring \in Seq(Frames \cup States) /\ txring \in Seq(TxFrames)
    /\ read \in {"none", "queue", "task"} /\ write \in {"idle", "queue", "task"}
    /\ at \in OwnerPcs /\ state \in States /\ bus \in Statuses
    /\ rxwait \in BOOLEAN /\ txwait \in BOOLEAN
    /\ tq \in {"idle", "waiting", "posted", "expired"}

\* One task, or the registered wait, stands for the read operation.
ReadOk(ts, r, ring, wait) ==
    /\ AtMostOne(ts, "read_task") /\ AtMostOne(ts, "read")
    /\ Has(ts, "read") => r = "task"
    /\ Has(ts, "read_task") => r = "queue"
    /\ wait => ring = <<>> /\ r = "queue" /\ ~Has(ts, "read_task") /\ ~Has(ts, "read")
    /\ ~wait => \/ r = "task" /\ Has(ts, "read")
                \/ r = "queue" /\ Has(ts, "read_task")

\* The registered wait, a queued write with its task, or a completed one; the
\* task of a canceled write is never behind its completion.
WriteOk(ts, w, ring, wait) ==
    /\ AtMostOne(ts, "write_task") /\ AtMostOne(ts, "write")
    /\ Before(ts, "write_task", "write")
    /\ w = "idle" => ring = <<>> /\ wait /\ ~Has(ts, "write_task") /\ ~Has(ts, "write")
    /\ w = "queue" => ring # <<>> /\ ~wait /\ Has(ts, "write_task") /\ ~Has(ts, "write")
    /\ w = "task" => ring # <<>> /\ ~wait /\ Has(ts, "write")

\* A completed read has a result.
ResultOk == read = "task" => read_result \in Frames \cup States

LoopInv ==
    /\ Installed => ReadOk(tasks, read, rxring, rxwait) /\ WriteOk(tasks, write, txring, txwait)
    /\ ~Installed => /\ tasks = <<>> /\ rxring = <<>> /\ txring = <<>>
                     /\ ~rxwait /\ write = "idle" /\ last_can_status = NoStatus /\ state = "ACTIVE"
    /\ at = "wait" => tasks = <<>>
    /\ ResultOk

\* A task stands for a wait that is posted or has expired; an outstanding request
\* is waited for, and one whose deadline the clock has passed has such a task.
TimeInv ==
    /\ tq = "posted" => Has(tasks, "tqueue")
    /\ tq = "expired" => Has(tasks, "wait_next")
    /\ request = "armed" => tq # "idle"
    /\ request = "armed" /\ due_at = "clock" => tq \in {"posted", "expired"}

\* A frame in the device is announced, or about to be drained.
FifoInv ==
    Installed /\ fifo # <<>> => "RX_READY" \in events \cup indicate \/ at \in {"master", "probe", "rx"}

-----------------------------------------------------------------------------
(* The loop                                                                *)

\* io_user_can_chan_on_frame keeps the read operation represented once.
LEMMA OnFrameKeeps ==
    ASSUME CanValues, NEW f \in Frames \cup States, OnFrame(f),
           ReadOk(tasks, read, rxring, rxwait), WriteOk(tasks, write, txring, txwait)
    PROVE  /\ tasks' \in Seq(TaskKinds) /\ rxring' \in Seq(Frames \cup States)
           /\ rxwait' \in BOOLEAN
           /\ ReadOk(tasks', read', rxring', rxwait')
           /\ WriteOk(tasks', write, txring, txwait)
<1>1. CASE rxwait
  <2>1. tasks' = Append(tasks, "read_task")
    BY <1>1, QueueConcat DEF OnFrame, CanValues, TaskKinds
  <2>2. rxring' \in Seq(Frames \cup States) /\ read' = read /\ rxwait' = FALSE
    BY DEF OnFrame, CanValues
  <2>3. "read_task" \in TaskKinds
    BY DEF TaskKinds
  <2>4. read = "queue" /\ ~Has(tasks, "read_task") /\ ~Has(tasks, "read")
    BY <1>1 DEF ReadOk
  <2>5. QED
    BY <2>1, <2>2, <2>3, <2>4, QueuePut DEF ReadOk, WriteOk, CanValues
<1>2. CASE ~rxwait
  <2>1. tasks' = tasks
    BY <1>2, QueueConcat DEF OnFrame, CanValues, TaskKinds
  <2>2. rxring' \in Seq(Frames \cup States) /\ read' = read /\ rxwait' = FALSE
    BY DEF OnFrame, CanValues
  <2>3. QED
    BY <1>2, <2>1, <2>2 DEF ReadOk, WriteOk, CanValues
<1>3. QED
  BY <1>1, <1>2 DEF CanValues

\* What io_can_net_send_func leaves of a call that sends nothing, or whose frames are
\* all refused; that finds a write under way; and that starts one.
LEMMA SendCases ==
    ASSUME CanValues, Send
    PROVE  /\ txring' \in Seq(TxFrames)
           /\ \/ UNCHANGED <<txring, txwait, write>> /\ SendPosts = <<>>
              \/ /\ txring' # <<>> /\ txwait' = FALSE /\ ~txwait /\ write' = write
                 /\ SendPosts = <<>>
              \/ /\ txring' # <<>> /\ txwait' = FALSE /\ txwait /\ write' = "queue"
                 /\ SendPosts = <<"write_task">>
<1>1. PICK k \in Int : \E fs \in [1 .. k -> TxFrames] :
        /\ txring' = txring \o fs
        /\ txwait' = (txwait /\ fs = <<>>)
        /\ write' = IF txwait /\ fs # <<>> THEN "queue" ELSE write
  <2>1. TxLen \in Nat /\ Len(txring) \in Nat
    BY CanAssumption DEF CanValues
  <2>2. TxLen - Len(txring) \in Int
    BY <2>1
  <2>3. PICK n \in 0 .. MaxTx - produced :
          \E fs \in [1 .. IF n <= TxLen - Len(txring) THEN n ELSE TxLen - Len(txring) -> TxFrames] :
            /\ txring' = txring \o fs
            /\ txwait' = (txwait /\ fs = <<>>)
            /\ write' = IF txwait /\ fs # <<>> THEN "queue" ELSE write
    BY Zenon DEF Send
  <2>4. n \in Int
    BY <2>3
  <2>5. (IF n <= TxLen - Len(txring) THEN n ELSE TxLen - Len(txring)) \in Int
    BY <2>2, <2>4
  <2>6. QED
    BY <2>3, <2>5, Zenon
<1>2. PICK fs \in [1 .. k -> TxFrames] :
        /\ txring' = txring \o fs
        /\ txwait' = (txwait /\ fs = <<>>)
        /\ write' = IF txwait /\ fs # <<>> THEN "queue" ELSE write
  BY <1>1
<1>3. PICK m \in Nat : 1 .. k = 1 .. m
  <2>1. k \in Nat \/ 1 .. k = 1 .. 0
    OBVIOUS
  <2>2. QED
    BY <2>1
<1>4. fs \in Seq(TxFrames)
  <2>1. fs \in [1 .. m -> TxFrames]
    BY <1>2, <1>3
  <2>2. QED
    BY <2>1
<1>5. txring \in Seq(TxFrames) /\ txwait \in BOOLEAN
  BY DEF CanValues
<1>6. CASE fs = <<>>
  <2>1. txring \o <<>> = txring
    BY <1>5
  <2>2. UNCHANGED <<txring, txwait, write>>
    <3>1. txwait' = (txwait /\ TRUE)
      BY <1>2, <1>6
    <3>2. txwait' = txwait
      BY <1>5, <3>1
    <3>3. QED
      BY <1>2, <1>6, <2>1, <3>2
  <2>3. QED
    BY <1>5, <2>2 DEF SendPosts
<1>7. CASE fs # <<>>
  <2>1. txring \o fs \in Seq(TxFrames) /\ txring \o fs # <<>>
    <3>1. Len(fs) \in Nat /\ Len(fs) # 0 /\ Len(txring) \in Nat
      BY <1>4, <1>5, <1>7, EmptySeq
    <3>2. txring \o fs \in Seq(TxFrames) /\ Len(txring \o fs) = Len(txring) + Len(fs)
      BY <1>4, <1>5, ConcatProperties
    <3>3. Len(txring \o fs) # 0
      BY <3>1, <3>2
    <3>4. QED
      BY <3>2, <3>3, EmptySeq
  <2>2. txwait' = FALSE
    BY <1>2, <1>7
  <2>3. QED
    BY <1>2, <1>5, <1>7, <2>1, <2>2 DEF SendPosts
<1>8. QED
  BY <1>6, <1>7

\* What a call of the stack puts into the loop leaves the other tasks as they are.
Posted(q, p) ==
    /\ p \in Seq(TaskKinds)
    /\ \A y : y \notin {"write_task", "tqueue"} => /\ Has(p, y) <=> Has(q, y)
                                                   /\ AtMostOne(q, y) => AtMostOne(p, y)
    /\ Has(q, "tqueue") => Has(p, "tqueue")

LEMMA PutSent ==
    ASSUME CanValues, Send, NEW q \in Seq(TaskKinds), WriteOk(q, write, txring, txwait)
    PROVE  /\ Posted(q, q \o SendPosts)
           /\ WriteOk(q \o SendPosts, write', txring', txwait')
<1> DEFINE p == Append(q, "write_task")
<1>1. "write_task" \in TaskKinds
  BY DEF TaskKinds
<1>2. /\ q \o <<>> = q /\ q \o <<"write_task">> = p
      /\ p \in Seq(TaskKinds)
      /\ \A y : Has(p, y) <=> Has(q, y) \/ "write_task" = y
      /\ \A y : AtMostOne(q, y) /\ ("write_task" = y => ~Has(q, y)) => AtMostOne(p, y)
      /\ \A y, z : Before(q, y, z) /\ y # z /\ ("write_task" = y => ~Has(q, z))
                     => Before(p, y, z)
  BY <1>1, QueueConcat, QueuePut
<1> HIDE DEF p
<1>3. CASE UNCHANGED <<txring, txwait, write>> /\ SendPosts = <<>>
  BY <1>2, <1>3 DEF Posted
<1>4. CASE /\ txring' # <<>> /\ txwait' = FALSE /\ ~txwait /\ write' = write
           /\ SendPosts = <<>>
  BY <1>2, <1>4 DEF Posted, WriteOk
<1>5. CASE /\ txring' # <<>> /\ txwait' = FALSE /\ txwait /\ write' = "queue"
           /\ SendPosts = <<"write_task">>
  <2>1. write = "idle" /\ ~Has(q, "write_task") /\ ~Has(q, "write")
    BY <1>5 DEF WriteOk, CanValues
  <2>2. WriteOk(p, write', txring', txwait')
    BY <1>2, <1>5, <2>1 DEF WriteOk
  <2>3. Posted(q, p)
    BY <1>2 DEF Posted
  <2>4. QED
    BY <1>2, <1>5, <2>2, <2>3
<1>6. QED
  BY <1>3, <1>4, <1>5, SendCases

LEMMA PutNext ==
    ASSUME NEW q \in Seq(TaskKinds), NEW w, NEW ring, NEW wait, WriteOk(q, w, ring, wait)
    PROVE  /\ Posted(q, q \o NextPosts)
           /\ WriteOk(q \o NextPosts, w, ring, wait)
           /\ tq # "posted" /\ tq' = "posted" => Has(q \o NextPosts, "tqueue")
<1> DEFINE p == Append(q, "tqueue")
<1>1. "tqueue" \in TaskKinds
  BY DEF TaskKinds
<1>2. /\ q \o <<>> = q /\ q \o <<"tqueue">> = p
      /\ p \in Seq(TaskKinds)
      /\ \A y : Has(p, y) <=> Has(q, y) \/ "tqueue" = y
      /\ \A y : AtMostOne(q, y) /\ ("tqueue" = y => ~Has(q, y)) => AtMostOne(p, y)
      /\ \A y, z : Before(q, y, z) /\ y # z /\ ("tqueue" = y => ~Has(q, z))
                     => Before(p, y, z)
  BY <1>1, QueueConcat, QueuePut
<1> HIDE DEF p
<1>3. CASE tq # "posted" /\ tq' = "posted"
  <2>1. NextPosts = <<"tqueue">>
    BY <1>3 DEF NextPosts
  <2>2. Posted(q, p) /\ Has(p, "tqueue")
    BY <1>2 DEF Posted
  <2>3. WriteOk(p, w, ring, wait)
    BY <1>2 DEF WriteOk
  <2>4. QED
    BY <1>2, <2>1, <2>2, <2>3
<1>4. CASE ~(tq # "posted" /\ tq' = "posted")
  <2>1. NextPosts = <<>>
    BY <1>4 DEF NextPosts
  <2>2. QED
    BY <1>2, <1>4, <2>1 DEF Posted
<1>5. QED
  BY <1>3, <1>4

\* A call of the stack keeps the write operation represented once, whether the wait
\* was registered, the ring has room, or frames are refused, and a task stands for a
\* wait that it has submitted again.
LEMMA StackKeeps ==
    ASSUME CanValues, NEW before \in Seq(TaskKinds), NEW after, StackCall(before, after),
           WriteOk(before, write, txring, txwait)
    PROVE  /\ txring' \in Seq(TxFrames)
           /\ txwait' \in BOOLEAN /\ write' \in {"idle", "queue", "task"}
           /\ tq' \in {"idle", "waiting", "posted", "expired"}
           /\ \E posted \in Seq(TaskKinds) :
                /\ Posted(before, posted)
                /\ tq # "posted" /\ tq' = "posted" => Has(posted, "tqueue")
                /\ tasks' = posted \o after
                /\ WriteOk(posted, write', txring', txwait')
<1>1. Send /\ NextFunc
  BY DEF StackCall
<1>2. /\ txring' \in Seq(TxFrames)
      /\ txwait' \in BOOLEAN /\ write' \in {"idle", "queue", "task"}
  BY <1>1, SendCases DEF CanValues
<1>3. tq' \in {"idle", "waiting", "posted", "expired"}
  BY <1>1 DEF NextFunc, CanValues
<1>4. CASE tasks' = before \o SendPosts \o NextPosts \o after
  <2> DEFINE p == before \o SendPosts
             r == p \o NextPosts
  <2>1. Posted(before, p) /\ WriteOk(p, write', txring', txwait')
    BY <1>1, PutSent
  <2>2. p \in Seq(TaskKinds)
    BY <2>1 DEF Posted
  <2> HIDE DEF p
  <2>3. /\ Posted(p, r) /\ WriteOk(r, write', txring', txwait')
        /\ tq # "posted" /\ tq' = "posted" => Has(r, "tqueue")
    BY <2>1, <2>2, PutNext
  <2>4. tasks' = r \o after
    BY <1>4 DEF p
  <2> HIDE DEF r
  <2>5. Posted(before, r) /\ r \in Seq(TaskKinds)
    BY <2>1, <2>3 DEF Posted
  <2>6. QED
    BY <1>2, <1>3, <2>3, <2>4, <2>5
<1>5. CASE tasks' = before \o NextPosts \o SendPosts \o after
  <2> DEFINE p == before \o NextPosts
             r == p \o SendPosts
  <2>1. /\ Posted(before, p) /\ WriteOk(p, write, txring, txwait)
        /\ tq # "posted" /\ tq' = "posted" => Has(p, "tqueue")
    BY PutNext
  <2>2. p \in Seq(TaskKinds)
    BY <2>1 DEF Posted
  <2> HIDE DEF p
  <2>3. Posted(p, r) /\ WriteOk(r, write', txring', txwait')
    BY <1>1, <2>1, <2>2, PutSent
  <2>4. tasks' = r \o after
    BY <1>5 DEF p
  <2> HIDE DEF r
  <2>5. /\ Posted(before, r) /\ r \in Seq(TaskKinds)
        /\ tq # "posted" /\ tq' = "posted" => Has(r, "tqueue")
    BY <2>1, <2>3 DEF Posted
  <2>6. QED
    BY <1>2, <1>3, <2>3, <2>4, <2>5
<1>6. QED
  BY <1>4, <1>5 DEF StackCall

\* One task of drain_loop, whichever it is, keeps both operations represented.
LEMMA RunTaskKeeps ==
    ASSUME CanValues, tasks # <<>>, RunTask,
           ReadOk(tasks, read, rxring, rxwait), WriteOk(tasks, write, txring, txwait)
    PROVE  /\ tasks' \in Seq(TaskKinds)
           /\ rxring' \in Seq(Frames \cup States) /\ txring' \in Seq(TxFrames)
           /\ read' \in {"none", "queue", "task"} /\ write' \in {"idle", "queue", "task"}
           /\ rxwait' \in BOOLEAN /\ txwait' \in BOOLEAN
           /\ tq' \in {"idle", "waiting", "posted", "expired"}
           /\ ReadOk(tasks', read', rxring', rxwait')
           /\ WriteOk(tasks', write', txring', txwait')
<1> DEFINE Goal == /\ tasks' \in Seq(TaskKinds)
                   /\ rxring' \in Seq(Frames \cup States) /\ txring' \in Seq(TxFrames)
                   /\ read' \in {"none", "queue", "task"}
                   /\ write' \in {"idle", "queue", "task"}
                   /\ rxwait' \in BOOLEAN /\ txwait' \in BOOLEAN
                   /\ tq' \in {"idle", "waiting", "posted", "expired"}
                   /\ ReadOk(tasks', read', rxring', rxwait')
                   /\ WriteOk(tasks', write', txring', txwait')
           rest == Tail(tasks)
<1> USE DEF CanValues
<1>1. /\ rest \in Seq(TaskKinds)
      /\ \A y : Has(tasks, y) <=> Head(tasks) = y \/ Has(rest, y)
      /\ \A y : AtMostOne(tasks, y) => /\ AtMostOne(rest, y)
                                       /\ Head(tasks) = y => ~Has(rest, y)
      /\ \A y, z : Before(tasks, y, z) => /\ Before(rest, y, z)
                                          /\ Head(tasks) = z => ~Has(rest, y)
  BY QueueTake
<1> HIDE DEF rest
<1>0. ReadTask \/ ReadError \/ WriteTask \/ WriteDone => tq' = tq
  BY DEF ReadTask, ReadError, WriteTask, WriteDone, timeVars
<1>2. ASSUME NEW x \in TaskKinds
      PROVE  /\ Append(rest, x) \in Seq(TaskKinds)
             /\ \A y : Has(Append(rest, x), y) <=> Has(rest, y) \/ x = y
             /\ \A y : AtMostOne(rest, y) /\ (x = y => ~Has(rest, y))
                         => AtMostOne(Append(rest, x), y)
             /\ \A y, z : Before(rest, y, z) /\ y # z /\ (x = y => ~Has(rest, z))
                            => Before(Append(rest, x), y, z)
  BY <1>1, QueuePut
<1>3. TaskKinds = {"read_task", "read", "write_task", "write", "tqueue", "wait_next"}
  BY DEF TaskKinds
<1>4. CASE ReadTask
  <2>1. CASE rxring # <<>>
    <3>1. /\ tasks' = Append(rest, "read") /\ Head(tasks) = "read_task"
          /\ read' = "task" /\ rxring' = Tail(rxring) /\ rxwait' = rxwait
          /\ UNCHANGED <<txring, txwait, write>>
      BY <1>4, <2>1 DEF ReadTask, rest, txVars
    <3>2. Tail(rxring) \in Seq(Frames \cup States)
      BY <2>1
    <3>3. ~rxwait
      BY <2>1 DEF ReadOk
    <3>4. QED
      BY <1>0, <1>4, <1>1, <1>2, <1>3, <3>1, <3>2, <3>3 DEF ReadOk, WriteOk
  <2>2. CASE rxring = <<>>
    <3>1. /\ tasks' = rest /\ Head(tasks) = "read_task" /\ rxwait' = TRUE
          /\ UNCHANGED <<rxring, read, txring, txwait, write>>
      BY <1>4, <2>2 DEF ReadTask, rest, txVars
    <3>2. QED
      BY <1>0, <1>4, <1>1, <2>2, <3>1 DEF ReadOk, WriteOk
  <2>3. QED
    BY <2>1, <2>2
<1>5. ASSUME Head(tasks) = "read", StackCall(rest, <<"read_task">>), SubmitRead
      PROVE  Goal
  <2>1. read' = "queue" /\ UNCHANGED <<rxring, rxwait>>
    BY <1>5 DEF SubmitRead
  <2>2. WriteOk(rest, write, txring, txwait)
    BY <1>1, <1>5 DEF WriteOk
  <2>3. ~rxwait /\ ~Has(rest, "read") /\ ~Has(rest, "read_task")
    BY <1>1, <1>5 DEF ReadOk
  <2>4. /\ txring' \in Seq(TxFrames) /\ txwait' \in BOOLEAN /\ write' \in {"idle", "queue", "task"}
        /\ tq' \in {"idle", "waiting", "posted", "expired"}
    BY <1>1, <1>5, <2>2, StackKeeps
  <2>5. PICK posted \in Seq(TaskKinds) :
                /\ Posted(rest, posted)
                /\ tasks' = posted \o <<"read_task">>
                /\ WriteOk(posted, write', txring', txwait')
    BY <1>1, <1>5, <2>2, StackKeeps
  <2>6. /\ tasks' = Append(posted, "read_task") /\ tasks' \in Seq(TaskKinds)
        /\ \A y : Has(tasks', y) <=> Has(posted, y) \/ "read_task" = y
        /\ \A y : AtMostOne(posted, y) /\ ("read_task" = y => ~Has(posted, y))
                    => AtMostOne(tasks', y)
        /\ \A y, z : Before(posted, y, z) /\ y # z /\ ("read_task" = y => ~Has(posted, z))
                       => Before(tasks', y, z)
    <3>1. tasks' = Append(posted, "read_task") /\ "read_task" \in TaskKinds
      BY <1>3, <2>5, QueueConcat
    <3>2. QED
      BY <3>1, QueuePut
  <2>7. ReadOk(tasks', read', rxring', rxwait')
    BY <1>1, <2>1, <2>3, <2>5, <2>6 DEF ReadOk, Posted
  <2>8. WriteOk(tasks', write', txring', txwait')
    BY <2>5, <2>6 DEF WriteOk
  <2>9. QED
    BY <2>1, <2>4, <2>6, <2>7, <2>8
<1>6. CASE ReadError
  <2>1. /\ Head(tasks) = "read" /\ read' = "queue"
        /\ UNCHANGED <<rxring, rxwait, txring, txwait>>
    BY <1>6 DEF ReadError, SubmitRead
  <2>2. ~rxwait /\ ~Has(rest, "read") /\ ~Has(rest, "read_task")
    BY <1>1, <2>1 DEF ReadOk
  <2>3. CASE UNCHANGED write /\ tasks' = Append(rest, "read_task")
    BY <1>0, <1>6, <1>1, <1>2, <1>3, <2>1, <2>2, <2>3 DEF ReadOk, WriteOk
  <2>4. CASE write = "queue" /\ write' = "task" /\ tasks' = rest \o <<"write", "read_task">>
    <3> DEFINE mid == Append(rest, "write")
    <3>1. /\ mid \in Seq(TaskKinds) /\ tasks' = Append(mid, "read_task")
      BY <1>1, <1>2, <1>3, <2>4, QueueConcat
    <3>2. /\ \A y : Has(mid, y) <=> Has(rest, y) \/ "write" = y
          /\ \A y : AtMostOne(rest, y) /\ ("write" = y => ~Has(rest, y)) => AtMostOne(mid, y)
          /\ Before(rest, "write_task", "write") => Before(mid, "write_task", "write")
      BY <1>2, <1>3
    <3> HIDE DEF mid
    <3>3. /\ tasks' \in Seq(TaskKinds)
          /\ \A y : Has(tasks', y) <=> Has(mid, y) \/ "read_task" = y
          /\ \A y : AtMostOne(mid, y) /\ ("read_task" = y => ~Has(mid, y)) => AtMostOne(tasks', y)
          /\ \A y, z : Before(mid, y, z) /\ y # z /\ ("read_task" = y => ~Has(mid, z))
                         => Before(tasks', y, z)
      <4>1. "read_task" \in TaskKinds
        BY <1>3
      <4>2. QED
        BY <3>1, <4>1, QueuePut
    <3>4. QED
      BY <1>0, <1>6, <1>1, <2>1, <2>2, <2>4, <3>2, <3>3 DEF ReadOk, WriteOk
  <2>5. QED
    BY <1>6, <2>3, <2>4 DEF ReadError, rest
<1>7. CASE WriteTask
  <2>1. CASE write = "queue"
    <3>1. /\ tasks' = Append(rest, "write") /\ Head(tasks) = "write_task" /\ write' = "task"
          /\ UNCHANGED <<txring, txwait, rxring, rxwait, read>>
      BY <1>7, <2>1 DEF WriteTask, CanWrite, rest, rxVars
    <3>2. QED
      BY <1>0, <1>7, <1>1, <1>2, <1>3, <2>1, <3>1 DEF ReadOk, WriteOk
  <2>2. CASE write # "queue"
    <3>1. /\ tasks' = rest /\ Head(tasks) = "write_task"
          /\ UNCHANGED <<write, txring, txwait, rxring, rxwait, read>>
      BY <1>7, <2>2 DEF WriteTask, rest, rxVars
    <3>2. QED
      BY <1>0, <1>7, <1>1, <2>2, <3>1 DEF ReadOk, WriteOk
  <2>3. QED
    BY <2>1, <2>2
<1>8. CASE WriteDone
  <2>0. rest \o <<>> = rest /\ rest \o <<"write_task">> = Append(rest, "write_task")
    BY <1>1, <1>3, QueueConcat
  <2>1. Head(tasks) = "write" /\ UNCHANGED <<rxring, rxwait, read>>
    BY <1>8 DEF WriteDone, rxVars
  <2>2. write = "task" /\ txring # <<>> /\ ~Has(rest, "write_task") /\ ~Has(rest, "write")
    BY <1>1, <2>1 DEF WriteOk
  <2>3. txring' \in Seq(TxFrames)
    <3>1. Tail(txring) \in Seq(TxFrames) /\ <<>> \in Seq(TxFrames)
      BY <2>2
    <3>2. QED
      BY <1>8, <3>1 DEF WriteDone
  <2>4. CASE txring' = <<>>
    <3>1. tasks' = rest /\ write' = "idle" /\ txwait' = TRUE
      BY <1>8, <2>0, <2>4 DEF WriteDone, rest
    <3>2. QED
      BY <1>0, <1>8, <1>1, <2>1, <2>2, <2>3, <2>4, <3>1 DEF ReadOk, WriteOk
  <2>5. CASE txring' # <<>>
    <3>1. tasks' = Append(rest, "write_task") /\ write' = "queue" /\ txwait' = FALSE
      BY <1>8, <2>0, <2>5 DEF WriteDone, rest
    <3>2. QED
      BY <1>0, <1>8, <1>1, <1>2, <1>3, <2>1, <2>2, <2>3, <2>5, <3>1 DEF ReadOk, WriteOk
  <2>6. QED
    BY <2>4, <2>5
<1>9. CASE TqueueTask
  <2>1. /\ Head(tasks) = "tqueue" /\ tq' \in {"waiting", "expired"}
        /\ UNCHANGED <<read, rxring, rxwait, write, txring, txwait>>
    BY <1>9 DEF TqueueTask, rxVars, txVars
  <2>2. CASE tasks' = Append(rest, "wait_next")
    BY <1>1, <1>2, <1>3, <2>1, <2>2 DEF ReadOk, WriteOk
  <2>3. CASE tasks' = rest
    BY <1>1, <2>1, <2>3 DEF ReadOk, WriteOk
  <2>4. QED
    BY <1>9, <2>2, <2>3 DEF TqueueTask, rest
<1>10. CASE WaitNext
  <2>1. /\ Head(tasks) = "wait_next" /\ Send /\ tasks' = rest \o SendPosts
        /\ UNCHANGED <<read, rxring, rxwait>> /\ tq' \in {"idle", "waiting"}
    BY <1>10 DEF WaitNext, rest, rxVars
  <2>2. WriteOk(rest, write, txring, txwait) /\ ReadOk(rest, read, rxring, rxwait)
    BY <1>1, <2>1 DEF WriteOk, ReadOk
  <2>3. txring' \in Seq(TxFrames) /\ txwait' \in BOOLEAN /\ write' \in {"idle", "queue", "task"}
    BY <2>1, SendCases
  <2>4. Posted(rest, tasks') /\ WriteOk(tasks', write', txring', txwait')
    BY <1>1, <2>1, <2>2, PutSent
  <2>5. ReadOk(tasks', read, rxring, rxwait) /\ tasks' \in Seq(TaskKinds)
    BY <2>2, <2>4 DEF ReadOk, Posted
  <2>6. QED
    BY <2>1, <2>3, <2>4, <2>5
<1>11. QED
  BY <1>4, <1>5, <1>6, <1>7, <1>8, <1>9, <1>10 DEF RunTask, ReadFrame, rest

\* A read that a task completes has a result, and the network's state is one that
\* a completed read reported.
LEMMA RunTaskResult ==
    ASSUME CanValues, tasks # <<>>, RunTask, ReadOk(tasks, read, rxring, rxwait), ResultOk
    PROVE  state' \in States /\ ResultOk'
<1> USE DEF CanValues, ResultOk
<1>1. CASE ReadTask
  <2>1. state' = state
    BY <1>1 DEF ReadTask
  <2>2. CASE rxring # <<>>
    <3>1. Head(rxring) \in Frames \cup States
      BY <2>2
    <3>2. QED
      BY <1>1, <2>1, <2>2, <3>1 DEF ReadTask
  <2>3. QED
    BY <1>1, <2>1, <2>2 DEF ReadTask
<1>2. CASE ReadFrame
  BY <1>2 DEF ReadFrame, SubmitRead
<1>3. CASE ReadError
  <2>1. read = "task"
    <3>1. Has(tasks, "read")
      BY <1>3, QueueTake DEF ReadError
    <3>2. QED
      BY <3>1 DEF ReadOk
  <2>2. QED
    BY <1>3, <2>1 DEF ReadError, SubmitRead
<1>4. CASE UNCHANGED <<state, read, read_result>>
  BY <1>4
<1>5. QED
  BY <1>1, <1>2, <1>3, <1>4 DEF RunTask, WriteTask, WriteDone, TqueueTask, WaitNext, rxVars

\* Every step of the device, the indications and the owner keeps the types and
\* the two operations represented.
LEMMA LoopNext ==
    CanValues /\ LoopInv /\ [CanNext]_canVars => CanValues' /\ LoopInv'
<1> SUFFICES ASSUME CanValues, LoopInv, [CanNext]_canVars
             PROVE  CanValues' /\ LoopInv'
  OBVIOUS
<1> USE DEF CanValues, deviceVars, otherDeviceVars, portVars, iterationVars, lelyVars,
            rxVars, txVars, timeVars, Installed, OwnerPcs
<1>1. ASSUME NEW f \in RxFrames, Receive(f)
      PROVE  CanValues' /\ LoopInv'
  <2>1. fifo' \in Seq(Frames)
    BY <1>1, CanAssumption DEF Receive
  <2>2. QED
    BY <1>1, <2>1 DEF Receive, LoopInv, ResultOk
<1>2. ASSUME NEW s \in Statuses, StatusChange(s)
      PROVE  CanValues' /\ LoopInv'
  BY <1>2 DEF StatusChange, LoopInv, ResultOk
<1>3. CASE Transmitted \/ DeadlinePasses \/ \E e \in indicate : Indicate(e)
  BY <1>3 DEF Transmitted, DeadlinePasses, Indicate, LoopInv, ResultOk
<1>4. CASE Install
  <2>1. /\ at' = "master" /\ txwait' = TRUE /\ read' = "queue" /\ tasks' = <<"read_task">>
        /\ rxring' = <<>> /\ txring' = <<>> /\ write' = "idle" /\ rxwait' = FALSE
    BY <1>4 DEF Install, LoopInv, ResultOk
  <2>2. /\ <<>> \in Seq(TaskKinds) /\ tasks' = Append(<<>>, "read_task")
        /\ "read_task" \in TaskKinds
    BY <2>1 DEF TaskKinds
  <2>3. /\ tasks' \in Seq(TaskKinds)
        /\ \A y : Has(tasks', y) <=> "read_task" = y
        /\ \A y : AtMostOne(tasks', y)
        /\ \A y, z : y # z => Before(tasks', y, z)
    BY <2>1, <2>2 DEF Has, AtMostOne, Before
  <2>4. ReadOk(tasks', read', rxring', rxwait') /\ WriteOk(tasks', write', txring', txwait')
    BY <2>1, <2>3 DEF ReadOk, WriteOk
  <2>5. CanValues'
    BY <1>4, <2>1, <2>3 DEF Install
  <2>6. QED
    BY <2>1, <2>4, <2>5 DEF LoopInv, ResultOk
<1>5. ASSUME NEW f \in Frames \cup States, OnFrame(f),
             Installed, at' \in OwnerPcs \ {"open", "wait"},
             UNCHANGED <<bus, txVars, state, tq>>, fifo' \in Seq(Frames)
      PROVE  CanValues' /\ LoopInv'
  <2>1. ReadOk(tasks, read, rxring, rxwait) /\ WriteOk(tasks, write, txring, txwait)
    BY <1>5 DEF LoopInv, ResultOk
  <2>2. /\ tasks' \in Seq(TaskKinds) /\ rxring' \in Seq(Frames \cup States)
        /\ rxwait' \in BOOLEAN
        /\ ReadOk(tasks', read', rxring', rxwait')
        /\ WriteOk(tasks', write, txring, txwait)
    BY <1>5, <2>1, OnFrameKeeps
  <2>3. read' = read /\ read_result' = read_result
    BY <1>5 DEF OnFrame
  <2>4. QED
    BY <1>5, <2>2, <2>3 DEF LoopInv, ResultOk
<1>6. CASE DrainRxOne
  <2>1. /\ fifo # <<>> /\ fifo' = Tail(fifo) /\ at \in {"probe", "rx"}
        /\ UNCHANGED <<at, bus, txVars, state, tq>>
    BY <1>6 DEF DrainRxOne
  <2>2. Head(fifo) \in Frames /\ fifo' \in Seq(Frames)
    BY <2>1
  <2>3. CASE OnFrame(Head(fifo))
    BY <1>5, <2>1, <2>2, <2>3
  <2>4. CASE UNCHANGED <<tasks, rxVars>>
    BY <2>1, <2>2, <2>4 DEF LoopInv, ResultOk
  <2>5. QED
    BY <1>6, <2>3, <2>4 DEF DrainRxOne
<1>7. CASE ProcessStatus
  <2>1. /\ at \in StatusPcs /\ at' \in {"advance", "drain"}
        /\ UNCHANGED <<fifo, bus, txVars, state, tq>>
    BY <1>7 DEF ProcessStatus, AfterStatus
  <2>2. CASE OnFrame(StateOf(bus))
    <3>1. StateOf(bus) \in Frames \cup States
      BY DEF StateOf, States
    <3>2. QED
      BY <1>5, <2>1, <2>2, <3>1 DEF StatusPcs
  <2>3. CASE UNCHANGED <<tasks, rxVars>>
    BY <2>1, <2>3 DEF LoopInv, ResultOk, StatusPcs
  <2>4. QED
    BY <1>7, <2>2, <2>3 DEF ProcessStatus
<1>8. CASE DrainRxEnd
  BY <1>8 DEF DrainRxEnd, AfterRx, LoopInv, ResultOk
<1>9. CASE TimerAdvance
  <2>1. /\ at \in {"advance", "init_advance"}
        /\ at' \in {"init_status", "queued", "sample", "drain"}
        /\ UNCHANGED <<fifo, bus, rxVars, txVars, state>>
        /\ tq' \in {"idle", "waiting", "posted", "expired"}
    BY <1>9 DEF TimerAdvance, AfterCommands
  <2>2. CASE tasks' = Append(tasks, "tqueue")
    <3>1. "tqueue" \in TaskKinds
      BY DEF TaskKinds
    <3>2. /\ tasks' \in Seq(TaskKinds)
          /\ \A y : Has(tasks', y) <=> Has(tasks, y) \/ "tqueue" = y
          /\ \A y : AtMostOne(tasks, y) /\ ("tqueue" = y => ~Has(tasks, y))
                      => AtMostOne(tasks', y)
          /\ \A y, z : Before(tasks, y, z) /\ y # z /\ ("tqueue" = y => ~Has(tasks, z))
                         => Before(tasks', y, z)
      BY <2>2, <3>1, QueuePut
    <3>3. ReadOk(tasks, read, rxring, rxwait) /\ WriteOk(tasks, write, txring, txwait)
      BY <2>1 DEF LoopInv, ResultOk
    <3>4. ReadOk(tasks', read', rxring', rxwait') /\ WriteOk(tasks', write', txring', txwait')
      BY <2>1, <3>2, <3>3 DEF ReadOk, WriteOk
    <3>5. QED
      BY <2>1, <3>2, <3>4 DEF LoopInv, ResultOk
  <2>3. CASE UNCHANGED tasks
    BY <2>1, <2>3 DEF LoopInv, ResultOk
  <2>4. QED
    BY <1>9, <2>2, <2>3 DEF TimerAdvance
<1>10. CASE DrainLoop
  <2>1. /\ at \in {"queued", "drain"} /\ tasks # <<>> /\ RunTask
        /\ UNCHANGED <<fifo, bus, at>>
    BY <1>10 DEF DrainLoop
  <2>2. ReadOk(tasks, read, rxring, rxwait) /\ WriteOk(tasks, write, txring, txwait)
    BY <2>1 DEF LoopInv, ResultOk
  <2>3. /\ tasks' \in Seq(TaskKinds)
        /\ rxring' \in Seq(Frames \cup States) /\ txring' \in Seq(TxFrames)
        /\ read' \in {"none", "queue", "task"} /\ write' \in {"idle", "queue", "task"}
        /\ rxwait' \in BOOLEAN /\ txwait' \in BOOLEAN
        /\ tq' \in {"idle", "waiting", "posted", "expired"}
        /\ ReadOk(tasks', read', rxring', rxwait')
        /\ WriteOk(tasks', write', txring', txwait')
    BY <2>1, <2>2, RunTaskKeeps
  <2>4. state' \in States /\ ResultOk'
    BY <2>1, <2>2, RunTaskResult DEF LoopInv, ResultOk
  <2>5. QED
    BY <2>1, <2>3, <2>4 DEF LoopInv, ResultOk
<1>11. ASSUME StackCall(tasks, <<>>), Installed, at' \in OwnerPcs \ {"open", "wait"},
              UNCHANGED <<fifo, bus, rxVars, state>>
       PROVE  CanValues' /\ LoopInv'
  <2>1. ReadOk(tasks, read, rxring, rxwait) /\ WriteOk(tasks, write, txring, txwait)
    BY <1>11 DEF LoopInv, ResultOk
  <2>2. /\ txring' \in Seq(TxFrames) /\ txwait' \in BOOLEAN /\ write' \in {"idle", "queue", "task"}
        /\ tq' \in {"idle", "waiting", "posted", "expired"}
    BY <1>11, <2>1, StackKeeps
  <2>3. PICK posted \in Seq(TaskKinds) :
                /\ Posted(tasks, posted)
                /\ tasks' = posted \o <<>>
                /\ WriteOk(posted, write', txring', txwait')
    BY <1>11, <2>1, StackKeeps
  <2>4. tasks' = posted
    BY <2>3
  <2>5. ReadOk(posted, read, rxring, rxwait)
    BY <2>1, <2>3 DEF ReadOk, Posted
  <2>6. QED
    BY <1>11, <2>2, <2>3, <2>4, <2>5 DEF LoopInv, ResultOk
<1>12. CASE SyncCanNet
  BY <1>11, <1>12 DEF SyncCanNet
<1>13. CASE Dispatch
  BY <1>11, <1>13 DEF Dispatch
<1>19. CASE MasterInit
  BY <1>11, <1>19 DEF MasterInit
<1>14. CASE DispatchDone
  BY <1>14 DEF DispatchDone, AfterCommands, LoopInv, ResultOk
<1>15. CASE IterationEnd
  BY <1>15 DEF IterationEnd, LoopInv, ResultOk
<1>16. CASE EventRecv
  BY <1>16 DEF EventRecv, LoopInv, ResultOk
<1>17. CASE UNCHANGED canVars
  BY <1>17 DEF canVars, LoopInv, ResultOk
<1>18. QED
  BY <1>1, <1>2, <1>3, <1>4, <1>6, <1>7, <1>8, <1>9, <1>10, <1>12, <1>13, <1>14, <1>15,
     <1>16, <1>17, <1>19
  DEF CanNext, OwnerRuns

-----------------------------------------------------------------------------
(* Frames in the device                                                    *)

\* A frame that the drain leaves in the device's FIFO has its event: the drain
\* ends at an empty FIFO, or at the limit of its batch, which sets the event.
LEMMA FifoNext == FifoInv /\ [CanNext]_canVars => FifoInv'
<1> SUFFICES ASSUME FifoInv, [CanNext]_canVars
             PROVE  FifoInv'
  OBVIOUS
<1> USE DEF FifoInv, Installed, deviceVars, otherDeviceVars, portVars, iterationVars, lelyVars
<1>1. CASE \E f \in RxFrames : Receive(f)
  BY <1>1 DEF Receive
<1>2. CASE \E s \in Statuses : StatusChange(s)
  BY <1>2 DEF StatusChange
<1>3. CASE \E e \in indicate : Indicate(e)
  BY <1>3 DEF Indicate
<1>4. CASE Transmitted \/ DeadlinePasses
  BY <1>4 DEF Transmitted, DeadlinePasses
<1>5. CASE Install \/ MasterInit
  BY <1>5 DEF Install, MasterInit
<1>6. CASE DrainRxOne
  BY <1>6 DEF DrainRxOne
<1>7. CASE DrainRxEnd
  BY <1>7 DEF DrainRxEnd
<1>8. CASE ProcessStatus \/ TimerAdvance \/ DrainLoop
  BY <1>8 DEF ProcessStatus, StatusPcs, TimerAdvance, DrainLoop
<1>9. CASE SyncCanNet \/ Dispatch \/ DispatchDone \/ IterationEnd
  BY <1>9 DEF SyncCanNet, Dispatch, DispatchDone, IterationEnd
<1>10. CASE EventRecv
  BY <1>10 DEF EventRecv
<1>11. CASE UNCHANGED canVars
  BY <1>11 DEF canVars
<1>12. QED
  BY <1>1, <1>2, <1>3, <1>4, <1>5, <1>6, <1>7, <1>8, <1>9, <1>10, <1>11
  DEF CanNext, OwnerRuns

-----------------------------------------------------------------------------
(* The bus state under way                                                 *)

\* The state of the sample that the port keeps.
Told == IF last_can_status = NoStatus THEN "ACTIVE" ELSE StateOf(last_can_status)

\* The ring holds frames only; the newest status in it, if any, is st.
FramesOnly(ring) == \A i \in 1 .. Len(ring) : ring[i] \in Frames
NewestStatus(ring, st) ==
    \A i \in 1 .. Len(ring) :
        ring[i] \notin Frames /\ (\A j \in 1 .. Len(ring) : j > i => ring[j] \in Frames)
          => ring[i] = st

ToldInv ==
    /\ NewestStatus(rxring, Told)
    /\ FramesOnly(rxring) =>
         IF read = "task" /\ read_result \notin Frames THEN read_result = Told ELSE state = Told

\* What injecting a frame or a status does to the newest status.
LEMMA InjectOne ==
    ASSUME NEW ring \in Seq(Frames \cup States), NEW f \in Frames \cup States
    PROVE  /\ f \in Frames => /\ FramesOnly(Append(ring, f)) <=> FramesOnly(ring)
                              /\ \A st : NewestStatus(ring, st)
                                           => NewestStatus(Append(ring, f), st)
           /\ f \notin Frames => /\ ~FramesOnly(Append(ring, f))
                                 /\ NewestStatus(Append(ring, f), f)
<1>1. Len(Append(ring, f)) = Len(ring) + 1 /\ Len(ring) \in Nat
  OBVIOUS
<1>2. \A i \in 1 .. Len(ring) + 1 : Append(ring, f)[i] = IF i = Len(ring) + 1 THEN f ELSE ring[i]
  OBVIOUS
<1>3. f \in Frames => (FramesOnly(Append(ring, f)) <=> FramesOnly(ring))
  BY <1>1, <1>2 DEF FramesOnly
<1>4. ASSUME f \in Frames, NEW st, NewestStatus(ring, st)
      PROVE  NewestStatus(Append(ring, f), st)
  BY <1>1, <1>2, <1>4 DEF NewestStatus
<1>5. f \notin Frames => ~FramesOnly(Append(ring, f)) /\ NewestStatus(Append(ring, f), f)
  BY <1>1, <1>2 DEF NewestStatus, FramesOnly
<1>6. QED
  BY <1>3, <1>4, <1>5

\* What the read operation takes from the ring.
LEMMA TakeOne ==
    ASSUME NEW ring \in Seq(Frames \cup States), ring # <<>>
    PROVE  /\ FramesOnly(Tail(ring)) /\ Head(ring) \in Frames => FramesOnly(ring)
           /\ \A st : NewestStatus(ring, st) =>
                /\ NewestStatus(Tail(ring), st)
                /\ FramesOnly(Tail(ring)) /\ Head(ring) \notin Frames => Head(ring) = st
<1>1. Len(Tail(ring)) = Len(ring) - 1 /\ Len(ring) \in Nat \ {0} /\ Head(ring) = ring[1]
  OBVIOUS
<1>2. \A i \in 1 .. Len(ring) - 1 : Tail(ring)[i] = ring[i + 1]
  OBVIOUS
<1>3. \A i \in 1 .. Len(ring) : i # 1 => i - 1 \in 1 .. Len(Tail(ring)) /\ Tail(ring)[i - 1] = ring[i]
  BY <1>1, <1>2
<1>4. FramesOnly(Tail(ring)) /\ Head(ring) \in Frames => FramesOnly(ring)
  BY <1>1, <1>3 DEF FramesOnly
<1>5. ASSUME NEW st, NewestStatus(ring, st)
      PROVE  NewestStatus(Tail(ring), st)
  <2> SUFFICES ASSUME NEW i \in 1 .. Len(Tail(ring)), Tail(ring)[i] \notin Frames,
                      \A j \in 1 .. Len(Tail(ring)) : j > i => Tail(ring)[j] \in Frames
               PROVE  Tail(ring)[i] = st
    BY DEF NewestStatus
  <2>1. i + 1 \in 1 .. Len(ring) /\ ring[i + 1] = Tail(ring)[i]
    BY <1>1, <1>2
  <2>2. \A j \in 1 .. Len(ring) : j > i + 1 => ring[j] \in Frames
    BY <1>1, <1>3
  <2>3. QED
    BY <1>5, <2>1, <2>2 DEF NewestStatus
<1>6. ASSUME NEW st, NewestStatus(ring, st), FramesOnly(Tail(ring)), Head(ring) \notin Frames
      PROVE  Head(ring) = st
  <2>1. 1 \in 1 .. Len(ring) /\ ring[1] \notin Frames
    BY <1>1, <1>6
  <2>2. ASSUME NEW j \in 1 .. Len(ring), j > 1
        PROVE  ring[j] \in Frames
    <3>1. j - 1 \in 1 .. Len(Tail(ring)) /\ Tail(ring)[j - 1] = ring[j]
      BY <1>3, <2>2
    <3>2. Tail(ring)[j - 1] \in Frames
      BY <1>6, <3>1 DEF FramesOnly
    <3>3. QED
      BY <3>1, <3>2
  <2>3. ring[1] = st
    BY <1>6, <2>1, <2>2 DEF NewestStatus
  <2>4. QED
    BY <1>1, <2>3
<1>7. QED
  BY <1>4, <1>5, <1>6

\* A status change reaches the network or is found again: the sample is kept only
\* when the change was injected or there was none.
LEMMA ToldNext ==
    CanValues /\ LoopInv /\ ToldInv /\ [CanNext]_canVars => ToldInv'
<1> SUFFICES ASSUME CanValues, LoopInv, ToldInv, [CanNext]_canVars
             PROVE  ToldInv'
  OBVIOUS
<1> USE DEF ToldInv, CanValues
<1>1. CASE UNCHANGED <<rxring, read, read_result, state, last_can_status>>
  BY <1>1 DEF Told
<1>2. ASSUME NEW f \in Frames, OnFrame(f), UNCHANGED <<state, last_can_status>>
      PROVE  ToldInv'
  BY <1>2, InjectOne DEF OnFrame, Told
<1>3. CASE Install
  <2>1. /\ rxring' = <<>> /\ state' = "ACTIVE" /\ last_can_status' = NoStatus /\ read' = "queue"
    BY <1>3 DEF Install, LoopInv, Installed
  <2>2. QED
    BY <2>1 DEF NewestStatus, Told
<1>4. CASE DrainRxOne
  <2>1. Head(fifo) \in Frames
    BY <1>4 DEF DrainRxOne
  <2>2. QED
    BY <1>1, <1>2, <1>4, <2>1 DEF DrainRxOne, rxVars
<1>5. CASE ProcessStatus
  <2>0. StateOf(bus) \in States
    BY DEF StateOf, States
  <2>1. bus \in Statuses /\ bus # NoStatus /\ StateOf(bus) \in States
    <3>1. bus \in [snderrcnt : Nat, rcverrcnt : Nat, errors : Nat]
      BY CanAssumption
    <3>2. "none" \notin DOMAIN bus /\ "none" \in DOMAIN NoStatus
      BY <3>1 DEF NoStatus
    <3>3. QED
      BY <2>0, <3>2
  <2>2. CASE OnFrame(StateOf(bus)) /\ last_can_status' = bus
    <3>1. Told' = StateOf(bus)
      BY <2>1, <2>2 DEF Told
    <3>2. StateOf(bus) \notin Frames
      BY <2>1 DEF States, Frames
    <3>3. QED
      BY <2>1, <2>2, <3>1, <3>2, InjectOne DEF OnFrame
  <2>3. CASE ~StatusChanged(bus) /\ last_can_status' = bus /\ UNCHANGED rxVars
    <3>1. Told' = Told
      BY <2>1, <2>3 DEF Told, StatusChanged
    <3>2. QED
      BY <1>5, <2>3, <3>1 DEF ProcessStatus, rxVars
  <2>4. QED
    BY <1>1, <1>5, <2>2, <2>3 DEF ProcessStatus, rxVars
<1>6. CASE DrainLoop
  <2>1. /\ tasks # <<>> /\ RunTask /\ UNCHANGED last_can_status
        /\ ReadOk(tasks, read, rxring, rxwait) /\ Told' = Told
    BY <1>6 DEF DrainLoop, LoopInv, Installed, portVars, iterationVars, Told
  <2>2. CASE ReadTask
    <3>1. CASE rxring = <<>>
      BY <1>1, <2>1, <2>2, <3>1 DEF ReadTask
    <3>2. CASE rxring # <<>>
      <4>1. read = "queue"
        BY <2>1, <2>2, QueueTake DEF ReadTask, ReadOk
      <4>2. /\ read_result' = Head(rxring) /\ rxring' = Tail(rxring) /\ read' = "task"
            /\ state' = state
        BY <2>2, <3>2 DEF ReadTask
      <4>3. QED
        BY <2>1, <3>2, <4>1, <4>2, TakeOne
    <3>3. QED
      BY <3>1, <3>2
  <2>3. CASE ReadFrame
    BY <2>1, <2>3 DEF ReadFrame, SubmitRead
  <2>4. CASE ReadError
    <3>1. read = "task"
      BY <2>1, <2>4, QueueTake DEF ReadError, ReadOk
    <3>2. QED
      BY <2>1, <2>4, <3>1 DEF ReadError, SubmitRead
  <2>5. CASE UNCHANGED <<rxring, read, read_result, state>>
    BY <1>1, <2>1, <2>5
  <2>6. QED
    BY <2>1, <2>2, <2>3, <2>4, <2>5
    DEF RunTask, WriteTask, WriteDone, TqueueTask, WaitNext, rxVars
<1>7. QED
  BY <1>1, <1>3, <1>4, <1>5, <1>6
  DEF CanNext, OwnerRuns, canVars, deviceVars, portVars, iterationVars, lelyVars, rxVars,
      Receive, StatusChange, Indicate, Transmitted, DeadlinePasses, DrainRxEnd,
      MasterInit, TimerAdvance, SyncCanNet, Dispatch, DispatchDone, IterationEnd, EventRecv

-----------------------------------------------------------------------------
(* The wait for the next timer                                             *)

\* A call of the stack that leaves a request outstanding leaves it waited for; no
\* request has been overtaken by the clock after the call has set the time.
LEMMA StackTime ==
    ASSUME CanValues, TimeInv, NEW before \in Seq(TaskKinds),
           NEW after \in {<<>>, <<"read_task">>}, StackCall(before, after),
           WriteOk(before, write, txring, txwait),
           Has(tasks, "tqueue") => Has(before, "tqueue"),
           Has(tasks, "wait_next") => Has(before, "wait_next"),
           request' = "armed" => \/ request = "armed" /\ due_at' = due_at
                                 \/ tq' # "idle" /\ due_at' = "future"
    PROVE  TimeInv'
<1>1. PICK posted \in Seq(TaskKinds) :
         /\ Posted(before, posted)
         /\ tq # "posted" /\ tq' = "posted" => Has(posted, "tqueue")
         /\ tasks' = posted \o after
  BY StackKeeps
<1>2. \A y : Has(posted, y) => Has(tasks', y)
  <2>1. "read_task" \in TaskKinds
    BY DEF TaskKinds
  <2>2. posted \o <<>> = posted /\ posted \o <<"read_task">> = Append(posted, "read_task")
    BY <2>1, QueueConcat
  <2>3. \A y : Has(posted, y) => Has(Append(posted, "read_task"), y)
    BY <2>1, QueuePut
  <2>4. CASE after = <<>>
    BY <1>1, <2>2, <2>4
  <2>5. CASE after = <<"read_task">>
    BY <1>1, <2>2, <2>3, <2>5
  <2>6. QED
    BY <2>4, <2>5
<1>3. /\ Has(tasks, "tqueue") => Has(tasks', "tqueue")
      /\ Has(tasks, "wait_next") => Has(tasks', "wait_next")
  BY <1>1, <1>2 DEF Posted
<1>4. \/ tq' = tq
      \/ tq = "idle" /\ tq' \in {"waiting", "posted"}
      \/ tq = "waiting" /\ tq' = "posted"
  BY DEF StackCall, NextFunc
<1>5. /\ tq' = "posted" => Has(tasks', "tqueue")
      /\ tq' = "expired" => Has(tasks', "wait_next")
  BY <1>1, <1>2, <1>3, <1>4 DEF TimeInv
<1>6. /\ request' = "armed" => tq' # "idle"
      /\ request' = "armed" /\ due_at' = "clock" => tq' \in {"posted", "expired"}
  BY <1>4 DEF TimeInv
<1>7. QED
  BY <1>5, <1>6 DEF TimeInv

\* Every step keeps a task for a wait that is posted or has expired, and lets no
\* request behind that the clock has passed.
LEMMA TimeNext ==
    CanValues /\ LoopInv /\ TimeInv /\ [CanNext]_canVars => TimeInv'
<1> SUFFICES ASSUME CanValues, LoopInv, TimeInv, [CanNext]_canVars
             PROVE  TimeInv'
  OBVIOUS
<1> USE DEF timeVars
<1>0. tasks \in Seq(TaskKinds) /\ {"read_task", "wait_next", "tqueue", "read", "write", "write_task"} = TaskKinds
  BY DEF CanValues, TaskKinds
<1>1. ASSUME UNCHANGED <<tq, request>>, due_at' \in {due_at, "passed"},
             \A y : Has(tasks, y) => Has(tasks', y)
      PROVE  TimeInv'
  BY <1>1 DEF TimeInv
<1>2. CASE UNCHANGED <<tasks, timeVars>>
  BY <1>1, <1>2
<1>3. CASE DeadlinePasses
  BY <1>1, <1>3 DEF DeadlinePasses
<1>4. CASE Install
  <2>1. tasks = <<>> /\ UNCHANGED timeVars
    BY <1>4 DEF Install, LoopInv, Installed
  <2>2. \A y : ~Has(tasks, y)
    BY <2>1, QueueEmpty
  <2>3. QED
    BY <1>1, <2>1, <2>2
<1>5. ASSUME NEW f, OnFrame(f), UNCHANGED timeVars
      PROVE  TimeInv'
  <2>1. tasks' = tasks \/ tasks' = Append(tasks, "read_task")
    BY <1>0, <1>5, QueueConcat DEF OnFrame
  <2>2. "read_task" \in TaskKinds
    BY <1>0
  <2>3. \A y : Has(tasks, y) => Has(Append(tasks, "read_task"), y)
    BY <1>0, <2>2, QueuePut
  <2>4. \A y : Has(tasks, y) => Has(tasks', y)
    BY <2>1, <2>3
  <2>5. QED
    BY <1>1, <1>5, <2>4
<1>6. CASE DrainRxOne
  BY <1>2, <1>5, <1>6 DEF DrainRxOne
<1>7. CASE ProcessStatus
  BY <1>2, <1>5, <1>7 DEF ProcessStatus
<1>8. CASE TimerAdvance
  <2>1. CASE tq = "waiting" /\ tq' = "posted" /\ tasks' = Append(tasks, "tqueue")
    <3>1. Has(tasks', "tqueue")
      BY <1>0, <2>1, QueuePut
    <3>2. QED
      BY <1>8, <2>1, <3>1 DEF TimerAdvance, TimeInv
  <2>2. CASE ~(tq = "waiting" /\ request = "armed" /\ due_at = "passed") /\ UNCHANGED <<tq, tasks>>
    BY <1>8, <2>2 DEF TimerAdvance, TimeInv, CanValues
  <2>3. QED
    BY <1>8, <2>1, <2>2 DEF TimerAdvance
<1>9. CASE MasterInit \/ SyncCanNet \/ Dispatch
  <2>1. Installed /\ WriteOk(tasks, write, txring, txwait)
    BY <1>9 DEF MasterInit, SyncCanNet, Dispatch, LoopInv, Installed
  <2>2. StackCall(tasks, <<>>)
    BY <1>9 DEF MasterInit, SyncCanNet, Dispatch
  <2>3. request' = "armed" => \/ request = "armed" /\ due_at' = due_at
                              \/ tq' # "idle" /\ due_at' = "future"
    BY <1>9 DEF MasterInit, SyncCanNet, Dispatch, AfterSetTime
  <2>4. QED
    BY <1>0, <2>1, <2>2, <2>3, StackTime
<1>10. CASE DrainLoop
  <2> DEFINE rest == Tail(tasks)
  <2>1. tasks # <<>> /\ RunTask /\ WriteOk(tasks, write, txring, txwait)
    BY <1>10 DEF DrainLoop, LoopInv, Installed
  <2>2. /\ rest \in Seq(TaskKinds)
        /\ \A y : Has(tasks, y) <=> Head(tasks) = y \/ Has(rest, y)
        /\ \A y : AtMostOne(tasks, y) => AtMostOne(rest, y)
        /\ \A y, z : Before(tasks, y, z) => Before(rest, y, z)
    BY <1>0, <2>1, QueueTake
  <2> HIDE DEF rest
  <2>3. ASSUME NEW x \in TaskKinds
        PROVE  /\ Append(rest, x) \in Seq(TaskKinds)
               /\ \A y : Has(Append(rest, x), y) <=> Has(rest, y) \/ x = y
    BY <2>2, QueuePut
  <2>4. CASE ReadFrame
    <3>1. /\ Head(tasks) = "read" /\ StackCall(rest, <<"read_task">>)
          /\ request' = "armed" => request = "armed" /\ due_at' = due_at
      BY <2>4 DEF ReadFrame, AfterSetTime, rest
    <3>2. WriteOk(rest, write, txring, txwait)
      BY <2>1, <2>2, <3>1 DEF WriteOk
    <3>3. QED
      BY <2>2, <3>1, <3>2, StackTime
  <2>5. CASE TqueueTask
    <3>1. Head(tasks) = "tqueue" /\ UNCHANGED <<request, due_at>>
      BY <2>5 DEF TqueueTask
    <3>2. CASE tq' = "expired" /\ tasks' = Append(rest, "wait_next")
      BY <1>0, <2>3, <3>1, <3>2 DEF TimeInv
    <3>3. CASE ~(request = "armed" /\ due_at = "clock") /\ tq' = "waiting"
      BY <3>1, <3>3 DEF TimeInv
    <3>4. QED
      BY <2>5, <3>2, <3>3 DEF TqueueTask, rest
  <2>6. CASE WaitNext
    <3>1. /\ tq' \in {"idle", "waiting"} /\ (request' = "armed" => tq' = "waiting")
          /\ request' = "armed" => due_at' # "clock"
      BY <2>6 DEF WaitNext, AfterSetTime
    <3>2. QED
      BY <3>1 DEF TimeInv
  <2>7. ASSUME Head(tasks) \notin {"tqueue", "wait_next"}, UNCHANGED timeVars,
               \A y : Has(rest, y) => Has(tasks', y)
        PROVE  TimeInv'
    BY <2>2, <2>7 DEF TimeInv
  <2>8. CASE ReadTask
    <3>1. tasks' \in {rest, Append(rest, "read")} /\ Head(tasks) = "read_task" /\ UNCHANGED timeVars
      BY <2>8 DEF ReadTask, rest
    <3>2. \A y : Has(rest, y) => Has(tasks', y)
      BY <1>0, <2>3, <3>1
    <3>3. QED
      BY <2>7, <3>1, <3>2
  <2>9. CASE ReadError
    <3>1. /\ tasks' \in {rest \o <<"write", "read_task">>, Append(rest, "read_task")}
          /\ Head(tasks) = "read" /\ UNCHANGED timeVars
      BY <2>9 DEF ReadError, rest
    <3>2. /\ rest \o <<"write", "read_task">> = Append(Append(rest, "write"), "read_task")
          /\ Append(rest, "write") \in Seq(TaskKinds) /\ "read_task" \in TaskKinds
      BY <1>0, <2>2, <2>3, QueueConcat
    <3>3. \A y : Has(Append(rest, "write"), y) => Has(Append(Append(rest, "write"), "read_task"), y)
      BY <3>2, QueuePut
    <3>4. \A y : Has(rest, y) => Has(tasks', y)
      BY <1>0, <2>3, <3>1, <3>2, <3>3
    <3>5. QED
      BY <2>7, <3>1, <3>4
  <2>10. CASE WriteTask
    <3>1. /\ tasks' \in {rest, Append(rest, "write")}
          /\ Head(tasks) = "write_task" /\ UNCHANGED timeVars
      BY <2>10 DEF WriteTask, CanWrite, rest
    <3>2. \A y : Has(rest, y) => Has(tasks', y)
      BY <1>0, <2>3, <3>1
    <3>3. QED
      BY <2>7, <3>1, <3>2
  <2>11. CASE WriteDone
    <3>1. /\ tasks' = rest \o (IF txring' = <<>> THEN <<>> ELSE <<"write_task">>)
          /\ Head(tasks) = "write" /\ UNCHANGED timeVars
      BY <2>11 DEF WriteDone, rest
    <3>2. rest \o <<>> = rest /\ rest \o <<"write_task">> = Append(rest, "write_task")
      BY <1>0, <2>2, QueueConcat
    <3>3. \A y : Has(rest, y) => Has(tasks', y)
      BY <1>0, <2>3, <3>1, <3>2
    <3>4. QED
      BY <2>7, <3>1, <3>3
  <2>12. QED
    BY <2>1, <2>4, <2>5, <2>6, <2>8, <2>9, <2>10, <2>11 DEF RunTask
<1>11. QED
  BY <1>2, <1>3, <1>4, <1>6, <1>7, <1>8, <1>9, <1>10
  DEF CanNext, OwnerRuns, canVars, deviceVars, portVars, iterationVars, lelyVars, rxVars,
      Receive, StatusChange, Indicate, Transmitted, DrainRxEnd, DispatchDone, IterationEnd,
      EventRecv

-----------------------------------------------------------------------------
(* What holds when the owner sleeps                                        *)

CanInv == CanValues /\ LoopInv /\ FifoInv /\ ToldInv /\ TimeInv

\* Nothing is installed, received or queued before owner_init.
LEMMA CanInvInit == CanInit => CanInv
<1> SUFFICES ASSUME CanInit
             PROVE  CanInv
  OBVIOUS
<1>1. CanValues
  <2>1. rxwait \in BOOLEAN /\ txwait \in BOOLEAN
    BY Zenon DEF CanInit
  <2>2. QED
    BY <2>1 DEF CanInit, CanValues, OwnerPcs, States
<1>2. LoopInv /\ FifoInv
  BY DEF CanInit, LoopInv, FifoInv, Installed, ResultOk
<1>3. ToldInv
  BY DEF CanInit, ToldInv, NewestStatus, Told
<1>4. TimeInv
  BY DEF CanInit, TimeInv
<1>5. QED
  BY <1>1, <1>2, <1>3, <1>4 DEF CanInv

\* One task or wait per operation, an event per frame left behind, the status under
\* way and the wait for the next timer: for every length of the batch, the rings and the FIFO.
THEOREM CanInvHolds == CanSpec => []CanInv
<1>1. CanInv /\ [CanNext]_canVars => CanInv'
  BY LoopNext, FifoNext, ToldNext, TimeNext DEF CanInv
<1>2. QED
  BY <1>1, CanInvInit, PTL DEF CanSpec

\* Whenever the owner sleeps in rt_event_recv, a frame in the device has its
\* event or its indication, the rings are empty, both operations wait, and so does
\* the network for every request whose deadline is still ahead of the clock.
THEOREM NothingStrandedHolds == CanSpec => []NothingStranded
<1>1. CanInv => NothingStranded
  <2> SUFFICES ASSUME CanInv, at = "wait"
               PROVE  /\ fifo # <<>> => "RX_READY" \in events \cup indicate
                      /\ rxring = <<>> /\ read = "queue" /\ rxwait
                      /\ txring = <<>> /\ write = "idle" /\ txwait
                      /\ request = "armed" => tq = "waiting" /\ due_at # "clock"
    BY DEF NothingStranded
  <2>1. fifo # <<>> => "RX_READY" \in events \cup indicate
    BY DEF CanInv, FifoInv, Installed
  <2>2. tasks = <<>> /\ \A y : ~Has(tasks, y)
    BY QueueEmpty DEF CanInv, LoopInv
  <2>3. ReadOk(tasks, read, rxring, rxwait) /\ WriteOk(tasks, write, txring, txwait)
    BY DEF CanInv, LoopInv, Installed
  <2>4. rxring = <<>> /\ read = "queue" /\ rxwait
    BY <2>2, <2>3 DEF ReadOk
  <2>5. txring = <<>> /\ write = "idle" /\ txwait
    BY <2>2, <2>3 DEF WriteOk, CanInv, CanValues
  <2>6. request = "armed" => tq = "waiting" /\ due_at # "clock"
    BY <2>2 DEF CanInv, TimeInv, CanValues
  <2>7. QED
    BY <2>1, <2>4, <2>5, <2>6
<1>2. QED
  BY <1>1, CanInvHolds, PTL

\* Whenever the owner sleeps, Lely's network knows the bus state of the sample
\* the port keeps: a change that the full ring refused is not kept.
THEOREM StateToldHolds == CanSpec => []StateTold
<1>1. CanInv /\ NothingStranded => StateTold
  BY DEF CanInv, ToldInv, FramesOnly, NothingStranded, StateTold, Told
<1>2. QED
  BY <1>1, CanInvHolds, NothingStrandedHolds, PTL

-----------------------------------------------------------------------------
(* Draining the loop                                                       *)

\* What putting and taking does to the number of tasks of some kinds.
LEMMA CountPut ==
    ASSUME NEW T, NEW q \in Seq(T), NEW x \in T, NEW K
    PROVE  /\ Count(q, K) \in Nat
           /\ Count(Append(q, x), K) = Count(q, K) + (IF x \in K THEN 1 ELSE 0)
<1> DEFINE S == {i \in 1 .. Len(q) : q[i] \in K}
           A == {i \in 1 .. Len(Append(q, x)) : Append(q, x)[i] \in K}
<1>1. Len(q) \in Nat /\ Len(Append(q, x)) = Len(q) + 1
  OBVIOUS
<1>2. \A i \in 1 .. Len(q) + 1 : Append(q, x)[i] = IF i = Len(q) + 1 THEN x ELSE q[i]
  OBVIOUS
<1>3. IsFiniteSet(S)
  <2>1. IsFiniteSet(1 .. Len(q))
    BY <1>1, FS_Interval
  <2>2. QED
    BY <2>1, FS_Subset
<1>4. A = IF x \in K THEN S \cup {Len(q) + 1} ELSE S
  BY <1>1, <1>2
<1>5. Len(q) + 1 \notin S
  BY <1>1
<1> HIDE DEF S, A
<1>6. Cardinality(S) \in Nat /\ Cardinality(A) = Cardinality(S) + (IF x \in K THEN 1 ELSE 0)
  <2>1. Cardinality(S) \in Nat
    BY <1>3, FS_CardinalityType
  <2>2. Cardinality(S \cup {Len(q) + 1}) = Cardinality(S) + 1
    BY <1>3, <1>5, FS_AddElement
  <2>3. QED
    BY <1>4, <2>1, <2>2
<1>7. QED
  BY <1>6 DEF Count, S, A

LEMMA CountTake ==
    ASSUME NEW T, NEW q \in Seq(T), q # <<>>, NEW K
    PROVE  /\ Count(Tail(q), K) \in Nat
           /\ Count(q, K) = Count(Tail(q), K) + (IF Head(q) \in K THEN 1 ELSE 0)
<1> DEFINE S == {i \in 1 .. Len(q) : q[i] \in K}
           R == {i \in 1 .. Len(Tail(q)) : Tail(q)[i] \in K}
           f == [i \in R |-> i + 1]
<1>1. Len(q) \in Nat \ {0} /\ Len(Tail(q)) = Len(q) - 1 /\ Head(q) = q[1]
  OBVIOUS
<1>2. \A i \in 1 .. Len(q) - 1 : Tail(q)[i] = q[i + 1]
  OBVIOUS
<1>3. IsFiniteSet(S) /\ IsFiniteSet(R)
  <2>1. IsFiniteSet(1 .. Len(q)) /\ IsFiniteSet(1 .. Len(Tail(q)))
    BY <1>1, FS_Interval
  <2>2. QED
    BY <2>1, FS_Subset
<1>4. f \in Bijection(R, S \ {1})
  <2>1. \A i \in R : i + 1 \in S \ {1}
    BY <1>1, <1>2
  <2>2. \A j \in S \ {1} : \E i \in R : j = i + 1
    <3>1. ASSUME NEW j \in S \ {1}
          PROVE  j - 1 \in R /\ j = (j - 1) + 1
      BY <1>1, <1>2
    <3>2. QED
      BY <3>1
  <2>3. \A i, j \in R : i + 1 = j + 1 => i = j
    BY <1>1
  <2> HIDE DEF S, R
  <2>4. f \in [R -> S \ {1}] /\ \A i \in R : f[i] = i + 1
    BY <2>1
  <2> HIDE DEF f
  <2>5. f \in Injection(R, S \ {1})
    BY <2>3, <2>4 DEF Injection, IsInjective
  <2>6. f \in Surjection(R, S \ {1})
    BY <2>2, <2>4 DEF Surjection
  <2>7. QED
    BY <2>5, <2>6 DEF Bijection
<1>5. 1 \in S <=> Head(q) \in K
  BY <1>1
<1> HIDE DEF S, R, f
<1>6. Cardinality(S \ {1}) = Cardinality(R) /\ Cardinality(R) \in Nat /\ Cardinality(S) \in Nat
  BY <1>3, <1>4, FS_Bijection, FS_CardinalityType DEF ExistsBijection
<1>7. Cardinality(S \ {1}) = IF 1 \in S THEN Cardinality(S) - 1 ELSE Cardinality(S)
  BY <1>3, FS_RemoveElement
<1>8. Cardinality(S) = Cardinality(R) + (IF Head(q) \in K THEN 1 ELSE 0)
  BY <1>5, <1>6, <1>7
<1>9. QED
  BY <1>6, <1>8 DEF Count, S, R

\* The parts of Calls and Rest that are in a queue.
Reads(q) == Count(q, {"read"})
Timers(q) == Count(q, {"tqueue", "wait_next"})
Posts(q) == Len(q) + Count(q, {"write_task", "tqueue"})

LEMMA PartsPut ==
    ASSUME NEW q \in Seq(TaskKinds), NEW x \in TaskKinds
    PROVE  /\ Reads(q) \in Nat /\ Timers(q) \in Nat /\ Posts(q) \in Nat
           /\ Reads(Append(q, x)) = Reads(q) + (IF x = "read" THEN 1 ELSE 0)
           /\ Timers(Append(q, x)) = Timers(q) + (IF x \in {"tqueue", "wait_next"} THEN 1 ELSE 0)
           /\ Posts(Append(q, x)) = Posts(q) + (IF x \in {"write_task", "tqueue"} THEN 2 ELSE 1)
<1> DEFINE K == {"write_task", "tqueue"}
<1>1. Len(q) \in Nat /\ Len(Append(q, x)) = Len(q) + 1
  OBVIOUS
<1>2. /\ Count(q, K) \in Nat
      /\ Count(Append(q, x), K) = Count(q, K) + (IF x \in K THEN 1 ELSE 0)
  BY CountPut
<1>3. /\ Count(q, {"read"}) \in Nat
      /\ Count(Append(q, x), {"read"}) = Count(q, {"read"}) + (IF x \in {"read"} THEN 1 ELSE 0)
  BY CountPut
<1>4. /\ Timers(q) \in Nat
      /\ Timers(Append(q, x)) = Timers(q) + (IF x \in {"tqueue", "wait_next"} THEN 1 ELSE 0)
  BY CountPut DEF Timers
<1>5. /\ Reads(q) \in Nat
      /\ Reads(Append(q, x)) = Reads(q) + (IF x = "read" THEN 1 ELSE 0)
  BY <1>3 DEF Reads
<1>6. PICK l \in Nat, c \in Nat : l = Len(q) /\ c = Count(q, K)
  BY <1>1, <1>2, Zenon
<1>7. Posts(q) = l + c
  BY <1>6, Zenon DEF Posts
<1>8. Posts(Append(q, x)) = (l + 1) + (c + (IF x \in K THEN 1 ELSE 0))
  BY <1>1, <1>2, <1>6, Zenon DEF Posts
<1>9. (l + 1) + (c + (IF x \in K THEN 1 ELSE 0)) = (l + c) + (IF x \in K THEN 2 ELSE 1)
  OBVIOUS
<1>10. Posts(q) \in Nat /\ Posts(Append(q, x)) = Posts(q) + (IF x \in K THEN 2 ELSE 1)
  BY <1>7, <1>8, <1>9
<1>11. QED
  BY <1>4, <1>5, <1>10

LEMMA PartsTake ==
    ASSUME NEW q \in Seq(TaskKinds), q # <<>>
    PROVE  /\ Reads(Tail(q)) \in Nat /\ Timers(Tail(q)) \in Nat /\ Posts(Tail(q)) \in Nat
           /\ Reads(q) = Reads(Tail(q)) + (IF Head(q) = "read" THEN 1 ELSE 0)
           /\ Timers(q) = Timers(Tail(q)) + (IF Head(q) \in {"tqueue", "wait_next"} THEN 1 ELSE 0)
           /\ Posts(q) = Posts(Tail(q)) + (IF Head(q) \in {"write_task", "tqueue"} THEN 2 ELSE 1)
<1> DEFINE K == {"write_task", "tqueue"}
<1>1. Len(Tail(q)) \in Nat /\ Len(q) = Len(Tail(q)) + 1
  OBVIOUS
<1>2. /\ Count(Tail(q), K) \in Nat
      /\ Count(q, K) = Count(Tail(q), K) + (IF Head(q) \in K THEN 1 ELSE 0)
  BY CountTake
<1>3. /\ Count(Tail(q), {"read"}) \in Nat
      /\ Count(q, {"read"}) = Count(Tail(q), {"read"}) + (IF Head(q) \in {"read"} THEN 1 ELSE 0)
  BY CountTake
<1>4. /\ Timers(Tail(q)) \in Nat
      /\ Timers(q) = Timers(Tail(q)) + (IF Head(q) \in {"tqueue", "wait_next"} THEN 1 ELSE 0)
  BY CountTake DEF Timers
<1>5. /\ Reads(Tail(q)) \in Nat
      /\ Reads(q) = Reads(Tail(q)) + (IF Head(q) = "read" THEN 1 ELSE 0)
  BY <1>3 DEF Reads
<1>6. PICK l \in Nat, c \in Nat : l = Len(Tail(q)) /\ c = Count(Tail(q), K)
  BY <1>1, <1>2, Zenon
<1>7. Posts(Tail(q)) = l + c
  BY <1>6, Zenon DEF Posts
<1>8. Posts(q) = (l + 1) + (c + (IF Head(q) \in K THEN 1 ELSE 0))
  BY <1>1, <1>2, <1>6, Zenon DEF Posts
<1>9. (l + 1) + (c + (IF Head(q) \in K THEN 1 ELSE 0)) = (l + c) + (IF Head(q) \in K THEN 2 ELSE 1)
  OBVIOUS
<1>10. /\ Posts(Tail(q)) \in Nat
       /\ Posts(q) = Posts(Tail(q)) + (IF Head(q) \in K THEN 2 ELSE 1)
  BY <1>7, <1>8, <1>9
<1>11. QED
  BY <1>4, <1>5, <1>10

\* The tasks that a call of the stack posts: at most one that calls the stack again.
LEMMA StackParts ==
    ASSUME NEW before \in Seq(TaskKinds), NEW after \in {<<>>, <<"read_task">>},
           StackCall(before, after)
    PROVE  /\ Reads(tasks') = Reads(before) /\ Reads(before) \in Nat
           /\ Timers(tasks') \in {Timers(before), Timers(before) + 1} /\ Timers(before) \in Nat
<1> DEFINE Same(q, p) == p \in Seq(TaskKinds) /\ Reads(p) = Reads(q) /\ Timers(p) = Timers(q)
           More(q, p) == p \in Seq(TaskKinds) /\ Reads(p) = Reads(q) /\ Timers(p) = Timers(q) + 1
<1>1. {"write_task", "read_task", "tqueue"} \subseteq TaskKinds
  BY DEF TaskKinds
<1>2. /\ Reads(before) \in Nat /\ Timers(before) \in Nat
  BY <1>1, PartsPut
<1>3. ASSUME NEW q \in Seq(TaskKinds)
      PROVE  Same(q, q \o <<>>) /\ Same(q, q \o <<"write_task">>) /\ Same(q, q \o <<"read_task">>)
             /\ More(q, q \o <<"tqueue">>)
  <2>1. /\ q \o <<>> = q /\ q \o <<"write_task">> = Append(q, "write_task")
        /\ q \o <<"read_task">> = Append(q, "read_task") /\ q \o <<"tqueue">> = Append(q, "tqueue")
    BY <1>1, QueueConcat
  <2>2. /\ Reads(q) \in Nat /\ Timers(q) \in Nat
        /\ Append(q, "write_task") \in Seq(TaskKinds) /\ Reads(Append(q, "write_task")) = Reads(q) + 0
        /\ Timers(Append(q, "write_task")) = Timers(q) + 0
    BY <1>1, PartsPut
  <2>3. /\ Append(q, "read_task") \in Seq(TaskKinds) /\ Reads(Append(q, "read_task")) = Reads(q) + 0
        /\ Timers(Append(q, "read_task")) = Timers(q) + 0
    BY <1>1, PartsPut
  <2>4. /\ Append(q, "tqueue") \in Seq(TaskKinds) /\ Reads(Append(q, "tqueue")) = Reads(q) + 0
        /\ Timers(Append(q, "tqueue")) = Timers(q) + 1
    BY <1>1, PartsPut
  <2>5. Reads(q) + 0 = Reads(q) /\ Timers(q) + 0 = Timers(q)
    BY <2>2
  <2>6. QED
    BY <2>1, <2>2, <2>3, <2>4, <2>5, Zenon
<1>4. SendPosts \in {<<>>, <<"write_task">>} /\ NextPosts \in {<<>>, <<"tqueue">>}
  BY DEF SendPosts, NextPosts
<1>5. ASSUME NEW q \in Seq(TaskKinds)
      PROVE  /\ Same(q, q \o SendPosts) /\ Same(q, q \o after)
             /\ Same(q, q \o NextPosts) \/ More(q, q \o NextPosts)
  <2>1. Same(q, q \o SendPosts)
    <3>1. CASE SendPosts = <<>>
      BY <1>3, <3>1, Zenon
    <3>2. CASE SendPosts = <<"write_task">>
      BY <1>3, <3>2, Zenon
    <3>3. QED
      BY <1>4, <3>1, <3>2, Zenon
  <2>2. Same(q, q \o after)
    <3>1. CASE after = <<>>
      BY <1>3, <3>1, Zenon
    <3>2. CASE after = <<"read_task">>
      BY <1>3, <3>2, Zenon
    <3>3. QED
      BY <3>1, <3>2, Zenon
  <2>3. Same(q, q \o NextPosts) \/ More(q, q \o NextPosts)
    <3>1. CASE NextPosts = <<>>
      BY <1>3, <3>1, Zenon
    <3>2. CASE NextPosts = <<"tqueue">>
      BY <1>3, <3>2, Zenon
    <3>3. QED
      BY <1>4, <3>1, <3>2, Zenon
  <2>4. QED
    BY <2>1, <2>2, <2>3, Zenon
<1>6. CASE tasks' = before \o SendPosts \o NextPosts \o after
  <2>1. Same(before, before \o SendPosts)
    BY <1>5, Zenon
  <2>2. PICK p : p = before \o SendPosts
    OBVIOUS
  <2>3. Same(p, p \o NextPosts) \/ More(p, p \o NextPosts)
    BY <1>5, <2>1, <2>2, Zenon
  <2>4. PICK r : r = p \o NextPosts
    OBVIOUS
  <2>5. Same(r, r \o after)
    BY <1>5, <2>3, <2>4, Zenon
  <2>6. tasks' = r \o after
    BY <1>6, <2>2, <2>4
  <2>7. QED
    BY <1>2, <2>1, <2>2, <2>3, <2>4, <2>5, <2>6, Zenon
<1>7. CASE tasks' = before \o NextPosts \o SendPosts \o after
  <2>1. Same(before, before \o NextPosts) \/ More(before, before \o NextPosts)
    BY <1>5, Zenon
  <2>2. PICK p : p = before \o NextPosts
    OBVIOUS
  <2>3. Same(p, p \o SendPosts)
    BY <1>5, <2>1, <2>2, Zenon
  <2>4. PICK r : r = p \o SendPosts
    OBVIOUS
  <2>5. Same(r, r \o after)
    BY <1>5, <2>3, <2>4, Zenon
  <2>6. tasks' = r \o after
    BY <1>7, <2>2, <2>4
  <2>7. QED
    BY <1>2, <2>1, <2>2, <2>3, <2>4, <2>5, <2>6, Zenon
<1>8. QED
  BY <1>6, <1>7 DEF StackCall

\* The two numbers that the drain lowers, in the order of their importance.
Lower == Calls' < Calls \/ (Calls' = Calls /\ Rest' < Rest)

\* One task of drain_loop calls into the stack and leaves fewer such calls, or leaves
\* as many and less to do until the next.
LEMMA TaskLowers ==
    ASSUME CanValues, tasks # <<>>, RunTask, WriteOk(tasks, write, txring, txwait)
    PROVE  Lower
<1> DEFINE rest == Tail(tasks)
<1>1. TaskKinds = {"read_task", "read", "write_task", "write", "tqueue", "wait_next"}
  BY DEF TaskKinds
<1>2. /\ tasks \in Seq(TaskKinds) /\ rest \in Seq(TaskKinds)
      /\ Reads(rest) \in Nat /\ Timers(rest) \in Nat /\ Posts(rest) \in Nat
      /\ Reads(tasks) = Reads(rest) + (IF Head(tasks) = "read" THEN 1 ELSE 0)
      /\ Timers(tasks) = Timers(rest) + (IF Head(tasks) \in {"tqueue", "wait_next"} THEN 1 ELSE 0)
      /\ Posts(tasks) = Posts(rest) + (IF Head(tasks) \in {"write_task", "tqueue"} THEN 2 ELSE 1)
  BY PartsTake, QueueTake DEF CanValues
<1>3. Len(rxring) \in Nat /\ Len(txring) \in Nat
  BY SMTT(60) DEF CanValues
<1>4. ASSUME NEW x \in TaskKinds
      PROVE  /\ Append(rest, x) \in Seq(TaskKinds) /\ rest \o <<x>> = Append(rest, x)
             /\ Reads(Append(rest, x)) = Reads(rest) + (IF x = "read" THEN 1 ELSE 0)
             /\ Timers(Append(rest, x))
                  = Timers(rest) + (IF x \in {"tqueue", "wait_next"} THEN 1 ELSE 0)
             /\ Posts(Append(rest, x))
                  = Posts(rest) + (IF x \in {"write_task", "tqueue"} THEN 2 ELSE 1)
  <2>1. Append(rest, x) \in Seq(TaskKinds) /\ rest \o <<x>> = Append(rest, x)
    BY <1>2, QueuePut, QueueConcat
  <2>2. QED
    BY <1>2, <2>1, PartsPut
<1> HIDE DEF rest
<1>5. PICK l \in Nat, t \in Nat, r \in Nat, m \in Nat, w \in Nat :
        /\ l = Len(rxring) /\ t = Len(txring)
        /\ r = Reads(rest) /\ m = Timers(rest) /\ w = Posts(rest)
  BY <1>2, <1>3, Zenon
\* The two numbers before and after, in terms of what is left when the task is taken.
<1>6. ASSUME NEW a \in {0, 1}, NEW b \in {0, 1}, NEW c \in {1, 2},
             Reads(tasks) = r + a, Timers(tasks) = m + b, Posts(tasks) = w + c
      PROVE  Calls = 2 * l + 2 * (r + a) + (m + b) /\ Rest = l + 2 * t + (w + c)
  <2>1. Calls = 2 * l + 2 * (r + a) + (m + b)
    BY <1>5, <1>6, Zenon DEF Calls, Reads, Timers
  <2>2. PICK u \in Nat, v \in Nat : u = Len(tasks) /\ v = Count(tasks, {"write_task", "tqueue"})
    BY <1>1, <1>2, CountTake DEF CanValues
  <2>3. u + v = w + c
    BY <1>6, <2>2, Zenon DEF Posts
  <2>4. Rest = l + 2 * t + u + v
    BY <1>5, <2>2, Zenon DEF Rest
  <2>5. l + 2 * t + u + v = l + 2 * t + (w + c)
    BY <2>3
  <2>6. QED
    BY <2>1, <2>4, <2>5, Zenon
<1>7. ASSUME NEW q \in Seq(TaskKinds), tasks' = q, Len(rxring') \in Nat, Len(txring') \in Nat
      PROVE  /\ Calls' = 2 * Len(rxring') + 2 * Reads(q) + Timers(q)
             /\ Rest' = Len(rxring') + 2 * Len(txring') + Posts(q)
  <2>1. /\ Count(tasks, {"read"})' = Reads(q) /\ Count(tasks, {"tqueue", "wait_next"})' = Timers(q)
        /\ Count(tasks, {"write_task", "tqueue"})' = Count(q, {"write_task", "tqueue"})
    BY <1>7 DEF Count, Reads, Timers
  <2>2. Calls' = 2 * Len(rxring') + 2 * Reads(q) + Timers(q)
    BY <1>7, <2>1, Zenon DEF Calls
  <2>3. Len(q) \in Nat /\ Count(q, {"write_task", "tqueue"}) \in Nat
    <3>1. "read" \in TaskKinds
      BY <1>1
    <3>2. QED
      BY <3>1, CountPut
  <2>4. PICK x \in Nat, y \in Nat, u \in Nat, v \in Nat :
          /\ x = Len(rxring') /\ y = Len(txring')
          /\ u = Len(q) /\ v = Count(q, {"write_task", "tqueue"})
    BY <1>7, <2>3, Zenon
  <2>5. Rest' = x + 2 * y + u + v
    BY <1>7, <2>1, <2>4, Zenon DEF Rest
  <2>6. x + 2 * y + u + v = x + 2 * y + (u + v)
    OBVIOUS
  <2>7. Rest' = Len(rxring') + 2 * Len(txring') + Posts(q)
    BY <2>4, <2>5, <2>6, Zenon DEF Posts
  <2>8. QED
    BY <2>2, <2>7
<1>8. CASE ReadTask
  <2>1. Head(tasks) = "read_task" /\ txring' = txring
    BY <1>8 DEF ReadTask, txVars
  <2>2. Calls = 2 * l + 2 * (r + 0) + (m + 0) /\ Rest = l + 2 * t + (w + 1)
    BY <1>2, <1>5, <1>6, <2>1
  <2>3. CASE rxring # <<>>
    <3>0. rxring' = Tail(rxring) /\ Len(Tail(rxring)) \in Nat /\ Len(rxring) = Len(Tail(rxring)) + 1
      BY <1>8, <2>3 DEF ReadTask, CanValues
    <3>1. PICK x \in Nat : x = Len(rxring') /\ l = x + 1
      BY <1>5, <3>0, Zenon
    <3>2. tasks' = Append(rest, "read")
      BY <1>8, <2>3 DEF ReadTask, rest
    <3>3. /\ Append(rest, "read") \in Seq(TaskKinds) /\ Reads(Append(rest, "read")) = r + 1
          /\ Timers(Append(rest, "read")) = m /\ Posts(Append(rest, "read")) = w + 1
      BY <1>1, <1>4, <1>5
    <3>4. Calls' = 2 * x + 2 * (r + 1) + m /\ Rest' = x + 2 * t + (w + 1)
      BY <1>5, <1>7, <2>1, <3>1, <3>2, <3>3
    <3>5. QED
      BY <2>2, <3>1, <3>4 DEF Lower
  <2>4. CASE rxring = <<>>
    <3>1. rxring' = rxring /\ tasks' = rest
      BY <1>8, <2>4 DEF ReadTask, rest
    <3>2. Calls' = 2 * l + 2 * r + m /\ Rest' = l + 2 * t + w
      BY <1>2, <1>5, <1>7, <2>1, <3>1
    <3>3. QED
      BY <2>2, <3>2 DEF Lower
  <2>5. QED
    BY <2>3, <2>4
<1>9. CASE ReadFrame
  <2>1. StackCall(rest, <<"read_task">>) /\ rxring' = rxring /\ Head(tasks) = "read"
    BY <1>9 DEF ReadFrame, SubmitRead, rest
  <2>2. Calls = 2 * l + 2 * (r + 1) + (m + 0)
    BY <1>2, <1>5, <1>6, <2>1
  <2>3. Reads(tasks') = r /\ Timers(tasks') \in {m, m + 1}
    BY <1>2, <1>5, <2>1, StackParts
  <2>4. Calls' = 2 * l + 2 * Reads(tasks') + Timers(tasks')
    BY <1>5, <2>1 DEF Calls, Reads, Timers, Count
  <2>5. QED
    BY <2>2, <2>3, <2>4 DEF Lower
<1>10. CASE WaitNext
  <2>1. /\ tasks' = rest \o SendPosts /\ rxring' = rxring /\ Head(tasks) = "wait_next"
        /\ SendPosts \in {<<>>, <<"write_task">>}
    BY <1>10 DEF WaitNext, rxVars, rest, SendPosts
  <2>2. Calls = 2 * l + 2 * (r + 0) + (m + 1)
    BY <1>2, <1>5, <1>6, <2>1
  <2>3. tasks' \in {rest, Append(rest, "write_task")}
    <3>1. rest \o <<>> = rest /\ rest \o <<"write_task">> = Append(rest, "write_task")
      BY <1>1, <1>2, QueueConcat
    <3>2. QED
      BY <2>1, <3>1
  <2>4. Reads(tasks') = r /\ Timers(tasks') = m
    <3>1. Reads(Append(rest, "write_task")) = r /\ Timers(Append(rest, "write_task")) = m
      BY <1>1, <1>4, <1>5
    <3>2. QED
      BY <1>5, <2>3, <3>1
  <2>5. Calls' = 2 * l + 2 * Reads(tasks') + Timers(tasks')
    BY <1>5, <2>1 DEF Calls, Reads, Timers, Count
  <2>6. QED
    BY <2>2, <2>4, <2>5 DEF Lower
<1>11. CASE ReadError
  <2>1. Head(tasks) = "read" /\ rxring' = rxring
    BY <1>11 DEF ReadError, SubmitRead
  <2>2. Calls = 2 * l + 2 * (r + 1) + (m + 0)
    BY <1>2, <1>5, <1>6, <2>1
  <2>3. tasks' \in {Append(rest, "read_task"), rest \o <<"write", "read_task">>}
    BY <1>11 DEF ReadError, rest
  <2>4. /\ rest \o <<"write", "read_task">> = Append(Append(rest, "write"), "read_task")
        /\ Append(rest, "write") \in Seq(TaskKinds) /\ "read_task" \in TaskKinds
    <3>1. "write" \in TaskKinds /\ "read_task" \in TaskKinds
      BY <1>1
    <3>2. QED
      BY <1>2, <1>4, <3>1, QueueConcat
  <2>5. /\ Reads(Append(Append(rest, "write"), "read_task")) = r
        /\ Timers(Append(Append(rest, "write"), "read_task")) = m
    <3>1. Reads(Append(rest, "write")) = r /\ Timers(Append(rest, "write")) = m
      BY <1>1, <1>4, <1>5
    <3>2. PICK q \in Seq(TaskKinds) : q = Append(rest, "write")
      BY <2>4
    <3>3. Reads(Append(q, "read_task")) = Reads(q) + 0 /\ Timers(Append(q, "read_task")) = Timers(q) + 0
      BY <2>4, PartsPut
    <3>4. QED
      BY <3>1, <3>2, <3>3
  <2>6. Reads(tasks') = r /\ Timers(tasks') = m
    <3>1. Reads(Append(rest, "read_task")) = r /\ Timers(Append(rest, "read_task")) = m
      BY <1>1, <1>4, <1>5
    <3>2. QED
      BY <2>3, <2>4, <2>5, <3>1
  <2>7. Calls' = 2 * l + 2 * Reads(tasks') + Timers(tasks')
    BY <1>5, <2>1 DEF Calls, Reads, Timers, Count
  <2>8. QED
    BY <2>2, <2>6, <2>7 DEF Lower
<1>12. CASE WriteTask
  <2>1. Head(tasks) = "write_task" /\ UNCHANGED <<rxring, txring>>
    BY <1>12 DEF WriteTask, rxVars
  <2>2. Calls = 2 * l + 2 * (r + 0) + (m + 0) /\ Rest = l + 2 * t + (w + 2)
    BY <1>2, <1>5, <1>6, <2>1
  <2>3. tasks' \in {rest, Append(rest, "write")}
    BY <1>12 DEF WriteTask, CanWrite, rest
  <2>4. /\ Append(rest, "write") \in Seq(TaskKinds) /\ Reads(Append(rest, "write")) = r
        /\ Timers(Append(rest, "write")) = m /\ Posts(Append(rest, "write")) = w + 1
    BY <1>1, <1>4, <1>5
  <2>5. CASE tasks' = rest
    <3>1. Calls' = 2 * l + 2 * r + m /\ Rest' = l + 2 * t + w
      BY <1>2, <1>5, <1>7, <2>1, <2>5
    <3>2. QED
      BY <2>2, <3>1 DEF Lower
  <2>6. CASE tasks' = Append(rest, "write")
    <3>1. Calls' = 2 * l + 2 * r + m /\ Rest' = l + 2 * t + (w + 1)
      BY <1>5, <1>7, <2>1, <2>4, <2>6
    <3>2. QED
      BY <2>2, <3>1 DEF Lower
  <2>7. QED
    BY <2>3, <2>5, <2>6
<1>13. CASE WriteDone
  <2>1. Head(tasks) = "write" /\ rxring' = rxring
    BY <1>13 DEF WriteDone, rxVars
  <2>2. Calls = 2 * l + 2 * (r + 0) + (m + 0) /\ Rest = l + 2 * t + (w + 1)
    BY <1>2, <1>5, <1>6, <2>1
  <2>3. txring # <<>>
    <3>1. Has(tasks, "write")
      BY <1>2, <2>1, QueueTake
    <3>2. QED
      BY <3>1 DEF WriteOk, CanValues
  <2>4. PICK y \in Nat : y = Len(txring') /\ y + 1 <= t
    <3>1. Len(txring') \in Nat /\ Len(txring') + 1 <= Len(txring)
      BY <1>13, <2>3 DEF WriteDone, CanValues
    <3>2. QED
      BY <1>5, <3>1
  <2>5. tasks' \in {rest, Append(rest, "write_task")}
    <3>1. tasks' = rest \o (IF txring' = <<>> THEN <<>> ELSE <<"write_task">>)
      BY <1>13 DEF WriteDone, rest
    <3>2. rest \o <<>> = rest /\ rest \o <<"write_task">> = Append(rest, "write_task")
      BY <1>1, <1>2, QueueConcat
    <3>3. QED
      BY <3>1, <3>2
  <2>6. /\ Append(rest, "write_task") \in Seq(TaskKinds) /\ Reads(Append(rest, "write_task")) = r
        /\ Timers(Append(rest, "write_task")) = m /\ Posts(Append(rest, "write_task")) = w + 2
    BY <1>1, <1>4, <1>5
  <2>7. CASE tasks' = rest
    <3>1. Calls' = 2 * l + 2 * r + m /\ Rest' = l + 2 * y + w
      BY <1>2, <1>5, <1>7, <2>1, <2>4, <2>7
    <3>2. QED
      BY <2>2, <2>4, <3>1 DEF Lower
  <2>8. CASE tasks' = Append(rest, "write_task")
    <3>1. Calls' = 2 * l + 2 * r + m /\ Rest' = l + 2 * y + (w + 2)
      BY <1>5, <1>7, <2>1, <2>4, <2>6, <2>8
    <3>2. QED
      BY <2>2, <2>4, <3>1 DEF Lower
  <2>9. QED
    BY <2>5, <2>7, <2>8
<1>14. CASE TqueueTask
  <2>1. Head(tasks) = "tqueue" /\ UNCHANGED <<rxring, txring>>
    BY <1>14 DEF TqueueTask, rxVars, txVars
  <2>2. Calls = 2 * l + 2 * (r + 0) + (m + 1) /\ Rest = l + 2 * t + (w + 2)
    BY <1>2, <1>5, <1>6, <2>1
  <2>3. /\ Append(rest, "wait_next") \in Seq(TaskKinds) /\ Reads(Append(rest, "wait_next")) = r
        /\ Timers(Append(rest, "wait_next")) = m + 1 /\ Posts(Append(rest, "wait_next")) = w + 1
    BY <1>1, <1>4, <1>5
  <2>4. CASE tasks' = rest
    <3>1. Calls' = 2 * l + 2 * r + m
      BY <1>2, <1>5, <1>7, <2>1, <2>4
    <3>2. QED
      BY <2>2, <3>1 DEF Lower
  <2>5. CASE tasks' = Append(rest, "wait_next")
    <3>1. Calls' = 2 * l + 2 * r + (m + 1) /\ Rest' = l + 2 * t + (w + 1)
      BY <1>5, <1>7, <2>1, <2>3, <2>5
    <3>2. QED
      BY <2>2, <3>1 DEF Lower
  <2>6. QED
    BY <1>14, <2>4, <2>5 DEF TqueueTask, rest
<1>15. QED
  BY <1>8, <1>9, <1>10, <1>11, <1>12, <1>13, <1>14 DEF RunTask

\* Every task that drain_loop runs uses up a call of the stack or leaves less to do
\* until the next one, whatever the device refuses, however many frames the stack
\* sends and however often it arms its timers, so that the loop, which runs until the
\* queue is empty, ends: lely_rtt_can_write reports a full transmit ring instead of
\* asking to be called again, and io_tqueue_wait_func waits for the user timer again.
THEOREM DrainTerminatesHolds == CanSpec => DrainTerminates
<1>1. CanInv /\ [CanNext]_canVars
        => [DrainLoop => Calls' < Calls \/ (Calls' = Calls /\ Rest' < Rest)]_canVars
  <2> SUFFICES ASSUME CanInv, DrainLoop
               PROVE  Calls' < Calls \/ (Calls' = Calls /\ Rest' < Rest)
    OBVIOUS
  <2>1. CanValues /\ tasks # <<>> /\ RunTask
    BY DEF CanInv, DrainLoop
  <2>2. WriteOk(tasks, write, txring, txwait)
    BY DEF CanInv, LoopInv, DrainLoop, Installed
  <2>3. Lower
    BY <2>1, <2>2, TaskLowers
  <2>4. QED
    BY <2>3 DEF Lower
<1>2. QED
  BY <1>1, CanInvHolds, PTL DEF CanSpec, DrainTerminates

-----------------------------------------------------------------------------
(***************************************************************************)
(* Proofs about RemoteNodes for every set of nodes, mandatory nodes and    *)
(* heartbeat consumers.                                                    *)
(*                                                                         *)
(* The properties speak of the moments between two handlers, or of one     *)
(* position of a handler; the handlers of runtime.c store step by step.    *)
(* So the inductive invariant says, for every position the owner thread    *)
(* can have in a handler of node n, what has been stored and what has not  *)
(* (AtWord, AtGate, AtBoot), and that a handler of n leaves the rest of    *)
(* the nodes alone.                                                        *)
(***************************************************************************)
\* The positions of the owner in a Boot-up, boot or state indication.
BootupPcs == {"invalidate", "retire", "chain", "outer"}

Positions ==
    {Idle} \cup [pc : BootupPcs, node : Nodes]
           \cup [pc : {"boot", "result"}, node : Nodes, b : BootOutcomes, nested : BOOLEAN]
           \cup [pc : {"state"}, node : Nodes, st : NmtStates \ {BOOTUP}]

\* The owner is in a handler of node n, at one of these positions.
In(n, pcs) == owner.pc \in pcs /\ owner.node = n

\* No handler of n is under way.
Resting(n) == owner.pc = "idle" \/ owner.node # n

\* A word that is not timed out shows the last state; a timed-out one none.
WordShape(n) ==
    IF remote[n].timeout THEN remote[n].current = UNAVAILABLE /\ n \in Heartbeat
                         ELSE remote[n].current = remote[n].last

\* Lely's consumer is only for configured nodes, and off during a boot.
HbShape(n) ==
    /\ hb[n].on => n \in Heartbeat /\ ~booting[n]
    /\ hb[n].occurred \/ hb[n].armed => hb[n].on

\* What the state word is, and what a handler under way knows of it.
AtWord(n) ==
    /\ Resting(n) =>
          /\ remote[n].last = confirmed[n]
          /\ hb[n].occurred => remote[n].current = UNAVAILABLE
          /\ remote[n].timeout => \/ hb[n].occurred
                                  \/ hb[n].on /\ hb[n].st = BOOTUP
                                  \/ booting[n]
    /\ In(n, {"invalidate", "retire", "chain"}) => confirmed[n] = BOOTUP
    /\ In(n, {"boot", "result"}) => confirmed[n] = owner.b.st /\ ~hb[n].occurred
    /\ In(n, {"result"}) => remote[n] = Word(owner.b.st, owner.b.st, FALSE)
    /\ In(n, {"state"}) => confirmed[n] = owner.st /\ ~hb[n].occurred
    /\ In(n, {"outer"}) =>
          /\ ~hb[n].occurred
          /\ IF result[n].valid
             THEN remote[n].last = confirmed[n] /\ ~remote[n].timeout
             ELSE confirmed[n] = BOOTUP

\* The result word and its ghosts.
AtResult(n) ==
    /\ behind[n] => In(n, {"boot"})
    /\ In(n, {"retire", "chain"}) => ~result[n].valid
    /\ In(n, {"boot", "result"}) /\ owner.nested => ~result[n].valid
    /\ ~In(n, {"invalidate"}) => (result[n].valid => fresh[n])

\* The gate: a reset is held, and no handler under way may lose that.
AtGate(n) ==
    /\ held[n] => suspended[n]
    /\ resetSent[n] => held[n] /\ ~active[n] /\ ~In(n, BootupPcs \cup {"boot", "result"})
    /\ Resting(n) /\ unfit[n] => suspended[n]
    /\ In(n, {"invalidate", "retire", "chain", "state"}) => ~unfit[n]
    /\ In(n, {"boot"}) /\ unfit[n] => owner.b.st \notin Usable
    /\ In(n, {"result"}) /\ unfit[n] => suspended[n]
    /\ In(n, {"outer"}) /\ unfit[n] => result[n].valid /\ suspended[n]

\* Lely's boot and the application's SDO request.
AtBoot(n) ==
    /\ In(n, {"chain"}) => ~active[n] /\ ~client[n]
    /\ booting[n] => (~active[n] /\ ~client[n]) \/ (ResetAll /\ n \in Mandatory)

Results == {NoResult} \cup {[valid |-> TRUE, st |-> b.st, es |-> b.es] : b \in BootOutcomes}

WordSet == [current : NmtStates \cup {UNAVAILABLE}, last : NmtStates \cup {UNAVAILABLE},
            timeout : BOOLEAN]

HbSet == [on : BOOLEAN, armed : BOOLEAN, st : NmtStates, occurred : BOOLEAN]

RemoteValues ==
    /\ owner \in Positions
    /\ remote \in [Nodes -> WordSet]
    /\ result \in [Nodes -> Results]
    /\ hb \in [Nodes -> HbSet]
    /\ confirmed \in [Nodes -> NmtStates \cup {UNAVAILABLE}]

RemoteFlags ==
    /\ suspended \in [Nodes -> BOOLEAN] /\ held \in [Nodes -> BOOLEAN]
    /\ active \in [Nodes -> BOOLEAN] /\ client \in [Nodes -> BOOLEAN]
    /\ booting \in [Nodes -> BOOLEAN]
    /\ fresh \in [Nodes -> BOOLEAN] /\ behind \in [Nodes -> BOOLEAN]
    /\ resetSent \in [Nodes -> BOOLEAN] /\ unfit \in [Nodes -> BOOLEAN]

RemoteInv ==
    /\ RemoteValues /\ RemoteFlags
    /\ \A n \in Nodes : /\ WordShape(n) /\ HbShape(n)
                        /\ AtWord(n) /\ AtResult(n) /\ AtGate(n) /\ AtBoot(n)

-----------------------------------------------------------------------------
(* Types                                                                   *)

\* The outcomes of a boot carry a state and an error letter.
LEMMA OutcomeShape ==
    ASSUME NEW b \in BootOutcomes
    PROVE  /\ b.st \in NmtStates
           /\ [st |-> b.st, es |-> b.es] \in BootOutcomes
BY DEF BootOutcomes, NmtStates, Usable, BOOTUP

\* What a position in a handler carries.
LEMMA PositionShape ==
    ASSUME owner \in Positions
    PROVE  /\ owner = Idle <=> owner.pc = "idle"
           /\ owner.pc # "idle" => owner.node \in Nodes
           /\ owner.pc \in {"boot", "result"} =>
                /\ owner.b \in BootOutcomes /\ owner.nested \in BOOLEAN
                /\ owner = [pc |-> owner.pc, node |-> owner.node, b |-> owner.b,
                            nested |-> owner.nested]
           /\ owner.pc = "state" => owner.st \in NmtStates \ {BOOTUP}
BY DEF Positions, Idle, BootupPcs

\* The positions that the handlers go to.
LEMMA PositionMade ==
    /\ Idle \in Positions
    /\ \A n \in Nodes : \A pc \in BootupPcs : [pc |-> pc, node |-> n] \in Positions
    /\ \A n \in Nodes, b \in BootOutcomes, nested \in BOOLEAN :
         /\ [pc |-> "boot", node |-> n, b |-> b, nested |-> nested] \in Positions
         /\ [pc |-> "result", node |-> n, b |-> b, nested |-> nested] \in Positions
    /\ \A n \in Nodes, st \in NmtStates \ {BOOTUP} :
         [pc |-> "state", node |-> n, st |-> st] \in Positions
BY DEF Positions, BootupPcs

\* The words and consumers that the handlers store.
LEMMA WordsMade ==
    /\ \A c, l \in NmtStates \cup {UNAVAILABLE}, t \in BOOLEAN : Word(c, l, t) \in WordSet
    /\ \A w \in WordSet : w.last \in NmtStates \cup {UNAVAILABLE}
    /\ NoResult \in Results
    /\ \A b \in BootOutcomes : [valid |-> TRUE, st |-> b.st, es |-> b.es] \in Results
    /\ HbOff \in HbSet /\ HbIdle \in HbSet
    /\ \A st \in NmtStates : [HbIdle EXCEPT !.armed = TRUE, !.st = st] \in HbSet
    /\ \A h \in HbSet : [h EXCEPT !.armed = FALSE, !.occurred = TRUE] \in HbSet
BY DEF WordSet, Word, HbSet, HbOff, HbIdle, NmtStates, BOOTUP, Results

\* Every handler goes from one of its positions to the next.
LEMMA OwnerNext == RemoteValues /\ [RemoteNext]_remoteVars => (owner \in Positions)'
<1> SUFFICES ASSUME owner \in Positions, [RemoteNext]_remoteVars
             PROVE  owner' \in Positions
  BY DEF RemoteValues
<1> USE PositionShape, PositionMade DEF BootupPcs
<1>1. ASSUME NEW n \in Nodes,
             RecvBootup(n) \/ Invalidate(n) \/ BeforeBoot(n)
      PROVE  owner' \in Positions
  BY <1>1 DEF RecvBootup, Invalidate, BeforeBoot
<1>2. ASSUME NEW n \in Nodes, Chain(n) \/ BootComplete(n)
      PROVE  owner' \in Positions
  BY <1>2 DEF Chain, BootComplete
<1>3. ASSUME NEW n \in Nodes, BootInd(n)
      PROVE  owner' \in Positions
  <2>1. owner' = [pc |-> "result", node |-> n, b |-> owner.b, nested |-> owner.nested]
    BY <1>3 DEF BootInd
  <2>2. owner.b \in BootOutcomes /\ owner.nested \in BOOLEAN
    BY <1>3 DEF BootInd
  <2>3. QED
    BY <2>1, <2>2
<1>4. ASSUME NEW n \in Nodes, BootResult(n) \/ OuterBootup(n) \/ StateInd(n)
      PROVE  owner' \in Positions
  BY <1>4 DEF BootResult, OuterBootup, StateInd
<1>5. ASSUME NEW n \in Nodes, NEW st \in NmtStates \ {BOOTUP}, HeartbeatRecv(n, st)
      PROVE  owner' \in Positions
  BY <1>5 DEF HeartbeatRecv
<1>6. CASE UNCHANGED owner
  BY <1>6
<1>7. QED
  BY <1>1, <1>2, <1>3, <1>4, <1>5, <1>6
  DEF RemoteNext, remoteVars, HeartbeatTimeout, SdoStart, SdoFinish, DispatchNmt

\* Every store to the two published words is a state or a boot's outcome.
LEMMA WordsNext ==
    RemoteValues /\ [RemoteNext]_remoteVars
      => (remote \in [Nodes -> WordSet] /\ result \in [Nodes -> Results])'
<1> SUFFICES ASSUME RemoteValues, [RemoteNext]_remoteVars
             PROVE  remote' \in [Nodes -> WordSet] /\ result' \in [Nodes -> Results]
  OBVIOUS
<1> USE PositionShape, OutcomeShape, WordsMade DEF RemoteValues
<1>0. BOOTUP \in NmtStates
  BY DEF NmtStates
<1>1. ASSUME NEW n \in Nodes, Invalidate(n)
      PROVE  remote' \in [Nodes -> WordSet] /\ result' \in [Nodes -> Results]
  BY <1>1 DEF Invalidate
<1>2. ASSUME NEW n \in Nodes, BootInd(n)
      PROVE  remote' \in [Nodes -> WordSet] /\ result' \in [Nodes -> Results]
  BY <1>2 DEF BootInd
<1>3. ASSUME NEW n \in Nodes, BootResult(n)
      PROVE  remote' \in [Nodes -> WordSet] /\ result' \in [Nodes -> Results]
  BY <1>3 DEF BootResult
<1>4. ASSUME NEW n \in Nodes, OuterBootup(n)
      PROVE  remote' \in [Nodes -> WordSet] /\ result' \in [Nodes -> Results]
  <2>1. \/ UNCHANGED words
        \/ /\ remote' = [remote EXCEPT ![n] = Word(BOOTUP, BOOTUP, FALSE)]
           /\ UNCHANGED result
    BY <1>4, Zenon DEF OuterBootup, words
  <2>2. Word(BOOTUP, BOOTUP, FALSE) \in WordSet
    BY <1>0
  <2>3. QED
    BY <2>1, <2>2 DEF words
<1>5. ASSUME NEW n \in Nodes, NEW st \in NmtStates \ {BOOTUP}, HeartbeatRecv(n, st)
      PROVE  remote' \in [Nodes -> WordSet] /\ result' \in [Nodes -> Results]
  BY <1>5 DEF HeartbeatRecv
<1>6. ASSUME NEW n \in Nodes, StateInd(n)
      PROVE  remote' \in [Nodes -> WordSet] /\ result' \in [Nodes -> Results]
  BY <1>6 DEF StateInd
<1>7. ASSUME NEW n \in Nodes, HeartbeatTimeout(n)
      PROVE  remote' \in [Nodes -> WordSet] /\ result' \in [Nodes -> Results]
  BY <1>7 DEF HeartbeatTimeout
<1>8. CASE UNCHANGED words
  BY <1>8 DEF words
<1>9. QED
  BY <1>1, <1>2, <1>3, <1>4, <1>5, <1>6, <1>7, <1>8
  DEF RemoteNext, remoteVars, RecvBootup, BeforeBoot, Chain, BootComplete, SdoStart,
      SdoFinish, DispatchNmt

\* Lely's consumers, and the ghost of what Lely reported last.
LEMMA ConsumersNext ==
    RemoteValues /\ [RemoteNext]_remoteVars
      => (/\ hb \in [Nodes -> HbSet]
          /\ confirmed \in [Nodes -> NmtStates \cup {UNAVAILABLE}])'
<1> DEFINE Goal == /\ hb' \in [Nodes -> HbSet]
                   /\ confirmed' \in [Nodes -> NmtStates \cup {UNAVAILABLE}]
<1> SUFFICES ASSUME RemoteValues, [RemoteNext]_remoteVars
             PROVE  Goal
  OBVIOUS
<1> USE OutcomeShape, WordsMade DEF RemoteValues
<1>0. BOOTUP \in NmtStates
  BY DEF NmtStates
<1>1. ASSUME NEW n \in Nodes, RecvBootup(n)
      PROVE  Goal
  BY <1>0, <1>1 DEF RecvBootup, lely
<1>2. ASSUME NEW n \in Nodes, NEW b \in BootOutcomes, BootCon(n, b)
      PROVE  Goal
  BY <1>2 DEF BootCon
<1>3. ASSUME NEW n \in Nodes, Chain(n) \/ BootComplete(n)
      PROVE  Goal
  BY <1>2, <1>3 DEF Chain, BootComplete, ghosts
<1>4. ASSUME NEW n \in Nodes, NEW st \in NmtStates \ {BOOTUP}, HeartbeatRecv(n, st)
      PROVE  Goal
  BY <1>4 DEF HeartbeatRecv
<1>5. ASSUME NEW n \in Nodes, HeartbeatTimeout(n)
      PROVE  Goal
  <2>1. CASE ResetAll /\ n \in Mandatory
    BY <1>5, <2>1 DEF HeartbeatTimeout, MasterReset, ghosts
  <2>2. CASE ~(ResetAll /\ n \in Mandatory)
    <3>1. hb' = [hb EXCEPT ![n] = [hb[n] EXCEPT !.armed = FALSE, !.occurred = TRUE]]
      BY <1>5, <2>2 DEF HeartbeatTimeout
    <3>2. QED
      BY <1>5, <3>1 DEF HeartbeatTimeout, ghosts
  <2>3. QED
    BY <2>1, <2>2
<1>6. CASE UNCHANGED <<hb, confirmed>>
  BY <1>6
<1>7. QED
  BY <1>1, <1>3, <1>4, <1>5, <1>6
  DEF RemoteNext, remoteVars, Invalidate, BeforeBoot, BootInd, BootResult, OuterBootup,
      StateInd, SdoStart, SdoFinish, DispatchNmt, lely, ghosts

\* The gate's flags, Lely's boot processes and the ghosts stay Boolean.
LEMMA FlagsNext == RemoteFlags /\ [RemoteNext]_remoteVars => RemoteFlags'
<1> SUFFICES ASSUME RemoteFlags, [RemoteNext]_remoteVars
             PROVE  RemoteFlags'
  OBVIOUS
<1> USE DEF RemoteFlags, gate, sdo, lely, ghosts
<1>1. ASSUME NEW n \in Nodes, RecvBootup(n)
      PROVE  RemoteFlags'
  BY Zenon, <1>1 DEF RecvBootup
<1>2. ASSUME NEW n \in Nodes, Invalidate(n)
      PROVE  RemoteFlags'
  BY Zenon, <1>2 DEF Invalidate
<1>3. ASSUME NEW n \in Nodes, BeforeBoot(n)
      PROVE  RemoteFlags'
  BY Zenon, <1>3 DEF BeforeBoot, CancelNodes, SetSuspended
<1>4. ASSUME NEW n \in Nodes, NEW b \in BootOutcomes, BootCon(n, b),
             UNCHANGED <<words, gate, sdo>>
      PROVE  RemoteFlags'
  BY Zenon, <1>4 DEF BootCon
<1>5. ASSUME NEW n \in Nodes, Chain(n)
      PROVE  RemoteFlags'
  BY ZenonT(60), <1>4, <1>5 DEF Chain
<1>6. ASSUME NEW n \in Nodes, BootComplete(n)
      PROVE  RemoteFlags'
  BY Zenon, <1>4, <1>6 DEF BootComplete
<1>7. ASSUME NEW n \in Nodes, BootInd(n)
      PROVE  RemoteFlags'
  BY Zenon, <1>7 DEF BootInd, OnBootComplete, SetSuspended
<1>8. ASSUME NEW n \in Nodes, BootResult(n)
      PROVE  RemoteFlags'
  BY Zenon, <1>8 DEF BootResult
<1>9. ASSUME NEW n \in Nodes, NEW st, OnNmtState(n, st), UNCHANGED <<client, lely, ghosts>>
      PROVE  RemoteFlags'
  BY ZenonT(60), <1>9 DEF OnNmtState, SetSuspended, CancelNodes
<1>10. ASSUME NEW n \in Nodes, OuterBootup(n) \/ StateInd(n)
      PROVE  RemoteFlags'
  BY ZenonT(60), <1>9, <1>10 DEF OuterBootup, StateInd
<1>11. ASSUME NEW n \in Nodes, NEW st \in NmtStates \ {BOOTUP}, HeartbeatRecv(n, st)
      PROVE  RemoteFlags'
  BY ZenonT(60), <1>11 DEF HeartbeatRecv
<1>12. ASSUME NEW n \in Nodes, HeartbeatTimeout(n)
      PROVE  RemoteFlags'
  <2>1. booting' \in [Nodes -> BOOLEAN]
    <3>1. booting' = booting \/ booting' = [m \in Nodes |-> m \in Mandatory]
      BY Zenon, <1>12 DEF HeartbeatTimeout, MasterReset
    <3>2. [m \in Nodes |-> m \in Mandatory] \in [Nodes -> BOOLEAN]
      OBVIOUS
    <3>3. QED
      BY Zenon, <3>1, <3>2
  <2>2. UNCHANGED <<gate, sdo, ghosts>>
    BY Zenon, <1>12 DEF HeartbeatTimeout
  <2>3. QED
    BY Zenon, <2>1, <2>2
<1>13. ASSUME NEW n \in Nodes, SdoStart(n) \/ SdoFinish(n)
      PROVE  RemoteFlags'
  BY Zenon, <1>13 DEF SdoStart, SdoFinish
<1>14. ASSUME NEW S, NEW c, DispatchNmt(S, c)
      PROVE  RemoteFlags'
  BY ZenonT(60), <1>14 DEF DispatchNmt, OnNmtCommand, SetSuspended, CancelNodes
<1>15. CASE UNCHANGED remoteVars
  BY Zenon, <1>15 DEF remoteVars
<1>16. QED
  BY Zenon, <1>1, <1>2, <1>3, <1>5, <1>6, <1>7, <1>8, <1>10, <1>11, <1>12, <1>13, <1>14, <1>15
  DEF RemoteNext

-----------------------------------------------------------------------------
(* What each handler does to one node                                      *)

\* The fields of a consumer that is off, idle or armed.
LEMMA HbFields ==
    /\ ~HbOff.on /\ ~HbOff.occurred /\ ~HbOff.armed
    /\ HbIdle.on /\ ~HbIdle.occurred /\ HbIdle.st = BOOTUP
    /\ \A st : LET k == [HbIdle EXCEPT !.armed = TRUE, !.st = st]
               IN  ~k.occurred /\ k.on
    /\ \A h \in HbSet : LET k == [h EXCEPT !.armed = FALSE, !.occurred = TRUE]
                        IN  k.occurred /\ k.on = h.on /\ k.st = h.st
BY DEF HbOff, HbIdle, HbSet

\* co_nmt's boot_con leaves n without a boot process and without a timeout.
LEMMA BootConHb ==
    ASSUME RemoteValues, RemoteFlags, NEW n \in Nodes, NEW b \in BootOutcomes, BootCon(n, b)
    PROVE  /\ ~hb'[n].occurred /\ (hb'[n].on => n \in Heartbeat) /\ ~booting'[n]
           /\ hb'[n].armed => hb'[n].on
           /\ confirmed'[n] = b.st
           /\ \A m \in Nodes : m # n =>
                hb'[m] = hb[m] /\ booting'[m] = booting[m] /\ confirmed'[m] = confirmed[m]
<1>1. confirmed'[n] = b.st /\ ~booting'[n]
  BY DEF BootCon, RemoteValues, RemoteFlags
<1>2. \A m \in Nodes : m # n =>
          hb'[m] = hb[m] /\ booting'[m] = booting[m] /\ confirmed'[m] = confirmed[m]
  BY DEF BootCon, RemoteValues, RemoteFlags
<1>3. hb'[n] \in {HbOff, HbIdle, [HbIdle EXCEPT !.armed = TRUE, !.st = b.st]}
  BY DEF BootCon, RemoteValues
<1>4. hb'[n] = HbOff \/ n \in Heartbeat
  BY DEF BootCon, RemoteValues
<1>5. /\ ~hb'[n].occurred /\ (hb'[n].on => n \in Heartbeat)
      /\ hb'[n].armed => hb'[n].on
  BY <1>3, <1>4, HbFields, Zenon
<1>6. QED
  BY <1>1, <1>2, <1>5

\* A heartbeat timeout either resets the master, which destroys every consumer,
\* or marks the one consumer.
LEMMA TimeoutHb ==
    ASSUME RemoteValues, RemoteFlags, NEW n \in Nodes, HeartbeatTimeout(n), NEW m \in Nodes
    PROVE  \/ /\ ResetAll /\ n \in Mandatory
              /\ booting'[m] <=> m \in Mandatory
              /\ ~hb'[m].occurred /\ (hb'[m].armed => hb'[m].on)
              /\ hb'[m].on <=> m \in Heartbeat \ Mandatory
              /\ hb'[m].on => hb'[m].st = BOOTUP
           \/ /\ booting' = booting
              /\ m # n => hb'[m] = hb[m]
              /\ m = n => hb'[m].occurred /\ hb'[m].on
<1>1. CASE ResetAll /\ n \in Mandatory
  <2>1. booting'[m] <=> m \in Mandatory
    BY <1>1 DEF HeartbeatTimeout, MasterReset
  <2>2. hb'[m] = IF m \in Heartbeat \ Mandatory THEN HbIdle ELSE HbOff
    BY <1>1 DEF HeartbeatTimeout, MasterReset
  <2>3. QED
    BY <1>1, <2>1, <2>2, HbFields, Zenon
<1>2. CASE ~(ResetAll /\ n \in Mandatory)
  <2>1. /\ hb' = [hb EXCEPT ![n] = [hb[n] EXCEPT !.armed = FALSE, !.occurred = TRUE]]
        /\ booting' = booting /\ hb[n].on
    BY <1>2 DEF HeartbeatTimeout
  <2>2. m # n => hb'[m] = hb[m]
    BY <2>1 DEF RemoteValues
  <2>3. hb'[n] = [hb[n] EXCEPT !.armed = FALSE, !.occurred = TRUE] /\ hb[n] \in HbSet
    BY <2>1 DEF RemoteValues
  <2>4. hb'[n].occurred /\ hb'[n].on
    BY <2>1, <2>3, HbFields, Zenon
  <2>5. QED
    BY <2>1, <2>2, <2>4
<1>3. QED
  BY <1>1, <1>2


\* The result word: a Boot-up invalidates it before anything else, and boot_ind
\* stores it only after the state word.
LEMMA ResultNext ==
    RemoteInv /\ [RemoteNext]_remoteVars => \A m \in Nodes : AtResult(m)'
<1> SUFFICES ASSUME RemoteInv, [RemoteNext]_remoteVars, NEW m \in Nodes
             PROVE  AtResult(m)'
  OBVIOUS
<1> USE PositionShape, OutcomeShape DEF RemoteInv, RemoteValues, RemoteFlags, In, Resting, BootupPcs, Idle, AtResult, NoResult
<1>1. ASSUME NEW n \in Nodes, RecvBootup(n)
      PROVE  AtResult(m)'
  BY <1>1 DEF RecvBootup, words, gate, sdo, lely, ghosts
<1>2. ASSUME NEW n \in Nodes, Invalidate(n)
      PROVE  AtResult(m)'
  BY <1>2 DEF Invalidate, words, gate, sdo, lely, ghosts
<1>3. ASSUME NEW n \in Nodes, BeforeBoot(n)
      PROVE  AtResult(m)'
  BY <1>3 DEF BeforeBoot, CancelNodes, SetSuspended, words, gate, sdo, lely, ghosts
<1>4. ASSUME NEW n \in Nodes, Chain(n)
      PROVE  AtResult(m)'
  <2>1. ASSUME NEW b \in BootOutcomes, BootCon(n, b), ~booting[n],
               owner' = [pc |-> "boot", node |-> n, b |-> b, nested |-> TRUE]
        PROVE  AtResult(m)'
    BY <1>4, <2>1, ZenonT(60) DEF Chain, BootCon, words, gate, sdo
  <2>2. ASSUME owner' = [pc |-> "outer", node |-> n], hb' = [hb EXCEPT ![n] = HbOff],
               \/ ~booting[n] /\ UNCHANGED booting
               \/ booting' = [booting EXCEPT ![n] = TRUE],
               UNCHANGED ghosts
        PROVE  AtResult(m)'
    BY <1>4, <2>2 DEF Chain, words, gate, sdo, ghosts
  <2>3. QED
    BY <1>4, <2>1, <2>2 DEF Chain
<1>5. ASSUME NEW n \in Nodes, BootComplete(n)
      PROVE  AtResult(m)'
  BY <1>5 DEF BootComplete, BootCon, words, gate, sdo, lely, ghosts
<1>6. ASSUME NEW n \in Nodes, BootInd(n)
      PROVE  AtResult(m)'
  BY <1>6 DEF BootInd, OnBootComplete, SetSuspended, words, gate, sdo, lely, ghosts
<1>7. ASSUME NEW n \in Nodes, BootResult(n)
      PROVE  AtResult(m)'
  BY <1>7 DEF BootResult, words, gate, sdo, lely, ghosts
<1>8. ASSUME NEW n \in Nodes, OuterBootup(n)
      PROVE  AtResult(m)'
  BY <1>8 DEF OuterBootup, OnNmtState, SetSuspended, words, gate, sdo, lely, ghosts
<1>9. ASSUME NEW n \in Nodes, NEW st \in NmtStates \ {BOOTUP}, HeartbeatRecv(n, st)
      PROVE  AtResult(m)'
  BY <1>9 DEF HeartbeatRecv, words, gate, sdo, lely, ghosts
<1>10. ASSUME NEW n \in Nodes, StateInd(n)
      PROVE  AtResult(m)'
  BY <1>10 DEF StateInd, OnNmtState, SetSuspended, CancelNodes, words, gate, sdo, lely, ghosts
<1>11. ASSUME NEW n \in Nodes, HeartbeatTimeout(n)
      PROVE  AtResult(m)'
  BY <1>11 DEF HeartbeatTimeout, MasterReset, words, gate, sdo, lely, ghosts
<1>12. ASSUME NEW n \in Nodes, SdoStart(n)
      PROVE  AtResult(m)'
  BY <1>12 DEF SdoStart, NodeAvailable, words, gate, sdo, lely, ghosts
<1>13. ASSUME NEW n \in Nodes, SdoFinish(n)
      PROVE  AtResult(m)'
  BY <1>13 DEF SdoFinish, words, gate, sdo, lely, ghosts
<1>14. ASSUME NEW S \in {{n} : n \in Nodes} \cup {Nodes}, NEW c \in Commands,
             DispatchNmt(S, c)
      PROVE  AtResult(m)'
  BY <1>14 DEF DispatchNmt, OnNmtCommand, SetSuspended, CancelNodes, words, gate, sdo, lely, ghosts
<1>15. CASE UNCHANGED remoteVars
  BY <1>15 DEF remoteVars, words, gate, sdo, lely, ghosts
<1>16. QED
  BY <1>1, <1>2, <1>3, <1>4, <1>5, <1>6, <1>7, <1>8, <1>9, <1>10, <1>11, <1>12, <1>13, <1>14, <1>15 DEF RemoteNext

\* The SDO gate: no command, heartbeat or boot opens a node that was told to reset,
\* or that ended its boot unusable, before it may.
LEMMA GateNext ==
    RemoteInv /\ [RemoteNext]_remoteVars => \A m \in Nodes : AtGate(m)'
<1> SUFFICES ASSUME RemoteInv, [RemoteNext]_remoteVars, NEW m \in Nodes
             PROVE  AtGate(m)'
  OBVIOUS
<1> USE PositionShape, OutcomeShape DEF RemoteInv, RemoteValues, RemoteFlags, In, Resting, BootupPcs, Idle, AtGate
<1>1. ASSUME NEW n \in Nodes, RecvBootup(n)
      PROVE  AtGate(m)'
  BY <1>1 DEF RecvBootup, words, gate, sdo, lely, ghosts
<1>2. ASSUME NEW n \in Nodes, Invalidate(n)
      PROVE  AtGate(m)'
  BY <1>2 DEF Invalidate, words, gate, sdo, lely, ghosts
<1>3. ASSUME NEW n \in Nodes, BeforeBoot(n)
      PROVE  AtGate(m)'
  BY <1>3 DEF BeforeBoot, CancelNodes, SetSuspended, words, gate, sdo, lely, ghosts
<1>4. ASSUME NEW n \in Nodes, Chain(n)
      PROVE  AtGate(m)'
  <2>1. ASSUME NEW b \in BootOutcomes, BootCon(n, b), ~booting[n],
               owner' = [pc |-> "boot", node |-> n, b |-> b, nested |-> TRUE]
        PROVE  AtGate(m)'
    BY <1>4, <2>1, ZenonT(60) DEF Chain, BootCon, words, gate, sdo
  <2>2. ASSUME owner' = [pc |-> "outer", node |-> n], hb' = [hb EXCEPT ![n] = HbOff],
               \/ ~booting[n] /\ UNCHANGED booting
               \/ booting' = [booting EXCEPT ![n] = TRUE],
               UNCHANGED ghosts
        PROVE  AtGate(m)'
    BY <1>4, <2>2 DEF Chain, words, gate, sdo, ghosts
  <2>3. QED
    BY <1>4, <2>1, <2>2 DEF Chain
<1>5. ASSUME NEW n \in Nodes, BootComplete(n)
      PROVE  AtGate(m)'
  BY <1>5 DEF BootComplete, BootCon, words, gate, sdo, lely, ghosts
<1>6. ASSUME NEW n \in Nodes, BootInd(n)
      PROVE  AtGate(m)'
  BY <1>6 DEF BootInd, OnBootComplete, SetSuspended, words, gate, sdo, lely, ghosts
<1>7. ASSUME NEW n \in Nodes, BootResult(n)
      PROVE  AtGate(m)'
  BY <1>7 DEF BootResult, words, gate, sdo, lely, ghosts
<1>8. ASSUME NEW n \in Nodes, OuterBootup(n)
      PROVE  AtGate(m)'
  <2>1. CASE result[n].valid
    BY <1>8, <2>1 DEF OuterBootup, gate, lely, ghosts
  <2>2. CASE ~result[n].valid
    BY <1>8, <2>2 DEF OuterBootup, OnNmtState, SetSuspended, BOOTUP, Usable, lely, ghosts
  <2>3. QED
    BY <2>1, <2>2
<1>9. ASSUME NEW n \in Nodes, NEW st \in NmtStates \ {BOOTUP}, HeartbeatRecv(n, st)
      PROVE  AtGate(m)'
  BY <1>9 DEF HeartbeatRecv, words, gate, sdo, lely, ghosts
<1>10. ASSUME NEW n \in Nodes, StateInd(n)
      PROVE  AtGate(m)'
  <2>1. CASE owner.st = "stop"
    BY <1>10, <2>1 DEF StateInd, OnNmtState, CancelNodes, BOOTUP, Usable, lely, ghosts
  <2>2. CASE owner.st \in Usable /\ held[n]
    BY <1>10, <2>2 DEF StateInd, OnNmtState, BOOTUP, Usable, gate, lely, ghosts
  <2>3. CASE owner.st \in Usable /\ ~held[n]
    BY <1>10, <2>3, ZenonT(60) DEF StateInd, OnNmtState, SetSuspended, BOOTUP, Usable, lely, ghosts
  <2>4. QED
    BY <1>10, <2>1, <2>2, <2>3 DEF StateInd, NmtStates
<1>11. ASSUME NEW n \in Nodes, HeartbeatTimeout(n)
      PROVE  AtGate(m)'
  BY <1>11 DEF HeartbeatTimeout, MasterReset, words, gate, sdo, lely, ghosts
<1>12. ASSUME NEW n \in Nodes, SdoStart(n)
      PROVE  AtGate(m)'
  BY <1>12 DEF SdoStart, NodeAvailable, words, gate, sdo, lely, ghosts
<1>13. ASSUME NEW n \in Nodes, SdoFinish(n)
      PROVE  AtGate(m)'
  BY <1>13 DEF SdoFinish, words, gate, sdo, lely, ghosts
<1>14. ASSUME NEW S \in {{n} : n \in Nodes} \cup {Nodes}, NEW c \in Commands,
             DispatchNmt(S, c)
      PROVE  AtGate(m)'
  <2> DEFINE Sent == /\ resetSent' = [n \in Nodes |-> (n \in S /\ c = "reset") \/ resetSent[n]]
                     /\ unfit' = [n \in Nodes |-> n \notin S /\ unfit[n]]
                     /\ OnNmtCommand(S, c)
  <2>1. CASE UNCHANGED <<gate, resetSent, unfit>>
    BY <1>14, <2>1 DEF DispatchNmt, CancelNodes, gate
  <2>2. CASE Sent /\ c = "stop"
    BY <1>14, <2>2 DEF DispatchNmt, OnNmtCommand, CancelNodes
  <2>3. CASE Sent /\ c = "reset"
    BY <1>14, <2>3, ZenonT(60) DEF DispatchNmt, OnNmtCommand, SetSuspended, CancelNodes
  <2>4. CASE Sent /\ c \in {"start", "preop"}
    BY <1>14, <2>4, ZenonT(60) DEF DispatchNmt, OnNmtCommand
  <2>5. QED
    BY <1>14, <2>1, <2>2, <2>3, <2>4 DEF DispatchNmt, Commands
<1>15. CASE UNCHANGED remoteVars
  BY <1>15 DEF remoteVars, words, gate, sdo, lely, ghosts
<1>16. QED
  BY <1>1, <1>2, <1>3, <1>4, <1>5, <1>6, <1>7, <1>8, <1>9, <1>10, <1>11, <1>12, <1>13, <1>14, <1>15 DEF RemoteNext

\* Lely's boot process and the application's request: before_boot retires the
\* request and the Client-SDO before the chain starts a boot.
LEMMA BootNext ==
    RemoteInv /\ [RemoteNext]_remoteVars => \A m \in Nodes : AtBoot(m)'
<1> SUFFICES ASSUME RemoteInv, [RemoteNext]_remoteVars, NEW m \in Nodes
             PROVE  AtBoot(m)'
  OBVIOUS
<1> USE PositionShape, OutcomeShape DEF RemoteInv, RemoteValues, RemoteFlags, In, Resting, BootupPcs, Idle, AtBoot
<1>1. ASSUME NEW n \in Nodes, RecvBootup(n)
      PROVE  AtBoot(m)'
  BY <1>1 DEF RecvBootup, words, gate, sdo, lely, ghosts
<1>2. ASSUME NEW n \in Nodes, Invalidate(n)
      PROVE  AtBoot(m)'
  BY <1>2 DEF Invalidate, words, gate, sdo, lely, ghosts
<1>3. ASSUME NEW n \in Nodes, BeforeBoot(n)
      PROVE  AtBoot(m)'
  BY <1>3 DEF BeforeBoot, CancelNodes, SetSuspended, words, gate, sdo, lely, ghosts
<1>4. ASSUME NEW n \in Nodes, Chain(n)
      PROVE  AtBoot(m)'
  <2>1. ASSUME NEW b \in BootOutcomes, BootCon(n, b), ~booting[n],
               owner' = [pc |-> "boot", node |-> n, b |-> b, nested |-> TRUE]
        PROVE  AtBoot(m)'
    BY <1>4, <2>1, ZenonT(60) DEF Chain, BootCon, words, gate, sdo
  <2>2. ASSUME owner' = [pc |-> "outer", node |-> n], hb' = [hb EXCEPT ![n] = HbOff],
               \/ ~booting[n] /\ UNCHANGED booting
               \/ booting' = [booting EXCEPT ![n] = TRUE],
               UNCHANGED ghosts
        PROVE  AtBoot(m)'
    BY <1>4, <2>2 DEF Chain, words, gate, sdo, ghosts
  <2>3. QED
    BY <1>4, <2>1, <2>2 DEF Chain
<1>5. ASSUME NEW n \in Nodes, BootComplete(n)
      PROVE  AtBoot(m)'
  BY <1>5 DEF BootComplete, BootCon, words, gate, sdo, lely, ghosts
<1>6. ASSUME NEW n \in Nodes, BootInd(n)
      PROVE  AtBoot(m)'
  BY <1>6 DEF BootInd, OnBootComplete, SetSuspended, words, gate, sdo, lely, ghosts
<1>7. ASSUME NEW n \in Nodes, BootResult(n)
      PROVE  AtBoot(m)'
  BY <1>7 DEF BootResult, words, gate, sdo, lely, ghosts
<1>8. ASSUME NEW n \in Nodes, OuterBootup(n)
      PROVE  AtBoot(m)'
  <2>1. CASE result[n].valid
    BY <1>8, <2>1 DEF OuterBootup, gate, lely, ghosts
  <2>2. CASE ~result[n].valid
    BY <1>8, <2>2 DEF OuterBootup, OnNmtState, SetSuspended, BOOTUP, Usable, lely, ghosts
  <2>3. QED
    BY <2>1, <2>2
<1>9. ASSUME NEW n \in Nodes, NEW st \in NmtStates \ {BOOTUP}, HeartbeatRecv(n, st)
      PROVE  AtBoot(m)'
  BY <1>9 DEF HeartbeatRecv, words, gate, sdo, lely, ghosts
<1>10. ASSUME NEW n \in Nodes, StateInd(n)
      PROVE  AtBoot(m)'
  BY <1>10 DEF StateInd, OnNmtState, SetSuspended, CancelNodes, words, gate, sdo, lely, ghosts
<1>11. ASSUME NEW n \in Nodes, HeartbeatTimeout(n)
      PROVE  AtBoot(m)'
  BY <1>11 DEF HeartbeatTimeout, MasterReset, words, gate, sdo, lely, ghosts
<1>12. ASSUME NEW n \in Nodes, SdoStart(n)
      PROVE  AtBoot(m)'
  BY <1>12 DEF SdoStart, NodeAvailable, words, gate, sdo, lely, ghosts
<1>13. ASSUME NEW n \in Nodes, SdoFinish(n)
      PROVE  AtBoot(m)'
  BY <1>13 DEF SdoFinish, words, gate, sdo, lely, ghosts
<1>14. ASSUME NEW S \in {{n} : n \in Nodes} \cup {Nodes}, NEW c \in Commands,
             DispatchNmt(S, c)
      PROVE  AtBoot(m)'
  BY <1>14 DEF DispatchNmt, OnNmtCommand, SetSuspended, CancelNodes, words, gate, sdo, lely, ghosts
<1>15. CASE UNCHANGED remoteVars
  BY <1>15 DEF remoteVars, words, gate, sdo, lely, ghosts
<1>16. QED
  BY <1>1, <1>2, <1>3, <1>4, <1>5, <1>6, <1>7, <1>8, <1>9, <1>10, <1>11, <1>12, <1>13, <1>14, <1>15 DEF RemoteNext

\* Lely's heartbeat consumer is off while the node is being booted.
LEMMA HbNext ==
    RemoteInv /\ [RemoteNext]_remoteVars => \A m \in Nodes : HbShape(m)'
<1> SUFFICES ASSUME RemoteInv, [RemoteNext]_remoteVars, NEW m \in Nodes
             PROVE  HbShape(m)'
  OBVIOUS
<1> USE PositionShape, OutcomeShape DEF RemoteInv, RemoteValues, RemoteFlags, In, Resting, BootupPcs, Idle, HbShape, HbOff, HbIdle, HbSet
<1>1. ASSUME NEW n \in Nodes, RecvBootup(n)
      PROVE  HbShape(m)'
  BY <1>1 DEF RecvBootup, words, gate, sdo, lely, ghosts
<1>2. ASSUME NEW n \in Nodes, Invalidate(n)
      PROVE  HbShape(m)'
  BY <1>2 DEF Invalidate, words, gate, sdo, lely, ghosts
<1>3. ASSUME NEW n \in Nodes, BeforeBoot(n)
      PROVE  HbShape(m)'
  BY <1>3 DEF BeforeBoot, CancelNodes, SetSuspended, words, gate, sdo, lely, ghosts
<1>4. ASSUME NEW n \in Nodes, Chain(n)
      PROVE  HbShape(m)'
  <2>1. ASSUME NEW b \in BootOutcomes, BootCon(n, b), ~booting[n],
               owner' = [pc |-> "boot", node |-> n, b |-> b, nested |-> TRUE]
        PROVE  HbShape(m)'
    <3> HIDE DEF HbOff, HbIdle, HbSet
    <3>1. /\ ~hb'[n].occurred /\ (hb'[n].on => n \in Heartbeat) /\ ~booting'[n]
          /\ hb'[n].armed => hb'[n].on
          /\ confirmed'[n] = b.st
          /\ \A k \in Nodes : k # n =>
               hb'[k] = hb[k] /\ booting'[k] = booting[k] /\ confirmed'[k] = confirmed[k]
      BY <2>1, BootConHb
    <3>2. QED
      BY <1>4, <2>1, <3>1 DEF Chain, words
  <2>2. ASSUME owner' = [pc |-> "outer", node |-> n], hb' = [hb EXCEPT ![n] = HbOff],
               \/ ~booting[n] /\ UNCHANGED booting
               \/ booting' = [booting EXCEPT ![n] = TRUE],
               UNCHANGED ghosts
        PROVE  HbShape(m)'
    <3>1. ~hb'[n].occurred /\ ~hb'[n].on /\ ~hb'[n].armed
      BY <2>2
    <3>2. m # n => hb'[m] = hb[m] /\ booting'[m] = booting[m]
      BY <2>2
    <3> HIDE DEF HbOff, HbIdle, HbSet
    <3>3. QED
      BY <1>4, <2>2, <3>1, <3>2 DEF Chain, AtResult, words, ghosts
  <2>3. QED
    BY <1>4, <2>1, <2>2 DEF Chain
<1>5. ASSUME NEW n \in Nodes, BootComplete(n)
      PROVE  HbShape(m)'
  BY <1>5 DEF BootComplete, BootCon, words, gate, sdo, lely, ghosts
<1>6. ASSUME NEW n \in Nodes, BootInd(n)
      PROVE  HbShape(m)'
  BY <1>6 DEF BootInd, OnBootComplete, SetSuspended, words, gate, sdo, lely, ghosts
<1>7. ASSUME NEW n \in Nodes, BootResult(n)
      PROVE  HbShape(m)'
  BY <1>7 DEF BootResult, words, gate, sdo, lely, ghosts
<1>8. ASSUME NEW n \in Nodes, OuterBootup(n)
      PROVE  HbShape(m)'
  BY <1>8 DEF OuterBootup, OnNmtState, SetSuspended, words, gate, sdo, lely, ghosts
<1>9. ASSUME NEW n \in Nodes, NEW st \in NmtStates \ {BOOTUP}, HeartbeatRecv(n, st)
      PROVE  HbShape(m)'
  BY <1>9 DEF HeartbeatRecv, words, gate, sdo, lely, ghosts
<1>10. ASSUME NEW n \in Nodes, StateInd(n)
      PROVE  HbShape(m)'
  BY <1>10 DEF StateInd, OnNmtState, SetSuspended, CancelNodes, words, gate, sdo, lely, ghosts
<1>11. ASSUME NEW n \in Nodes, HeartbeatTimeout(n)
      PROVE  HbShape(m)'
  <2>1. \/ /\ ResetAll /\ n \in Mandatory
           /\ booting'[m] <=> m \in Mandatory
           /\ ~hb'[m].occurred /\ (hb'[m].armed => hb'[m].on)
           /\ hb'[m].on <=> m \in Heartbeat \ Mandatory
           /\ hb'[m].on => hb'[m].st = BOOTUP
        \/ /\ booting' = booting
           /\ m # n => hb'[m] = hb[m]
           /\ m = n => hb'[m].occurred /\ hb'[m].on
    BY <1>11, TimeoutHb
  <2> HIDE DEF HbOff, HbIdle, HbSet
  <2>2. QED
    BY <1>11, <2>1 DEF HeartbeatTimeout, ghosts
<1>12. ASSUME NEW n \in Nodes, SdoStart(n)
      PROVE  HbShape(m)'
  BY <1>12 DEF SdoStart, NodeAvailable, words, gate, sdo, lely, ghosts
<1>13. ASSUME NEW n \in Nodes, SdoFinish(n)
      PROVE  HbShape(m)'
  BY <1>13 DEF SdoFinish, words, gate, sdo, lely, ghosts
<1>14. ASSUME NEW S \in {{n} : n \in Nodes} \cup {Nodes}, NEW c \in Commands,
             DispatchNmt(S, c)
      PROVE  HbShape(m)'
  BY <1>14 DEF DispatchNmt, OnNmtCommand, SetSuspended, CancelNodes, words, gate, sdo, lely, ghosts
<1>15. CASE UNCHANGED remoteVars
  BY <1>15 DEF remoteVars, words, gate, sdo, lely, ghosts
<1>16. QED
  BY <1>1, <1>2, <1>3, <1>4, <1>5, <1>6, <1>7, <1>8, <1>9, <1>10, <1>11, <1>12, <1>13, <1>14, <1>15 DEF RemoteNext

\* Every store to the state word is one of a state or of a timeout.
LEMMA WordShapeNext ==
    RemoteInv /\ [RemoteNext]_remoteVars => \A m \in Nodes : WordShape(m)'
<1> SUFFICES ASSUME RemoteInv, [RemoteNext]_remoteVars, NEW m \in Nodes
             PROVE  WordShape(m)'
  OBVIOUS
<1> USE PositionShape, OutcomeShape DEF RemoteInv, RemoteValues, RemoteFlags, In, Resting, BootupPcs, Idle, WordShape, HbShape, Word, WordSet
<1>1. ASSUME NEW n \in Nodes, RecvBootup(n)
      PROVE  WordShape(m)'
  BY <1>1 DEF RecvBootup, words, gate, sdo, lely, ghosts
<1>2. ASSUME NEW n \in Nodes, Invalidate(n)
      PROVE  WordShape(m)'
  BY <1>2 DEF Invalidate, words, gate, sdo, lely, ghosts
<1>3. ASSUME NEW n \in Nodes, BeforeBoot(n)
      PROVE  WordShape(m)'
  BY <1>3 DEF BeforeBoot, CancelNodes, SetSuspended, words, gate, sdo, lely, ghosts
<1>4. ASSUME NEW n \in Nodes, Chain(n)
      PROVE  WordShape(m)'
  BY <1>4 DEF Chain, BootCon, words, gate, sdo, lely, ghosts
<1>5. ASSUME NEW n \in Nodes, BootComplete(n)
      PROVE  WordShape(m)'
  BY <1>5 DEF BootComplete, BootCon, words, gate, sdo, lely, ghosts
<1>6. ASSUME NEW n \in Nodes, BootInd(n)
      PROVE  WordShape(m)'
  BY <1>6 DEF BootInd, OnBootComplete, SetSuspended, words, gate, sdo, lely, ghosts
<1>7. ASSUME NEW n \in Nodes, BootResult(n)
      PROVE  WordShape(m)'
  BY <1>7 DEF BootResult, words, gate, sdo, lely, ghosts
<1>8. ASSUME NEW n \in Nodes, OuterBootup(n)
      PROVE  WordShape(m)'
  <2>1. CASE result[n].valid
    BY <1>8, <2>1 DEF OuterBootup, gate, lely, ghosts
  <2>2. CASE ~result[n].valid
    BY <1>8, <2>2 DEF OuterBootup, lely, ghosts
  <2>3. QED
    BY <2>1, <2>2
<1>9. ASSUME NEW n \in Nodes, NEW st \in NmtStates \ {BOOTUP}, HeartbeatRecv(n, st)
      PROVE  WordShape(m)'
  BY <1>9 DEF HeartbeatRecv, words, gate, sdo, lely, ghosts
<1>10. ASSUME NEW n \in Nodes, StateInd(n)
      PROVE  WordShape(m)'
  BY <1>10 DEF StateInd, OnNmtState, SetSuspended, CancelNodes, words, gate, sdo, lely, ghosts
<1>11. ASSUME NEW n \in Nodes, HeartbeatTimeout(n)
      PROVE  WordShape(m)'
  BY <1>11 DEF HeartbeatTimeout, MasterReset, words, gate, sdo, lely, ghosts
<1>12. ASSUME NEW n \in Nodes, SdoStart(n)
      PROVE  WordShape(m)'
  BY <1>12 DEF SdoStart, NodeAvailable, words, gate, sdo, lely, ghosts
<1>13. ASSUME NEW n \in Nodes, SdoFinish(n)
      PROVE  WordShape(m)'
  BY <1>13 DEF SdoFinish, words, gate, sdo, lely, ghosts
<1>14. ASSUME NEW S \in {{n} : n \in Nodes} \cup {Nodes}, NEW c \in Commands,
             DispatchNmt(S, c)
      PROVE  WordShape(m)'
  BY <1>14 DEF DispatchNmt, OnNmtCommand, SetSuspended, CancelNodes, words, gate, sdo, lely, ghosts
<1>15. CASE UNCHANGED remoteVars
  BY <1>15 DEF remoteVars, words, gate, sdo, lely, ghosts
<1>16. QED
  BY <1>1, <1>2, <1>3, <1>4, <1>5, <1>6, <1>7, <1>8, <1>9, <1>10, <1>11, <1>12, <1>13, <1>14, <1>15 DEF RemoteNext

\* The state word follows what Lely reported, handler by handler.
LEMMA WordNext ==
    RemoteInv /\ [RemoteNext]_remoteVars => \A m \in Nodes : AtWord(m)'
<1> SUFFICES ASSUME RemoteInv, [RemoteNext]_remoteVars, NEW m \in Nodes
             PROVE  AtWord(m)'
  OBVIOUS
<1> USE PositionShape, OutcomeShape DEF RemoteInv, RemoteValues, RemoteFlags, In, Resting, BootupPcs, Idle, AtWord, HbShape, WordShape, Word, WordSet, HbOff, HbIdle, HbSet
<1>1. ASSUME NEW n \in Nodes, RecvBootup(n)
      PROVE  AtWord(m)'
  BY <1>1 DEF RecvBootup, words, gate, sdo, lely, ghosts
<1>2. ASSUME NEW n \in Nodes, Invalidate(n)
      PROVE  AtWord(m)'
  BY <1>2 DEF Invalidate, words, gate, sdo, lely, ghosts
<1>3. ASSUME NEW n \in Nodes, BeforeBoot(n)
      PROVE  AtWord(m)'
  BY <1>3 DEF BeforeBoot, CancelNodes, SetSuspended, words, gate, sdo, lely, ghosts
<1>4. ASSUME NEW n \in Nodes, Chain(n)
      PROVE  AtWord(m)'
  <2>1. ASSUME NEW b \in BootOutcomes, BootCon(n, b), ~booting[n],
               owner' = [pc |-> "boot", node |-> n, b |-> b, nested |-> TRUE]
        PROVE  AtWord(m)'
    <3> HIDE DEF HbOff, HbIdle, HbSet
    <3>1. /\ ~hb'[n].occurred /\ (hb'[n].on => n \in Heartbeat) /\ ~booting'[n]
          /\ hb'[n].armed => hb'[n].on
          /\ confirmed'[n] = b.st
          /\ \A k \in Nodes : k # n =>
               hb'[k] = hb[k] /\ booting'[k] = booting[k] /\ confirmed'[k] = confirmed[k]
      BY <2>1, BootConHb
    <3>2. QED
      BY <1>4, <2>1, <3>1 DEF Chain, words
  <2>2. ASSUME owner' = [pc |-> "outer", node |-> n], hb' = [hb EXCEPT ![n] = HbOff],
               \/ ~booting[n] /\ UNCHANGED booting
               \/ booting' = [booting EXCEPT ![n] = TRUE],
               UNCHANGED ghosts
        PROVE  AtWord(m)'
    <3>1. ~hb'[n].occurred /\ ~hb'[n].on /\ ~hb'[n].armed
      BY <2>2
    <3>2. m # n => hb'[m] = hb[m] /\ booting'[m] = booting[m]
      BY <2>2
    <3> HIDE DEF HbOff, HbIdle, HbSet
    <3>3. QED
      BY <1>4, <2>2, <3>1, <3>2 DEF Chain, AtResult, words, ghosts
  <2>3. QED
    BY <1>4, <2>1, <2>2 DEF Chain
<1>5. ASSUME NEW n \in Nodes, BootComplete(n)
      PROVE  AtWord(m)'
  BY <1>5 DEF BootComplete, BootCon, words, gate, sdo, lely, ghosts
<1>6. ASSUME NEW n \in Nodes, BootInd(n)
      PROVE  AtWord(m)'
  BY <1>6 DEF BootInd, OnBootComplete, SetSuspended, words, gate, sdo, lely, ghosts
<1>7. ASSUME NEW n \in Nodes, BootResult(n)
      PROVE  AtWord(m)'
  BY <1>7 DEF BootResult, words, gate, sdo, lely, ghosts
<1>8. ASSUME NEW n \in Nodes, OuterBootup(n)
      PROVE  AtWord(m)'
  <2>1. CASE result[n].valid
    BY <1>8, <2>1 DEF OuterBootup, gate, lely, ghosts
  <2>2. CASE ~result[n].valid
    <3>1. remote' = [remote EXCEPT ![n] = Word(BOOTUP, BOOTUP, FALSE)]
      BY <1>8, <2>2 DEF OuterBootup
    <3>2. confirmed[n] = BOOTUP /\ ~hb[n].occurred
      BY <1>8, <2>2 DEF OuterBootup
    <3> HIDE DEF HbOff, HbIdle, HbSet
    <3>3. CASE m = n
      BY <1>8, <3>1, <3>2, <3>3 DEF OuterBootup, lely, ghosts
    <3>4. CASE m # n
      BY <1>8, <3>1, <3>4 DEF OuterBootup, lely, ghosts
    <3>5. QED
      BY <3>3, <3>4
  <2>3. QED
    BY <2>1, <2>2
<1>9. ASSUME NEW n \in Nodes, NEW st \in NmtStates \ {BOOTUP}, HeartbeatRecv(n, st)
      PROVE  AtWord(m)'
  BY <1>9 DEF HeartbeatRecv, words, gate, sdo, lely, ghosts
<1>10. ASSUME NEW n \in Nodes, StateInd(n)
      PROVE  AtWord(m)'
  BY <1>10 DEF StateInd, OnNmtState, SetSuspended, CancelNodes, words, gate, sdo, lely, ghosts
<1>11. ASSUME NEW n \in Nodes, HeartbeatTimeout(n)
      PROVE  AtWord(m)'
  <2>1. \/ /\ ResetAll /\ n \in Mandatory
           /\ booting'[m] <=> m \in Mandatory
           /\ ~hb'[m].occurred /\ (hb'[m].armed => hb'[m].on)
           /\ hb'[m].on <=> m \in Heartbeat \ Mandatory
           /\ hb'[m].on => hb'[m].st = BOOTUP
        \/ /\ booting' = booting
           /\ m # n => hb'[m] = hb[m]
           /\ m = n => hb'[m].occurred /\ hb'[m].on
    BY <1>11, TimeoutHb
  <2> HIDE DEF HbOff, HbIdle, HbSet
  <2>2. QED
    BY <1>11, <2>1 DEF HeartbeatTimeout, ghosts
<1>12. ASSUME NEW n \in Nodes, SdoStart(n)
      PROVE  AtWord(m)'
  BY <1>12 DEF SdoStart, NodeAvailable, words, gate, sdo, lely, ghosts
<1>13. ASSUME NEW n \in Nodes, SdoFinish(n)
      PROVE  AtWord(m)'
  BY <1>13 DEF SdoFinish, words, gate, sdo, lely, ghosts
<1>14. ASSUME NEW S \in {{n} : n \in Nodes} \cup {Nodes}, NEW c \in Commands,
             DispatchNmt(S, c)
      PROVE  AtWord(m)'
  BY <1>14 DEF DispatchNmt, OnNmtCommand, SetSuspended, CancelNodes, words, gate, sdo, lely, ghosts
<1>15. CASE UNCHANGED remoteVars
  BY <1>15 DEF remoteVars, words, gate, sdo, lely, ghosts
<1>16. QED
  BY <1>1, <1>2, <1>3, <1>4, <1>5, <1>6, <1>7, <1>8, <1>9, <1>10, <1>11, <1>12, <1>13, <1>14, <1>15 DEF RemoteNext

-----------------------------------------------------------------------------
(* The invariant and what follows from it                                  *)

\* The state after lely_rtt_runtime_start: nothing reported, mandatory nodes
\* being booted by Lely's startup.
LEMMA RemoteInvInit == RemoteInit => RemoteInv
<1> SUFFICES ASSUME RemoteInit
             PROVE  RemoteInv
  OBVIOUS
<1>1. RemoteFlags
  <2>1. booting \in [Nodes -> BOOLEAN]
    BY DEF RemoteInit
  <2>2. QED
    BY <2>1, Zenon DEF RemoteInit, RemoteFlags
<1>2. RemoteValues
  <2>1. Word(UNAVAILABLE, UNAVAILABLE, FALSE) \in WordSet
    BY WordsMade
  <2>2. QED
    BY <2>1, PositionMade, WordsMade DEF RemoteInit, RemoteValues
<1>3. ASSUME NEW n \in Nodes
      PROVE  WordShape(n) /\ HbShape(n)
  <2>1. hb[n] = IF n \in Heartbeat \ Mandatory THEN HbIdle ELSE HbOff
    BY DEF RemoteInit
  <2>2. /\ ~hb[n].occurred /\ (hb[n].armed => hb[n].on)
        /\ hb[n].on => n \in Heartbeat \ Mandatory
    BY <2>1, HbFields, Zenon
  <2>3. QED
    BY <2>2 DEF RemoteInit, WordShape, HbShape, Word
<1>4. ASSUME NEW n \in Nodes
      PROVE  AtWord(n) /\ AtResult(n) /\ AtGate(n) /\ AtBoot(n)
  <2>1. ~hb[n].occurred
    <3>1. hb[n] = IF n \in Heartbeat \ Mandatory THEN HbIdle ELSE HbOff
      BY DEF RemoteInit
    <3>2. QED
      BY <3>1, HbFields, Zenon
  <2>2. QED
    BY <2>1 DEF RemoteInit, AtWord, AtResult, AtGate, AtBoot, In, Resting, Idle, Word, NoResult
<1>5. QED
  BY <1>1, <1>2, <1>3, <1>4 DEF RemoteInv

\* The invariant is inductive.
LEMMA RemoteInvNext == RemoteInv /\ [RemoteNext]_remoteVars => RemoteInv'
<1> SUFFICES ASSUME RemoteInv, [RemoteNext]_remoteVars
             PROVE  RemoteInv'
  OBVIOUS
<1>1. RemoteValues' /\ RemoteFlags'
  BY OwnerNext, WordsNext, ConsumersNext, FlagsNext DEF RemoteInv, RemoteValues
<1>2. \A m \in Nodes : /\ WordShape(m)' /\ HbShape(m)' /\ AtWord(m)'
                       /\ AtResult(m)' /\ AtGate(m)' /\ AtBoot(m)'
  BY WordShapeNext, HbNext, WordNext, ResultNext, GateNext, BootNext
<1>3. QED
  BY <1>1, <1>2 DEF RemoteInv

\* Where the owner is in a handler, what the handler has stored and what not,
\* for any number of nodes.
THEOREM RemoteInvHolds == RemoteSpec => []RemoteInv
<1>1. QED
  BY RemoteInvInit, RemoteInvNext, PTL DEF RemoteSpec

\* The two published words, the gate and Lely's consumers are well typed; a
\* reset hold always implies that the node is suspended.
THEOREM RemoteTypeCorrect == RemoteSpec => []RemoteTypeOK
<1>1. RemoteInv => RemoteTypeOK
  <2> SUFFICES ASSUME RemoteInv
               PROVE  RemoteTypeOK
    OBVIOUS
  <2>1. /\ remote \in [Nodes -> WordSet] /\ hb \in [Nodes -> HbSet]
        /\ \A n \in Nodes : hb[n].armed \/ hb[n].occurred => hb[n].on
    BY DEF RemoteInv, RemoteValues, HbShape
  <2>2. \A n \in Nodes : result[n] = NoResult
                         \/ [st |-> result[n].st, es |-> result[n].es] \in BootOutcomes
    <3> SUFFICES ASSUME NEW n \in Nodes, result[n] # NoResult
                 PROVE  [st |-> result[n].st, es |-> result[n].es] \in BootOutcomes
      OBVIOUS
    <3>1. PICK b \in BootOutcomes : result[n] = [valid |-> TRUE, st |-> b.st, es |-> b.es]
      BY DEF RemoteInv, RemoteValues, Results
    <3>2. QED
      BY <3>1, OutcomeShape
  <2>3. owner.pc \in {"idle", "invalidate", "retire", "chain", "boot", "result", "outer",
                      "state"}
    BY DEF RemoteInv, RemoteValues, Positions, BootupPcs, Idle
  <2>4. {suspended, held, active, client, booting} \subseteq [Nodes -> BOOLEAN]
    BY Zenon DEF RemoteInv, RemoteFlags
  <2>5. \A n \in Nodes : held[n] => suspended[n]
    BY DEF RemoteInv, AtGate
  <2>6. QED
    BY <2>1, <2>2, <2>3, <2>4, <2>5, Zenon DEF RemoteTypeOK, WordSet, HbSet
<1>2. QED
  BY <1>1, RemoteInvHolds, PTL

\* get_remote_boot_status() never reports the result of an earlier boot after
\* the Boot-up handler's first store, also when the boot finishes inside it.
THEOREM ResultFreshHolds == RemoteSpec => []ResultFresh
<1>1. RemoteInv => ResultFresh
  <2> SUFFICES ASSUME RemoteInv, NEW n \in Nodes,
                      owner # [pc |-> "invalidate", node |-> n], result[n].valid
               PROVE  fresh[n]
    BY DEF ResultFresh, GetRemoteBootStatusOk
  <2>1. ~In(n, {"invalidate"})
    BY DEF RemoteInv, RemoteValues, In, Positions, BootupPcs, Idle
  <2>2. QED
    BY <2>1 DEF RemoteInv, AtResult
<1>2. QED
  BY <1>1, RemoteInvHolds, PTL

\* Between two handlers the state word is the last state Lely reported, or
\* unavailable because nothing was reported or the heartbeat is lost, and then
\* the next heartbeat or boot will be reported.
THEOREM LastConfirmedHolds == RemoteSpec => []LastConfirmed
<1>1. RemoteInv => LastConfirmed
  <2> SUFFICES ASSUME RemoteInv, owner = Idle, NEW n \in Nodes
               PROVE  /\ remote[n].last = confirmed[n]
                      /\ GetRemoteNmtState(n) # confirmed[n]
                           => remote[n].timeout \/ confirmed[n] = UNAVAILABLE
                      /\ hb[n].occurred => GetRemoteNmtState(n) = "EBUSY"
                      /\ remote[n].timeout => \/ hb[n].occurred
                                              \/ hb[n].on /\ hb[n].st = BOOTUP
                                              \/ booting[n]
    BY DEF LastConfirmed
  <2>1. Resting(n)
    BY DEF Resting, Idle
  <2>2. QED
    BY <2>1 DEF RemoteInv, AtWord, WordShape, GetRemoteNmtState
<1>2. QED
  BY <1>1, RemoteInvHolds, PTL

\* A node told to reset stays closed to application SDOs until its Boot-up or
\* the end of its boot, and a node that booted unusable stays closed.
THEOREM GateClosedHolds == RemoteSpec => []GateClosed
<1>1. RemoteInv => GateClosed
  BY DEF RemoteInv, GateClosed, AtGate, Resting, Idle
<1>2. QED
  BY <1>1, RemoteInvHolds, PTL

\* Lely's boot of a node and the application's SDO request on it exclude each
\* other, except where the master resets itself over a lost mandatory node.
THEOREM BootExclusiveHolds == RemoteSpec => []BootExclusive
<1>1. RemoteInv => BootExclusive
  BY DEF RemoteInv, BootExclusive, AtBoot
<1>2. QED
  BY <1>1, RemoteInvHolds, PTL

\* boot_ind stores the state word before it publishes the result.
THEOREM StateBeforeResultHolds == RemoteSpec => StateBeforeResult
<1> DEFINE Published == \A n \in Nodes :
                          result'[n] # result[n] /\ result'[n].valid => ~behind[n]
<1>1. RemoteInv /\ [RemoteNext]_remoteVars => [Published]_remoteVars
  <2> SUFFICES ASSUME RemoteInv, RemoteNext, NEW n \in Nodes,
                      result'[n] # result[n], result'[n].valid
               PROVE  ~behind[n]
    OBVIOUS
  <2>1. CASE \E m \in Nodes : Invalidate(m)
    BY <2>1 DEF Invalidate, RemoteInv, RemoteValues, NoResult
  <2>2. CASE \E m \in Nodes : BootResult(m)
    BY <2>2 DEF BootResult, RemoteInv, RemoteValues, AtResult, In
  <2>3. CASE UNCHANGED result
    BY <2>3
  <2>4. QED
    BY <2>1, <2>2, <2>3
    DEF RemoteNext, words, RecvBootup, BeforeBoot, Chain, BootComplete, BootInd,
        OuterBootup, HeartbeatRecv, StateInd, HeartbeatTimeout, SdoStart, SdoFinish,
        DispatchNmt
<1>2. QED
  BY <1>1, RemoteInvHolds, PTL DEF RemoteSpec, StateBeforeResult

-----------------------------------------------------------------------------
(***************************************************************************)
(* Proofs about EmcyHistory for every number of readers and producers,     *)
(* every depth of the ring and every width of the two counters.            *)
(*                                                                         *)
(* The invariant says which event each slot holds, as a function of the    *)
(* numbers under which events are published, and what a reader in the      *)
(* middle of a scan knows: the event behind its candidate, that no newer   *)
(* one of the scan matches, and how far the guard of the slot has turned   *)
(* since it was loaded.                                                    *)
(***************************************************************************)
-----------------------------------------------------------------------------
(* The invariant                                                           *)

ResetPcs == {"reset_guard", "reset_sequence", "reset_fields", "down"}

\* The owner has stopped; latest is 0 until start().
Down == publisher \in ResetPcs

\* The last event announced.
Announced == IF publisher \in PublishPcs THEN Len(sent) - 1 ELSE Len(sent)

\* The slot of an event, and the slot between its odd and its even guard.
Place(m) == Slot(SeqNumber(m))
Open(i) == publisher \in PublishPcs \ {"latest"} /\ i = Place(Len(sent))

OwnerTypes ==
    /\ latest \in 0 .. SequenceMod - 1
    /\ guard \in [Slots -> Nat] /\ sequence \in [Slots -> Nat]
    /\ header \in [Slots -> Nat] /\ msef_lo \in [Slots -> Nat] /\ msef_hi \in [Slots -> Nat]
    /\ publisher \in PublishPcs \cup ResetPcs \cup {"run"}
    /\ base \in Nat /\ next \in Nat /\ reset \in Slots
    /\ sent \in Seq(Producers) /\ first \in 1 .. Len(sent) + 1

ScanTypes ==
    /\ rpc \in [Readers -> {"idle", "latest", "begin", "load", "end", "sleep", "done", "busy"}]
    /\ node_id \in [Readers -> Producers \cup {AnyNode}]
    /\ candidate \in [Readers -> Nat] /\ remaining \in [Readers -> 0 .. Depth - 1]
    /\ begin \in [Readers -> Nat] /\ got \in [Readers -> Seq(Nat)]
    /\ top \in [Readers -> Nat] /\ during \in [Readers -> Nat]

\* The numbers that are announced and published are those of the last events.
Numbers ==
    /\ publisher \in PublishPcs => first <= Len(sent) /\ next = SeqNumber(Len(sent))
    /\ latest = IF Down \/ Announced < first THEN 0 ELSE SeqNumber(Announced)

\* A guard is odd while its slot is open, and 0 only where nothing was published
\* or stop() has cleared it.
Guards ==
    /\ base % 2 = 0 /\ base <= GuardMod - 4
    /\ \A i \in Slots :
        /\ Open(i) => guard[i] = base + 1
        /\ ~Open(i) => guard[i] % 2 = 0 /\ guard[i] <= GuardMod - 2
        /\ i < reset /\ Down => guard[i] = 0
    /\ publisher \in {"reset_sequence", "reset_fields"} => guard[reset] = 0
    /\ publisher = "down" => \A i \in Slots : guard[i] = 0

\* Slot i holds the event e and all of it, and e is the last one of its place.
Holds(i, e) ==
    /\ e \in first .. Len(sent) /\ Place(e) = i
    /\ sequence[i] = SeqNumber(e) /\ header[i] = e /\ msef_lo[i] = e /\ msef_hi[i] = e
    /\ \A x \in e + 1 .. Len(sent) : Place(x) # i

\* What has been stored of the event that is being published.
Stored ==
    LET i == Place(Len(sent))
    IN  /\ publisher \in {"header", "msef_lo", "msef_hi", "guard"} => sequence[i] = next
        /\ publisher \in {"msef_lo", "msef_hi", "guard"} => header[i] = Len(sent)
        /\ publisher \in {"msef_hi", "guard"} => msef_lo[i] = Len(sent)
        /\ publisher = "guard" => msef_hi[i] = Len(sent)

Contents ==
    /\ Stored
    /\ \A i \in Slots :
        /\ ~Open(i) /\ guard[i] # 0 => Holds(i, header[i])
        /\ ~Down /\ guard[i] = 0 => \A x \in first .. Len(sent) : Place(x) # i

\* The even value that a guard has, or will have when the publication is over,
\* and where it is after d publications into the slot since it was b.
Mark(i) == IF Open(i) THEN base + 2 ELSE guard[i]
Turned(i, b, d) ==
    /\ Mark(i) \in 2 .. GuardMod - 2
    /\ Mark(i) = b + 2 * d \/ Mark(i) = b + 2 * d - (GuardMod - 2)

Field(i, j) == CASE j = 1 -> sequence[i] [] j = 2 -> header[i] [] j = 3 -> msef_lo[i]
                 [] j = 4 -> msef_hi[i]

Missed(r, m) == node_id[r] \notin {AnyNode, sent[m]}

\* The event that the candidate of reader r stands for.
Wanted(r) == top[r] - (Depth - 1 - remaining[r])

\* A scan looks at the events from top down, all of one epoch.
Scan(r) ==
    rpc[r] \in {"begin", "load", "end", "done"} =>
        /\ top[r] \in first .. Announced
        /\ candidate[r] = SeqNumber(top[r]) - (Depth - 1 - remaining[r]) /\ candidate[r] >= 1
        /\ Bounded(r) => \A m \in Wanted(r) + 1 .. top[r] : Missed(r, m)

\* The events received since the scan began.
Counted(r) ==
    rpc[r] \in {"begin", "load", "end", "done", "busy"} =>
        /\ top[r] \in first .. Announced
        /\ Len(sent) - top[r] <= during[r] + 1

\* The guard tells how often the slot was published into since it was loaded, and
\* when it was not, the fields loaded so far are the slot's.
Attempt(r) ==
    LET i == Slot(candidate[r])
    IN  rpc[r] \in {"load", "end"} =>
          /\ begin[r] % 2 = 0 /\ begin[r] \in 2 .. GuardMod - 2
          /\ IF rpc[r] = "load" THEN Len(got[r]) < 4 ELSE Len(got[r]) = 4
          /\ \/ Down /\ guard[i] = 0
             \/ \E d \in 0 .. during[r] :
                  \/ d >= GuardMod \div 2 - 1
                  \/ /\ Turned(i, begin[r], d)
                     /\ d = 0 => ~Open(i) /\ \A j \in 1 .. Len(got[r]) : got[r][j] = Field(i, j)

Verdict(r) ==
    Bounded(r) =>
        /\ rpc[r] = "done" =>
             /\ Len(got[r]) = 4 /\ got[r][1] = SeqNumber(Wanted(r))
             /\ \A j \in 2 .. 4 : got[r][j] = Wanted(r)
             /\ ~Missed(r, Wanted(r))
        /\ rpc[r] = "busy" => Down \/ \A m \in Retained(top[r]) : Missed(r, m)

Scans == \A r \in Readers : Scan(r) /\ Counted(r) /\ Attempt(r) /\ Verdict(r)

EmcyInv == OwnerTypes /\ ScanTypes /\ Numbers /\ Guards /\ Contents /\ Scans

-----------------------------------------------------------------------------
(* Numbers and places                                                      *)

LEMMA EmcyRange ==
    /\ Depth \in Nat /\ Depth >= 1
    /\ SequenceMod \in Nat /\ SequenceMod - 1 \in Nat /\ SequenceMod - 1 >= Depth + 1
    /\ GuardMod \in Nat /\ GuardMod % 2 = 0 /\ GuardMod >= 6
    /\ GuardMod \div 2 \in Nat /\ GuardMod = 2 * (GuardMod \div 2)
BY EmcyAssumption

\* Quotient and remainder.
LEMMA Division ==
    ASSUME NEW a \in Nat, NEW b \in Nat, b > 0
    PROVE  /\ a \div b \in Nat /\ a % b \in 0 .. b - 1
           /\ a = b * (a \div b) + (a % b)
OBVIOUS

LEMMA DivisionUnique ==
    ASSUME NEW a \in Nat, NEW b \in Nat, b > 0, NEW q \in Int, NEW m \in 0 .. b - 1,
           a = b * q + m
    PROVE  a \div b = q /\ a % b = m
OBVIOUS

LEMMA Multiple ==
    ASSUME NEW a \in Nat, NEW k \in Int, a * k > 0
    PROVE  a * k >= a
<1>1. CASE k <= 0
  BY <1>1
<1>2. CASE k >= 1
  <2>1. a * (k - 1) >= 0
    BY <1>2
  <2>2. a * k = a * (k - 1) + a
    OBVIOUS
  <2>3. QED
    BY <2>1, <2>2
<1>3. QED
  BY <1>1, <1>2

\* The quotient and remainder behind the number of event m.
LEMMA SeqSplit ==
    ASSUME first \in Nat, NEW m \in Nat, m >= first
    PROVE  \E q \in Nat : /\ SeqNumber(m) \in 1 .. SequenceMod - 1
                          /\ m - first = (SequenceMod - 1) * q + (SeqNumber(m) - 1)
<1> DEFINE a == m - first
<1> DEFINE b == SequenceMod - 1
<1>1. a \in Nat /\ b \in Nat /\ b > 0
  BY EmcyRange
<1>2. /\ a \div b \in Nat /\ a % b \in 0 .. b - 1
      /\ a = b * (a \div b) + (a % b)
  BY <1>1, Division
<1>3. SeqNumber(m) = (a % b) + 1
  BY DEF SeqNumber
<1> HIDE DEF a, b
<1>4. SeqNumber(m) \in 1 .. b /\ SeqNumber(m) - 1 = a % b
  BY <1>1, <1>2, <1>3
<1>5. QED
  BY <1>2, <1>4 DEF a, b

LEMMA SeqIs ==
    ASSUME first \in Nat, NEW m \in Nat, m >= first, NEW q \in Nat, NEW s \in 1 .. SequenceMod - 1,
           m - first = (SequenceMod - 1) * q + (s - 1)
    PROVE  SeqNumber(m) = s
<1> DEFINE a == m - first
<1> DEFINE b == SequenceMod - 1
<1>1. a \in Nat /\ b \in Nat /\ b > 0 /\ s - 1 \in 0 .. b - 1 /\ a = b * q + (s - 1)
  BY EmcyRange
<1>2. SeqNumber(m) = (a % b) + 1
  BY DEF SeqNumber
<1> HIDE DEF a, b
<1>3. a % b = s - 1
  BY <1>1, DivisionUnique
<1>4. QED
  BY <1>2, <1>3

\* The first event of a run has number 1, and each event the next number.
LEMMA SeqFirst ==
    ASSUME first \in Nat
    PROVE  SeqNumber(first) = 1
<1>1. first - first = (SequenceMod - 1) * 0 + (1 - 1) /\ 1 \in 1 .. SequenceMod - 1
  BY EmcyRange
<1>2. QED
  BY <1>1, SeqIs

LEMMA SeqNext ==
    ASSUME first \in Nat, NEW m \in Nat, m >= first
    PROVE  SeqNumber(m + 1) = IF SeqNumber(m) = SequenceMod - 1 THEN 1 ELSE SeqNumber(m) + 1
<1> DEFINE b == SequenceMod - 1
<1>1. PICK q \in Nat : SeqNumber(m) \in 1 .. b /\ m - first = b * q + (SeqNumber(m) - 1)
  BY SeqSplit
<1>2. b \in Nat /\ b >= 2
  BY EmcyRange
<1>3. CASE SeqNumber(m) = b
  <2>1. m + 1 - first = b * q + b
    BY <1>1, <1>2, <1>3
  <2>2. b * q + b = b * (q + 1) + (1 - 1)
    BY <1>1, <1>2
  <2>3. SeqNumber(m + 1) = 1
    BY <1>2, <2>1, <2>2, SeqIs
  <2>4. QED
    BY <1>3, <2>3
<1>4. CASE SeqNumber(m) # b
  <2>1. m + 1 - first = b * q + ((SeqNumber(m) + 1) - 1) /\ SeqNumber(m) + 1 \in 1 .. b
    <3> DEFINE c == b * q
    <3>1. c \in Nat
      BY <1>1, <1>2
    <3>2. m - first = c + (SeqNumber(m) - 1) /\ SeqNumber(m) \in 1 .. b
      BY <1>1
    <3> HIDE DEF c, b
    <3>3. m + 1 - first = c + ((SeqNumber(m) + 1) - 1) /\ SeqNumber(m) + 1 \in 1 .. b
      BY <1>2, <1>4, <3>1, <3>2
    <3>4. QED
      BY <3>3 DEF c
  <2>2. SeqNumber(m + 1) = SeqNumber(m) + 1
    BY <1>1, <2>1, SeqIs
  <2>3. QED
    BY <1>4, <2>2
<1>5. QED
  BY <1>3, <1>4

\* Within an epoch the events before m have the numbers before its own.
LEMMA SeqBack ==
    ASSUME first \in Nat, NEW m \in Nat, m >= first, NEW k \in Nat, SeqNumber(m) - k >= 1
    PROVE  m - k >= first /\ SeqNumber(m - k) = SeqNumber(m) - k
<1> DEFINE b == SequenceMod - 1
<1>1. PICK q \in Nat : SeqNumber(m) \in 1 .. b /\ m - first = b * q + (SeqNumber(m) - 1)
  BY SeqSplit
<1>2. b \in Nat /\ b >= 2 /\ b * q \in Nat
  BY EmcyRange
<1>3. m - k >= first /\ m - k \in Nat
  BY <1>1, <1>2
<1>4. m - k - first = b * q + ((SeqNumber(m) - k) - 1) /\ SeqNumber(m) - k \in 1 .. b
  BY <1>1, <1>2
<1>5. QED
  BY <1>3, <1>4, SeqIs

\* Two events with the same number are a whole epoch apart.
LEMMA SeqApart ==
    ASSUME first \in Nat, NEW e \in Nat, NEW m \in Nat, e >= first, m > e, SeqNumber(e) = SeqNumber(m)
    PROVE  m - e >= SequenceMod - 1
<1> DEFINE b == SequenceMod - 1
<1>1. PICK p \in Nat : SeqNumber(e) \in 1 .. b /\ e - first = b * p + (SeqNumber(e) - 1)
  BY SeqSplit
<1>2. PICK q \in Nat : SeqNumber(m) \in 1 .. b /\ m - first = b * q + (SeqNumber(m) - 1)
  BY SeqSplit
<1>3. b \in Nat
  BY EmcyRange
<1> HIDE DEF b
<1>4. m - e = b * q - b * p
  BY <1>1, <1>2, <1>3
<1>5. b * q - b * p = b * (q - p)
  BY <1>3
<1>6. b * (q - p) > 0
  BY <1>4, <1>5
<1>7. b * (q - p) >= b
  BY <1>3, <1>6, Multiple
<1>8. QED
  BY <1>4, <1>5, <1>7 DEF b

LEMMA SlotRange ==
    ASSUME NEW s \in Nat, s >= 1
    PROVE  Slot(s) \in Slots
<1>1. s - 1 \in Nat
  OBVIOUS
<1>2. (s - 1) % Depth \in 0 .. Depth - 1
  BY <1>1, EmcyRange, Division
<1>3. QED
  BY <1>2 DEF Slot, Slots

LEMMA PlaceRange ==
    ASSUME first \in Nat, NEW m \in Nat, m >= first
    PROVE  Place(m) \in Slots /\ SeqNumber(m) \in 1 .. SequenceMod - 1
<1>1. SeqNumber(m) \in 1 .. SequenceMod - 1
  BY SeqSplit
<1>2. QED
  BY <1>1, SlotRange DEF Place

\* The number that emcy_ind computes.
LEMMA NextNumber ==
    ASSUME OwnerTypes, Numbers, publisher = "run"
    PROVE  NextSequence = SeqNumber(Len(sent) + 1) /\ NextSequence \in 1 .. SequenceMod - 1
<1> DEFINE N == Len(sent)
<1>1. N \in Nat /\ first \in 1 .. N + 1 /\ latest \in 0 .. SequenceMod - 1 /\ first \in Nat
  BY DEF OwnerTypes
<1>2. latest = IF N < first THEN 0 ELSE SeqNumber(N)
  BY DEF Numbers, Down, Announced, PublishPcs, ResetPcs
<1> HIDE DEF N
<1>3. (latest + 1) % SequenceMod = 0 <=> latest = SequenceMod - 1
  BY <1>1, EmcyRange
<1>4. CASE N < first
  <2>1. first = N + 1 /\ latest = 0
    BY <1>1, <1>2, <1>4
  <2>2. NextSequence = 1
    BY <1>3, <2>1, EmcyRange DEF NextSequence
  <2>3. QED
    BY <1>1, <2>1, <2>2, SeqFirst, EmcyRange DEF N
<1>5. CASE N >= first
  <2>1. latest = SeqNumber(N)
    BY <1>1, <1>2, <1>5
  <2>2. SeqNumber(N + 1) = IF SeqNumber(N) = SequenceMod - 1 THEN 1 ELSE SeqNumber(N) + 1
    BY <1>1, <1>5, SeqNext
  <2>3. NextSequence = SeqNumber(N + 1)
    BY <1>3, <2>1, <2>2 DEF NextSequence
  <2>4. N + 1 \in Nat /\ N + 1 >= first
    BY <1>1, <1>5
  <2>5. QED
    BY <1>1, <2>3, <2>4, PlaceRange DEF N
<1>6. QED
  BY <1>1, <1>4, <1>5

-----------------------------------------------------------------------------
(* The owner                                                               *)

OwnerInv == OwnerTypes /\ Numbers /\ Guards /\ Contents

\* Where a publication begins.
LEMMA IndBegins ==
    ASSUME OwnerInv, NEW n \in Producers, EmcyInd(n)
    PROVE  /\ sent' = Append(sent, n) /\ Len(sent') = Len(sent) + 1 /\ Len(sent) \in Nat
           /\ \A m \in 1 .. Len(sent) : sent'[m] = sent[m]
           /\ first' = first /\ first \in Nat /\ first <= Len(sent')
           /\ next' = SeqNumber(Len(sent')) /\ \A m : SeqNumber(m)' = SeqNumber(m) /\ Place(m)' = Place(m)
           /\ Place(Len(sent')) = Slot(NextSequence) /\ Place(Len(sent')) \in Slots
           /\ \A i \in Slots : ~Open(i) /\ (Open(i)' <=> i = Place(Len(sent')))
           /\ ~Down /\ ~Down' /\ Announced = Len(sent) /\ Announced' = Len(sent)
<1>1. publisher = "run" /\ publisher' = "sequence" /\ first' = first
  BY DEF EmcyInd, OwnerGoto
<1>2. sent \in Seq(Producers) /\ sent' = Append(sent, n) /\ next' = NextSequence
  BY DEF EmcyInd, OwnerInv, OwnerTypes
<1>3. /\ Len(sent) \in Nat /\ Len(sent') = Len(sent) + 1
      /\ \A m \in 1 .. Len(sent) : sent'[m] = sent[m]
  BY <1>2
<1>4. first \in 1 .. Len(sent) + 1 /\ first \in Nat /\ first <= Len(sent')
  BY <1>3 DEF OwnerInv, OwnerTypes
<1>5. \A m : SeqNumber(m)' = SeqNumber(m) /\ Place(m)' = Place(m)
  BY <1>1 DEF SeqNumber, Place
<1>6. next' = SeqNumber(Len(sent')) /\ NextSequence = SeqNumber(Len(sent'))
  BY <1>1, <1>2, <1>3, NextNumber DEF OwnerInv
<1>7. Place(Len(sent')) = Slot(NextSequence) /\ Place(Len(sent')) \in Slots
  BY <1>3, <1>4, <1>6, PlaceRange DEF Place
<1>8. \A i \in Slots : ~Open(i) /\ (Open(i)' <=> i = Place(Len(sent')))
  BY <1>1, <1>5 DEF Open, PublishPcs
<1>9. ~Down /\ ~Down' /\ Announced = Len(sent) /\ Announced' = Len(sent)
  BY <1>1, <1>3 DEF Down, ResetPcs, Announced, PublishPcs
<1>10. QED
  BY <1>1, <1>2, <1>3, <1>4, <1>5, <1>6, <1>7, <1>8, <1>9

LEMMA Successor == \A b \in Nat : b + 1 \in Nat /\ b + 1 # 0
OBVIOUS

LEMMA IndGuard ==
    ASSUME OwnerInv, NEW n \in Producers, EmcyInd(n)
    PROVE  LET i == Place(Len(sent'))
           IN  /\ base' \in Nat /\ base' % 2 = 0 /\ base' <= GuardMod - 4
               /\ base' = IF guard[i] = GuardMod - 2 THEN 0 ELSE guard[i]
               /\ guard[i] \in Nat /\ guard[i] % 2 = 0 /\ guard[i] <= GuardMod - 2
               /\ guard' = [guard EXCEPT ![i] = base' + 1]
               /\ base' + 1 \in Nat /\ base' + 1 # 0
<1> DEFINE i == Place(Len(sent'))
<1>1. i = Slot(NextSequence) /\ i \in Slots /\ ~Open(i)
  BY IndBegins
<1>2. guard[i] \in Nat /\ guard[i] % 2 = 0 /\ guard[i] <= GuardMod - 2
  BY <1>1 DEF OwnerInv, OwnerTypes, Guards
<1>3. base' = IF guard[i] > GuardMod - 4 THEN 0 ELSE guard[i]
  BY <1>1, <1>2 DEF EmcyInd
<1>4. guard' = [guard EXCEPT ![i] = base' + 1]
  BY <1>1 DEF EmcyInd
<1> HIDE DEF i
<1>5. guard[i] > GuardMod - 4 <=> guard[i] = GuardMod - 2
  BY <1>2, EmcyRange
<1>6. base' \in Nat /\ base' % 2 = 0 /\ base' <= GuardMod - 4
  BY <1>2, <1>3, EmcyRange
<1>7. base' + 1 \in Nat /\ base' + 1 # 0
  BY <1>6, Successor
<1>8. QED
  BY <1>2, <1>3, <1>4, <1>5, <1>6, <1>7 DEF i

LEMMA IndOwner ==
    ASSUME OwnerInv, NEW n \in Producers, EmcyInd(n)
    PROVE  OwnerInv'
<1> DEFINE p == Place(Len(sent'))
<1>1. /\ sent' = Append(sent, n) /\ Len(sent') = Len(sent) + 1 /\ Len(sent) \in Nat
      /\ first' = first /\ first \in Nat /\ first <= Len(sent')
      /\ next' = SeqNumber(Len(sent')) /\ \A m : SeqNumber(m)' = SeqNumber(m) /\ Place(m)' = Place(m)
      /\ p \in Slots
      /\ \A i \in Slots : ~Open(i) /\ (Open(i)' <=> i = p)
      /\ ~Down /\ ~Down' /\ Announced = Len(sent) /\ Announced' = Len(sent)
  BY IndBegins
<1>2. /\ base' \in Nat /\ base' % 2 = 0 /\ base' <= GuardMod - 4
      /\ guard' = [guard EXCEPT ![p] = base' + 1]
      /\ base' + 1 \in Nat /\ base' + 1 # 0
  BY IndGuard
<1>3. /\ publisher' = "sequence" /\ publisher = "run"
      /\ UNCHANGED <<latest, sequence, header, msef_lo, msef_hi, reset>>
  BY DEF EmcyInd, OwnerGoto
<1>4. OwnerTypes'
  <2>1. sent' \in Seq(Producers)
    BY <1>1 DEF OwnerInv, OwnerTypes
  <2>2. next' \in Nat
    <3>1. SeqNumber(Len(sent')) \in 1 .. SequenceMod - 1
      BY <1>1, PlaceRange
    <3>2. QED
      BY <1>1, <3>1
  <2>3. guard' \in [Slots -> Nat]
    <3>1. base' + 1 \in Nat /\ p \in Slots /\ guard \in [Slots -> Nat]
      BY <1>1, <1>2 DEF OwnerInv, OwnerTypes
    <3> HIDE DEF p
    <3>2. QED
      BY <1>2, <3>1
  <2>4. first' \in 1 .. Len(sent') + 1
    BY <1>1 DEF OwnerInv, OwnerTypes
  <2>5. QED
    BY <1>2, <1>3, <2>1, <2>2, <2>3, <2>4 DEF OwnerInv, OwnerTypes, PublishPcs
<1>5. Numbers'
  <2>1. latest = IF Announced < first THEN 0 ELSE SeqNumber(Announced)
    BY <1>1 DEF OwnerInv, Numbers
  <2>2. SeqNumber(Announced)' = SeqNumber(Announced) /\ SeqNumber(Len(sent))' = SeqNumber(Len(sent'))
    BY <1>1 DEF SeqNumber
  <2>3. latest' = IF Announced' < first' THEN 0 ELSE SeqNumber(Announced)'
    BY <1>1, <1>3, <2>1, <2>2
  <2>4. first' <= Len(sent') /\ next' = SeqNumber(Len(sent))'
    BY <1>1, <2>2
  <2>5. QED
    BY <1>1, <2>3, <2>4 DEF Numbers
<1>6. Guards'
  <2>1. guard \in [Slots -> Nat] /\ guard'[p] = base' + 1
          /\ \A i \in Slots : i # p => guard'[i] = guard[i]
    BY <1>1, <1>2 DEF OwnerInv, OwnerTypes
  <2>2. \A i \in Slots : i # p => guard'[i] % 2 = 0 /\ guard'[i] <= GuardMod - 2
    BY <1>1, <2>1 DEF OwnerInv, Guards
  <2>3. QED
    BY <1>1, <1>2, <1>3, <2>1, <2>2 DEF Guards
<1>7. Contents'
  <2>1. Stored'
    BY <1>3 DEF Stored
  <2>2. ASSUME NEW i \in Slots
        PROVE  /\ ~Open(i)' /\ guard'[i] # 0 => Holds(i, header[i])'
               /\ guard'[i] = 0 => \A x \in first .. Len(sent') : Place(x) # i
    <3>1. CASE i = p
      <4>1. guard'[i] # 0
        <5>1. guard \in [Slots -> Nat]
          BY DEF OwnerInv, OwnerTypes
        <5> HIDE DEF p
        <5>2. guard'[i] = base' + 1
          BY <1>2, <3>1, <5>1
        <5>3. QED
          BY <1>2, <5>2
      <4>2. QED
        BY <1>1, <3>1, <4>1
    <3>2. CASE i # p
      <4>1. guard'[i] = guard[i] /\ ~Open(i)
        BY <1>1, <1>2, <3>2 DEF OwnerInv, OwnerTypes
      <4>2. \A x : x \in first .. Len(sent') => x \in first .. Len(sent) \/ x = Len(sent')
        BY <1>1
      <4>3. CASE guard[i] # 0
        <5> DEFINE e == header[i]
        <5>1. Holds(i, e)
          BY <4>1, <4>3 DEF OwnerInv, Contents
        <5>2. e \in first .. Len(sent) /\ e \in first' .. Len(sent')
          BY <1>1, <5>1 DEF Holds
        <5>3. \A x \in e + 1 .. Len(sent') : Place(x) # i
          <6> TAKE x \in e + 1 .. Len(sent')
          <6>1. x \in e + 1 .. Len(sent) \/ x = Len(sent')
            BY <1>1, <5>2
          <6>2. QED
            BY <3>2, <5>1, <6>1 DEF Holds
        <5>4. Holds(i, e)'
          BY <1>1, <1>3, <5>1, <5>2, <5>3 DEF Holds
        <5>5. QED
          BY <1>3, <4>1, <4>3, <5>4
      <4>4. CASE guard[i] = 0
        <5>1. \A x \in first .. Len(sent) : Place(x) # i
          BY <1>1, <4>4 DEF OwnerInv, Contents
        <5>2. QED
          BY <3>2, <4>1, <4>2, <4>4, <5>1
      <4>5. QED
        BY <4>3, <4>4
    <3>3. QED
      BY <3>1, <3>2
  <2>3. \A x : x \in first' .. Len(sent') => Place(x)' = Place(x)
    BY <1>1
  <2>4. QED
    BY <1>1, <2>1, <2>2, <2>3 DEF Contents
<1>8. QED
  BY <1>4, <1>5, <1>6, <1>7 DEF OwnerInv

\* Numbers and places depend on the events and on the first of the run.
LEMMA SameNumbers ==
    ASSUME UNCHANGED first
    PROVE  \A m : SeqNumber(m)' = SeqNumber(m) /\ Place(m)' = Place(m)
BY DEF SeqNumber, Place

LEMMA Publishing ==
    ASSUME OwnerInv, publisher \in PublishPcs
    PROVE  /\ Len(sent) \in Nat /\ first \in Nat /\ first <= Len(sent)
           /\ next = SeqNumber(Len(sent)) /\ next \in 1 .. SequenceMod - 1
           /\ Slot(next) = Place(Len(sent)) /\ Place(Len(sent)) \in Slots
<1>1. Len(sent) \in Nat /\ first \in Nat
  BY DEF OwnerInv, OwnerTypes
<1>2. first <= Len(sent) /\ next = SeqNumber(Len(sent))
  BY DEF OwnerInv, Numbers
<1>3. QED
  BY <1>1, <1>2, PlaceRange DEF Place

\* The stores between the two guards change the open slot only.
LEMMA FieldStep ==
    ASSUME OwnerInv, OwnerTypes', Stored',
           publisher \in {"sequence", "header", "msef_lo", "msef_hi"},
           publisher' \in {"header", "msef_lo", "msef_hi", "guard"},
           UNCHANGED <<latest, guard, base, next, reset, sent, first>>,
           \A i \in Slots : i # Place(Len(sent)) =>
               UNCHANGED <<sequence[i], header[i], msef_lo[i], msef_hi[i]>>
    PROVE  OwnerInv'
<1>1. \A m : SeqNumber(m)' = SeqNumber(m) /\ Place(m)' = Place(m)
  BY SameNumbers
<1>2. /\ ~Down /\ ~Down' /\ Announced' = Announced
      /\ publisher \in PublishPcs /\ publisher' \in PublishPcs
  BY DEF Down, ResetPcs, Announced, PublishPcs
<1>3. \A i \in Slots : (Open(i)' <=> Open(i)) /\ (Open(i) <=> i = Place(Len(sent)))
  BY <1>1 DEF Open, PublishPcs
<1>4. Numbers'
  <2>1. SeqNumber(Announced)' = SeqNumber(Announced) /\ SeqNumber(Len(sent))' = SeqNumber(Len(sent))
    BY <1>2 DEF SeqNumber
  <2>2. QED
    BY <1>2, <2>1 DEF OwnerInv, Numbers
<1>5. Guards'
  BY <1>2, <1>3 DEF OwnerInv, Guards
<1>6. Contents'
  <2>1. ASSUME NEW i \in Slots
        PROVE  /\ ~Open(i)' /\ guard'[i] # 0 => Holds(i, header[i])'
               /\ guard'[i] = 0 => \A x \in first' .. Len(sent') : Place(x)' # i
    <3>1. ASSUME ~Open(i)', guard'[i] # 0 PROVE Holds(i, header[i])'
      <4>1. Holds(i, header[i]) /\ i # Place(Len(sent))
        BY <1>3, <3>1 DEF OwnerInv, Contents
      <4>2. UNCHANGED <<sequence[i], header[i], msef_lo[i], msef_hi[i]>>
        BY <4>1
      <4>3. QED
        BY <1>1, <4>1, <4>2 DEF Holds
    <3>2. ASSUME guard'[i] = 0 PROVE \A x \in first' .. Len(sent') : Place(x)' # i
      BY <1>1, <1>2, <3>2 DEF OwnerInv, Contents
    <3>3. QED
      BY <3>1, <3>2
  <2>2. QED
    BY <1>2, <2>1 DEF Contents
<1>7. QED
  BY <1>4, <1>5, <1>6 DEF OwnerInv

LEMMA StoresOwner ==
    ASSUME OwnerInv, StoreSequence \/ StoreHeader \/ StoreMsefLo \/ StoreMsefHi
    PROVE  OwnerInv'
<1> DEFINE p == Place(Len(sent))
<1>1. UNCHANGED <<latest, guard, base, next, reset, sent, first>>
  BY DEF StoreSequence, StoreHeader, StoreMsefLo, StoreMsefHi
<1>2. publisher \in PublishPcs
  BY DEF StoreSequence, StoreHeader, StoreMsefLo, StoreMsefHi, OwnerGoto, PublishPcs
<1>3. /\ Slot(next) = p /\ p \in Slots /\ next \in Nat /\ Len(sent) \in Nat
  BY <1>2, Publishing
<1>4. Place(Len(sent))' = p
  BY <1>1 DEF Place, SeqNumber
<1>5. /\ sequence \in [Slots -> Nat] /\ header \in [Slots -> Nat]
      /\ msef_lo \in [Slots -> Nat] /\ msef_hi \in [Slots -> Nat]
  BY DEF OwnerInv, OwnerTypes
<1> HIDE DEF p
<1>6. CASE StoreSequence
  <2>1. /\ publisher = "sequence" /\ publisher' = "header"
        /\ sequence' = [sequence EXCEPT ![p] = next]
        /\ UNCHANGED <<header, msef_lo, msef_hi>>
    BY <1>3, <1>6 DEF StoreSequence, OwnerGoto
  <2>2. sequence' \in [Slots -> Nat] /\ sequence'[p] = next
          /\ \A i \in Slots : i # p => sequence'[i] = sequence[i]
    BY <1>3, <1>5, <2>1
  <2>3. OwnerTypes' 
    BY <1>1, <1>2, <2>1, <2>2 DEF OwnerInv, OwnerTypes, PublishPcs
  <2>4. Stored'
    BY <1>1, <1>4, <2>1, <2>2 DEF Stored
  <2>5. QED
    BY <1>1, <2>1, <2>2, <2>3, <2>4, FieldStep DEF p
<1>7. CASE StoreHeader
  <2>1. /\ publisher = "header" /\ publisher' = "msef_lo"
        /\ header' = [header EXCEPT ![p] = Len(sent)]
        /\ UNCHANGED <<sequence, msef_lo, msef_hi>>
    BY <1>3, <1>7 DEF StoreHeader, OwnerGoto
  <2>2. header' \in [Slots -> Nat] /\ header'[p] = Len(sent)
          /\ \A i \in Slots : i # p => header'[i] = header[i]
    BY <1>3, <1>5, <2>1
  <2>3. OwnerTypes'
    BY <1>1, <1>2, <2>1, <2>2 DEF OwnerInv, OwnerTypes, PublishPcs
  <2>4. sequence[p] = next
    BY <2>1 DEF OwnerInv, Contents, Stored, p
  <2>5. Stored'
    BY <1>1, <1>4, <2>1, <2>2, <2>4 DEF Stored
  <2>6. QED
    BY <1>1, <2>1, <2>2, <2>3, <2>5, FieldStep DEF p
<1>8. CASE StoreMsefLo
  <2>1. /\ publisher = "msef_lo" /\ publisher' = "msef_hi"
        /\ msef_lo' = [msef_lo EXCEPT ![p] = Len(sent)]
        /\ UNCHANGED <<sequence, header, msef_hi>>
    BY <1>3, <1>8 DEF StoreMsefLo, OwnerGoto
  <2>2. msef_lo' \in [Slots -> Nat] /\ msef_lo'[p] = Len(sent)
          /\ \A i \in Slots : i # p => msef_lo'[i] = msef_lo[i]
    BY <1>3, <1>5, <2>1
  <2>3. OwnerTypes'
    BY <1>1, <1>2, <2>1, <2>2 DEF OwnerInv, OwnerTypes, PublishPcs
  <2>4. sequence[p] = next /\ header[p] = Len(sent)
    BY <2>1 DEF OwnerInv, Contents, Stored, p
  <2>5. Stored'
    BY <1>1, <1>4, <2>1, <2>2, <2>4 DEF Stored
  <2>6. QED
    BY <1>1, <2>1, <2>2, <2>3, <2>5, FieldStep DEF p
<1>9. CASE StoreMsefHi
  <2>1. /\ publisher = "msef_hi" /\ publisher' = "guard"
        /\ msef_hi' = [msef_hi EXCEPT ![p] = Len(sent)]
        /\ UNCHANGED <<sequence, header, msef_lo>>
    BY <1>3, <1>9 DEF StoreMsefHi, OwnerGoto
  <2>2. msef_hi' \in [Slots -> Nat] /\ msef_hi'[p] = Len(sent)
          /\ \A i \in Slots : i # p => msef_hi'[i] = msef_hi[i]
    BY <1>3, <1>5, <2>1
  <2>3. OwnerTypes'
    BY <1>1, <1>2, <2>1, <2>2 DEF OwnerInv, OwnerTypes, PublishPcs
  <2>4. sequence[p] = next /\ header[p] = Len(sent) /\ msef_lo[p] = Len(sent)
    BY <2>1 DEF OwnerInv, Contents, Stored, p
  <2>5. Stored'
    BY <1>1, <1>4, <2>1, <2>2, <2>4 DEF Stored
  <2>6. QED
    BY <1>1, <2>1, <2>2, <2>3, <2>5, FieldStep DEF p
<1>10. QED
  BY <1>6, <1>7, <1>8, <1>9

LEMMA StoreGuardOwner ==
    ASSUME OwnerInv, StoreGuard
    PROVE  /\ OwnerInv'
           /\ \A i \in Slots : Mark(i)' = Mark(i) /\ ~Open(i)'
<1> DEFINE p == Place(Len(sent))
<1>1. /\ publisher = "guard" /\ publisher' = "latest"
      /\ UNCHANGED <<latest, sequence, header, msef_lo, msef_hi, base, next, reset, sent, first>>
  BY DEF StoreGuard, OwnerGoto
<1>2. /\ Slot(next) = p /\ p \in Slots /\ Len(sent) \in Nat /\ first \in Nat
      /\ first <= Len(sent) /\ next = SeqNumber(Len(sent))
  BY <1>1, Publishing DEF PublishPcs
<1>3. \A m : SeqNumber(m)' = SeqNumber(m) /\ Place(m)' = Place(m)
  BY <1>1, SameNumbers
<1>4. ~Down /\ ~Down' /\ Announced' = Announced
  BY <1>1 DEF Down, ResetPcs, Announced, PublishPcs
<1>5. \A i \in Slots : ~Open(i)' /\ (Open(i) <=> i = p)
  BY <1>1 DEF Open, PublishPcs
<1>6. /\ base \in Nat /\ base % 2 = 0 /\ base <= GuardMod - 4
      /\ guard \in [Slots -> Nat]
  BY DEF OwnerInv, OwnerTypes, Guards
<1>7. base + 2 \in Nat /\ (base + 2) % 2 = 0 /\ base + 2 <= GuardMod - 2 /\ base + 2 # 0
  BY <1>6, EmcyRange
<1>8. guard' = [guard EXCEPT ![p] = base + 2]
  BY <1>2 DEF StoreGuard
<1>9. guard' \in [Slots -> Nat] /\ guard'[p] = base + 2
        /\ \A i \in Slots : i # p => guard'[i] = guard[i]
  <2> HIDE DEF p
  <2>1. QED
    BY <1>2, <1>6, <1>7, <1>8
<1>10. OwnerTypes'
  BY <1>1, <1>9 DEF OwnerInv, OwnerTypes, PublishPcs
<1>11. Numbers'
  <2>1. SeqNumber(Announced)' = SeqNumber(Announced) /\ SeqNumber(Len(sent))' = SeqNumber(Len(sent))
    BY <1>1, <1>4 DEF SeqNumber
  <2>2. QED
    BY <1>1, <1>2, <1>4, <2>1 DEF OwnerInv, Numbers
<1>12. Guards'
  BY <1>1, <1>4, <1>5, <1>6, <1>7, <1>9 DEF OwnerInv, Guards
<1>13. Contents'
  <2>1. Stored'
    BY <1>1 DEF Stored
  <2>2. ASSUME NEW i \in Slots
        PROVE  /\ guard'[i] # 0 => Holds(i, header[i])'
               /\ guard'[i] = 0 => \A x \in first' .. Len(sent') : Place(x)' # i
    <3>1. CASE i = p
      <4>1. /\ sequence[i] = next /\ header[i] = Len(sent) /\ msef_lo[i] = Len(sent)
            /\ msef_hi[i] = Len(sent)
        BY <1>1, <3>1 DEF OwnerInv, Contents, Stored
      <4>2. Len(sent) \in first .. Len(sent) /\ \A x : x \notin Len(sent) + 1 .. Len(sent)
        BY <1>2
      <4>3. Holds(i, header[i])'
        BY <1>1, <1>2, <1>3, <3>1, <4>1, <4>2 DEF Holds
      <4>4. guard'[i] # 0
        BY <1>7, <1>9, <3>1
      <4>5. QED
        BY <4>3, <4>4
    <3>2. CASE i # p
      <4>1. guard'[i] = guard[i] /\ ~Open(i)
        BY <1>5, <1>9, <3>2
      <4>2. ASSUME guard'[i] # 0 PROVE Holds(i, header[i])'
        <5>1. Holds(i, header[i])
          BY <4>1, <4>2 DEF OwnerInv, Contents
        <5>2. QED
          BY <1>1, <1>3, <5>1 DEF Holds
      <4>3. ASSUME guard'[i] = 0 PROVE \A x \in first' .. Len(sent') : Place(x)' # i
        BY <1>1, <1>3, <1>4, <4>1, <4>3 DEF OwnerInv, Contents
      <4>4. QED
        BY <4>2, <4>3
    <3>3. QED
      BY <3>1, <3>2
  <2>3. QED
    BY <1>5, <2>1, <2>2 DEF Contents
<1>14. QED
  BY <1>5, <1>9, <1>10, <1>11, <1>12, <1>13 DEF OwnerInv, Mark

\* A step that leaves the slots alone while none of them is open.
LEMMA SameSlots ==
    ASSUME OwnerInv, UNCHANGED <<slotVars, sent, first>>,
           publisher \in {"latest", "run"}, publisher' \in {"run", "reset_guard"}
    PROVE  Contents' /\ \A i \in Slots : ~Open(i) /\ ~Open(i)'
<1>1. \A m : SeqNumber(m)' = SeqNumber(m) /\ Place(m)' = Place(m)
  BY SameNumbers
<1>2. \A i \in Slots : ~Open(i) /\ ~Open(i)'
  BY DEF Open, PublishPcs
<1>3. ~Down
  BY DEF Down, ResetPcs
<1>4. Stored'
  BY DEF Stored
<1>5. ASSUME NEW i \in Slots
      PROVE  /\ guard'[i] # 0 => Holds(i, header[i])'
             /\ guard'[i] = 0 => \A x \in first' .. Len(sent') : Place(x)' # i
  <2>1. guard'[i] # 0 => Holds(i, header[i])
    BY <1>2 DEF OwnerInv, Contents, slotVars
  <2>2. Holds(i, header[i]) => Holds(i, header[i])'
    BY <1>1 DEF Holds, slotVars
  <2>3. ASSUME guard'[i] = 0 PROVE \A x \in first' .. Len(sent') : Place(x)' # i
    BY <1>1, <1>3, <2>3 DEF OwnerInv, Contents, slotVars
  <2>4. QED
    BY <2>1, <2>2, <2>3
<1>6. QED
  BY <1>2, <1>4, <1>5 DEF Contents

LEMMA StoreLatestOwner ==
    ASSUME OwnerInv, StoreLatest
    PROVE  OwnerInv'
<1>1. /\ publisher = "latest" /\ publisher' = "run" /\ latest' = next
      /\ UNCHANGED <<slotVars, base, next, reset, sent, first>>
  BY DEF StoreLatest, OwnerGoto
<1>2. /\ Len(sent) \in Nat /\ first \in Nat /\ first <= Len(sent)
      /\ next = SeqNumber(Len(sent)) /\ next \in 1 .. SequenceMod - 1
  BY <1>1, Publishing DEF PublishPcs
<1>3. Contents' /\ \A i \in Slots : ~Open(i) /\ ~Open(i)'
  BY <1>1, SameSlots
<1>4. ~Down' /\ ~Down /\ Announced' = Len(sent)
  BY <1>1 DEF Down, ResetPcs, Announced, PublishPcs
<1>5. Numbers'
  <2>1. SeqNumber(Announced)' = next
    BY <1>1, <1>2, <1>4 DEF SeqNumber
  <2>2. QED
    BY <1>1, <1>2, <1>4, <2>1 DEF Numbers, PublishPcs
<1>6. OwnerTypes'
  BY <1>1, <1>2, EmcyRange DEF OwnerInv, OwnerTypes, slotVars
<1>7. Guards'
  BY <1>1, <1>3, <1>4 DEF OwnerInv, Guards, slotVars
<1>8. QED
  BY <1>3, <1>5, <1>6, <1>7 DEF OwnerInv

LEMMA ResetLatestOwner ==
    ASSUME OwnerInv, ResetLatest
    PROVE  OwnerInv'
<1>1. /\ publisher = "run" /\ publisher' = "reset_guard" /\ latest' = 0 /\ reset' = 0
      /\ UNCHANGED <<slotVars, base, next, sent, first>>
  BY DEF ResetLatest, OwnerGoto
<1>2. Contents' /\ \A i \in Slots : ~Open(i) /\ ~Open(i)'
  BY <1>1, SameSlots
<1>3. Down' /\ ~Down
  BY <1>1 DEF Down, ResetPcs
<1>4. Numbers'
  BY <1>1, <1>3 DEF Numbers, PublishPcs
<1>5. OwnerTypes'
  <2>1. 0 \in Slots /\ 0 \in 0 .. SequenceMod - 1
    BY EmcyRange DEF Slots
  <2>2. QED
    BY <1>1, <2>1 DEF OwnerInv, OwnerTypes, slotVars, ResetPcs
<1>6. \A i \in Slots : ~(i < reset')
  BY <1>1, EmcyRange DEF Slots
<1>7. Guards'
  BY <1>1, <1>2, <1>3, <1>6 DEF OwnerInv, Guards, slotVars
<1>8. QED
  BY <1>2, <1>4, <1>5, <1>7 DEF OwnerInv

\* emcy_reset invalidates a slot before it clears its fields.
LEMMA ResetSlotOwner ==
    ASSUME OwnerInv, ResetGuard \/ ResetSequence \/ ResetFields
    PROVE  /\ OwnerInv' /\ Down /\ Down'
           /\ \A i \in Slots :
                /\ ~Open(i) /\ ~Open(i)'
                /\ guard[i] = 0 => guard'[i] = 0
                /\ \/ guard'[i] = 0
                   \/ UNCHANGED <<guard[i], sequence[i], header[i], msef_lo[i], msef_hi[i]>>
<1> DEFINE k == reset
<1>1. /\ latest \in 0 .. SequenceMod - 1 /\ k \in Slots /\ guard \in [Slots -> Nat]
      /\ sequence \in [Slots -> Nat] /\ header \in [Slots -> Nat]
      /\ msef_lo \in [Slots -> Nat] /\ msef_hi \in [Slots -> Nat]
  BY DEF OwnerInv, OwnerTypes
<1>2. UNCHANGED <<latest, base, next, sent, first>>
  BY DEF ResetGuard, ResetSequence, ResetFields
<1>3. Down /\ Down' /\ publisher' \in ResetPcs
  BY DEF ResetGuard, ResetSequence, ResetFields, OwnerGoto, Down, ResetPcs
<1>4. \A i \in Slots : ~Open(i) /\ ~Open(i)'
  BY <1>3 DEF Open, Down, ResetPcs, PublishPcs
<1>5. ASSUME NEW i \in Slots, i # k
      PROVE  UNCHANGED <<guard[i], sequence[i], header[i], msef_lo[i], msef_hi[i]>>
  BY <1>1, <1>5 DEF ResetGuard, ResetSequence, ResetFields
<1>6. guard'[k] = 0 /\ guard' \in [Slots -> Nat]
  <2>1. CASE ResetGuard
    BY <1>1, <2>1 DEF ResetGuard
  <2>2. CASE ResetSequence
    BY <1>1, <2>2 DEF ResetSequence, OwnerGoto, OwnerInv, Guards
  <2>3. CASE ResetFields
    BY <1>1, <2>3 DEF ResetFields, OwnerGoto, OwnerInv, Guards
  <2>4. QED
    BY <2>1, <2>2, <2>3
<1>7. OwnerTypes' /\ \A i \in Slots : i < reset' => i <= k
  <2>1. /\ sequence' \in [Slots -> Nat] /\ header' \in [Slots -> Nat]
        /\ msef_lo' \in [Slots -> Nat] /\ msef_hi' \in [Slots -> Nat]
    BY <1>1 DEF ResetGuard, ResetSequence, ResetFields
  <2>2. reset' \in Slots /\ \A i \in Slots : i < reset' => i <= k
    <3>1. reset' = reset \/ reset' = IF reset = Depth - 1 THEN 0 ELSE reset + 1
      BY DEF ResetGuard, ResetSequence, ResetFields
    <3>2. Depth \in Nat /\ k \in Nat /\ 0 <= k /\ k <= Depth - 1
      BY <1>1, EmcyRange DEF Slots
    <3>3. reset' \in Nat /\ reset' <= Depth - 1 /\ reset' <= k + 1
      BY <3>1, <3>2
    <3>4. QED
      BY <3>2, <3>3 DEF Slots
  <2>3. QED
    BY <1>2, <1>3, <1>6, <2>1, <2>2 DEF OwnerInv, OwnerTypes
<1>8. Numbers'
  BY <1>2, <1>3 DEF OwnerInv, Numbers, ResetPcs, PublishPcs
<1>9. Guards'
  <2>1. \A i \in Slots : guard'[i] % 2 = 0 /\ guard'[i] <= GuardMod - 2
    <3> TAKE i \in Slots
    <3>1. CASE i = k
      BY <1>6, <3>1, EmcyRange
    <3>2. CASE i # k
      BY <1>4, <1>5, <3>2 DEF OwnerInv, Guards
    <3>3. QED
      BY <3>1, <3>2
  <2>2. \A i \in Slots : i < reset' => guard'[i] = 0
    <3> TAKE i \in Slots
    <3>1. CASE i = k
      BY <1>6, <3>1
    <3>2. CASE i # k
      <4>1. i < reset' => i < k
        BY <1>1, <1>7, <3>2 DEF Slots
      <4>2. QED
        BY <1>3, <1>5, <3>2, <4>1 DEF OwnerInv, Guards
    <3>3. QED
      BY <3>1, <3>2
  <2>3. publisher' \in {"reset_sequence", "reset_fields"} => guard'[reset'] = 0
    BY <1>6 DEF ResetGuard, ResetSequence, ResetFields, OwnerGoto
  <2>4. publisher' = "down" => \A i \in Slots : guard'[i] = 0
    <3> HAVE publisher' = "down"
    <3>1. k = Depth - 1
      BY DEF ResetGuard, ResetSequence, ResetFields, OwnerGoto
    <3> TAKE i \in Slots
    <3>2. CASE i = k
      BY <1>6, <3>2
    <3>3. CASE i # k
      <4>1. i < k
        BY <3>1, <3>3, EmcyRange DEF Slots
      <4>2. QED
        BY <1>3, <1>5, <3>3, <4>1 DEF OwnerInv, Guards
    <3>4. QED
      BY <3>2, <3>3
  <2>5. QED
    BY <1>2, <1>4, <2>1, <2>2, <2>3, <2>4 DEF OwnerInv, Guards
<1>10. Contents'
  <2>1. Stored'
    BY <1>3 DEF Stored, ResetPcs
  <2>2. \A m : SeqNumber(m)' = SeqNumber(m) /\ Place(m)' = Place(m)
    BY <1>2, SameNumbers
  <2>3. ASSUME NEW i \in Slots, guard'[i] # 0 PROVE Holds(i, header[i])'
    <3>1. UNCHANGED <<guard[i], sequence[i], header[i], msef_lo[i], msef_hi[i]>>
      BY <1>5, <1>6, <2>3
    <3>2. Holds(i, header[i])
      BY <1>4, <2>3, <3>1 DEF OwnerInv, Contents
    <3>3. QED
      BY <1>2, <2>2, <3>1, <3>2 DEF Holds
  <2>4. QED
    BY <1>3, <2>1, <2>3 DEF Contents
<1>11. \A i \in Slots : /\ guard[i] = 0 => guard'[i] = 0
                        /\ \/ guard'[i] = 0
                           \/ UNCHANGED <<guard[i], sequence[i], header[i], msef_lo[i], msef_hi[i]>>
  BY <1>5, <1>6
<1>12. QED
  BY <1>3, <1>4, <1>7, <1>8, <1>9, <1>10, <1>11 DEF OwnerInv

LEMMA RestartOwner ==
    ASSUME OwnerInv, Restart
    PROVE  OwnerInv'
<1>1. /\ publisher = "down" /\ publisher' = "run" /\ first' = Len(sent) + 1
      /\ UNCHANGED <<latest, slotVars, base, next, reset, sent>>
  BY DEF Restart
<1>2. Down /\ ~Down' /\ Announced' = Len(sent) /\ Len(sent) \in Nat
  BY <1>1 DEF Down, ResetPcs, Announced, PublishPcs, OwnerInv, OwnerTypes
<1>3. \A i \in Slots : ~Open(i) /\ ~Open(i)' /\ guard'[i] = 0
  BY <1>1 DEF Open, PublishPcs, OwnerInv, Guards, slotVars
<1>4. OwnerTypes'
  BY <1>1, <1>2 DEF OwnerInv, OwnerTypes, slotVars
<1>5. Numbers'
  BY <1>1, <1>2 DEF OwnerInv, Numbers, PublishPcs
<1>6. Guards'
  BY <1>1, <1>2, <1>3 DEF OwnerInv, Guards, slotVars
<1>7. Contents'
  <2>1. \A x : x \notin first' .. Len(sent')
    BY <1>1, <1>2
  <2>2. Stored'
    BY <1>1 DEF Stored
  <2>3. QED
    BY <1>3, <2>1, <2>2 DEF Contents
<1>8. QED
  BY <1>4, <1>5, <1>6, <1>7 DEF OwnerInv

-----------------------------------------------------------------------------
(* The owner and the scans in progress                                     *)

\* The event behind the candidate is one of this run, in the candidate's slot.
LEMMA Candidate ==
    ASSUME OwnerTypes, ScanTypes, NEW r \in Readers, Scan(r),
           rpc[r] \in {"begin", "load", "end", "done"}
    PROVE  /\ Wanted(r) \in first .. top[r] /\ top[r] \in first .. Len(sent)
           /\ SeqNumber(Wanted(r)) = candidate[r] /\ candidate[r] \in 1 .. SequenceMod - 1
           /\ Place(Wanted(r)) = Slot(candidate[r]) /\ Slot(candidate[r]) \in Slots
           /\ top[r] - Wanted(r) <= Depth - 1
<1> DEFINE k == Depth - 1 - remaining[r]
<1> DEFINE m == top[r]
<1>1. /\ first \in Nat /\ first >= 1 /\ Len(sent) \in Nat /\ Announced <= Len(sent)
      /\ Announced \in Int
  BY DEF OwnerTypes, Announced
<1>2. k \in Nat /\ k <= Depth - 1
  <2>1. remaining[r] \in 0 .. Depth - 1
    BY DEF ScanTypes
  <2>2. QED
    BY <2>1, EmcyRange
<1>3. /\ m \in first .. Announced /\ candidate[r] = SeqNumber(m) - k /\ candidate[r] >= 1
      /\ m \in Nat /\ m >= first /\ m \in first .. Len(sent)
  BY <1>1 DEF Scan
<1>4. SeqNumber(m) \in 1 .. SequenceMod - 1
  BY <1>1, <1>3, PlaceRange
<1>5. Wanted(r) = m - k
  BY DEF Wanted
<1> HIDE DEF k, m
<1>6. m - k >= first /\ SeqNumber(m - k) = SeqNumber(m) - k
  BY <1>1, <1>2, <1>3, SeqBack
<1>7. m - k \in first .. m /\ m - (m - k) <= Depth - 1 /\ m - k \in Nat
  BY <1>1, <1>2, <1>3, <1>6, EmcyRange
<1>8. candidate[r] \in 1 .. SequenceMod - 1
  BY <1>2, <1>3, <1>4, EmcyRange
<1>9. Place(m - k) = Slot(candidate[r]) /\ Place(m - k) \in Slots
  BY <1>1, <1>3, <1>6, <1>7, PlaceRange DEF Place
<1>10. QED
  BY <1>3, <1>5, <1>6, <1>7, <1>8, <1>9 DEF m

\* What a step of the owner, other than the begin of a publication, may do to the
\* slots: invalidate one that stop() clears, or keep its mark and, if it is not
\* open, its fields.
SlotStep(i) ==
    /\ Down /\ guard[i] = 0 => guard'[i] = 0
    /\ \/ Down' /\ guard'[i] = 0
       \/ /\ Mark(i)' = Mark(i)
          /\ ~Open(i) => ~Open(i)' /\ UNCHANGED <<sequence[i], header[i], msef_lo[i], msef_hi[i]>>

LEMMA ScansKept ==
    ASSUME EmcyInv, OwnerTypes', UNCHANGED <<readerVars, during, sent, first>>,
           Announced <= Announced', Down => Down', \A i \in Slots : SlotStep(i)
    PROVE  Scans' /\ ScanTypes'
<1>1. ScanTypes'
  BY DEF EmcyInv, ScanTypes, readerVars
<1>2. \A m : SeqNumber(m)' = SeqNumber(m) /\ Place(m)' = Place(m) /\ Retained(m)' = Retained(m)
  BY DEF SeqNumber, Place, Retained
<1>3. Announced \in Int /\ Announced' \in Int /\ first \in Nat
  BY DEF Announced, EmcyInv, OwnerTypes
<1>4. ASSUME NEW r \in Readers
      PROVE  (Scan(r) /\ Counted(r) /\ Attempt(r) /\ Verdict(r))'
  <2>1. Scan(r) /\ Counted(r) /\ Attempt(r) /\ Verdict(r)
    BY DEF EmcyInv, Scans
  <2>2. /\ UNCHANGED <<rpc[r], node_id[r], candidate[r], remaining[r], begin[r], got[r], top[r]>>
        /\ UNCHANGED <<during[r], Bounded(r), Wanted(r)>> /\ \A m : Missed(r, m)' = Missed(r, m)
    BY DEF readerVars, Bounded, Wanted, Missed
  <2>3. top[r] \in first .. Announced => top[r] \in first' .. Announced'
    BY <1>3
  <2>4. Scan(r)'
    <3>1. SeqNumber(top[r])' = SeqNumber(top[r])
      BY <1>2, <2>2 DEF SeqNumber
    <3>2. QED
      BY <2>1, <2>2, <2>3, <3>1 DEF Scan
  <2>5. Counted(r)'
    BY <2>1, <2>2, <2>3 DEF Counted
  <2>6. Attempt(r)'
    <3> DEFINE i == Slot(candidate[r])
    <3>1. ASSUME rpc[r] \in {"load", "end"}
          PROVE  \/ Down' /\ guard'[i] = 0
                 \/ \E d \in 0 .. during[r] :
                      \/ d >= GuardMod \div 2 - 1
                      \/ /\ Turned(i, begin[r], d)'
                         /\ d = 0 => ~Open(i)' /\ \A j \in 1 .. Len(got[r]) : got[r][j] = Field(i, j)'
      <4>1. i \in Slots
        BY <2>1, <3>1, Candidate DEF EmcyInv
      <4>2. SlotStep(i)
        BY <4>1
      <4>3. CASE Down /\ guard[i] = 0
        BY <4>2, <4>3 DEF SlotStep
      <4>4. ASSUME NEW d \in 0 .. during[r],
                   \/ d >= GuardMod \div 2 - 1
                   \/ /\ Turned(i, begin[r], d)
                      /\ d = 0 => ~Open(i) /\ \A j \in 1 .. Len(got[r]) : got[r][j] = Field(i, j),
                   Mark(i)' = Mark(i),
                   ~Open(i) => ~Open(i)' /\ UNCHANGED <<sequence[i], header[i], msef_lo[i], msef_hi[i]>>
            PROVE  \/ d >= GuardMod \div 2 - 1
                   \/ /\ Turned(i, begin[r], d)'
                      /\ d = 0 => ~Open(i)' /\ \A j \in 1 .. Len(got[r]) : got[r][j] = Field(i, j)'
        <5>1. Turned(i, begin[r], d) => Turned(i, begin[r], d)'
          BY <2>2, <4>4 DEF Turned
        <5>2. ~Open(i) => \A j : Field(i, j)' = Field(i, j)
          BY <2>2, <4>4 DEF Field
        <5>3. QED
          BY <4>4, <5>1, <5>2
      <4>5. QED
        BY <2>1, <3>1, <4>2, <4>3, <4>4 DEF Attempt, SlotStep
    <3>2. QED
      BY <2>1, <2>2, <3>1 DEF Attempt
  <2>7. Verdict(r)'
    <3>1. SeqNumber(Wanted(r))' = SeqNumber(Wanted(r)) /\ Retained(top[r])' = Retained(top[r])
      BY <2>2 DEF SeqNumber, Retained
    <3>2. Missed(r, Wanted(r))' = Missed(r, Wanted(r))
      BY <2>2 DEF Missed
    <3>3. QED
      BY <2>1, <2>2, <3>1, <3>2 DEF Verdict
  <2>8. QED
    BY <2>4, <2>5, <2>6, <2>7
<1>5. QED
  BY <1>1, <1>4 DEF Scans

LEMMA OwnerPart ==
    /\ EmcyInv <=> OwnerInv /\ ScanTypes /\ Scans
    /\ EmcyInv' <=> (OwnerInv /\ ScanTypes /\ Scans)'
BY DEF EmcyInv, OwnerInv

LEMMA WorkingKeeps ==
    ASSUME EmcyInv, Working \/ ResetLatest
    PROVE  EmcyInv'
<1>1. OwnerInv /\ OwnerTypes
  BY OwnerPart DEF EmcyInv
<1>2. UNCHANGED <<readerVars, during, sent, first>>
  BY DEF Working, StoreSequence, StoreHeader, StoreMsefLo, StoreMsefHi, StoreGuard,
         StoreLatest, ResetGuard, ResetSequence, ResetFields, ResetLatest
<1>3. CASE StoreSequence \/ StoreHeader \/ StoreMsefLo \/ StoreMsefHi
  <2>1. OwnerInv'
    BY <1>1, <1>3, StoresOwner
  <2>2. /\ publisher \in PublishPcs \ {"guard", "latest"} /\ publisher' \in PublishPcs \ {"latest"}
        /\ UNCHANGED <<guard, base, next>>
    BY <1>3 DEF StoreSequence, StoreHeader, StoreMsefLo, StoreMsefHi, OwnerGoto, PublishPcs
  <2>3. ~Down /\ Announced' = Announced /\ Announced \in Int
    BY <1>1, <1>2, <2>2 DEF Down, ResetPcs, Announced, PublishPcs, OwnerTypes
  <2>4. Slot(next) = Place(Len(sent)) /\ Slot(next) \in Slots
    BY <1>1, <2>2, Publishing
  <2>5. ASSUME NEW i \in Slots
        PROVE  /\ Open(i)' = Open(i) /\ Mark(i)' = Mark(i)
               /\ ~Open(i) => UNCHANGED <<sequence[i], header[i], msef_lo[i], msef_hi[i]>>
    <3>1. Place(Len(sent))' = Place(Len(sent))
      BY <1>2 DEF Place, SeqNumber
    <3>2. Open(i)' = Open(i) /\ (Open(i) <=> i = Slot(next))
      BY <2>2, <2>4, <3>1 DEF Open, PublishPcs
    <3>3. Mark(i)' = Mark(i)
      BY <2>2, <3>2 DEF Mark
    <3>4. ASSUME i # Slot(next)
          PROVE  UNCHANGED <<sequence[i], header[i], msef_lo[i], msef_hi[i]>>
      BY <1>1, <1>3, <2>4, <3>4
         DEF StoreSequence, StoreHeader, StoreMsefLo, StoreMsefHi, OwnerTypes
    <3>5. QED
      BY <3>2, <3>3, <3>4
  <2>6. \A i \in Slots : SlotStep(i)
    BY <2>3, <2>5 DEF SlotStep
  <2>7. Announced <= Announced' /\ (Down => Down')
    BY <2>3
  <2>8. QED
    BY <1>2, <2>1, <2>6, <2>7, ScansKept, OwnerPart DEF OwnerInv
<1>4. CASE StoreGuard
  <2>1. OwnerInv' /\ \A i \in Slots : Mark(i)' = Mark(i) /\ ~Open(i)'
    BY <1>1, <1>4, StoreGuardOwner
  <2>2. /\ publisher = "guard" /\ publisher' = "latest"
        /\ UNCHANGED <<sequence, header, msef_lo, msef_hi>>
    BY <1>4 DEF StoreGuard, OwnerGoto
  <2>3. ~Down /\ Announced' = Announced /\ Announced \in Int
    BY <1>1, <1>2, <2>2 DEF Down, ResetPcs, Announced, PublishPcs, OwnerTypes
  <2>4. \A i \in Slots : SlotStep(i)
    BY <2>1, <2>2, <2>3 DEF SlotStep
  <2>5. Announced <= Announced' /\ (Down => Down')
    BY <2>3
  <2>6. QED
    BY <1>2, <2>1, <2>4, <2>5, ScansKept, OwnerPart DEF OwnerInv
<1>5. CASE StoreLatest \/ ResetLatest
  <2>1. OwnerInv'
    BY <1>1, <1>5, StoreLatestOwner, ResetLatestOwner
  <2>2. /\ publisher \in {"latest", "run"} /\ publisher' \in {"run", "reset_guard"}
        /\ UNCHANGED slotVars
    BY <1>5 DEF StoreLatest, ResetLatest, OwnerGoto
  <2>3. \A i \in Slots : ~Open(i) /\ ~Open(i)'
    BY <1>1, <1>2, <2>2, SameSlots
  <2>4. ~Down /\ Announced <= Announced'
    BY <1>1, <1>2, <2>2 DEF Down, ResetPcs, Announced, PublishPcs, OwnerTypes
  <2>5. \A i \in Slots : SlotStep(i)
    BY <2>2, <2>3, <2>4 DEF SlotStep, Mark, slotVars
  <2>6. QED
    BY <1>2, <2>1, <2>4, <2>5, ScansKept, OwnerPart DEF OwnerInv
<1>6. CASE ResetGuard \/ ResetSequence \/ ResetFields
  <2>1. /\ OwnerInv' /\ Down /\ Down'
        /\ \A i \in Slots :
             /\ ~Open(i) /\ ~Open(i)'
             /\ guard[i] = 0 => guard'[i] = 0
             /\ \/ guard'[i] = 0
                \/ UNCHANGED <<guard[i], sequence[i], header[i], msef_lo[i], msef_hi[i]>>
    BY <1>1, <1>6, ResetSlotOwner
  <2>2. Announced' = Announced /\ Announced \in Int
    BY <1>1, <1>2, <2>1 DEF Down, ResetPcs, Announced, PublishPcs, OwnerTypes
  <2>3. \A i \in Slots : SlotStep(i)
    BY <2>1 DEF SlotStep, Mark
  <2>4. Announced <= Announced'
    BY <2>2
  <2>5. QED
    BY <1>2, <2>1, <2>3, <2>4, ScansKept, OwnerPart DEF OwnerInv
<1>7. QED
  BY <1>3, <1>4, <1>5, <1>6 DEF Working

LEMMA RestartKeeps ==
    ASSUME EmcyInv, Restart
    PROVE  EmcyInv'
<1>1. OwnerInv'
  BY RestartOwner, OwnerPart
<1>2. UNCHANGED <<readerVars, during>> /\ \A r \in Readers : rpc[r] = "idle"
  BY DEF Restart
<1>3. ScanTypes'
  BY <1>2 DEF EmcyInv, ScanTypes, readerVars
<1>4. Scans'
  BY <1>2 DEF Scans, Scan, Counted, Attempt, Verdict, readerVars
<1>5. QED
  BY <1>1, <1>3, <1>4, OwnerPart

\* A publication into the slot of an attempt moves its mark on by 2, or back to 2.
LEMMA TurnedOnce ==
    ASSUME NEW b \in 2 .. GuardMod - 2, NEW d \in Nat, d < GuardMod \div 2 - 1,
           NEW mark \in 2 .. GuardMod - 2, NEW turned,
           mark = b + 2 * d \/ mark = b + 2 * d - (GuardMod - 2),
           turned = (IF mark = GuardMod - 2 THEN 0 ELSE mark) + 2, mark <= GuardMod - 2,
           mark = GuardMod - 2 \/ mark <= GuardMod - 4
    PROVE  /\ turned \in 2 .. GuardMod - 2
           /\ turned = b + 2 * (d + 1) \/ turned = b + 2 * (d + 1) - (GuardMod - 2)
<1>1. b + 2 * d < 2 * (GuardMod - 2)
  BY EmcyRange
<1>2. CASE mark = GuardMod - 2
  BY <1>1, <1>2, EmcyRange
<1>3. CASE mark # GuardMod - 2
  BY <1>3, EmcyRange
<1>4. QED
  BY <1>2, <1>3

LEMMA IndKeeps ==
    ASSUME EmcyInv, NEW n \in Producers, EmcyInd(n)
    PROVE  EmcyInv'
<1> DEFINE p == Place(Len(sent'))
<1>1. OwnerInv /\ OwnerInv' /\ OwnerTypes /\ OwnerTypes'
  BY IndOwner, OwnerPart DEF OwnerInv
<1>2. /\ Len(sent') = Len(sent) + 1 /\ Len(sent) \in Nat
      /\ \A m \in 1 .. Len(sent) : sent'[m] = sent[m]
      /\ first' = first /\ first \in Nat
      /\ \A m : SeqNumber(m)' = SeqNumber(m) /\ Place(m)' = Place(m)
      /\ p \in Slots
      /\ \A i \in Slots : ~Open(i) /\ (Open(i)' <=> i = p)
      /\ ~Down /\ ~Down' /\ Announced = Len(sent) /\ Announced' = Len(sent)
  BY <1>1, IndBegins
<1>3. /\ base' = IF guard[p] = GuardMod - 2 THEN 0 ELSE guard[p]
      /\ base' \in Nat /\ base' <= GuardMod - 4
      /\ guard[p] \in Nat /\ guard[p] % 2 = 0 /\ guard[p] <= GuardMod - 2
      /\ guard' = [guard EXCEPT ![p] = base' + 1]
  BY <1>1, IndGuard
<1>4. /\ UNCHANGED <<sequence, header, msef_lo, msef_hi, readerVars>>
      /\ during' = [r \in Readers |-> IF rpc[r] = "idle" THEN 0 ELSE during[r] + 1]
  BY DEF EmcyInd
<1>5. ScanTypes /\ first >= 1 /\ guard \in [Slots -> Nat]
  BY <1>1 DEF EmcyInv, OwnerTypes
<1>6. ScanTypes'
  <2>1. during \in [Readers -> Nat]
    BY <1>5 DEF ScanTypes
  <2>2. during' \in [Readers -> Nat]
    BY <1>4, <2>1
  <2>3. QED
    BY <1>4, <1>5, <2>2 DEF ScanTypes, readerVars
<1> HIDE DEF p
<1>7. \A k \in Slots : k # p =>
        /\ ~Open(k) /\ ~Open(k)' /\ Mark(k)' = Mark(k)
        /\ \A j : Field(k, j)' = Field(k, j)
  <2> TAKE k \in Slots
  <2> HAVE k # p
  <2>1. ~Open(k) /\ ~Open(k)' /\ guard'[k] = guard[k]
    BY <1>2, <1>3, <1>5
  <2>2. QED
    BY <1>4, <2>1 DEF Mark, Field
<1>8. \A k \in Slots : k = p => Mark(k) = guard[k] /\ Mark(k)' = base' + 2
  BY <1>2 DEF Mark
<1>9. ASSUME NEW r \in Readers
      PROVE  (Scan(r) /\ Counted(r) /\ Attempt(r) /\ Verdict(r))'
  <2>1. Scan(r) /\ Counted(r) /\ Attempt(r) /\ Verdict(r)
    BY DEF EmcyInv, Scans
  <2>2. /\ UNCHANGED <<rpc[r], node_id[r], candidate[r], remaining[r], begin[r], got[r], top[r]>>
        /\ Wanted(r)' = Wanted(r)
    BY <1>4 DEF readerVars, Wanted
  <2>3. CASE rpc[r] = "idle"
    BY <2>2, <2>3 DEF Scan, Counted, Attempt, Verdict
  <2>4. CASE rpc[r] # "idle"
    <3>1. during'[r] = during[r] + 1 /\ during[r] \in Nat /\ top[r] \in Nat
      BY <1>4, <1>5, <2>4 DEF ScanTypes
    <3>2. Bounded(r)' => Bounded(r)
      BY <3>1, EmcyRange DEF Bounded
    <3>3. \A m \in first .. Len(sent) : Missed(r, m)' = Missed(r, m)
      BY <1>2, <1>5, <2>2, SMTT(60) DEF Missed
    <3>4. Scan(r)'
      <4>1. ASSUME rpc[r] \in {"begin", "load", "end", "done"}
            PROVE  /\ Wanted(r) \in first .. top[r] /\ top[r] \in first .. Len(sent)
        BY <1>1, <1>5, <2>1, <4>1, Candidate
      <4>2. SeqNumber(top[r])' = SeqNumber(top[r])
        BY <1>2, <2>2 DEF SeqNumber
      <4>3. ASSUME rpc[r] \in {"begin", "load", "end", "done"}, Bounded(r)'
            PROVE  \A m \in Wanted(r) + 1 .. top[r] : Missed(r, m)'
        <5> TAKE m \in Wanted(r) + 1 .. top[r]
        <5>1. Missed(r, m)
          BY <2>1, <3>2, <4>3 DEF Scan
        <5>2. m \in first .. Len(sent)
          BY <1>2, <4>1, <4>3
        <5>3. QED
          BY <3>3, <5>1, <5>2
      <4>4. QED
        BY <1>2, <2>1, <2>2, <4>2, <4>3 DEF Scan
    <3>5. Counted(r)'
      BY <1>2, <2>1, <2>2, <3>1 DEF Counted
    <3>6. Attempt(r)'
      <4> DEFINE i == Slot(candidate[r])
      <4>1. ASSUME rpc[r] \in {"load", "end"}
            PROVE  \E d \in 0 .. during'[r] :
                      \/ d >= GuardMod \div 2 - 1
                      \/ /\ Turned(i, begin[r], d)'
                         /\ d = 0 => ~Open(i)' /\ \A j \in 1 .. Len(got[r]) : got[r][j] = Field(i, j)'
        <5>1. i \in Slots
          BY <1>1, <1>5, <2>1, <4>1, Candidate
        <5>2. PICK d \in 0 .. during[r] :
                 \/ d >= GuardMod \div 2 - 1
                 \/ /\ Turned(i, begin[r], d)
                    /\ d = 0 => ~Open(i) /\ \A j \in 1 .. Len(got[r]) : got[r][j] = Field(i, j)
          BY <1>2, <2>1, <4>1 DEF Attempt
        <5>3. d \in 0 .. during'[r] /\ d + 1 \in 0 .. during'[r] /\ d \in Nat
          BY <3>1
        <5>4. CASE d >= GuardMod \div 2 - 1
          BY <5>3, <5>4
        <5>5. CASE d < GuardMod \div 2 - 1 /\ i # p
          <6>1. ~Open(i) /\ ~Open(i)'
            BY <1>7, <2>2, <5>1, <5>5
          <6>2. Mark(i)' = Mark(i) /\ \A j : Field(i, j)' = Field(i, j)
            BY <1>7, <2>2, <5>1, <5>5
          <6>3. Turned(i, begin[r], d)'
            BY <2>2, <5>2, <5>5, <6>2, <5>3, EmcyRange DEF Turned
          <6>4. QED
            BY <5>2, <5>3, <5>5, <6>1, <6>2, <6>3, EmcyRange
        <5>6. CASE d < GuardMod \div 2 - 1 /\ i = p
          <6>1. Mark(i) = guard[p] /\ Mark(i)' = base' + 2
            BY <1>8, <2>2, <5>1, <5>6
          <6>2. Turned(i, begin[r], d)
            BY <5>2, <5>3, <5>6, EmcyRange, SMTT(60)
          <6>3. begin[r] \in 2 .. GuardMod - 2
            BY <2>1, <4>1 DEF Attempt
          <6>4. guard[p] = GuardMod - 2 \/ guard[p] <= GuardMod - 4
            BY <1>3, EmcyRange
          <6>5. guard[p] \in 2 .. GuardMod - 2
                  /\ (guard[p] = begin[r] + 2 * d \/ guard[p] = begin[r] + 2 * d - (GuardMod - 2))
            BY <6>1, <6>2 DEF Turned
          <6>6. Mark(i)' = (IF guard[p] = GuardMod - 2 THEN 0 ELSE guard[p]) + 2
            BY <1>3, <6>1
          <6>7. Turned(i, begin[r], d + 1)'
            BY <1>3, <2>2, <5>3, <5>6, <6>3, <6>4, <6>5, <6>6, TurnedOnce DEF Turned
          <6>8. d + 1 # 0
            BY <5>3
          <6>9. QED
            BY <5>3, <6>7, <6>8
        <5>7. QED
          BY <5>3, <5>4, <5>5, <5>6, EmcyRange
      <4>2. QED
        BY <2>1, <2>2, <4>1 DEF Attempt
    <3>7. Verdict(r)'
      <4>1. SeqNumber(Wanted(r))' = SeqNumber(Wanted(r))
        BY <1>2, <2>2 DEF SeqNumber
      <4>2. ASSUME Bounded(r)', rpc[r] = "done"
            PROVE  ~Missed(r, Wanted(r))'
        <5>1. Wanted(r) \in first .. top[r] /\ top[r] \in first .. Len(sent)
          BY <1>1, <1>5, <2>1, <4>2, Candidate
        <5>2. Wanted(r) \in first .. Len(sent)
          BY <1>2, <5>1
        <5>3. Missed(r, Wanted(r))' = Missed(r, Wanted(r))
          BY <2>2, <3>3, <5>2 DEF Missed
        <5>4. QED
          BY <2>1, <3>2, <4>2, <5>3 DEF Verdict
      <4>3. ASSUME Bounded(r)', rpc[r] = "busy", NEW m \in Retained(top[r])
            PROVE  Missed(r, m)'
        <5>1. Missed(r, m)
          BY <1>2, <2>1, <3>2, <4>3 DEF Verdict
        <5>2. top[r] \in first .. Len(sent) /\ m \in 1 .. top[r]
          BY <1>2, <2>1, <4>3 DEF Counted, Retained
        <5>3. m \in 1 .. Len(sent)
          BY <1>2, <5>2
        <5>4. QED
          BY <1>2, <2>2, <5>1, <5>3 DEF Missed
      <4>4. Retained(top[r])' = Retained(top[r])
        BY <1>2, <2>2 DEF Retained, SeqNumber
      <4>5. QED
        BY <2>1, <2>2, <3>2, <4>1, <4>2, <4>3, <4>4 DEF Verdict
    <3>8. QED
      BY <3>4, <3>5, <3>6, <3>7
  <2>5. QED
    BY <2>3, <2>4
<1>10. QED
  BY <1>1, <1>6, <1>9, OwnerPart DEF Scans

-----------------------------------------------------------------------------
(* The readers                                                             *)

\* A step of reader r that leaves the owner and the other readers alone.
ReaderStep(r) ==
    /\ UNCHANGED ownerVars
    /\ \A q \in Readers \ {r} : UNCHANGED <<rpc[q], node_id[q], candidate[q], remaining[q],
                                           begin[q], got[q], top[q], during[q]>>

LEMMA ReaderSteps ==
    ASSUME ScanTypes, NEW r \in Readers,
           (\E n \in Producers \cup {AnyNode} : GetEmcy(r, n)) \/ Reading(r)
    PROVE  ReaderStep(r)
<1>1. CASE \E n \in Producers \cup {AnyNode} : GetEmcy(r, n)
  BY <1>1 DEF GetEmcy, ReaderGoto, ReaderStep, ScanTypes
<1>2. CASE LoadLatest(r)
  BY <1>2 DEF LoadLatest, ReaderGoto, ReaderStep, ScanTypes
<1>3. CASE LoadBegin(r)
  BY <1>3 DEF LoadBegin, ReaderGoto, ReaderStep, ScanTypes
<1>4. CASE LoadField(r)
  BY <1>4 DEF LoadField, ReaderGoto, ReaderStep, ScanTypes
<1>5. CASE LoadEnd(r)
  BY <1>5 DEF LoadEnd, Accept, ReaderGoto, ReaderStep, ScanTypes
<1>6. CASE Wake(r)
  BY <1>6 DEF Wake, ReaderGoto, ReaderStep, ScanTypes
<1>7. CASE Return(r)
  BY <1>7 DEF Return, ReaderGoto, ReaderStep, ScanTypes
<1>8. QED
  BY <1>1, <1>2, <1>3, <1>4, <1>5, <1>6, <1>7 DEF Reading

LEMMA SameOwner ==
    ASSUME UNCHANGED ownerVars
    PROVE  /\ OwnerInv' = OwnerInv /\ Down' = Down /\ Announced' = Announced
           /\ \A m : SeqNumber(m)' = SeqNumber(m) /\ Place(m)' = Place(m) /\ Retained(m)' = Retained(m)
           /\ \A i : Open(i)' = Open(i) /\ Mark(i)' = Mark(i)
           /\ \A i, j : Field(i, j)' = Field(i, j)
           /\ \A i, b, d : Turned(i, b, d)' = Turned(i, b, d)
<1>1. \A m : SeqNumber(m)' = SeqNumber(m) /\ Place(m)' = Place(m)
  BY DEF SeqNumber, Place, ownerVars
<1>2. \A m : Retained(m)' = Retained(m)
  BY DEF Retained, SeqNumber, ownerVars
<1>3. Down' = Down /\ Announced' = Announced
  BY DEF Down, Announced, ownerVars
<1>4. \A i : Open(i)' = Open(i)
  BY <1>1 DEF Open, ownerVars, Place, SeqNumber
<1>5. \A i : Mark(i)' = Mark(i)
  BY <1>4 DEF Mark, ownerVars, slotVars
<1>6. \A i, j : Field(i, j)' = Field(i, j)
  BY DEF Field, ownerVars, slotVars
<1>7. \A i, b, d : Turned(i, b, d)' = Turned(i, b, d)
  BY <1>5 DEF Turned
<1>8. OwnerInv' = OwnerInv
  <2>1. OwnerTypes' = OwnerTypes
    BY DEF OwnerTypes, ownerVars, slotVars
  <2>2. Numbers' = Numbers
    BY <1>3 DEF Numbers, SeqNumber, ownerVars, slotVars
  <2>3. Guards' = Guards
    BY <1>3, <1>4 DEF Guards, ownerVars, slotVars
  <2>4. Stored' = Stored
    BY DEF Stored, Place, SeqNumber, ownerVars, slotVars
  <2>5. \A i, e : Holds(i, e)' = Holds(i, e)
    BY DEF Holds, Place, SeqNumber, ownerVars, slotVars
  <2>6. Contents' = Contents
    <3>1. \A i : Holds(i, header[i])' = Holds(i, header[i])
      BY DEF Holds, Place, SeqNumber, ownerVars, slotVars
    <3>2. (guard' = guard) /\ (first' = first) /\ (sent' = sent)
      BY DEF ownerVars, slotVars
    <3>3. QED
      BY <1>1, <1>3, <1>4, <2>4, <3>1, <3>2 DEF Contents
  <2>7. QED
    BY <2>1, <2>2, <2>3, <2>6 DEF OwnerInv
<1>9. QED
  BY <1>1, <1>2, <1>3, <1>4, <1>5, <1>6, <1>7, <1>8

LEMMA ReaderFrame ==
    ASSUME EmcyInv, NEW r \in Readers, ReaderStep(r), ScanTypes',
           (Scan(r) /\ Counted(r) /\ Attempt(r) /\ Verdict(r))'
    PROVE  EmcyInv'
<1>1. /\ UNCHANGED ownerVars /\ sent' = sent /\ guard' = guard /\ first' = first
      /\ OwnerInv'
  BY SameOwner, OwnerPart DEF ReaderStep, ownerVars, slotVars
<1>2. ASSUME NEW q \in Readers, q # r
      PROVE  (Scan(q) /\ Counted(q) /\ Attempt(q) /\ Verdict(q))'
  <2>1. Scan(q) /\ Counted(q) /\ Attempt(q) /\ Verdict(q)
    BY DEF EmcyInv, Scans
  <2>2. UNCHANGED <<rpc[q], node_id[q], candidate[q], remaining[q], begin[q], got[q],
                    top[q], during[q]>>
    BY <1>2 DEF ReaderStep
  <2>3. UNCHANGED <<Bounded(q), Wanted(q)>> /\ \A m : Missed(q, m)' = Missed(q, m)
    BY <1>1, <2>2 DEF Bounded, Wanted, Missed
  <2>4. /\ SeqNumber(top[q])' = SeqNumber(top[q]) /\ SeqNumber(Wanted(q))' = SeqNumber(Wanted(q))
        /\ Retained(top[q])' = Retained(top[q]) /\ Missed(q, Wanted(q))' = Missed(q, Wanted(q))
    BY <1>1, <2>2, <2>3 DEF SeqNumber, Retained, Missed
  <2>5. Down' = Down /\ Announced' = Announced
    BY <1>1, SameOwner
  <2>6. Scan(q)' /\ Counted(q)'
    BY <1>1, <2>1, <2>2, <2>3, <2>4, <2>5 DEF Scan, Counted
  <2>7. Attempt(q)'
    <3> DEFINE i == Slot(candidate[q])
    <3>1. \A j : Field(i, j)' = Field(i, j)
      BY <1>1, <2>2 DEF Field, ownerVars, slotVars
    <3>2. Open(i)' = Open(i) /\ Mark(i)' = Mark(i)
      BY <1>1, <2>2, SameOwner
    <3>3. \A d : Turned(i, begin[q], d)' = Turned(i, begin[q], d)
      BY <2>2, <3>2 DEF Turned
    <3>4. QED
      BY <1>1, <2>1, <2>2, <2>5, <3>1, <3>2, <3>3 DEF Attempt
  <2>8. Verdict(q)'
    BY <2>1, <2>2, <2>3, <2>4, <2>5 DEF Verdict
  <2>9. QED
    BY <2>6, <2>7, <2>8
<1>3. QED
  BY <1>1, <1>2, OwnerPart DEF Scans

LEMMA GetEmcyKeeps ==
    ASSUME EmcyInv, NEW r \in Readers, NEW n \in Producers \cup {AnyNode}, GetEmcy(r, n)
    PROVE  EmcyInv'
<1>1. ReaderStep(r)
  BY ReaderSteps DEF EmcyInv
<1>2. ScanTypes' /\ rpc'[r] = "latest"
  BY DEF EmcyInv, ScanTypes, GetEmcy, ReaderGoto
<1>3. QED
  BY <1>1, <1>2, ReaderFrame DEF Scan, Counted, Attempt, Verdict

LEMMA WakeKeeps ==
    ASSUME EmcyInv, NEW r \in Readers, Wake(r)
    PROVE  EmcyInv'
<1>1. ReaderStep(r)
  BY ReaderSteps DEF EmcyInv, Reading
<1>2. ScanTypes' /\ rpc'[r] = "latest"
  BY DEF EmcyInv, ScanTypes, Wake, ReaderGoto
<1>3. QED
  BY <1>1, <1>2, ReaderFrame DEF Scan, Counted, Attempt, Verdict

LEMMA ReturnKeeps ==
    ASSUME EmcyInv, NEW r \in Readers, Return(r)
    PROVE  EmcyInv'
<1>1. ReaderStep(r)
  BY ReaderSteps DEF EmcyInv, Reading
<1>2. rpc' \in [Readers -> {"idle", "latest", "begin", "load", "end", "sleep", "done", "busy"}]
        /\ rpc'[r] = "idle"
  BY DEF EmcyInv, ScanTypes, Return, ReaderGoto
<1>3. remaining' \in [Readers -> 0 .. Depth - 1]
  <2>1. 0 \in 0 .. Depth - 1
    BY EmcyRange
  <2>2. QED
    BY <2>1 DEF EmcyInv, ScanTypes, Return
<1>4. ScanTypes'
  BY <1>2, <1>3 DEF EmcyInv, ScanTypes, Return
<1>5. QED
  BY <1>1, <1>2, <1>4, ReaderFrame DEF Scan, Counted, Attempt, Verdict

LEMMA LoadLatestKeeps ==
    ASSUME EmcyInv, NEW r \in Readers, LoadLatest(r)
    PROVE  EmcyInv'
<1>1. ReaderStep(r) /\ UNCHANGED ownerVars
  BY ReaderSteps DEF EmcyInv, Reading, ReaderStep
<1>2. /\ ScanTypes /\ OwnerTypes /\ Numbers
  BY DEF EmcyInv
<1>3. latest \in Nat /\ Len(sent) \in Nat /\ first \in Nat /\ Announced \in Int
  BY <1>2, EmcyRange DEF OwnerTypes, Announced
<1>4. /\ rpc' = [rpc EXCEPT ![r] = IF latest = 0 THEN "idle" ELSE "begin"]
      /\ candidate' = [candidate EXCEPT ![r] = latest]
      /\ remaining' = [remaining EXCEPT ![r] = Depth - 1]
      /\ got' = [got EXCEPT ![r] = <<>>]
      /\ top' = [top EXCEPT ![r] = Announced]
      /\ during' = [during EXCEPT ![r] = 0]
      /\ UNCHANGED <<node_id, begin>>
  BY DEF LoadLatest, ReaderGoto, Announced
<1>5. Announced \in Nat
  <2>1. publisher \in PublishPcs => Len(sent) >= 1
    BY <1>2, <1>3 DEF OwnerTypes, Numbers
  <2>2. QED
    BY <1>3, <2>1 DEF Announced
<1>6. /\ rpc'[r] = (IF latest = 0 THEN "idle" ELSE "begin") /\ candidate'[r] = latest
      /\ remaining'[r] = Depth - 1 /\ top'[r] = Announced /\ during'[r] = 0
  BY <1>2, <1>4 DEF ScanTypes
<1>7. ScanTypes'
  <2>1. Depth - 1 \in 0 .. Depth - 1
    BY EmcyRange
  <2>2. QED
    BY <1>2, <1>3, <1>4, <1>5, <2>1 DEF ScanTypes
<1>8. Announced' = Announced /\ first' = first /\ sent' = sent
  BY <1>1, SameOwner DEF ownerVars
<1>9. latest # 0 => Announced >= first /\ latest = SeqNumber(Announced) /\ latest >= 1
  BY <1>2, <1>3 DEF Numbers
<1>10. Scan(r)'
  <2>1. ASSUME latest # 0
        PROVE  /\ top'[r] \in first' .. Announced'
               /\ candidate'[r] = SeqNumber(top[r])' - (Depth - 1 - remaining'[r]) /\ candidate'[r] >= 1
               /\ \A m : m \notin Wanted(r)' + 1 .. top'[r]
    <3>1. SeqNumber(top[r])' = latest
      BY <1>6, <1>8, <1>9, <2>1 DEF SeqNumber
    <3>2. Wanted(r)' = Announced
      BY <1>5, <1>6, EmcyRange DEF Wanted
    <3>3. QED
      BY <1>3, <1>5, <1>6, <1>8, <1>9, <2>1, <3>1, <3>2, EmcyRange
  <2>2. QED
    BY <1>6, <2>1 DEF Scan
<1>11. Counted(r)'
  <2>1. Len(sent) - Announced <= 1
    BY <1>3 DEF Announced
  <2>2. QED
    BY <1>3, <1>5, <1>6, <1>8, <1>9, <2>1 DEF Counted
<1>12. QED
  BY <1>1, <1>6, <1>7, <1>10, <1>11, ReaderFrame DEF Attempt, Verdict

\* An even guard that is not 0 belongs to a slot that is not open.
LEMMA EvenGuard ==
    ASSUME OwnerTypes, Guards, NEW i \in Slots, guard[i] % 2 # 1
    PROVE  ~Open(i) /\ guard[i] \in Nat /\ guard[i] % 2 = 0 /\ guard[i] <= GuardMod - 2
<1>1. guard[i] \in Nat /\ base \in Nat /\ base % 2 = 0
  BY DEF OwnerTypes, Guards
<1>2. ASSUME Open(i) PROVE FALSE
  <2>1. guard[i] = base + 1
    BY <1>2 DEF Guards
  <2>2. (base + 1) % 2 = 1
    BY <1>1
  <2>3. QED
    BY <2>1, <2>2
<1>3. QED
  BY <1>1, <1>2 DEF Guards

LEMMA LoadBeginKeeps ==
    ASSUME EmcyInv, NEW r \in Readers, LoadBegin(r)
    PROVE  EmcyInv'
<1> DEFINE i == Slot(candidate[r])
<1> DEFINE g == guard[i]
<1>1. ReaderStep(r) /\ UNCHANGED ownerVars
  BY ReaderSteps DEF EmcyInv, Reading, ReaderStep
<1>2. /\ ScanTypes /\ OwnerTypes /\ Guards /\ Contents
      /\ Scan(r) /\ Counted(r) /\ Attempt(r) /\ Verdict(r)
  BY DEF EmcyInv, Scans
<1>3. /\ rpc[r] = "begin"
      /\ rpc' = [rpc EXCEPT ![r] = IF g = 0 THEN "busy" ELSE IF g % 2 = 1 THEN "sleep" ELSE "load"]
      /\ begin' = [begin EXCEPT ![r] = g]
      /\ got' = [got EXCEPT ![r] = <<>>]
      /\ UNCHANGED <<node_id, candidate, remaining, top, during>>
  BY DEF LoadBegin, ReaderGoto
<1>4. /\ Wanted(r) \in first .. top[r] /\ top[r] \in first .. Len(sent)
      /\ Place(Wanted(r)) = i /\ i \in Slots
  BY <1>2, <1>3, Candidate
<1>5. g \in Nat /\ first \in Nat /\ Len(sent) \in Nat
  BY <1>2, <1>4 DEF OwnerTypes
<1> HIDE DEF g
<1>6. ScanTypes'
  BY <1>2, <1>3, <1>5 DEF ScanTypes
<1>7. /\ rpc'[r] = (IF g = 0 THEN "busy" ELSE IF g % 2 = 1 THEN "sleep" ELSE "load")
      /\ begin'[r] = g /\ got'[r] = <<>>
  BY <1>2, <1>3 DEF ScanTypes
<1>8. /\ first' = first /\ sent' = sent /\ Announced' = Announced /\ Down' = Down
      /\ SeqNumber(top[r])' = SeqNumber(top[r]) /\ Open(i)' = Open(i) /\ Mark(i)' = Mark(i)
  BY <1>1, <1>3, SameOwner DEF ownerVars, SeqNumber
<1>9. /\ Bounded(r)' = Bounded(r) /\ Wanted(r)' = Wanted(r)
      /\ \A m : Missed(r, m)' = Missed(r, m)
  BY <1>3, <1>8 DEF Bounded, Wanted, Missed
<1>10. Scan(r)' /\ Counted(r)'
  BY <1>2, <1>3, <1>8, <1>9 DEF Scan, Counted
<1>11. Attempt(r)'
  <2>1. ASSUME rpc'[r] = "load"
        PROVE  /\ g % 2 = 0 /\ g \in 2 .. GuardMod - 2
               /\ Turned(i, begin[r], 0)' /\ ~Open(i)'
    <3>1. g # 0 /\ g % 2 # 1
      BY <1>7, <2>1
    <3>2. ~Open(i) /\ g % 2 = 0 /\ g <= GuardMod - 2
      BY <1>2, <1>4, <3>1, EvenGuard DEF g
    <3>3. g \in 2 .. GuardMod - 2
      BY <1>5, <3>1, <3>2, EmcyRange
    <3>4. Mark(i)' = g
      BY <1>8, <3>2 DEF Mark, g
    <3>5. Turned(i, begin[r], 0)'
      BY <1>3, <1>7, <3>3, <3>4 DEF Turned
    <3>6. QED
      BY <1>8, <3>2, <3>3, <3>5
  <2>2. during'[r] \in Nat /\ rpc'[r] # "end"
    BY <1>6, <1>7 DEF ScanTypes
  <2>3. Len(got'[r]) = 0 /\ \A j : j \notin 1 .. Len(got'[r])
    BY <1>7
  <2>4. 0 \in 0 .. during'[r]
    BY <2>2
  <2>5. QED
    BY <1>3, <1>7, <2>1, <2>2, <2>3, <2>4 DEF Attempt
<1>12. Verdict(r)'
  <2>1. g = 0 => Down
    <3> SUFFICES ASSUME g = 0, ~Down PROVE FALSE
      OBVIOUS
    <3>1. \A x \in first .. Len(sent) : Place(x) # i
      BY <1>2, <1>4 DEF Contents, g
    <3>2. Wanted(r) \in first .. Len(sent)
      BY <1>4, <1>5
    <3>3. QED
      BY <1>4, <3>1, <3>2
  <2>2. QED
    BY <1>7, <1>8, <2>1 DEF Verdict
<1>13. QED
  BY <1>1, <1>6, <1>10, <1>11, <1>12, ReaderFrame

LEMMA LoadFieldKeeps ==
    ASSUME EmcyInv, NEW r \in Readers, LoadField(r)
    PROVE  EmcyInv'
<1> DEFINE i == Slot(candidate[r])
<1> DEFINE n == Len(got[r])
<1> DEFINE loaded == <<sequence[i], header[i], msef_lo[i], msef_hi[i]>>[n + 1]
<1>1. ReaderStep(r) /\ UNCHANGED ownerVars
  BY ReaderSteps DEF EmcyInv, Reading, ReaderStep
<1>2. /\ ScanTypes /\ OwnerTypes
      /\ Scan(r) /\ Counted(r) /\ Attempt(r) /\ Verdict(r)
  BY DEF EmcyInv, Scans
<1>3. /\ rpc[r] = "load"
      /\ rpc' = [rpc EXCEPT ![r] = IF n = 3 THEN "end" ELSE "load"]
      /\ got' = [got EXCEPT ![r] = Append(got[r], loaded)]
      /\ UNCHANGED <<node_id, candidate, remaining, begin, top, during>>
  BY DEF LoadField, ReaderGoto
<1>4. i \in Slots
  BY <1>2, <1>3, Candidate
<1>5. got[r] \in Seq(Nat) /\ n \in Nat /\ n < 4
  BY <1>2, <1>3 DEF ScanTypes, Attempt
<1>6. loaded = Field(i, n + 1) /\ loaded \in Nat
  <2>1. sequence[i] \in Nat /\ header[i] \in Nat /\ msef_lo[i] \in Nat /\ msef_hi[i] \in Nat
    BY <1>2, <1>4 DEF OwnerTypes
  <2> HIDE DEF i, n
  <2>2. n = 0 \/ n = 1 \/ n = 2 \/ n = 3
    BY <1>5
  <2>3. CASE n = 0
    BY <2>1, <2>3 DEF Field
  <2>4. CASE n = 1
    BY <2>1, <2>4 DEF Field
  <2>5. CASE n = 2
    BY <2>1, <2>5 DEF Field
  <2>6. CASE n = 3
    BY <2>1, <2>6 DEF Field
  <2>7. QED
    BY <2>2, <2>3, <2>4, <2>5, <2>6
<1> HIDE DEF loaded
<1>7. /\ got'[r] = Append(got[r], loaded) /\ got' \in [Readers -> Seq(Nat)]
      /\ rpc'[r] = IF n = 3 THEN "end" ELSE "load"
  BY <1>2, <1>3, <1>5, <1>6 DEF ScanTypes
<1>8. /\ Len(got'[r]) = n + 1
      /\ \A j \in 1 .. n + 1 : got'[r][j] = IF j = n + 1 THEN loaded ELSE got[r][j]
  BY <1>5, <1>6, <1>7
<1>9. ScanTypes'
  BY <1>2, <1>3, <1>7 DEF ScanTypes
<1>10. /\ first' = first /\ sent' = sent /\ Announced' = Announced /\ Down' = Down
       /\ SeqNumber(top[r])' = SeqNumber(top[r]) /\ Open(i)' = Open(i) /\ Mark(i)' = Mark(i)
       /\ guard' = guard /\ \A j : Field(i, j)' = Field(i, j)
  BY <1>1, <1>3, SameOwner DEF ownerVars, slotVars, SeqNumber
<1>11. /\ Bounded(r)' = Bounded(r) /\ Wanted(r)' = Wanted(r)
       /\ \A m : Missed(r, m)' = Missed(r, m)
  BY <1>3, <1>10 DEF Bounded, Wanted, Missed
<1>12. Scan(r)' /\ Counted(r)' /\ Verdict(r)'
  BY <1>2, <1>3, <1>7, <1>10, <1>11 DEF Scan, Counted, Verdict
<1>13. Attempt(r)'
  <2>1. \A d : Turned(i, begin[r], d)' = Turned(i, begin[r], d)
    BY <1>3, <1>10 DEF Turned
  <2>2. ASSUME NEW d \in 0 .. during[r],
               \/ d >= GuardMod \div 2 - 1
               \/ /\ Turned(i, begin[r], d)
                  /\ d = 0 => ~Open(i) /\ \A j \in 1 .. Len(got[r]) : got[r][j] = Field(i, j)
        PROVE  \/ d >= GuardMod \div 2 - 1
               \/ /\ Turned(i, begin[r], d)'
                  /\ d = 0 => ~Open(i)' /\ \A j \in 1 .. Len(got'[r]) : got'[r][j] = Field(i, j)'
    <3>1. ASSUME \A j \in 1 .. Len(got[r]) : got[r][j] = Field(i, j)
          PROVE  \A j \in 1 .. Len(got'[r]) : got'[r][j] = Field(i, j)'
      <4> TAKE j \in 1 .. Len(got'[r])
      <4>1. j = n + 1 \/ (j # n + 1 /\ j \in 1 .. Len(got[r]))
        BY <1>5, <1>8
      <4>2. QED
        BY <1>6, <1>8, <1>10, <3>1, <4>1
    <3>2. QED
      BY <1>10, <2>1, <2>2, <3>1
  <2>3. IF rpc'[r] = "load" THEN Len(got'[r]) < 4 ELSE Len(got'[r]) = 4
    <3> HIDE DEF n
    <3>1. n = 3 => n + 1 = 4
      OBVIOUS
    <3>2. n # 3 => n + 1 < 4
      BY <1>5
    <3>3. QED
      BY <1>7, <1>8, <3>1, <3>2
  <2>4. begin[r] % 2 = 0 /\ begin[r] \in 2 .. GuardMod - 2
    BY <1>2, <1>3 DEF Attempt
  <2>5. \/ Down' /\ guard'[i] = 0
        \/ \E d \in 0 .. during'[r] :
             \/ d >= GuardMod \div 2 - 1
             \/ /\ Turned(i, begin[r], d)'
                /\ d = 0 => ~Open(i)' /\ \A j \in 1 .. Len(got'[r]) : got'[r][j] = Field(i, j)'
    BY <1>2, <1>3, <1>10, <2>2 DEF Attempt
  <2>6. QED
    BY <1>3, <2>3, <2>4, <2>5 DEF Attempt
<1>14. QED
  BY <1>1, <1>9, <1>12, <1>13, ReaderFrame

\* A slot whose guard did not change, and whose number is the candidate's, holds
\* the event behind the candidate, and the fields loaded are that event's.
LEMMA StableSlot ==
    ASSUME EmcyInv, NEW r \in Readers, rpc[r] = "end", Unchanged(r),
           got[r][1] = candidate[r], Bounded(r)
    PROVE  /\ Len(got[r]) = 4 /\ got[r][1] = SeqNumber(Wanted(r))
           /\ \A j \in 2 .. 4 : got[r][j] = Wanted(r)
<1> DEFINE i == Slot(candidate[r])
<1> DEFINE e == header[i]
<1> DEFINE W == Wanted(r)
<1>1. /\ ScanTypes /\ OwnerTypes /\ Guards /\ Contents
      /\ Scan(r) /\ Counted(r) /\ Attempt(r)
  BY DEF EmcyInv, Scans
<1>2. /\ W \in first .. top[r] /\ top[r] \in first .. Len(sent)
      /\ SeqNumber(W) = candidate[r] /\ Place(W) = i /\ i \in Slots
      /\ top[r] - W <= Depth - 1
  BY <1>1, Candidate
<1>3. begin[r] = guard[i] /\ guard[i] % 2 = 0
  BY DEF Unchanged
<1>4. ~Open(i) /\ guard[i] \in Nat
  <2>1. guard[i] % 2 # 1
    BY <1>3
  <2>2. QED
    BY <1>1, <1>2, <2>1, EvenGuard
<1>5. begin[r] \in 2 .. GuardMod - 2 /\ Len(got[r]) = 4
  BY <1>1 DEF Attempt
<1>6. guard[i] # 0
  BY <1>3, <1>5
<1>7. \A j \in 1 .. 4 : got[r][j] = Field(i, j)
  <2>1. PICK d \in 0 .. during[r] :
          \/ d >= GuardMod \div 2 - 1
          \/ /\ Turned(i, begin[r], d)
             /\ d = 0 => ~Open(i) /\ \A j \in 1 .. Len(got[r]) : got[r][j] = Field(i, j)
    BY <1>1, <1>6 DEF Attempt
  <2>2. during[r] \in Nat /\ during[r] < GuardMod \div 2 - 1
    BY <1>1 DEF ScanTypes, Bounded
  <2>3. d \in Nat /\ d < GuardMod \div 2 - 1
    BY <2>1, <2>2, EmcyRange, SMTT(60)
  <2>4. Turned(i, begin[r], d)
    BY <2>1, <2>3, EmcyRange
  <2>5. Mark(i) = begin[r]
    BY <1>3, <1>4 DEF Mark
  <2>6. begin[r] = begin[r] + 2 * d \/ begin[r] = begin[r] + 2 * d - (GuardMod - 2)
    BY <2>4, <2>5 DEF Turned
  <2>7. d = 0
    BY <1>5, <2>3, <2>6, EmcyRange
  <2>8. QED
    BY <1>5, <2>1, <2>3, <2>7, EmcyRange
<1>8. Holds(i, e)
  BY <1>1, <1>2, <1>4, <1>6 DEF Contents
<1>9. got[r][1] = SeqNumber(e) /\ \A j \in 2 .. 4 : got[r][j] = e
  <2>1. Field(i, 1) = SeqNumber(e) /\ Field(i, 2) = e /\ Field(i, 3) = e /\ Field(i, 4) = e
    BY <1>8 DEF Holds, Field
  <2>2. \A j \in 2 .. 4 : j \in 1 .. 4 /\ (j = 2 \/ j = 3 \/ j = 4)
    OBVIOUS
  <2>3. QED
    BY <1>7, <2>1, <2>2
<1>10. first \in Nat /\ Len(sent) \in Nat /\ e \in first .. Len(sent)
         /\ \A x \in e + 1 .. Len(sent) : Place(x) # i
  BY <1>1, <1>8 DEF OwnerTypes, Holds
<1>11. SeqNumber(e) = SeqNumber(W)
  BY <1>2, <1>9
<1> HIDE DEF e, W, i
<1>12. W \in Nat /\ e \in Nat /\ W >= first /\ e >= first /\ W <= Len(sent) /\ e <= Len(sent)
  BY <1>2, <1>10
<1>13. ~(W > e)
  <2> SUFFICES ASSUME W > e PROVE FALSE
    OBVIOUS
  <2>1. W \in e + 1 .. Len(sent)
    BY <1>12
  <2>2. QED
    BY <1>2, <1>10, <2>1
<1>14. ~(W < e)
  <2> SUFFICES ASSUME W < e PROVE FALSE
    OBVIOUS
  <2>1. e - W >= SequenceMod - 1
    BY <1>10, <1>11, <1>12, SeqApart
  <2>2. Len(sent) - top[r] <= during[r] + 1
    BY <1>1 DEF Counted
  <2>3. during[r] \in Nat /\ during[r] < SequenceMod - 1 - Depth /\ top[r] \in Nat
    BY <1>1 DEF ScanTypes, Bounded
  <2>4. QED
    BY <1>2, <1>10, <1>12, <2>1, <2>2, <2>3, EmcyRange
<1>15. e = W
  BY <1>12, <1>13, <1>14
<1>16. QED
  BY <1>5, <1>9, <1>15 DEF W

LEMMA LoadEndKeeps ==
    ASSUME EmcyInv, NEW r \in Readers, LoadEnd(r)
    PROVE  EmcyInv'
<1> DEFINE W == Wanted(r)
<1> DEFINE c == candidate[r]
<1>1. ReaderStep(r) /\ UNCHANGED ownerVars
  BY ReaderSteps DEF EmcyInv, Reading, ReaderStep
<1>2. /\ ScanTypes /\ OwnerTypes /\ Guards /\ Contents
      /\ Scan(r) /\ Counted(r) /\ Attempt(r)
  BY DEF EmcyInv, Scans
<1>3. rpc[r] = "end" /\ UNCHANGED <<node_id, begin, got, top, during>>
  BY DEF LoadEnd
<1>4. /\ W \in first .. top[r] /\ top[r] \in first .. Len(sent) /\ c \in 1 .. SequenceMod - 1
      /\ SeqNumber(W) = c /\ first \in Nat /\ first >= 1 /\ Len(sent) \in Nat
  BY <1>2, <1>3, Candidate DEF OwnerTypes
<1>5. /\ first' = first /\ sent' = sent /\ Announced' = Announced /\ Down' = Down
      /\ SeqNumber(top[r])' = SeqNumber(top[r]) /\ Retained(top[r])' = Retained(top[r])
  BY <1>1, <1>3, SameOwner DEF ownerVars, SeqNumber, Retained
<1>6. Bounded(r)' = Bounded(r) /\ \A m : Missed(r, m)' = Missed(r, m)
  BY <1>3, <1>5 DEF Bounded, Missed
<1>7. CASE /\ ReaderGoto(r, "end", "sleep") /\ UNCHANGED <<candidate, remaining>>
  <2>1. ScanTypes' /\ rpc'[r] = "sleep"
    BY <1>2, <1>3, <1>7 DEF ScanTypes, ReaderGoto
  <2>2. QED
    BY <1>1, <2>1, ReaderFrame DEF Scan, Counted, Attempt, Verdict
<1>8. CASE Unchanged(r) /\ got[r][1] = c /\ Accept(r)
  <2>1. ASSUME Bounded(r)
        PROVE  /\ Len(got[r]) = 4 /\ got[r][1] = SeqNumber(W) /\ \A j \in 2 .. 4 : got[r][j] = W
               /\ Matches(r) <=> ~Missed(r, W)
    <3>1. Len(got[r]) = 4 /\ got[r][1] = SeqNumber(W) /\ \A j \in 2 .. 4 : got[r][j] = W
      BY <1>3, <1>8, <2>1, StableSlot
    <3>2. got[r][2] = W
      BY <3>1
    <3>3. W # 0
      BY <1>4
    <3>4. QED
      BY <3>1, <3>2, <3>3 DEF Matches, Missed
  <2>2. Counted(r)'
    <3>1. Counted(r)
      BY <1>2
    <3>2. QED
      BY <1>3, <1>5, <3>1 DEF Counted
  <2>3. CASE Matches(r) /\ ReaderGoto(r, "end", "done") /\ UNCHANGED <<candidate, remaining>>
    <3>1. ScanTypes' /\ rpc'[r] = "done"
      BY <1>2, <1>3, <2>3 DEF ScanTypes, ReaderGoto
    <3>2. Wanted(r)' = W
      BY <1>3, <2>3 DEF Wanted
    <3>3. SeqNumber(Wanted(r))' = SeqNumber(W) /\ Missed(r, Wanted(r))' = Missed(r, W)
      BY <1>3, <1>5, <3>2 DEF SeqNumber, Missed
    <3>4. Scan(r)'
      BY <1>2, <1>3, <1>5, <1>6, <2>3, <3>2 DEF Scan
    <3>5. Verdict(r)'
      BY <1>3, <1>6, <2>1, <2>3, <3>1, <3>2, <3>3 DEF Verdict
    <3>6. QED
      BY <1>1, <2>2, <3>1, <3>4, <3>5, ReaderFrame DEF Attempt
  <2>4. ASSUME ~Matches(r), Bounded(r), NEW m \in W .. top[r]
        PROVE  Missed(r, m)
    <3>1. m = W \/ m \in W + 1 .. top[r]
      BY <1>4
    <3>2. QED
      BY <1>2, <1>3, <2>1, <2>4, <3>1 DEF Scan
  <2>5. CASE /\ ~Matches(r) /\ candidate' = [candidate EXCEPT ![r] = PrevSequence(c)]
             /\ remaining[r] > 0 /\ PrevSequence(c) # 0
             /\ remaining' = [remaining EXCEPT ![r] = @ - 1]
             /\ ReaderGoto(r, "end", "begin")
    <3>1. PrevSequence(c) = c - 1 /\ c - 1 >= 1 /\ c - 1 \in Nat
      BY <1>4, <2>5 DEF PrevSequence
    <3>2. remaining[r] \in 0 .. Depth - 1 /\ remaining[r] - 1 \in 0 .. Depth - 1 /\ Depth \in Nat
      BY <1>2, <2>5, EmcyRange DEF ScanTypes
    <3>3. ScanTypes' /\ rpc'[r] = "begin" /\ candidate'[r] = c - 1 /\ remaining'[r] = remaining[r] - 1
      BY <1>2, <1>3, <2>5, <3>1, <3>2 DEF ScanTypes, ReaderGoto
    <3>4. Wanted(r)' + 1 = W
      BY <1>3, <1>4, <3>2, <3>3, SMTT(60) DEF Wanted
    <3>5. c = SeqNumber(top[r]) - (Depth - 1 - remaining[r]) /\ SeqNumber(top[r]) \in Nat
            /\ top[r] \in first .. Announced
      BY <1>2, <1>3, <1>4, PlaceRange DEF Scan
    <3>6. candidate'[r] = SeqNumber(top[r])' - (Depth - 1 - remaining'[r]) /\ candidate'[r] >= 1
      BY <1>5, <3>1, <3>2, <3>3, <3>5
    <3>7. Scan(r)'
      BY <1>3, <1>5, <1>6, <2>4, <2>5, <3>4, <3>5, <3>6 DEF Scan
    <3>8. QED
      BY <1>1, <2>2, <3>3, <3>7, ReaderFrame DEF Attempt, Verdict
  <2>6. CASE /\ ~Matches(r) /\ candidate' = [candidate EXCEPT ![r] = PrevSequence(c)]
             /\ remaining[r] = 0 \/ PrevSequence(c) = 0
             /\ UNCHANGED remaining
             /\ ReaderGoto(r, "end", "busy")
    <3>1. PrevSequence(c) \in Nat /\ (PrevSequence(c) = 0 => c = 1)
      BY <1>4 DEF PrevSequence
    <3>2. ScanTypes' /\ rpc'[r] = "busy"
      BY <1>2, <1>3, <2>6, <3>1 DEF ScanTypes, ReaderGoto
    <3>3. ASSUME NEW m \in Retained(top[r])
          PROVE  m \in W .. top[r]
      <4>1. m \in 1 .. top[r] /\ m > top[r] - Depth /\ m > top[r] - SeqNumber(top[r])
        BY <3>3 DEF Retained
      <4>2. W = top[r] - (Depth - 1 - remaining[r]) /\ remaining[r] \in 0 .. Depth - 1
        BY <1>2 DEF Wanted, ScanTypes
      <4>3. c = SeqNumber(top[r]) - (Depth - 1 - remaining[r]) /\ SeqNumber(top[r]) \in Nat
        BY <1>2, <1>3, <1>4, PlaceRange DEF Scan
      <4>4. CASE remaining[r] = 0
        <5>1. Depth \in Nat
          BY EmcyRange
        <5> HIDE DEF W
        <5>2. W = top[r] - (Depth - 1)
          BY <4>2, <4>4, <5>1
        <5>3. QED
          BY <1>4, <4>1, <5>1, <5>2
      <4>5. CASE c = 1
        <5> DEFINE k == Depth - 1 - remaining[r]
        <5>1. k \in Int /\ W = top[r] - k /\ SeqNumber(top[r]) = k + 1
          <6> HIDE DEF c, W
          <6>1. QED
            BY <4>2, <4>3, <4>5, EmcyRange
        <5> HIDE DEF k, W
        <5>2. QED
          BY <1>4, <4>1, <5>1
      <4>6. QED
        BY <2>6, <3>1, <4>4, <4>5
    <3>4. Verdict(r)'
      BY <1>5, <1>6, <2>4, <2>6, <3>2, <3>3 DEF Verdict
    <3>5. QED
      BY <1>1, <2>2, <3>2, <3>4, ReaderFrame DEF Scan, Attempt
  <2>7. QED
    BY <1>8, <2>3, <2>5, <2>6 DEF Accept
<1>9. QED
  BY <1>7, <1>8 DEF LoadEnd

-----------------------------------------------------------------------------
(* The theorems                                                            *)

LEMMA EmcyStarts ==
    ASSUME EmcyInit
    PROVE  EmcyInv
<1>1. OwnerTypes
  <2>1. <<>> \in Seq(Producers) /\ Len(<<>>) = 0
    OBVIOUS
  <2>2. 0 \in Slots /\ 0 \in 0 .. SequenceMod - 1
    BY EmcyRange DEF Slots
  <2>3. QED
    BY <2>1, <2>2 DEF EmcyInit, OwnerTypes
<1>2. ScanTypes
  <2>1. <<>> \in Seq(Nat) /\ 0 \in 0 .. Depth - 1
    BY EmcyRange
  <2>2. QED
    BY <2>1 DEF EmcyInit, ScanTypes
<1>3. ~Down /\ publisher \notin PublishPcs /\ Announced = 0 /\ first = 1 /\ Len(sent) = 0
  BY DEF EmcyInit, Down, ResetPcs, PublishPcs, Announced
<1>4. Numbers
  BY <1>3 DEF EmcyInit, Numbers
<1>5. \A i \in Slots : ~Open(i) /\ guard[i] = 0
  BY DEF EmcyInit, Open, PublishPcs
<1>6. Guards
  BY <1>3, <1>5, EmcyRange DEF EmcyInit, Guards
<1>7. Contents
  <2>1. \A x : x \notin first .. Len(sent)
    BY <1>3
  <2>2. Stored
    BY DEF EmcyInit, Stored
  <2>3. QED
    BY <1>5, <2>1, <2>2 DEF Contents
<1>8. Scans
  BY DEF EmcyInit, Scans, Scan, Counted, Attempt, Verdict
<1>9. QED
  BY <1>1, <1>2, <1>4, <1>6, <1>7, <1>8 DEF EmcyInv

\* The invariant holds in every state: each slot of the ring holds the event that
\* its guard and its number announce, and a reader's scan knows what it passed.
THEOREM EmcyInvHolds == EmcySpec => []EmcyInv
<1>1. EmcyInv /\ [EmcyNext]_emcyVars => EmcyInv'
  <2> SUFFICES ASSUME EmcyInv, [EmcyNext]_emcyVars PROVE EmcyInv'
    OBVIOUS
  <2>1. CASE \E n \in Producers : EmcyInd(n)
    BY <2>1, IndKeeps
  <2>2. CASE Working \/ ResetLatest
    BY <2>2, WorkingKeeps
  <2>3. CASE Restart
    BY <2>3, RestartKeeps
  <2>4. ASSUME NEW r \in Readers,
               (\E n \in Producers \cup {AnyNode} : GetEmcy(r, n)) \/ Reading(r)
        PROVE  EmcyInv'
    BY <2>4, GetEmcyKeeps, LoadLatestKeeps, LoadBeginKeeps, LoadFieldKeeps, LoadEndKeeps,
       WakeKeeps, ReturnKeeps DEF Reading
  <2>5. CASE UNCHANGED emcyVars
    <3>1. UNCHANGED ownerVars
      BY <2>5 DEF emcyVars
    <3>2. UNCHANGED <<rpc, node_id, candidate, remaining, begin, got, top, during>>
      BY <2>5 DEF emcyVars, readerVars
    <3>3. UNCHANGED <<readerVars, during, sent, first, slotVars>>
      BY <2>5 DEF emcyVars, ownerVars
    <3>4. OwnerInv' /\ Announced' = Announced /\ Down' = Down
            /\ \A i : Open(i)' = Open(i) /\ Mark(i)' = Mark(i)
      BY <3>1, SameOwner, OwnerPart
    <3>5. \A i \in Slots : SlotStep(i)
      BY <3>3, <3>4 DEF SlotStep, slotVars
    <3>6. Announced <= Announced'
      BY <3>4 DEF EmcyInv, OwnerTypes, Announced
    <3>7. QED
      BY <3>3, <3>4, <3>5, <3>6, ScansKept, OwnerPart DEF OwnerInv
  <2>6. QED
    BY <2>1, <2>2, <2>3, <2>4, <2>5 DEF EmcyNext
<1>2. QED
  BY <1>1, EmcyStarts, PTL DEF EmcySpec

\* get_emcy returns one whole event, the newest that matches of those announced
\* when its scan began, and -RT_EBUSY only when no retained event matches or the
\* runtime stops, for every depth of the ring and both counters wrapping, as long
\* as neither went all the way round during the scan.
THEOREM EventNewestHolds == EmcySpec => []EventNewest
<1>1. EmcyInv => EventNewest
  <2> SUFFICES ASSUME EmcyInv, NEW r \in Readers, Bounded(r)
               PROVE  /\ rpc[r] = "done" =>
                           /\ got[r][3] = got[r][2] /\ got[r][4] = got[r][2]
                           /\ got[r][1] = SeqNumber(got[r][2])
                           /\ Matches(r)
                           /\ \A m \in got[r][2] + 1 .. top[r] : node_id[r] \notin {AnyNode, sent[m]}
                      /\ rpc[r] = "busy" =>
                           \/ latest = 0
                           \/ \A m \in Retained(top[r]) : node_id[r] \notin {AnyNode, sent[m]}
    BY DEF EventNewest
  <2>1. Scan(r) /\ Verdict(r) /\ ScanTypes /\ OwnerTypes /\ Numbers
    BY DEF EmcyInv, Scans
  <2>2. ASSUME rpc[r] = "done"
        PROVE  /\ got[r][3] = got[r][2] /\ got[r][4] = got[r][2]
               /\ got[r][1] = SeqNumber(got[r][2])
               /\ Matches(r)
               /\ \A m \in got[r][2] + 1 .. top[r] : node_id[r] \notin {AnyNode, sent[m]}
    <3>1. got[r][2] = Wanted(r) /\ got[r][3] = Wanted(r) /\ got[r][4] = Wanted(r)
      BY <2>1, <2>2 DEF Verdict
    <3>2. got[r][1] = SeqNumber(Wanted(r)) /\ ~Missed(r, Wanted(r))
      BY <2>1, <2>2 DEF Verdict
    <3>3. Wanted(r) # 0
      <4>1. Wanted(r) \in first .. top[r]
        BY <2>1, <2>2, Candidate
      <4>2. QED
        BY <2>1, <4>1 DEF OwnerTypes
    <3>4. \A m \in Wanted(r) + 1 .. top[r] : Missed(r, m)
      BY <2>1, <2>2 DEF Scan
    <3>5. QED
      BY <3>1, <3>2, <3>3, <3>4 DEF Matches, Missed
  <2>3. ASSUME rpc[r] = "busy"
        PROVE  \/ latest = 0
               \/ \A m \in Retained(top[r]) : node_id[r] \notin {AnyNode, sent[m]}
    BY <2>1, <2>3 DEF Verdict, Missed, Numbers
  <2>4. QED
    BY <2>2, <2>3
<1>2. QED
  BY <1>1, EmcyInvHolds, PTL

-----------------------------------------------------------------------------
(***************************************************************************)
(* Proofs about PdoTransmission for every set of PDOs and of transmission  *)
(* types.                                                                  *)
(*                                                                         *)
(* SetEffective and NoCrossing are inductive once the types are known: the *)
(* first conjunct of SetEffective speaks of the step just taken, its       *)
(* second is what a rollback has to restore, and NoCrossing needs a change *)
(* of type that does not restart the service to be one between two         *)
(* event-driven types.                                                     *)
(***************************************************************************)
USE DEF NoType

\* A reply that the command thread can see is one of the three commands.
LEMMA PdoReplyType ==
    ASSUME NEW op \in {"get", "set", "event"}, NEW p, NEW type, NEW err,
           Reply(op, p, type, err)
    PROVE  /\ reply'.op = op /\ reply'.pdo = p
           /\ reply'.type = type /\ reply'.err = err
BY DEF Reply

\* A transmission type that transmission_owner does not refuse is supported.
LEMMA PdoNotRefused ==
    ASSUME NEW p, NEW type \in Types, Refusal(p, type) = "none"
    PROVE  type \in Configured /\ service[p] # "stopped"
BY DEF Refusal, Configured, TransmissionSupported, ServiceStopped

\* The services that NMT creates start out well typed.
LEMMA PdoTypeInit == PdoInit => PdoTypeOK
BY DEF PdoInit, PdoTypeOK

\* No command and no step of a service stores an unsupported type.
LEMMA PdoTypeNext == PdoTypeOK /\ [PdoNext]_pdoVars => PdoTypeOK'
<1> SUFFICES ASSUME PdoTypeOK, [PdoNext]_pdoVars
             PROVE  PdoTypeOK'
  OBVIOUS
<1> USE DEF PdoTypeOK
<1>1. CASE NmtStart
  BY <1>1 DEF NmtStart
<1>2. CASE NmtLeave
  BY <1>2 DEF NmtLeave
<1>3. ASSUME NEW p \in Pdos, ServiceWork(p)  PROVE PdoTypeOK'
  BY <1>3 DEF ServiceWork
<1>4. ASSUME NEW p \in Pdos, GetTransmission(p)  PROVE PdoTypeOK'
  BY <1>4 DEF GetTransmission, Reply
<1>5. ASSUME NEW p \in Pdos, TpdoEvent(p)  PROVE PdoTypeOK'
  BY <1>5 DEF TpdoEvent, Reply
<1>6. ASSUME NEW p \in Pdos, NEW type \in Types, SetTransmission(p, type)
      PROVE  PdoTypeOK'
  <2> USE DEF Reply
  <2>1. CASE SetRefused(p, type)
    BY <2>1 DEF SetRefused
  <2>2. CASE SetSame(p, type)
    BY <2>2 DEF SetSame
  <2>3. CASE SetDenied(p, type)
    BY <2>3 DEF SetDenied
  <2>4. CASE SetAccepted(p, type)
    BY <2>4, PdoNotRefused DEF SetAccepted
  <2>5. CASE SetRestartFailed(p, type)
    BY <2>5, PdoNotRefused DEF SetRestartFailed, RolledBack
  <2>6. QED
    BY <1>6, <2>1, <2>2, <2>3, <2>4, <2>5 DEF SetTransmission
<1>7. CASE UNCHANGED pdoVars
  BY <1>7 DEF pdoVars
<1>8. QED
  BY <1>1, <1>2, <1>3, <1>4, <1>5, <1>6, <1>7 DEF PdoNext

\* The state of master_pdo.c is well typed; an unsupported transmission type
\* never reaches the object dictionary or a service.
THEOREM PdoTypeCorrect == PdoSpec => []PdoTypeOK
<1>1. QED
  BY PdoTypeInit, PdoTypeNext, PTL DEF PdoSpec

-----------------------------------------------------------------------------
(* What a reported change of transmission type has done                    *)

\* Every step keeps a running PDO at the type in the dictionary, and a set that
\* reports RT_EOK has stored its type in a service that is not stopped.
LEMMA SetEffectiveNext ==
    PdoTypeOK /\ SetEffective /\ [PdoNext]_pdoVars => SetEffective'
<1> SUFFICES ASSUME PdoTypeOK, SetEffective, [PdoNext]_pdoVars
             PROVE  SetEffective'
  OBVIOUS
<1> USE DEF PdoTypeOK, SetEffective, NoReply
<1>1. CASE NmtStart
  BY <1>1 DEF NmtStart
<1>2. CASE NmtLeave
  BY <1>2 DEF NmtLeave
<1>3. ASSUME NEW p \in Pdos, ServiceWork(p)  PROVE SetEffective'
  BY <1>3 DEF ServiceWork
<1>4. ASSUME NEW p \in Pdos, GetTransmission(p)  PROVE SetEffective'
  BY <1>4 DEF GetTransmission, Reply
<1>5. ASSUME NEW p \in Pdos, TpdoEvent(p)  PROVE SetEffective'
  BY <1>5 DEF TpdoEvent, Reply
<1>6. ASSUME NEW p \in Pdos, NEW type \in Types, SetTransmission(p, type)
      PROVE  SetEffective'
  <2> USE DEF Reply
  <2>1. CASE SetRefused(p, type)
    <3>1. Refusal(p, type) # "EOK"
      BY DEF Refusal
    <3>2. QED
      BY <2>1, <3>1 DEF SetRefused
  <2>2. CASE SetSame(p, type)
    BY <2>2, PdoNotRefused DEF SetSame
  <2>3. CASE SetDenied(p, type)
    BY <2>3 DEF SetDenied
  <2>4. CASE SetAccepted(p, type)
    BY <2>4, PdoNotRefused DEF SetAccepted
  <2>5. CASE SetRestartFailed(p, type)
    BY <2>5 DEF SetRestartFailed, RolledBack
  <2>6. QED
    BY <1>6, <2>1, <2>2, <2>3, <2>4, <2>5 DEF SetTransmission
<1>7. CASE UNCHANGED pdoVars
  BY <1>7 DEF pdoVars
<1>8. QED
  BY <1>1, <1>2, <1>3, <1>4, <1>5, <1>6, <1>7 DEF PdoNext

\* A set_transmission that reports success has taken effect, also when it is the
\* retry after a failed restart, and the rollback leaves a running PDO at the
\* type in the object dictionary whatever failed in between.
THEOREM SetEffectiveHolds == PdoSpec => []SetEffective
<1>1. PdoInit => SetEffective
  BY DEF PdoInit, SetEffective, NoReply
<1>2. QED
  BY <1>1, SetEffectiveNext, PdoTypeCorrect, PTL DEF PdoSpec

-----------------------------------------------------------------------------
(* Event timers and pending synchronous frames                             *)

\* What a service has under way belongs to the kind of transmission it works
\* with: a change that goes on without a restart keeps the kind.
LEMMA NoCrossingNext ==
    PdoTypeOK /\ SetEffective /\ NoCrossing /\ [PdoNext]_pdoVars => NoCrossing'
<1> SUFFICES ASSUME PdoTypeOK, SetEffective, NoCrossing, [PdoNext]_pdoVars
             PROVE  NoCrossing'
  OBVIOUS
<1> USE DEF PdoTypeOK, NoCrossing
<1>1. CASE NmtStart
  BY <1>1 DEF NmtStart
<1>2. CASE NmtLeave
  BY <1>2 DEF NmtLeave
<1>3. ASSUME NEW p \in Pdos, ServiceWork(p)  PROVE NoCrossing'
  BY <1>3 DEF ServiceWork
<1>4. ASSUME NEW p \in Pdos, NEW type \in Types, SetAccepted(p, type)
      PROVE  NoCrossing'
  <2>1. service[p] # "stopped" /\ type \in Configured
    BY <1>4, PdoNotRefused DEF SetAccepted
  <2>2. CASE service[p] = "none"
    BY <1>4, <2>2 DEF SetAccepted
  <2>3. CASE service[p] = "running"
    <3>1. mode[p] = od[p]
      BY <2>3 DEF SetEffective
    <3>2. mode' = [mode EXCEPT ![p] = type] /\ service' = service
      BY <1>4, <2>3 DEF SetAccepted
    <3>3. CASE NeedsRestart(od[p], type)
      BY <1>4, <2>3, <3>2, <3>3 DEF SetAccepted
    <3>4. CASE ~NeedsRestart(od[p], type)
      <4>1. transient' = transient
        BY <1>4, <2>3, <3>4 DEF SetAccepted
      <4>2. ~Synchronous(mode[p]) /\ ~Synchronous(type)
        BY <3>1, <3>4 DEF NeedsRestart
      <4>3. QED
        BY <3>2, <4>1, <4>2
    <3>5. QED
      BY <3>3, <3>4
  <2>4. QED
    BY <2>1, <2>2, <2>3
<1>5. ASSUME NEW p \in Pdos, NEW type \in Types, SetRestartFailed(p, type)
      PROVE  NoCrossing'
  BY <1>5 DEF SetRestartFailed
<1>6. CASE UNCHANGED <<service, mode, transient>>
  BY <1>6
<1>7. ASSUME NEW p \in Pdos, TpdoEvent(p)
      PROVE  NoCrossing'
  <2>1. PICK usable \in BOOLEAN :
             /\ UNCHANGED <<service, mode>>
             /\ \/ UNCHANGED transient
                \/ /\ EventRefusal(p, usable) = "none"
                   /\ transient' = [transient EXCEPT ![p] = mode[p]]
    BY <1>7 DEF TpdoEvent
  <2>2. CASE UNCHANGED transient
    BY <2>1, <2>2
  <2>3. CASE EventRefusal(p, usable) = "none"
             /\ transient' = [transient EXCEPT ![p] = mode[p]]
    <3>1. service[p] = "running"
      BY <2>3 DEF EventRefusal
    <3>2. QED
      BY <2>1, <2>3, <3>1
  <2>4. QED
    BY <2>1, <2>2, <2>3
<1>8. QED
  BY <1>1, <1>2, <1>3, <1>4, <1>5, <1>6, <1>7
  DEF PdoNext, pdoVars, SetTransmission, SetRefused, SetSame, SetDenied,
      GetTransmission

\* No change of the transmission type leaves an event timer running under
\* synchronous transmission, or a synchronous frame pending under event-driven
\* transmission: only the restart that transmission_owner performs clears them.
THEOREM NoCrossingHolds == PdoSpec => []NoCrossing
<1>1. PdoInit => NoCrossing
  BY DEF PdoInit, NoCrossing
<1>2. QED
  BY <1>1, NoCrossingNext, SetEffectiveHolds, PdoTypeCorrect, PTL DEF PdoSpec
=============================================================================

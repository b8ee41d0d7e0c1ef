-------------------------- MODULE SdoRequestProofs --------------------------
(***************************************************************************)
(* Proofs about SdoRequest for every number of requests and every depth of *)
(* the command queue and of the FIFO.                                      *)
(*                                                                         *)
(* The invariant says where a request is in each of its states: which of   *)
(* the queue, the FIFO, the client and the handler's completions holds it, *)
(* and what its own thread may be doing.  Two counts tie the threads to    *)
(* the runtime: sdo_cancel_refs is the number of threads that owe a staged *)
(* completion, plus the mark the owner has put up before its compare-and-  *)
(* exchange; callback_refs is the number of threads that hold a pin.       *)
(***************************************************************************)
EXTENDS SdoRequest, QueueLemmas, FiniteSetTheorems

-----------------------------------------------------------------------------
(* The invariant                                                           *)

CompletePcs == {"complete_load", "complete_mark", "complete_cas", "complete_signal",
                "complete_release"}
PinPcs == {"acquire", "post_pending", "unpin_pending"}
PinActivePcs == {"post_active", "unpin_active"}

\* The completions of r among ts have the result v.
Fate(ts, r, v) == \A i \in 1 .. Len(ts) : ts[i][1] = r => ts[i][2] = v

\* Who holds a request that is in state s: its poster at p, the queue, the FIFO,
\* the client, or the completions.
Placed(s, p, q, f, a, ts, r) ==
    /\ s \in {"NEW", "DONE"} \cup CANCEL_DONE =>
         p # "posting" /\ ~Has(q, <<"SDO", r>>) /\ ~Has(f, r) /\ a # r
    /\ s \in {"NEW"} \cup CANCEL_DONE => ~HasKey(ts, r)
    /\ s = "QUEUED" => /\ p = "posting" <=> ~Has(q, <<"SDO", r>>)
                       /\ ~Has(f, r) /\ a # r /\ ~HasKey(ts, r)
    /\ s = "CANCEL_PENDING" =>
         /\ p # "posting" /\ a # r
         /\ Has(q, <<"SDO", r>>) \/ Has(f, r) \/ HasKey(ts, r)
         /\ ~(Has(q, <<"SDO", r>>) /\ Has(f, r))
         /\ ~(Has(q, <<"SDO", r>>) /\ HasKey(ts, r))
         /\ ~(Has(f, r) /\ HasKey(ts, r))
    /\ s \in {"PENDING", "PENDING_CANCEL_PINNED"} =>
         /\ p # "posting" /\ ~Has(q, <<"SDO", r>>) /\ a # r
         /\ Has(f, r) <=> ~HasKey(ts, r)
    /\ s \in {"ACTIVE", "ACTIVE_CANCEL_PINNED"} =>
         /\ p # "posting" /\ ~Has(q, <<"SDO", r>>) /\ ~Has(f, r)
         /\ a = r <=> ~HasKey(ts, r)
    /\ s = "TEARDOWN_PENDING" =>
         /\ p # "posting" /\ ~Has(q, <<"SDO", r>>) /\ ~Has(f, r) /\ a # r
         /\ HasKey(ts, r)

\* Moreover nothing is queued twice, and a request taken from the FIFO without
\* having been started is completed as canceled.
InPlace(s, p, q, f, a, ts, r) ==
    /\ Placed(s, p, q, f, a, ts, r)
    /\ AtMostOne(q, <<"SDO", r>>) /\ AtMostOne(f, r) /\ OneKey(ts, r)
    /\ s \in {"PENDING", "PENDING_CANCEL_PINNED", "CANCEL_PENDING"} => Fate(ts, r, "CANCELED")

Places == \A r \in Requests : InPlace(state[r], pc[r], mq, pending, active, todo, r)

\* What a thread may be doing with its request.
Threads ==
    \A r \in Requests :
        /\ pc[r] \in {"destroying", "gone"} => state[r] \in {"NEW", "DONE"}
        /\ pc[r] = "gone" => ~HasKey(todo, r)
        /\ pc[r] \in PinPcs <=> state[r] \in {"PENDING_CANCEL_PINNED", "PENDING_CANCEL_DONE"}
        /\ pc[r] \in PinActivePcs <=> state[r] \in {"ACTIVE_CANCEL_PINNED", "ACTIVE_CANCEL_DONE"}
        /\ holds[r] => pc[r] \in {"post_pending", "unpin_pending", "drop_refs", "reschedule", "leave"}
        /\ pc[r] \in {"post_pending", "reschedule"} => holds[r]

\* An accepted cancel.
Cancels ==
    \A r \in Requests : accepted[r] =>
        /\ state[r] \in {"CANCEL_PENDING", "DONE"}
        /\ state[r] = "DONE" => status[r] = "CANCELED"

\* How far the owner is with the completion at the head of todo.
Completions ==
    /\ todo = <<>> <=> owner \notin CompletePcs
    /\ owner \in {"complete_mark", "complete_cas"} => status[Completing] = todo[1][2]
    /\ owner = "complete_cas" /\ seen \notin CANCEL_PINNED => completion_refs[Completing] = 1
    /\ owner \in {"complete_signal", "complete_release"} =>
         state[Completing] = "DONE" /\ completion_refs[Completing] = 1
    /\ \A r \in Requests : HasKey(todo, r) /\ state[r] = "DONE" =>
         owner \in {"complete_signal", "complete_release"} /\ Completing = r

\* How far the teardown is.
Teardown ==
    /\ resume \notin CompletePcs
    /\ owner \notin CompletePcs /\ (owner \in FiniPcs \/ resume \in FiniPcs) => owner = resume
    /\ owner \in CompletePcs => resume \notin {"fini_pins", "exit"}
    /\ resume \in FiniPcs => callback_quiescing /\ stopping
    /\ resume \in {"fini_refs", "fini_pins", "exit"} => mq = <<>> /\ pending = <<>> /\ active = None
    /\ resume \in {"fini_pins", "exit"} => sdo_cancel_refs = 0
    /\ owner = "exit" => callback_refs = 0
    /\ freed => owner = "exit"

Owing == {r \in Requests : state[r] \in CANCEL_DONE \/ pc[r] = "drop_refs"}
Marked == IF owner = "complete_cas" /\ seen \in CANCEL_PINNED THEN 1 ELSE 0
Holding == {r \in Requests : holds[r]}

Counts ==
    /\ sdo_cancel_refs = Cardinality(Owing) + Marked
    /\ callback_refs = Cardinality(Holding)

SdoInv == TypeOK /\ Places /\ Threads /\ Cancels /\ Completions /\ Teardown /\ Counts

-----------------------------------------------------------------------------
(* Completions and the FIFO as sequences                                   *)

\* No completions.
LEMMA KeyNone ==
    \A r, v : ~HasKey(<<>>, r) /\ OneKey(<<>>, r) /\ Fate(<<>>, r, v)
BY KeyedNone DEF Fate

\* A single completion.
LEMMA KeyOne ==
    ASSUME NEW x \in Requests, NEW v \in Results
    PROVE  /\ <<<<x, v>>>> \in Seq(Requests \X Results) /\ <<<<x, v>>>> # <<>>
           /\ <<<<x, v>>>>[1] = <<x, v>>
           /\ \A r : HasKey(<<<<x, v>>>>, r) <=> x = r
           /\ \A r : OneKey(<<<<x, v>>>>, r)
           /\ \A r, w : (x = r => v = w) => Fate(<<<<x, v>>>>, r, w)
<1> DEFINE ts == <<<<x, v>>>>
<1>1. /\ ts \in Seq(Requests \X Results) /\ ts # <<>>
      /\ Len(ts) = 1 /\ ts[1] = <<x, v>>
      /\ \A r : HasKey(ts, r) <=> x = r
      /\ \A r : OneKey(ts, r)
  BY KeyedOne
<1>2. ts[1][1] = x /\ ts[1][2] = v /\ 1 .. Len(ts) = {1}
  BY <1>1
<1> HIDE DEF ts
<1>3. \A r, w : (x = r => v = w) => Fate(ts, r, w)
  BY <1>2 DEF Fate
<1>4. QED
  BY <1>1, <1>3 DEF ts

\* The first completion is done.
LEMMA KeyTake ==
    ASSUME NEW ts \in Seq(Requests \X Results), ts # <<>>
    PROVE  /\ Tail(ts) \in Seq(Requests \X Results) /\ ts[1] \in Requests \X Results
           /\ Len(ts) = 1 <=> Tail(ts) = <<>>
           /\ \A r : HasKey(ts, r) <=> ts[1][1] = r \/ HasKey(Tail(ts), r)
           /\ \A r : OneKey(ts, r) => /\ OneKey(Tail(ts), r)
                                      /\ ts[1][1] = r => ~HasKey(Tail(ts), r)
           /\ \A r, v : Fate(ts, r, v) => /\ Fate(Tail(ts), r, v)
                                          /\ ts[1][1] = r => ts[1][2] = v
<1>1. /\ Tail(ts) \in Seq(Requests \X Results) /\ Len(Tail(ts)) = Len(ts) - 1
      /\ Len(ts) \in Nat \ {0} /\ 1 \in 1 .. Len(ts)
  OBVIOUS
<1>2. \A i \in 1 .. Len(ts) - 1 : Tail(ts)[i] = ts[i + 1] /\ i + 1 \in 1 .. Len(ts)
  OBVIOUS
<1>3. \A r, v : Fate(ts, r, v) => /\ Fate(Tail(ts), r, v)
                                  /\ ts[1][1] = r => ts[1][2] = v
  BY <1>1, <1>2 DEF Fate
<1>4. QED
  BY <1>3, KeyedTake

\* A request that is in the FIFO once is taken out of it.
LEMMA QueueRemove ==
    ASSUME NEW T, NEW s \in Seq(T), NEW i \in 1 .. Len(s), AtMostOne(s, s[i])
    PROVE  /\ RemoveAt(s, i) \in Seq(T) /\ Len(RemoveAt(s, i)) = Len(s) - 1
           /\ \A y : Has(RemoveAt(s, i), y) <=> Has(s, y) /\ y # s[i]
           /\ \A y : AtMostOne(s, y) => AtMostOne(RemoveAt(s, i), y)
<1> DEFINE a == SubSeq(s, 1, i - 1)
           b == SubSeq(s, i + 1, Len(s))
           u == RemoveAt(s, i)
<1>1. /\ a \in Seq(T) /\ Len(a) = i - 1 /\ \A j \in 1 .. i - 1 : a[j] = s[j]
  OBVIOUS
<1>2. /\ b \in Seq(T) /\ Len(b) = Len(s) - i /\ \A j \in 1 .. Len(s) - i : b[j] = s[j + i]
  OBVIOUS
<1>3. u = a \o b
  BY DEF RemoveAt
<1> HIDE DEF a, b, u
<1>4. /\ u \in Seq(T) /\ Len(u) = Len(s) - 1
      /\ \A j \in 1 .. Len(s) - 1 : u[j] = IF j < i THEN s[j] ELSE s[j + 1]
  <2>1. u \in Seq(T) /\ Len(u) = Len(a) + Len(b)
    BY <1>1, <1>2, <1>3, ConcatProperties
  <2>2. ASSUME NEW j \in 1 .. Len(s) - 1
        PROVE  u[j] = IF j < i THEN s[j] ELSE s[j + 1]
    <3>1. u[j] = IF j <= Len(a) THEN a[j] ELSE b[j - Len(a)]
      BY <1>1, <1>2, <1>3
    <3>2. CASE j < i
      BY <1>1, <3>1, <3>2
    <3>3. CASE ~(j < i)
      <4>1. j - Len(a) \in 1 .. Len(s) - i /\ ~(j <= Len(a)) /\ (j - Len(a)) + i = j + 1
        BY <1>1, <3>3
      <4>2. QED
        BY <1>2, <3>1, <3>3, <4>1
    <3>4. QED
      BY <3>2, <3>3
  <2>3. QED
    BY <1>1, <1>2, <2>1, <2>2
<1>5. ASSUME NEW y
      PROVE  Has(u, y) <=> Has(s, y) /\ y # s[i]
  <2>1. ASSUME NEW j \in 1 .. Len(u), u[j] = y
        PROVE  Has(s, y) /\ y # s[i]
    <3>1. CASE j < i
      BY <1>4, <2>1, <3>1 DEF Has, AtMostOne
    <3>2. CASE ~(j < i)
      BY <1>4, <2>1, <3>2 DEF Has, AtMostOne
    <3>3. QED
      BY <3>1, <3>2
  <2>2. ASSUME NEW j \in 1 .. Len(s), s[j] = y, y # s[i]
        PROVE  Has(u, y)
    <3>1. CASE j < i
      BY <1>4, <2>2, <3>1 DEF Has
    <3>2. CASE j > i
      <4>1. j - 1 \in 1 .. Len(u) /\ u[j - 1] = y
        BY <1>4, <2>2, <3>2
      <4>2. QED
        BY <4>1 DEF Has
    <3>3. QED
      BY <2>2, <3>1, <3>2
  <2>3. QED
    BY <2>1, <2>2 DEF Has
<1>6. \A y : AtMostOne(s, y) => AtMostOne(u, y)
  BY <1>4 DEF AtMostOne
<1>7. QED
  BY <1>4, <1>5, <1>6 DEF u

\* cancel_node completes the active request and those in the FIFO.
LEMMA CanceledKeys ==
    ASSUME active \in Requests \cup {None}, pending \in Seq(Requests)
    PROVE  /\ CanceledNode \in Seq(Requests \X Results)
           /\ CanceledNode = <<>> => active = None /\ pending = <<>>
           /\ \A r \in Requests : HasKey(CanceledNode, r) <=> active = r \/ Has(pending, r)
           /\ \A r \in Requests : AtMostOne(pending, r) /\ ~(active = r /\ Has(pending, r))
                                    => OneKey(CanceledNode, r)
           /\ \A r : Fate(CanceledNode, r, "CANCELED")
<1> DEFINE a == IF active = None THEN <<>> ELSE <<<<active, "CANCELED">>>>
           b == [i \in 1 .. Len(pending) |-> <<pending[i], "CANCELED">>]
           n == IF active = None THEN 0 ELSE 1
           u == CanceledNode
<1>1. "CANCELED" \in Results /\ Len(pending) \in Nat
  BY DEF Results
<1>2. a \in Seq(Requests \X Results) /\ Len(a) = n /\ (n = 1 => a[1] = <<active, "CANCELED">>)
  <2>1. CASE active = None
    BY <2>1
  <2>2. CASE active # None
    BY <1>1, <2>2
  <2>3. QED
    BY <2>1, <2>2
<1>3. b \in Seq(Requests \X Results) /\ Len(b) = Len(pending)
  BY <1>1
<1>4. \A i \in 1 .. Len(pending) : b[i] = <<pending[i], "CANCELED">>
  BY <1>1
<1>5. u = a \o b
  BY DEF CanceledNode
<1>6. n \in {0, 1} /\ (n = 1 <=> active # None)
  OBVIOUS
<1> HIDE DEF a, b, n, u
<1>7. u \in Seq(Requests \X Results) /\ Len(u) = n + Len(pending)
  <2>1. u \in Seq(Requests \X Results) /\ Len(u) = Len(a) + Len(b)
    BY <1>2, <1>3, <1>5, ConcatProperties
  <2>2. QED
    BY <1>2, <1>3, <2>1
<1>8. \A j \in 1 .. n + Len(pending) : u[j] = IF j <= n THEN a[j] ELSE b[j - n]
  BY <1>2, <1>3, <1>5, ConcatProperties
<1>9. /\ n = 1 => 1 \in 1 .. Len(u) /\ u[1] = <<active, "CANCELED">>
      /\ \A i \in 1 .. Len(pending) : n + i \in 1 .. Len(u) /\ u[n + i] = <<pending[i], "CANCELED">>
  <2>1. n = 1 => 1 \in 1 .. Len(u) /\ u[1] = <<active, "CANCELED">>
    BY <1>1, <1>2, <1>6, <1>7, <1>8
  <2>2. ASSUME NEW i \in 1 .. Len(pending)
        PROVE  n + i \in 1 .. Len(u) /\ u[n + i] = <<pending[i], "CANCELED">>
    <3>1. n + i \in 1 .. n + Len(pending) /\ ~(n + i <= n) /\ (n + i) - n = i
      BY <1>1, <1>6
    <3>2. QED
      BY <1>4, <1>7, <1>8, <3>1
  <2>3. QED
    BY <2>1, <2>2
<1>10. \A j \in 1 .. Len(u) : \/ n = 1 /\ j = 1
                              \/ j - n \in 1 .. Len(pending) /\ n + (j - n) = j
  BY <1>1, <1>6, <1>7
<1>11. ASSUME NEW j \in 1 .. Len(u)
       PROVE  /\ u[j][2] = "CANCELED"
              /\ n = 1 /\ j = 1 => u[j][1] = active
              /\ ~(n = 1 /\ j = 1) => j - n \in 1 .. Len(pending) /\ u[j][1] = pending[j - n]
  BY <1>9, <1>10
<1>12. u = <<>> => active = None /\ pending = <<>>
  <2> SUFFICES ASSUME u = <<>>
               PROVE  active = None /\ pending = <<>>
    OBVIOUS
  <2>1. Len(u) = 0
    OBVIOUS
  <2>2. n = 0 /\ Len(pending) = 0
    BY <1>1, <1>6, <1>7, <2>1
  <2>3. QED
    BY <1>6, <2>2, EmptySeq
<1>13. ASSUME NEW r \in Requests
       PROVE  HasKey(u, r) <=> active = r \/ Has(pending, r)
  <2>1. HasKey(u, r) => active = r \/ Has(pending, r)
    BY <1>11 DEF HasKey, Has
  <2>2. active = r => HasKey(u, r)
    BY <1>6, <1>9, SdoAssumption DEF HasKey
  <2>3. Has(pending, r) => HasKey(u, r)
    BY <1>9 DEF HasKey, Has
  <2>4. QED
    BY <2>1, <2>2, <2>3
<1>14. ASSUME NEW r \in Requests, AtMostOne(pending, r), ~(active = r /\ Has(pending, r))
       PROVE  OneKey(u, r)
  <2> SUFFICES ASSUME NEW i \in 1 .. Len(u), NEW j \in 1 .. Len(u), u[i][1] = r, u[j][1] = r
               PROVE  i = j
    BY DEF OneKey
  <2>1. CASE active = r
    BY <1>6, <1>11, <1>14, <2>1 DEF Has
  <2>2. CASE active # r
    <3>1. i - n \in 1 .. Len(pending) /\ pending[i - n] = r /\ j - n \in 1 .. Len(pending) /\ pending[j - n] = r
      BY <1>11, <2>2
    <3>2. i - n = j - n
      BY <1>14, <3>1 DEF AtMostOne
    <3>3. QED
      BY <1>6, <1>7, <3>2
  <2>3. QED
    BY <2>1, <2>2
<1>15. \A r : Fate(u, r, "CANCELED")
  BY <1>11 DEF Fate
<1>16. QED
  BY <1>7, <1>12, <1>13, <1>14, <1>15 DEF u

-----------------------------------------------------------------------------
(* Types                                                                   *)

\* What the end of a handler leaves to the owner.
LEMMA FinishTypes ==
    ASSUME NEW cs, NEW n, Finish(cs, n), TypeOK,
           cs \in Seq(Requests \X Results), n \in OwnerPcs
    PROVE  todo' \in Seq(Requests \X Results) /\ owner' \in OwnerPcs /\ resume' \in OwnerPcs
           /\ seen' \in States
BY DEF Finish, TypeOK, OwnerPcs

\* A handler has no completion, one, or those of the whole node.
LEMMA NextTypes ==
    ASSUME TypeOK, NextCompletion, owner \in CompletePcs, todo # <<>>
    PROVE  todo' \in Seq(Requests \X Results) /\ owner' \in OwnerPcs /\ seen' \in States
BY KeyTake DEF NextCompletion, TypeOK, OwnerPcs, States

\* The two queues after a command was put or taken.
LEMMA MqTypes ==
    ASSUME TypeOK
    PROVE  /\ \A r \in Requests, k \in {"SDO", "SDO_CANCEL"} : Len(mq) < QueueDepth =>
                /\ Append(mq, <<k, r>>) \in Seq({"SDO", "SDO_CANCEL"} \X Requests)
                /\ Len(Append(mq, <<k, r>>)) <= QueueDepth
           /\ mq # <<>> => /\ Tail(mq) \in Seq({"SDO", "SDO_CANCEL"} \X Requests)
                           /\ Len(Tail(mq)) <= QueueDepth
                           /\ mq[1] \in {"SDO", "SDO_CANCEL"} \X Requests
                           /\ mq[1][2] \in Requests
<1>1. mq \in Seq({"SDO", "SDO_CANCEL"} \X Requests) /\ Len(mq) <= QueueDepth /\ QueueDepth \in Nat
  BY SdoAssumption DEF TypeOK
<1>2. ASSUME NEW r \in Requests, NEW k \in {"SDO", "SDO_CANCEL"}, Len(mq) < QueueDepth
      PROVE  /\ Append(mq, <<k, r>>) \in Seq({"SDO", "SDO_CANCEL"} \X Requests)
             /\ Len(Append(mq, <<k, r>>)) <= QueueDepth
  <2>1. <<k, r>> \in {"SDO", "SDO_CANCEL"} \X Requests
    OBVIOUS
  <2>2. QED
    BY <1>1, <1>2, <2>1
<1>3. ASSUME mq # <<>>
      PROVE  /\ Tail(mq) \in Seq({"SDO", "SDO_CANCEL"} \X Requests)
             /\ Len(Tail(mq)) <= QueueDepth
             /\ mq[1] \in {"SDO", "SDO_CANCEL"} \X Requests
             /\ mq[1][2] \in Requests
  BY <1>1, <1>3
<1>4. QED
  BY <1>2, <1>3

LEMMA FifoTypes ==
    ASSUME TypeOK
    PROVE  /\ \A r \in Requests : Len(pending) < FifoDepth =>
                Append(pending, r) \in Seq(Requests) /\ Len(Append(pending, r)) <= FifoDepth
           /\ pending # <<>> => /\ Tail(pending) \in Seq(Requests) /\ Len(Tail(pending)) <= FifoDepth
                                /\ pending[1] \in Requests
           /\ <<>> \in Seq(Requests) /\ Len(<<>>) <= FifoDepth
BY SdoAssumption DEF TypeOK

\* A step of a request's thread.
LEMMA ThreadTypes ==
    ASSUME TypeOK, NEW r \in Requests, ThreadNext(r),
           sdo_cancel_refs' \in Nat, callback_refs' \in Nat
    PROVE  TypeOK'
<1> USE DEF TypeOK, requestVars, threadVars, nodeVars, pinVars, runtimeVars, ownerVars
<1>a. ASSUME NEW a, NEW b \in ThreadPcs, Goto(r, a, b)
      PROVE  pc' \in [Requests -> ThreadPcs]
  BY <1>a DEF Goto
<1>b. ASSUME NEW x \in States, state' = [state EXCEPT ![r] = x]
      PROVE  state' \in [Requests -> States]
  BY <1>b
<1>c. {"NEW", "QUEUED", "PENDING", "ACTIVE", "CANCEL_PENDING", "PENDING_CANCEL_PINNED",
       "ACTIVE_CANCEL_PINNED", "DONE"} \subseteq States
  BY DEF States, CANCEL_PINNED
<1>d. {"idle", "posting", "waiting", "destroying", "gone", "post_pending", "unpin_pending",
       "acquire", "post_active", "unpin_active", "reschedule", "leave", "drop_refs"} \subseteq ThreadPcs
  BY DEF ThreadPcs, CancelPcs
<1>1. CASE Post(r)
  BY <1>1, <1>a, <1>b, <1>c, <1>d DEF Post
<1>2. CASE PostDone(r)
  <2>1. pc' \in [Requests -> ThreadPcs]
    BY <1>2, <1>a, <1>d DEF PostDone
  <2>2. CASE CommandAdmitted /\ mq' = Append(mq, <<"SDO", r>>) /\ UNCHANGED state
    BY <1>2, <2>1, <2>2, MqTypes DEF PostDone, CommandAdmitted
  <2>3. CASE state' = [state EXCEPT ![r] = "NEW"] /\ UNCHANGED mq
    BY <1>2, <1>b, <1>c, <2>1, <2>3 DEF PostDone
  <2>4. QED
    BY <1>2, <2>2, <2>3 DEF PostDone
<1>3. CASE Wait(r) \/ WaitTimeout(r) \/ Destroy(r) \/ DestroyFree(r) \/ CancelReschedule(r)
  <2>1. pc' \in [Requests -> ThreadPcs]
    BY <1>3, <1>a, <1>d DEF Wait, WaitTimeout, Destroy, DestroyFree, CancelReschedule
  <2>2. QED
    BY <1>3, <2>1 DEF Wait, WaitTimeout, Destroy, DestroyFree, CancelReschedule
<1>4. CASE WaitEvent(r)
  <2>1. pc' \in [Requests -> ThreadPcs]
    BY <1>4, <1>a, <1>d DEF WaitEvent
  <2>2. QED
    BY <1>4, <2>1 DEF WaitEvent
<1>5. CASE Cancel(r)
  <2>a. \/ pc' = pc
        \/ pc' = [pc EXCEPT ![r] = "acquire"]
        \/ pc' = [pc EXCEPT ![r] = "post_active"]
    BY <1>5 DEF Cancel
  <2>b. pc' \in [Requests -> ThreadPcs]
    BY <1>d, <2>a
  <2>c. accepted' = accepted \/ accepted' = [accepted EXCEPT ![r] = TRUE]
    BY <1>5 DEF Cancel
  <2>d. accepted' \in [Requests -> BOOLEAN]
    BY <2>c, Zenon
  <2>1. pc' \in [Requests -> ThreadPcs] /\ accepted' \in [Requests -> BOOLEAN]
    BY <2>b, <2>d
  <2>2. state' \in [Requests -> States]
    BY <1>5, <1>b, <1>c DEF Cancel
  <2>3. cancels' \in [Requests -> 0 .. MaxCancels]
    BY <1>5, SdoAssumption DEF Cancel
  <2>4. QED
    BY <1>5, <2>1, <2>2, <2>3 DEF Cancel
<1>6. CASE CancelAcquire(r)
  <2>1. pc' \in [Requests -> ThreadPcs]
    BY <1>6, <1>a, <1>d DEF CancelAcquire
  <2>2. QED
    BY <1>6, <2>1 DEF CancelAcquire
<1>7. CASE CancelPost(r)
  <2>1. pc' \in [Requests -> ThreadPcs]
    BY <1>7, <1>a, <1>d DEF CancelPost
  <2>2. CASE CommandAdmitted /\ mq' = Append(mq, <<"SDO_CANCEL", r>>)
             /\ admitted' = [admitted EXCEPT ![r] = TRUE]
    BY <1>7, <2>1, <2>2, MqTypes DEF CancelPost, CommandAdmitted
  <2>3. CASE UNCHANGED <<mq, admitted>>
    BY <1>7, <2>1, <2>3 DEF CancelPost
  <2>4. QED
    BY <1>7, <2>2, <2>3 DEF CancelPost
<1>8. CASE CancelUnpin(r)
  <2>1. pc' \in [Requests -> ThreadPcs]
    BY <1>8, <1>a, <1>d DEF CancelUnpin
  <2>2. state' \in [Requests -> States]
    BY <1>8, <1>b, <1>c DEF CancelUnpin
  <2>3. accepted' \in [Requests -> BOOLEAN]
    BY <1>8 DEF CancelUnpin
  <2>4. QED
    BY <1>8, <2>1, <2>2, <2>3 DEF CancelUnpin
<1>9. CASE CancelPublish(r)
  <2>1. pc' \in [Requests -> ThreadPcs]
    BY <1>9, <1>a, <1>d DEF CancelPublish
  <2>2. QED
    BY <1>9, <1>b, <1>c, <2>1 DEF CancelPublish
<1>10. CASE CancelDropRefs(r)
  <2>1. pc' \in [Requests -> ThreadPcs]
    BY <1>10, <1>a, <1>d DEF CancelDropRefs
  <2>2. QED
    BY <1>10, <2>1 DEF CancelDropRefs
<1>11. CASE CancelLeave(r)
  <2>1. pc' \in [Requests -> ThreadPcs]
    BY <1>11, <1>a, <1>d DEF CancelLeave
  <2>2. QED
    BY <1>11, <2>1 DEF CancelLeave
<1>12. QED
  BY <1>1, <1>2, <1>3, <1>4, <1>5, <1>6, <1>7, <1>8, <1>9, <1>10, <1>11 DEF ThreadNext, ThreadCall

\* A step of the owner.
LEMMA OwnerTypes ==
    ASSUME TypeOK, Places, Completions, OwnerNext, sdo_cancel_refs' \in Nat
    PROVE  TypeOK'
<1> USE DEF requestVars, threadVars, nodeVars, pinVars, runtimeVars, ownerVars
<1>0. todo # <<>> => Completing \in Requests /\ todo[1][2] \in Results
  BY KeyTake DEF TypeOK, Completing
<1>1. CASE CompleteLoad
  <2>1. todo # <<>>
    BY <1>1 DEF CompleteLoad, Completions, CompletePcs
  <2>2. CASE NextCompletion /\ UNCHANGED status
    <3>1. todo' \in Seq(Requests \X Results) /\ owner' \in OwnerPcs /\ seen' \in States
      BY <1>1, <2>1, <2>2, NextTypes DEF CompleteLoad, CompletePcs
    <3>2. QED
      BY <1>1, <2>2, <3>1 DEF CompleteLoad, TypeOK
  <2>3. CASE /\ status' = [status EXCEPT ![Completing] = todo[1][2]]
             /\ seen' = state[Completing]
             /\ owner' = "complete_mark" /\ UNCHANGED todo
    BY <1>0, <1>1, <2>1, <2>3 DEF CompleteLoad, TypeOK, OwnerPcs
  <2>4. QED
    BY <1>1, <2>2, <2>3 DEF CompleteLoad
<1>2. CASE CompleteMark
  <2>1. todo # <<>>
    BY <1>2 DEF CompleteMark, Completions, CompletePcs
  <2>2. QED
    BY <1>0, <1>2, <2>1 DEF CompleteMark, TypeOK, OwnerPcs
<1>3. CASE CompleteCas
  <2>1. todo # <<>>
    BY <1>3 DEF CompleteCas, Completions, CompletePcs
  <2>2. todo' \in Seq(Requests \X Results) /\ owner' \in OwnerPcs /\ seen' \in States
    BY <1>3, <2>1, NextTypes DEF CompleteCas, CompletePcs, TypeOK, OwnerPcs
  <2>3. state' \in [Requests -> States]
    BY <1>0, <1>3, <2>1 DEF CompleteCas, TypeOK, States, Staged, CANCEL_DONE
  <2>4. QED
    BY <1>3, <2>2, <2>3 DEF CompleteCas, TypeOK
<1>4. CASE CompleteRetry
  <2>1. todo # <<>>
    BY <1>4 DEF CompleteRetry, Completions, CompletePcs
  <2>2. QED
    BY <1>0, <1>4, <2>1 DEF CompleteRetry, TypeOK, OwnerPcs
<1>5. CASE CompleteSignal
  <2>1. todo # <<>>
    BY <1>5 DEF CompleteSignal, Completions, CompletePcs
  <2>2. QED
    BY <1>0, <1>5, <2>1 DEF CompleteSignal, TypeOK, OwnerPcs
<1>6. CASE CompleteRelease
  <2>1. todo # <<>>
    BY <1>6 DEF CompleteRelease, Completions, CompletePcs
  <2>2. QED
    BY <1>0, <1>6, <2>1, NextTypes DEF CompleteRelease, TypeOK, CompletePcs
<1> DEFINE Ended == /\ todo' \in Seq(Requests \X Results) /\ owner' \in OwnerPcs
                    /\ resume' \in OwnerPcs /\ seen' \in States
           Pcs == {"events", "dispatch", "reap", "fini_drain", "fini_refs"}
<1>7. Pcs \subseteq OwnerPcs
  BY DEF OwnerPcs, FiniPcs
<1>8. ASSUME NEW n \in Pcs, Finish(<<>>, n)
      PROVE  Ended
  <2>1. <<>> \in Seq(Requests \X Results)
    OBVIOUS
  <2>2. QED
    BY <1>7, <1>8, <2>1, FinishTypes
<1>9. ASSUME NEW n \in Pcs, NEW r \in Requests, NEW v \in Results, Finish(<<<<r, v>>>>, n)
      PROVE  Ended
  BY <1>7, <1>9, KeyOne, FinishTypes
<1>10. ASSUME NEW n \in Pcs, Finish(CanceledNode, n)
       PROVE  Ended
  <2>1. CanceledNode \in Seq(Requests \X Results)
    BY CanceledKeys DEF TypeOK
  <2>2. QED
    BY <1>7, <1>10, <2>1, FinishTypes
<1>11. {"PROTOCOL", "LOCAL_ERROR", "CANCELED", "CANCELED_TEARDOWN"} \subseteq Results
  BY DEF Results
<1> HIDE DEF Ended
<1>12. ASSUME NEW r \in Requests, NEW p, NEW n \in Pcs, NEW q \in Pcs, p \in BOOLEAN,
              StartActive(r, p, n, q)
       PROVE  active' \in Requests \cup {None} /\ stop_pending' \in BOOLEAN /\ Ended
  BY <1>8, <1>9, <1>11, <1>12 DEF StartActive, TypeOK
<1>13. CASE OwnerPoll \/ DispatchEnd \/ NodeGate
  BY <1>13 DEF OwnerPoll, DispatchEnd, NodeGate, TypeOK, OwnerPcs
<1>14. CASE TransferEnd
  <2>1. active \in Requests
    BY <1>14 DEF TransferEnd, TypeOK
  <2>2. Ended
    BY <1>9, <1>11, <1>14, <2>1 DEF TransferEnd
  <2>3. QED
    BY <1>14, <2>2 DEF TransferEnd, TypeOK, Ended
<1>15. CASE NodeCancel
  <2>1. Ended
    BY <1>10, <1>15 DEF NodeCancel
  <2>2. QED
    BY <1>15, <2>1, FifoTypes DEF NodeCancel, TypeOK, Ended
<1>16. CASE DispatchSdo
  <2> DEFINE r == mq[1][2]
  <2>1. mq # <<>> /\ r \in Requests
    BY <1>16, MqTypes DEF DispatchSdo, IsCommand
  <2> HIDE DEF r
  <2>2. CASE ClaimedStart(r)
    BY <1>12, <1>16, <2>1, <2>2, MqTypes DEF ClaimedStart, DispatchSdo, TypeOK, Ended, States
  <2>3. CASE ~ClaimedStart(r) /\ Claimed(r)
    <3>1. Ended
      BY <1>8, <1>9, <1>11, <2>1, <2>3 DEF Claimed
    <3>2. QED
      BY <1>16, <2>1, <2>3, <3>1, MqTypes, FifoTypes DEF Claimed, DispatchSdo, TypeOK, Ended, States
  <2>4. CASE ClaimCanceled(r)
    <3>1. Ended
      BY <1>9, <1>11, <2>1, <2>4 DEF ClaimCanceled
    <3>2. QED
      BY <1>16, <2>1, <2>4, <3>1, MqTypes DEF ClaimCanceled, DispatchSdo, TypeOK, Ended
  <2>5. QED
    BY <1>16, <2>2, <2>3, <2>4 DEF DispatchSdo, r
<1>17. CASE DispatchCancel
  <2> DEFINE r == mq[1][2]
  <2>1. mq # <<>> /\ r \in Requests
    BY <1>17, MqTypes DEF DispatchCancel, IsCommand
  <2>2. Ended
    BY <1>8, <1>9, <1>11, <1>17, <2>1 DEF DispatchCancel
  <2>3. pending' \in Seq(Requests) /\ Len(pending') <= FifoDepth
    <3>1. ASSUME NEW i \in 1 .. Len(pending), pending' = RemoveAt(pending, i)
          PROVE  pending' \in Seq(Requests) /\ Len(pending') <= FifoDepth
      <4>0. pending[i] \in Requests
        BY DEF TypeOK
      <4>1. AtMostOne(pending, pending[i])
        BY <4>0 DEF Places, InPlace
      <4>2. QED
        BY <3>1, <4>1, QueueRemove, SdoAssumption DEF TypeOK
    <3>2. QED
      BY <1>17, <3>1 DEF DispatchCancel, TypeOK
  <2>4. active' \in Requests \cup {None} /\ stop_pending' \in BOOLEAN
    BY <1>17 DEF DispatchCancel, TypeOK
  <2>5. mq' \in Seq({"SDO", "SDO_CANCEL"} \X Requests) /\ Len(mq') <= QueueDepth
    BY <1>17, <2>1, MqTypes DEF DispatchCancel
  <2>6. QED
    BY <1>17, <2>2, <2>3, <2>4, <2>5 DEF DispatchCancel, TypeOK, Ended
<1>18. CASE Reap
  <2> DEFINE head == pending[1]
  <2>1. pending # <<>> => head \in Requests
    BY FifoTypes
  <2>2. CASE /\ pending # <<>>
             /\ state' = [state EXCEPT ![head] = "ACTIVE"]
             /\ pending' = Tail(pending)
             /\ StartActive(head, FALSE, "events", "reap")
    <3>1. active' \in Requests \cup {None} /\ stop_pending' \in BOOLEAN /\ Ended
      BY <1>12, <2>1, <2>2
    <3>2. QED
      BY <1>18, <2>1, <2>2, <3>1, FifoTypes DEF Reap, TypeOK, Ended, States
  <2>3. CASE /\ pending # <<>>
             /\ pending' = Tail(pending)
             /\ stop_pending' = FALSE
             /\ Finish(<<<<head, "CANCELED">>>>, "events")
             /\ UNCHANGED <<state, active>>
    <3>1. Ended
      BY <1>9, <1>11, <2>1, <2>3
    <3>2. QED
      BY <1>18, <2>1, <2>3, <3>1, FifoTypes DEF Reap, TypeOK, Ended
  <2>4. CASE /\ stop_pending' = (stop_pending /\ active # None)
             /\ Finish(<<>>, "events")
             /\ UNCHANGED <<state, active, pending>>
    <3>1. Ended
      BY <1>8, <2>4
    <3>2. QED
      BY <1>18, <2>4, <3>1 DEF Reap, TypeOK, Ended
  <2>5. QED
    BY <1>18, <2>2, <2>3, <2>4 DEF Reap
<1>19. CASE OwnerStop
  BY <1>19 DEF OwnerStop, TypeOK, OwnerPcs, FiniPcs
<1>20. CASE RetireSdo
  <2> DEFINE r == mq[1][2]
  <2>1. mq # <<>> /\ r \in Requests
    BY <1>20, MqTypes DEF RetireSdo, IsCommand
  <2>2. Ended
    BY <1>9, <1>11, <1>20, <2>1 DEF RetireSdo
  <2>3. state' \in [Requests -> States]
    BY <1>20, <2>1 DEF RetireSdo, TypeOK, States
  <2>4. QED
    BY <1>20, <2>1, <2>2, <2>3, MqTypes DEF RetireSdo, TypeOK, Ended
<1>21. CASE RetireCancel
  BY <1>21, MqTypes DEF RetireCancel, IsCommand, TypeOK
<1>22. CASE FiniCancel
  <2>1. Ended
    BY <1>10, <1>22 DEF FiniCancel
  <2>2. QED
    BY <1>22, <2>1, FifoTypes DEF FiniCancel, TypeOK, Ended
<1>23. CASE FiniRefs \/ FiniPins
  BY <1>23 DEF FiniRefs, FiniPins, TypeOK, OwnerPcs, FiniPcs
<1>24. QED
  BY <1>1, <1>2, <1>3, <1>4, <1>5, <1>6, <1>13, <1>14, <1>15, <1>16, <1>17, <1>18, <1>19, <1>20,
     <1>21, <1>22, <1>23 DEF OwnerNext

-----------------------------------------------------------------------------
(* Where the requests are                                                  *)

\* Commands put into and taken from the queue, as far as requests are concerned.
LEMMA MqHas ==
    ASSUME TypeOK, NEW q \in Requests
    PROVE  /\ \A r \in Requests, k \in {"SDO", "SDO_CANCEL"} :
                /\ Has(Append(mq, <<k, r>>), <<"SDO", q>>)
                     <=> Has(mq, <<"SDO", q>>) \/ (k = "SDO" /\ r = q)
                /\ AtMostOne(mq, <<"SDO", q>>) /\ (k = "SDO" /\ r = q => ~Has(mq, <<"SDO", q>>))
                     => AtMostOne(Append(mq, <<k, r>>), <<"SDO", q>>)
           /\ mq # <<>> => /\ Has(mq, <<"SDO", q>>) <=> \/ mq[1][1] = "SDO" /\ mq[1][2] = q
                                                        \/ Has(Tail(mq), <<"SDO", q>>)
                           /\ AtMostOne(mq, <<"SDO", q>>) =>
                                /\ AtMostOne(Tail(mq), <<"SDO", q>>)
                                /\ mq[1][1] = "SDO" /\ mq[1][2] = q => ~Has(Tail(mq), <<"SDO", q>>)
<1> DEFINE C == {"SDO", "SDO_CANCEL"} \X Requests
<1>1. mq \in Seq(C)
  BY DEF TypeOK
<1>2. ASSUME NEW r \in Requests, NEW k \in {"SDO", "SDO_CANCEL"}
      PROVE  /\ Has(Append(mq, <<k, r>>), <<"SDO", q>>)
                  <=> Has(mq, <<"SDO", q>>) \/ (k = "SDO" /\ r = q)
             /\ AtMostOne(mq, <<"SDO", q>>) /\ (k = "SDO" /\ r = q => ~Has(mq, <<"SDO", q>>))
                  => AtMostOne(Append(mq, <<k, r>>), <<"SDO", q>>)
  <2>1. <<k, r>> \in C /\ (<<k, r>> = <<"SDO", q>> <=> k = "SDO" /\ r = q)
    OBVIOUS
  <2> HIDE DEF C
  <2>2. QED
    BY <1>1, <2>1, QueuePut
<1>3. ASSUME mq # <<>>
      PROVE  /\ Has(mq, <<"SDO", q>>) <=> \/ mq[1][1] = "SDO" /\ mq[1][2] = q
                                          \/ Has(Tail(mq), <<"SDO", q>>)
             /\ AtMostOne(mq, <<"SDO", q>>) =>
                  /\ AtMostOne(Tail(mq), <<"SDO", q>>)
                  /\ mq[1][1] = "SDO" /\ mq[1][2] = q => ~Has(Tail(mq), <<"SDO", q>>)
  <2>1. mq[1] \in C /\ Head(mq) = mq[1]
    BY <1>1, <1>3
  <2>2. mq[1] = <<"SDO", q>> <=> mq[1][1] = "SDO" /\ mq[1][2] = q
    BY <2>1
  <2> HIDE DEF C
  <2>3. QED
    BY <1>1, <1>3, <2>1, <2>2, QueueTake
<1>4. QED
  BY <1>2, <1>3

\* A thread changes the place of its own request only.
LEMMA ThreadPlaces ==
    ASSUME TypeOK, Places, Threads, NEW r \in Requests, ThreadNext(r)
    PROVE  Places'
<1> SUFFICES ASSUME NEW q \in Requests
             PROVE  /\ Placed(state'[q], pc'[q], mq', pending', active', todo', q)
                    /\ AtMostOne(mq', <<"SDO", q>>) /\ AtMostOne(pending', q) /\ OneKey(todo', q)
                    /\ state'[q] \in {"PENDING", "PENDING_CANCEL_PINNED", "CANCEL_PENDING"} =>
                         Fate(todo', q, "CANCELED")
  BY DEF Places, InPlace
<1>1. /\ Placed(state[q], pc[q], mq, pending, active, todo, q)
      /\ AtMostOne(mq, <<"SDO", q>>) /\ AtMostOne(pending, q) /\ OneKey(todo, q)
      /\ state[q] \in {"PENDING", "PENDING_CANCEL_PINNED", "CANCEL_PENDING"} =>
           Fate(todo, q, "CANCELED")
  BY DEF Places, InPlace
<1>2. pending' = pending /\ active' = active /\ todo' = todo
  BY DEF ThreadNext, ThreadCall, Post, PostDone, Wait, WaitEvent, WaitTimeout, Destroy, DestroyFree,
         Cancel, CancelAcquire, CancelPost, CancelUnpin, CancelPublish, CancelDropRefs,
         CancelReschedule, CancelLeave, nodeVars, ownerVars
<1>3. \/ mq' = mq
      \/ PostDone(r) /\ mq' = Append(mq, <<"SDO", r>>)
      \/ CancelPost(r) /\ mq' = Append(mq, <<"SDO_CANCEL", r>>)
  BY DEF ThreadNext, ThreadCall, Post, PostDone, Wait, WaitEvent, WaitTimeout, Destroy, DestroyFree,
         Cancel, CancelAcquire, CancelPost, CancelUnpin, CancelPublish, CancelDropRefs,
         CancelReschedule, CancelLeave
<1>4. ~(PostDone(r) /\ mq' # mq /\ q = r) =>
         (Has(mq', <<"SDO", q>>) <=> Has(mq, <<"SDO", q>>)) /\ AtMostOne(mq', <<"SDO", q>>)
  BY <1>1, <1>3, MqHas
<1>5. ASSUME ~(PostDone(r) /\ mq' # mq /\ q = r), state'[q] = state[q],
             pc'[q] = "posting" <=> pc[q] = "posting"
      PROVE  Placed(state'[q], pc'[q], mq', pending', active', todo', q)
  BY <1>1, <1>2, <1>4, <1>5 DEF Placed
<1>6. CASE q # r
  <2>1. state'[q] = state[q] /\ pc'[q] = pc[q]
    BY <1>6 DEF ThreadNext, ThreadCall, Post, PostDone, Wait, WaitEvent, WaitTimeout, Destroy, DestroyFree,
         Cancel, CancelAcquire, CancelPost, CancelUnpin, CancelPublish, CancelDropRefs,
         CancelReschedule, CancelLeave, requestVars, Goto, TypeOK
  <2>2. QED
    BY <1>1, <1>2, <1>4, <1>5, <1>6, <2>1
<1>7. CASE q = r
  <2> USE <1>7 DEF TypeOK, Goto
  <2>1. CASE Post(r)
    <3>1. state[q] = "NEW" /\ state'[q] = "QUEUED" /\ pc'[q] = "posting" /\ mq' = mq
      BY <2>1 DEF Post
    <3>2. QED
      BY <1>1, <1>2, <3>1 DEF Placed, CANCEL_DONE
  <2>2. CASE PostDone(r)
    <3>1. state[q] = "QUEUED" /\ pc[q] = "posting" /\ pc'[q] = "idle"
      BY <1>1, <2>2 DEF PostDone, Placed, States, CANCEL_DONE, CANCEL_PINNED
    <3>2. CASE mq' = Append(mq, <<"SDO", r>>) /\ UNCHANGED state
      <4>1. Has(mq', <<"SDO", q>>) /\ AtMostOne(mq', <<"SDO", q>>)
        BY <1>1, <3>1, <3>2, MqHas DEF Placed
      <4>2. QED
        BY <1>1, <1>2, <3>1, <3>2, <4>1 DEF Placed, CANCEL_DONE
    <3>3. CASE state' = [state EXCEPT ![r] = "NEW"] /\ UNCHANGED mq
      <4>1. state'[q] = "NEW"
        BY <3>3
      <4>2. QED
        BY <1>1, <1>2, <3>1, <3>3, <4>1 DEF Placed, CANCEL_DONE
    <3>4. QED
      BY <2>2, <3>2, <3>3 DEF PostDone
  <2>3. CASE Cancel(r)
    <3>1. pc'[q] # "posting" /\ mq' = mq /\ pc[q] = "idle"
      BY <2>3 DEF Cancel
    <3>2. \/ state[q] = "QUEUED" /\ state'[q] = "CANCEL_PENDING"
          \/ state[q] = "PENDING" /\ state'[q] = "PENDING_CANCEL_PINNED"
          \/ state[q] = "ACTIVE" /\ state'[q] = "ACTIVE_CANCEL_PINNED"
      BY <2>3 DEF Cancel
    <3>3. state[q] = "QUEUED" => Fate(todo, q, "CANCELED")
      BY <1>1 DEF Placed, HasKey, Fate
    <3>4. QED
      BY <1>1, <1>2, <3>1, <3>2, <3>3 DEF Placed, CANCEL_DONE
  <2>4. CASE CancelUnpin(r)
    <3>1. pc'[q] # "posting" /\ mq' = mq /\ pc[q] # "posting"
      BY <2>4 DEF CancelUnpin
    <3>2. \/ state[q] = "PENDING_CANCEL_PINNED" /\ state'[q] \in {"CANCEL_PENDING", "PENDING"}
          \/ state[q] = "ACTIVE_CANCEL_PINNED" /\ state'[q] = "ACTIVE"
      BY <2>4 DEF CancelUnpin
    <3>3. QED
      BY <1>1, <1>2, <3>1, <3>2 DEF Placed, CANCEL_DONE
  <2>5. CASE CancelPublish(r)
    <3>1. pc'[q] # "posting" /\ mq' = mq /\ state[q] \in CANCEL_DONE /\ state'[q] = "DONE"
      BY <2>5 DEF CancelPublish
    <3>2. QED
      BY <1>1, <1>2, <3>1 DEF Placed, CANCEL_DONE
  <2>6. CASE Wait(r) \/ WaitEvent(r) \/ WaitTimeout(r) \/ Destroy(r) \/ DestroyFree(r) \/ CancelAcquire(r)
             \/ CancelPost(r) \/ CancelDropRefs(r) \/ CancelReschedule(r) \/ CancelLeave(r)
    <3>1. state'[q] = state[q] /\ pc'[q] # "posting" /\ pc[q] # "posting"
      BY <2>6 DEF Wait, WaitEvent, WaitTimeout, Destroy, DestroyFree, CancelAcquire, CancelPost,
                  CancelDropRefs, CancelReschedule, CancelLeave, requestVars
    <3>2. ~PostDone(r)
      BY <3>1 DEF PostDone
    <3>3. QED
      BY <1>1, <1>2, <1>4, <1>5, <3>1, <3>2
  <2>7. QED
    BY <2>1, <2>2, <2>3, <2>4, <2>5, <2>6 DEF ThreadNext, ThreadCall
<1>8. QED
  BY <1>6, <1>7

\* A request that no completion is about.
LEMMA KeyAbsent ==
    ASSUME NEW ts, NEW r, ~HasKey(ts, r)
    PROVE  OneKey(ts, r) /\ \A v : Fate(ts, r, v)
BY DEF HasKey, OneKey, Fate

\* The owner moves requests between the queues as their states say.
LEMMA OwnerPlaces ==
    ASSUME TypeOK, Places, Threads, Completions, OwnerNext
    PROVE  Places'
<1> SUFFICES ASSUME NEW q \in Requests
             PROVE  InPlace(state'[q], pc'[q], mq', pending', active', todo', q)
  BY DEF Places
<1>1. InPlace(state[q], pc[q], mq, pending, active, todo, q) /\ state[q] \in States
  BY DEF Places, TypeOK
<1>2. pc' = pc
  BY DEF OwnerNext, CompleteLoad, CompleteMark, CompleteCas, CompleteRetry, CompleteSignal, CompleteRelease,
         OwnerPoll, TransferEnd, NodeCancel, NodeGate, DispatchSdo, DispatchCancel, DispatchEnd, Reap,
         OwnerStop, RetireSdo, RetireCancel, FiniCancel, FiniRefs, FiniPins, threadVars
<1>3. CASE UNCHANGED <<state, mq, pending, active, todo>>
  BY <1>1, <1>2, <1>3
<1>4. todo # <<>> => /\ Completing \in Requests /\ HasKey(todo, Completing)
                     /\ HasKey(todo, q) <=> Completing = q \/ HasKey(Tail(todo), q)
                     /\ OneKey(Tail(todo), q) /\ (Completing = q => ~HasKey(Tail(todo), q))
                     /\ \A v : Fate(todo, q, v) => Fate(Tail(todo), q, v)
  BY <1>1, KeyTake DEF TypeOK, Completing, InPlace
<1>5. CASE CompleteLoad
  <2>1. todo # <<>>
    BY <1>5 DEF CompleteLoad, Completions, CompletePcs
  <2>2. state[Completing] \notin {"DONE"} \cup CANCEL_DONE
    BY <1>4, <1>5, <2>1 DEF CompleteLoad, Completions, Places, InPlace, Placed
  <2>3. QED
    BY <1>3, <1>5, <2>2 DEF CompleteLoad, nodeVars
<1>6. CASE CompleteMark \/ CompleteRetry \/ CompleteSignal
  BY <1>3, <1>6 DEF CompleteMark, CompleteRetry, CompleteSignal, nodeVars
<1>7. CASE CompleteCas
  <2>1. todo # <<>>
    BY <1>7 DEF CompleteCas, Completions, CompletePcs
  <2>2. UNCHANGED <<mq, pending, active>> /\ state[Completing] = seen
    BY <1>7 DEF CompleteCas, nodeVars
  <2>3. CASE seen \in CANCEL_PINNED
    <3>1. todo' = Tail(todo) /\ state' = [state EXCEPT ![Completing] = Staged(seen)]
      BY <1>7, <2>3 DEF CompleteCas, NextCompletion
    <3>2. CASE q = Completing
      <4>1. state'[q] \in CANCEL_DONE /\ state[q] \in CANCEL_PINNED /\ HasKey(todo, q) /\ ~HasKey(todo', q)
        BY <1>4, <2>1, <2>2, <2>3, <3>1, <3>2 DEF Staged, CANCEL_DONE, TypeOK
      <4>2. OneKey(todo', q)
        BY <4>1, KeyAbsent
      <4>3. QED
        BY <1>1, <1>2, <2>2, <4>1, <4>2 DEF InPlace, Placed, CANCEL_DONE, CANCEL_PINNED
    <3>3. CASE q # Completing
      <4>1. state'[q] = state[q] /\ (HasKey(todo', q) <=> HasKey(todo, q)) /\ OneKey(todo', q)
        BY <1>4, <2>1, <3>1, <3>3 DEF TypeOK
      <4>2. QED
        BY <1>1, <1>2, <1>4, <2>1, <2>2, <3>1, <4>1 DEF InPlace, Placed
    <3>4. QED
      BY <3>2, <3>3
  <2>4. CASE seen \notin CANCEL_PINNED
    <3>1. todo' = todo /\ state' = [state EXCEPT ![Completing] = "DONE"]
      BY <1>7, <2>4 DEF CompleteCas
    <3>2. CASE q = Completing
      <4>1. state'[q] = "DONE" /\ HasKey(todo, q)
        BY <1>4, <2>1, <3>1, <3>2 DEF TypeOK
      <4>2. QED
        BY <1>1, <1>2, <2>2, <3>1, <4>1 DEF InPlace, Placed, States, CANCEL_DONE, CANCEL_PINNED
    <3>3. CASE q # Completing
      BY <1>1, <1>2, <2>2, <3>1, <3>3 DEF TypeOK
    <3>4. QED
      BY <3>2, <3>3
  <2>5. QED
    BY <2>3, <2>4
<1>8. CASE CompleteRelease
  <2>1. todo # <<>> /\ state[Completing] = "DONE"
    BY <1>8 DEF CompleteRelease, Completions, CompletePcs
  <2>2. UNCHANGED <<state, mq, pending, active>> /\ todo' = Tail(todo)
    BY <1>8 DEF CompleteRelease, NextCompletion, nodeVars
  <2>3. q # Completing => (HasKey(todo', q) <=> HasKey(todo, q))
    BY <1>4, <2>1, <2>2
  <2>4. QED
    BY <1>1, <1>2, <1>4, <2>1, <2>2, <2>3 DEF InPlace, Placed, CANCEL_DONE
<1>9. CASE OwnerPoll \/ NodeGate \/ DispatchEnd \/ OwnerStop \/ FiniRefs \/ FiniPins
  BY <1>3, <1>9 DEF OwnerPoll, NodeGate, DispatchEnd, OwnerStop, FiniRefs, FiniPins, requestVars, nodeVars
<1>10. owner \notin CompletePcs => todo = <<>> /\ ~HasKey(todo, q)
  BY KeyNone DEF Completions
<1>11. ASSUME ~HasKey(todo', q)
       PROVE  OneKey(todo', q) /\ Fate(todo', q, "CANCELED")
  BY <1>11, KeyAbsent
<1>12. CASE TransferEnd
  <2>1. PICK v \in {"PROTOCOL", "LOCAL_ERROR"} : Finish(<<<<active, v>>>>, "dispatch")
    BY <1>12 DEF TransferEnd
  <2>2. active \in Requests /\ active' = None /\ UNCHANGED <<state, mq, pending>> /\ None # q
    BY <1>12, SdoAssumption DEF TransferEnd, TypeOK, requestVars
  <2>3. todo' = <<<<active, v>>>>
    BY <2>1 DEF Finish
  <2>4. (HasKey(todo', q) <=> active = q) /\ OneKey(todo', q)
    BY <2>2, <2>3, KeyOne DEF Results
  <2>5. ~HasKey(todo, q)
    BY <1>10, <1>12 DEF TransferEnd, CompletePcs
  <2>6. QED
    BY <1>1, <1>2, <1>11, <2>2, <2>4, <2>5 DEF InPlace, Placed
<1>13. CASE NodeCancel \/ FiniCancel
  <2>1. /\ todo' = CanceledNode /\ active' = None /\ pending' = <<>> /\ UNCHANGED <<state, mq>>
        /\ ~HasKey(todo, q) /\ None # q
    BY <1>10, <1>13, SdoAssumption DEF NodeCancel, FiniCancel, Finish, requestVars, CompletePcs
  <2>2. /\ HasKey(todo', q) <=> active = q \/ Has(pending, q)
        /\ AtMostOne(pending, q) /\ ~(active = q /\ Has(pending, q)) => OneKey(todo', q)
        /\ Fate(todo', q, "CANCELED")
    BY <2>1, CanceledKeys DEF TypeOK
  <2>3. ~Has(pending', q) /\ AtMostOne(pending', q)
    BY <2>1, QueueEmpty
  <2>4. ~(active = q /\ Has(pending, q))
    BY <1>1 DEF InPlace, Placed, States, CANCEL_DONE, CANCEL_PINNED
  <2>5. QED
    BY <1>1, <1>2, <2>1, <2>2, <2>3, <2>4 DEF InPlace, Placed
<1> DEFINE r == mq[1][2]
<1>14. CASE DispatchSdo
  <2>1. /\ mq # <<>> /\ r \in Requests /\ mq' = Tail(mq) /\ mq[1][1] = "SDO"
        /\ ~HasKey(todo, q)
    BY <1>10, <1>14, MqTypes DEF DispatchSdo, IsCommand, CompletePcs
  <2>2. /\ AtMostOne(mq', <<"SDO", q>>)
        /\ q = r => Has(mq, <<"SDO", q>>) /\ ~Has(mq', <<"SDO", q>>)
        /\ q # r => (Has(mq', <<"SDO", q>>) <=> Has(mq, <<"SDO", q>>))
    BY <1>1, <2>1, MqHas DEF InPlace
  <2> HIDE DEF r
  <2>3. CASE q # r
    <3>1. state'[q] = state[q]
      BY <1>14, <2>1, <2>3 DEF DispatchSdo, Claimed, ClaimedStart, ClaimCanceled, TypeOK, r
    <3>2. active' = q <=> active = q
      BY <1>14, <2>1, <2>3, SdoAssumption
      DEF DispatchSdo, Claimed, ClaimedStart, StartActive, ClaimCanceled, NodeBusy, r
    <3>3. (Has(pending', q) <=> Has(pending, q)) /\ AtMostOne(pending', q)
      <4>1. pending' = pending \/ pending' = Append(pending, r)
        BY <1>14 DEF DispatchSdo, Claimed, ClaimedStart, ClaimCanceled, r
      <4>2. pending \in Seq(Requests) /\ AtMostOne(pending, q)
        BY <1>1 DEF TypeOK, InPlace
      <4>3. CASE pending' = Append(pending, r)
        BY <2>1, <2>3, <4>2, <4>3, QueuePut
      <4>4. QED
        BY <4>1, <4>2, <4>3
    <3>4. ~HasKey(todo', q)
      <4>1. todo' = <<>> \/ \E v \in Results : todo' = <<<<r, v>>>>
        BY <1>14 DEF DispatchSdo, Claimed, ClaimedStart, StartActive, ClaimCanceled, Finish, Results, r
      <4>2. ASSUME NEW v \in Results, todo' = <<<<r, v>>>>
            PROVE  ~HasKey(todo', q)
        BY <2>1, <2>3, <4>2, KeyOne
      <4>3. QED
        BY <4>1, <4>2, KeyNone
    <3>5. QED
      BY <1>1, <1>2, <1>11, <2>1, <2>2, <2>3, <3>1, <3>2, <3>3, <3>4 DEF InPlace, Placed
  <2>4. CASE q = r
    <3>1. state[q] \in {"QUEUED", "CANCEL_PENDING"} /\ pc[q] # "posting"
      BY <1>1, <2>2, <2>4 DEF InPlace, Placed, States, CANCEL_DONE, CANCEL_PINNED
    <3>2. ~Has(pending, q) /\ active # q
      BY <1>1, <2>2, <2>4, <3>1 DEF InPlace, Placed
    <3>3. CASE state'[q] = "ACTIVE" /\ active' = q /\ todo' = <<>> /\ UNCHANGED pending
      <4>1. ~HasKey(todo', q)
        BY <3>3, KeyNone
      <4>2. QED
        BY <1>1, <1>2, <1>11, <2>2, <2>4, <3>1, <3>2, <3>3, <4>1 DEF InPlace, Placed, CANCEL_DONE
    <3>4. CASE state'[q] = "ACTIVE" /\ UNCHANGED <<active, pending>> /\ todo' = <<<<q, "LOCAL_ERROR">>>>
      <4>1. HasKey(todo', q) /\ OneKey(todo', q)
        BY <3>4, KeyOne DEF Results
      <4>2. QED
        BY <1>1, <1>2, <2>2, <2>4, <3>1, <3>2, <3>4, <4>1 DEF InPlace, Placed, CANCEL_DONE
    <3>5. CASE state'[q] = "PENDING" /\ UNCHANGED active /\ todo' = <<>> /\ pending' = Append(pending, q)
      <4>1. ~HasKey(todo', q)
        BY <3>5, KeyNone
      <4>2. Has(pending', q) /\ AtMostOne(pending', q)
        BY <1>1, <3>2, <3>5, QueuePut DEF InPlace, TypeOK
      <4>3. QED
        BY <1>1, <1>2, <1>11, <2>2, <2>4, <3>1, <3>2, <3>5, <4>1, <4>2 DEF InPlace, Placed, CANCEL_DONE
    <3>6. CASE UNCHANGED <<state, active, pending>> /\ todo' = <<<<q, "CANCELED">>>>
               /\ state[q] = "CANCEL_PENDING"
      <4>1. HasKey(todo', q) /\ OneKey(todo', q) /\ Fate(todo', q, "CANCELED")
        BY <3>6, KeyOne DEF Results
      <4>2. QED
        BY <1>1, <1>2, <2>2, <2>4, <3>1, <3>2, <3>6, <4>1 DEF InPlace, Placed, CANCEL_DONE
    <3>7. QED
      BY <1>14, <2>4, <3>3, <3>4, <3>5, <3>6
      DEF DispatchSdo, Claimed, ClaimedStart, StartActive, ClaimCanceled, Finish, TypeOK, r
  <2>5. QED
    BY <2>3, <2>4
<1>15. CASE DispatchCancel
  <2>1. /\ mq # <<>> /\ r \in Requests /\ mq' = Tail(mq) /\ mq[1][1] = "SDO_CANCEL"
        /\ ~HasKey(todo, q) /\ UNCHANGED state /\ None # q
    BY <1>10, <1>15, MqTypes, SdoAssumption DEF DispatchCancel, IsCommand, CompletePcs, requestVars
  <2>2. AtMostOne(mq', <<"SDO", q>>) /\ (Has(mq', <<"SDO", q>>) <=> Has(mq, <<"SDO", q>>))
    BY <1>1, <2>1, MqHas DEF InPlace
  <2> HIDE DEF r
  <2>3. CASE /\ active = r /\ active' = None /\ todo' = <<<<r, "CANCELED">>>> /\ UNCHANGED pending
    <3>1. (HasKey(todo', q) <=> r = q) /\ OneKey(todo', q) /\ Fate(todo', q, "CANCELED")
      BY <2>1, <2>3, KeyOne DEF Results
    <3>2. QED
      BY <1>1, <1>2, <2>1, <2>2, <2>3, <3>1 DEF InPlace, Placed
  <2>4. ASSUME NEW i \in 1 .. Len(pending), pending[i] = r, pending' = RemoveAt(pending, i),
               todo' = <<<<r, "CANCELED">>>>, UNCHANGED active
        PROVE  InPlace(state'[q], pc'[q], mq', pending', active', todo', q)
    <3>1. (HasKey(todo', q) <=> r = q) /\ OneKey(todo', q) /\ Fate(todo', q, "CANCELED")
      BY <2>1, <2>4, KeyOne DEF Results
    <3>2. AtMostOne(pending, r)
      BY <2>1 DEF Places, InPlace
    <3>3. (Has(pending', q) <=> Has(pending, q) /\ q # r) /\ AtMostOne(pending', q)
      BY <1>1, <2>4, <3>2, QueueRemove DEF TypeOK, InPlace
    <3>4. Has(pending, r)
      BY <2>4 DEF Has
    <3>5. QED
      BY <1>1, <1>2, <2>1, <2>2, <2>4, <3>1, <3>3, <3>4 DEF InPlace, Placed, States, CANCEL_DONE, CANCEL_PINNED
  <2>5. CASE todo' = <<>> /\ UNCHANGED <<active, pending>>
    <3>1. ~HasKey(todo', q)
      BY <2>5, KeyNone
    <3>2. QED
      BY <1>1, <1>2, <1>11, <2>1, <2>2, <2>5, <3>1 DEF InPlace, Placed
  <2>6. QED
    BY <1>15, <2>3, <2>4, <2>5 DEF DispatchCancel, Finish, r
<1>16. CASE Reap
  <2>0. mq' = mq /\ ~HasKey(todo, q)
    BY <1>10, <1>16 DEF Reap, CompletePcs
  <2>1. CASE Finish(<<>>, "events") /\ UNCHANGED <<state, active, pending>>
    <3>1. todo' = <<>>
      BY <2>1 DEF Finish
    <3>2. ~HasKey(todo', q)
      BY <3>1, KeyNone
    <3>3. QED
      BY <1>1, <1>2, <1>11, <2>0, <2>1, <3>2 DEF InPlace, Placed
  <2> DEFINE head == pending[1]
  <2>2. ASSUME pending # <<>>, pending' = Tail(pending)
        PROVE  /\ head \in Requests /\ AtMostOne(pending', q)
               /\ Has(pending, q) <=> head = q \/ Has(pending', q)
               /\ head = q => ~Has(pending', q)
    <3>1. pending \in Seq(Requests) /\ Head(pending) = head
      BY <2>2 DEF TypeOK
    <3>2. QED
      BY <1>1, <2>2, <3>1, QueueTake DEF InPlace
  <2>3. ASSUME pending # <<>>, pending' = Tail(pending), active = None, state[head] = "PENDING",
               state' = [state EXCEPT ![head] = "ACTIVE"],
               StartActive(head, FALSE, "events", "reap")
        PROVE  InPlace(state'[q], pc'[q], mq', pending', active', todo', q)
    <3>1. active # q /\ head \in Requests
      BY <2>2, <2>3, SdoAssumption
    <3>2. CASE active' = head /\ todo' = <<>>
      <4>1. ~HasKey(todo', q)
        BY <3>2, KeyNone
      <4>2. CASE head = q
        BY <1>1, <1>2, <1>11, <2>0, <2>2, <2>3, <3>1, <3>2, <4>1, <4>2 DEF InPlace, Placed, CANCEL_DONE, TypeOK
      <4>3. CASE head # q
        <5>1. state'[q] = state[q]
          BY <2>3, <3>1, <4>3 DEF TypeOK
        <5>2. QED
          BY <1>1, <1>2, <1>11, <2>0, <2>2, <2>3, <3>1, <3>2, <4>1, <4>3, <5>1 DEF InPlace, Placed
      <4>4. QED
        BY <4>2, <4>3
    <3>3. CASE active' = active /\ todo' = <<<<head, "LOCAL_ERROR">>>>
      <4>1. (HasKey(todo', q) <=> head = q) /\ OneKey(todo', q)
        BY <3>1, <3>3, KeyOne DEF Results
      <4>2. CASE head = q
        BY <1>1, <1>2, <2>0, <2>2, <2>3, <3>1, <3>3, <4>1, <4>2 DEF InPlace, Placed, CANCEL_DONE, TypeOK
      <4>3. CASE head # q
        <5>1. state'[q] = state[q]
          BY <2>3, <3>1, <4>3 DEF TypeOK
        <5>2. QED
          BY <1>1, <1>2, <1>11, <2>0, <2>2, <2>3, <3>1, <3>3, <4>1, <4>3, <5>1 DEF InPlace, Placed
      <4>4. QED
        BY <4>2, <4>3
    <3>4. QED
      BY <2>3, <3>2, <3>3 DEF StartActive, Finish
  <2>4. ASSUME pending # <<>>, pending' = Tail(pending), state[head] = "CANCEL_PENDING",
               Finish(<<<<head, "CANCELED">>>>, "events"), UNCHANGED <<state, active>>
        PROVE  InPlace(state'[q], pc'[q], mq', pending', active', todo', q)
    <3>1. todo' = <<<<head, "CANCELED">>>> /\ head \in Requests
      BY <2>2, <2>4 DEF Finish
    <3>2. (HasKey(todo', q) <=> head = q) /\ OneKey(todo', q) /\ Fate(todo', q, "CANCELED")
      BY <3>1, KeyOne DEF Results
    <3>3. QED
      BY <1>1, <1>2, <2>0, <2>2, <2>4, <3>2 DEF InPlace, Placed, CANCEL_DONE
  <2>5. QED
    BY <1>16, <2>1, <2>3, <2>4 DEF Reap
<1>17. CASE RetireSdo
  <2>1. /\ mq # <<>> /\ r \in Requests /\ mq' = Tail(mq) /\ mq[1][1] = "SDO"
        /\ ~HasKey(todo, q) /\ UNCHANGED <<active, pending>>
    BY <1>10, <1>17, MqTypes DEF RetireSdo, IsCommand, CompletePcs, FiniPcs, nodeVars
  <2>2. /\ AtMostOne(mq', <<"SDO", q>>)
        /\ q = r => Has(mq, <<"SDO", q>>) /\ ~Has(mq', <<"SDO", q>>)
        /\ q # r => (Has(mq', <<"SDO", q>>) <=> Has(mq, <<"SDO", q>>))
    BY <1>1, <2>1, MqHas DEF InPlace
  <2>3. \/ todo' = <<<<r, "CANCELED">>>> /\ state' = state /\ state[r] = "CANCEL_PENDING"
        \/ /\ todo' = <<<<r, "CANCELED_TEARDOWN">>>> /\ state[r] = "QUEUED"
           /\ state' = [state EXCEPT ![r] = "TEARDOWN_PENDING"]
    BY <1>17 DEF RetireSdo, Finish
  <2> HIDE DEF r
  <2>4. (HasKey(todo', q) <=> r = q) /\ OneKey(todo', q)
    <3>1. PICK v \in Results : todo' = <<<<r, v>>>>
      BY <2>3 DEF Results
    <3>2. QED
      BY <2>1, <3>1, KeyOne
  <2>5. CASE q # r
    <3>1. state'[q] = state[q]
      BY <2>1, <2>3, <2>5 DEF TypeOK
    <3>2. QED
      BY <1>1, <1>2, <1>11, <2>1, <2>2, <2>4, <2>5, <3>1 DEF InPlace, Placed
  <2>6. CASE q = r /\ state' = state /\ todo' = <<<<r, "CANCELED">>>> /\ state[r] = "CANCEL_PENDING"
    <3>1. Fate(todo', q, "CANCELED")
      BY <2>1, <2>6, KeyOne DEF Results
    <3>2. QED
      BY <1>1, <1>2, <2>1, <2>2, <2>4, <2>6, <3>1 DEF InPlace, Placed, CANCEL_DONE
  <2>7. CASE q = r /\ state'[q] = "TEARDOWN_PENDING" /\ state[q] = "QUEUED"
    BY <1>1, <1>2, <2>1, <2>2, <2>4, <2>7 DEF InPlace, Placed, CANCEL_DONE
  <2>8. QED
    BY <2>1, <2>3, <2>5, <2>6, <2>7 DEF TypeOK
<1>18. CASE RetireCancel
  <2>1. /\ mq # <<>> /\ mq' = Tail(mq) /\ mq[1][1] = "SDO_CANCEL"
        /\ UNCHANGED <<state, active, pending, todo>>
    BY <1>18 DEF RetireCancel, IsCommand, requestVars, nodeVars, ownerVars
  <2>2. AtMostOne(mq', <<"SDO", q>>) /\ (Has(mq', <<"SDO", q>>) <=> Has(mq, <<"SDO", q>>))
    BY <1>1, <2>1, MqHas DEF InPlace
  <2>3. QED
    BY <1>1, <1>2, <2>1, <2>2 DEF InPlace, Placed
<1>19. QED
  BY <1>5, <1>6, <1>7, <1>8, <1>9, <1>12, <1>13, <1>14, <1>15, <1>16, <1>17, <1>18 DEF OwnerNext

-----------------------------------------------------------------------------
(* The completion in progress                                              *)

\* What threads leave alone.
LEMMA ThreadLeaves ==
    ASSUME NEW r \in Requests, ThreadNext(r), TypeOK, Places
    PROVE  /\ UNCHANGED <<status, completion_refs, nodeVars, callback_quiescing, runtimeVars, ownerVars>>
           /\ \A q \in Requests : q # r => /\ state'[q] = state[q] /\ pc'[q] = pc[q]
                                           /\ holds'[q] = holds[q] /\ accepted'[q] = accepted[q]
           /\ state[r] = "DONE" => state'[r] = "DONE"
           /\ state'[r] = "DONE" => state[r] \in {"DONE"} \cup CANCEL_DONE
<1> USE DEF requestVars, pinVars
<1>1. UNCHANGED <<status, completion_refs, nodeVars, callback_quiescing, runtimeVars, ownerVars>>
  BY DEF ThreadNext, ThreadCall, Post, PostDone, Wait, WaitEvent, WaitTimeout, Destroy, DestroyFree,
         Cancel, CancelAcquire, CancelPost, CancelUnpin, CancelPublish, CancelDropRefs,
         CancelReschedule, CancelLeave
<1>2. ASSUME NEW q \in Requests, q # r
      PROVE  /\ state'[q] = state[q] /\ pc'[q] = pc[q]
             /\ holds'[q] = holds[q] /\ accepted'[q] = accepted[q]
  BY <1>2
  DEF ThreadNext, ThreadCall, Post, PostDone, Wait, WaitEvent, WaitTimeout, Destroy, DestroyFree,
      Cancel, CancelAcquire, CancelPost, CancelUnpin, CancelPublish, CancelDropRefs,
      CancelReschedule, CancelLeave, Goto, TypeOK
<1>3. /\ state[r] = "DONE" => state'[r] = "DONE" \/ PostDone(r)
      /\ state'[r] = "DONE" => state[r] \in {"DONE"} \cup CANCEL_DONE
  BY DEF ThreadNext, ThreadCall, Post, PostDone, Wait, WaitEvent, WaitTimeout, Destroy, DestroyFree,
         Cancel, CancelAcquire, CancelPost, CancelUnpin, CancelPublish, CancelDropRefs,
         CancelReschedule, CancelLeave, TypeOK
<1>4. state[r] = "DONE" => ~PostDone(r)
  BY DEF PostDone, Goto, Places, InPlace, Placed
<1>5. QED
  BY <1>1, <1>2, <1>3, <1>4

\* A thread does not interfere with a completion, other than by changing the
\* state that the owner compares.
LEMMA ThreadCompletions ==
    ASSUME TypeOK, Places, Completions, NEW r \in Requests, ThreadNext(r)
    PROVE  Completions'
<1>1. todo' = todo /\ owner' = owner /\ seen' = seen /\ status' = status /\ completion_refs' = completion_refs
  BY ThreadLeaves DEF ownerVars
<1>2. todo # <<>> => Completing \in Requests
  BY KeyTake DEF TypeOK, Completing
<1>3. \A q \in Requests : state[q] = "DONE" => state'[q] = "DONE"
  BY ThreadLeaves
<1>4. ASSUME NEW q \in Requests, HasKey(todo, q), state'[q] = "DONE"
      PROVE  state[q] = "DONE"
  <2>1. state[q] \notin CANCEL_DONE
    BY <1>4 DEF Places, InPlace, Placed
  <2>2. QED
    BY <1>4, <2>1, ThreadLeaves
<1>5. Completing' = Completing
  BY <1>1 DEF Completing
<1>6. owner \in {"complete_signal", "complete_release"} => state'[Completing] = "DONE"
  BY <1>2, <1>3 DEF Completions, CompletePcs
<1> HIDE DEF Completing
<1>7. QED
  BY <1>1, <1>4, <1>5, <1>6 DEF Completions

\* A handler hands over the completions of requests that are not done.
LEMMA FinishCompletions ==
    ASSUME TypeOK, NEW cs, NEW n, Finish(cs, n), n \notin CompletePcs,
           \A q \in Requests : HasKey(cs, q) => state'[q] # "DONE"
    PROVE  Completions'
<1>1. CASE cs = <<>>
  <2>1. todo' = <<>> /\ owner' = n /\ \A q : ~HasKey(todo', q)
    BY <1>1, KeyNone DEF Finish
  <2>2. QED
    BY <2>1 DEF Completions, CompletePcs
<1>2. CASE cs # <<>>
  <2>1. todo' = cs /\ owner' = "complete_load"
    BY <1>2 DEF Finish
  <2>2. QED
    BY <1>2, <2>1 DEF Completions, CompletePcs
<1>3. QED
  BY <1>1, <1>2

\* The next completion follows one that is done or staged.
LEMMA NextCompletions ==
    ASSUME TypeOK, Places, Completions, NextCompletion, todo # <<>>, resume \notin CompletePcs,
           \A q \in Requests : q # Completing => state'[q] = state[q],
           owner \in {"complete_load", "complete_cas", "complete_release"}
    PROVE  Completions'
<1>1. /\ todo' = Tail(todo) /\ owner' \in {resume, "complete_load"}
      /\ owner' = "complete_load" <=> Len(todo) # 1
  BY DEF NextCompletion, CompletePcs
<1>2. todo' = <<>> <=> Len(todo) = 1
  BY <1>1, KeyTake DEF TypeOK
<1>3. todo' = <<>> <=> owner' \notin CompletePcs
  BY <1>1, <1>2 DEF CompletePcs
<1>4. ASSUME NEW q \in Requests, HasKey(todo', q), state'[q] = "DONE"
      PROVE  FALSE
  <2>1. HasKey(todo, q) /\ q # Completing
    BY <1>1, <1>4, KeyTake DEF TypeOK, Completing, Places, InPlace
  <2>2. QED
    BY <1>4, <2>1 DEF Completions
<1>5. QED
  BY <1>1, <1>3, <1>4 DEF Completions, CompletePcs

\* A step of the owner.
LEMMA OwnerCompletions ==
    ASSUME TypeOK, Places, Completions, Teardown, OwnerNext
    PROVE  Completions'
<1>1. todo # <<>> => Completing \in Requests /\ HasKey(todo, Completing)
  BY KeyTake DEF TypeOK, Completing
<1>2. resume \notin CompletePcs
  BY DEF Teardown
<1>3. ASSUME NEW q \in Requests, HasKey(todo, q)
      PROVE  state[q] \notin CANCEL_DONE
  BY <1>3 DEF Places, InPlace, Placed
<1>4. CASE CompleteLoad
  <2>1. todo # <<>>
    BY <1>4 DEF CompleteLoad, Completions, CompletePcs
  <2>2. state[Completing] # "DONE"
    BY <1>1, <1>4, <2>1 DEF CompleteLoad, Completions
  <2>3. /\ status' = [status EXCEPT ![Completing] = todo[1][2]] /\ owner' = "complete_mark"
        /\ UNCHANGED <<todo, state>>
    BY <1>1, <1>3, <1>4, <2>1, <2>2 DEF CompleteLoad
  <2>4. status'[Completing'] = todo'[1][2] /\ Completing' = Completing
    BY <1>1, <2>1, <2>3 DEF Completing, TypeOK
  <2>5. \A q \in Requests : ~(HasKey(todo, q) /\ state[q] = "DONE")
    BY <1>4 DEF CompleteLoad, Completions
  <2>6. QED
    BY <2>1, <2>3, <2>4, <2>5 DEF Completions, CompletePcs
<1>5. CASE CompleteMark
  <2>1. todo # <<>>
    BY <1>5 DEF CompleteMark, Completions, CompletePcs
  <2>2. owner' = "complete_cas" /\ UNCHANGED <<todo, state, status, seen>> /\ Completing' = Completing
    BY <1>5 DEF CompleteMark, Completing
  <2>3. seen \notin CANCEL_PINNED => completion_refs'[Completing] = 1
    BY <1>1, <1>5, <2>1 DEF CompleteMark, TypeOK
  <2>4. \A q \in Requests : ~(HasKey(todo, q) /\ state[q] = "DONE")
    BY <1>5 DEF CompleteMark, Completions
  <2>5. status[Completing] = todo[1][2]
    BY <1>5 DEF CompleteMark, Completions
  <2> HIDE DEF Completing
  <2>6. QED
    BY <2>1, <2>2, <2>3, <2>4, <2>5 DEF Completions, CompletePcs
<1>6. CASE CompleteCas
  <2>1. todo # <<>>
    BY <1>6 DEF CompleteCas, Completions, CompletePcs
  <2>2. CASE seen \in CANCEL_PINNED
    <3>1. NextCompletion /\ state' = [state EXCEPT ![Completing] = Staged(seen)]
      BY <1>6, <2>2 DEF CompleteCas
    <3>2. \A q \in Requests : q # Completing => state'[q] = state[q]
      BY <3>1 DEF TypeOK
    <3>3. QED
      BY <1>2, <1>6, <2>1, <3>1, <3>2, NextCompletions DEF CompleteCas
  <2>3. CASE seen \notin CANCEL_PINNED
    <3>1. /\ state' = [state EXCEPT ![Completing] = "DONE"] /\ owner' = "complete_signal"
          /\ UNCHANGED <<todo, completion_refs>> /\ Completing' = Completing
      BY <1>6, <2>3 DEF CompleteCas, Completing
    <3>2. state'[Completing] = "DONE" /\ completion_refs[Completing] = 1
      BY <1>1, <1>6, <2>1, <2>3, <3>1 DEF CompleteCas, Completions, TypeOK
    <3>3. \A q \in Requests : HasKey(todo, q) /\ state'[q] = "DONE" => Completing = q
      BY <1>6, <3>1 DEF CompleteCas, Completions, TypeOK
    <3> HIDE DEF Completing
    <3>4. QED
      BY <2>1, <3>1, <3>2, <3>3 DEF Completions, CompletePcs
  <2>4. QED
    BY <2>2, <2>3
<1>7. CASE CompleteRetry
  <2>1. todo # <<>>
    BY <1>7 DEF CompleteRetry, Completions, CompletePcs
  <2>2. owner' = "complete_mark" /\ UNCHANGED <<todo, state, status>> /\ Completing' = Completing
    BY <1>7 DEF CompleteRetry, Completing
  <2>3. \A q \in Requests : ~(HasKey(todo, q) /\ state[q] = "DONE")
    BY <1>7 DEF CompleteRetry, Completions
  <2>4. status[Completing] = todo[1][2]
    BY <1>7 DEF CompleteRetry, Completions
  <2> HIDE DEF Completing
  <2>5. QED
    BY <2>1, <2>2, <2>3, <2>4 DEF Completions, CompletePcs
<1>8. CASE CompleteSignal
  <2>1. todo # <<>>
    BY <1>8 DEF CompleteSignal, Completions, CompletePcs
  <2>2. /\ owner' = "complete_release" /\ UNCHANGED <<todo, state, completion_refs>>
        /\ Completing' = Completing /\ owner = "complete_signal"
    BY <1>8 DEF CompleteSignal, Completing
  <2> HIDE DEF Completing
  <2>3. QED
    BY <2>1, <2>2 DEF Completions, CompletePcs
<1>9. CASE CompleteRelease
  <2>1. todo # <<>>
    BY <1>9 DEF CompleteRelease, Completions, CompletePcs
  <2>2. QED
    BY <1>2, <1>9, <2>1, NextCompletions DEF CompleteRelease
<1>10. CASE OwnerPoll \/ NodeGate \/ DispatchEnd \/ OwnerStop \/ RetireCancel \/ FiniRefs \/ FiniPins
  <2>1. UNCHANGED <<todo, state>> /\ owner \notin CompletePcs /\ owner' \notin CompletePcs
    BY <1>10 DEF OwnerPoll, NodeGate, DispatchEnd, OwnerStop, RetireCancel, FiniRefs, FiniPins, requestVars,
                 ownerVars, CompletePcs
  <2>2. todo = <<>> /\ \A q \in Requests : ~HasKey(todo, q)
    BY <2>1, KeyNone DEF Completions
  <2>3. QED
    BY <2>1, <2>2 DEF Completions, CompletePcs
<1>11. ASSUME NEW q \in Requests, Has(mq, <<"SDO", q>>) \/ Has(pending, q) \/ active = q
       PROVE  state[q] # "DONE"
  BY <1>11 DEF Places, InPlace, Placed
<1>12. ASSUME NEW x \in Requests, NEW v \in Results, NEW n \in {"events", "dispatch", "reap", "fini_drain"},
              Finish(<<<<x, v>>>>, n), state'[x] # "DONE"
       PROVE  Completions'
  BY <1>12, KeyOne, FinishCompletions DEF CompletePcs
<1>13. ASSUME NEW n \in {"events", "dispatch"}, Finish(<<>>, n)
       PROVE  Completions'
  BY <1>13, KeyNone, FinishCompletions DEF CompletePcs
<1>14. CASE TransferEnd
  <2>1. active \in Requests /\ state'[active] # "DONE"
    BY <1>11, <1>14 DEF TransferEnd, TypeOK, requestVars
  <2>2. QED
    BY <1>12, <1>14, <2>1 DEF TransferEnd, Results
<1>15. CASE NodeCancel \/ FiniCancel
  <2>1. /\ Finish(CanceledNode, "dispatch") \/ Finish(CanceledNode, "fini_refs")
        /\ UNCHANGED state
    BY <1>15 DEF NodeCancel, FiniCancel, requestVars
  <2>2. \A q \in Requests : HasKey(CanceledNode, q) => state'[q] # "DONE"
    BY <1>11, <2>1, CanceledKeys DEF TypeOK
  <2>3. QED
    BY <2>1, <2>2, FinishCompletions DEF CompletePcs
<1> DEFINE r == mq[1][2]
<1>16. CASE DispatchSdo
  <2>1. r \in Requests /\ Has(mq, <<"SDO", r>>)
    BY <1>16, MqTypes, MqHas DEF DispatchSdo, IsCommand
  <2>2. state[r] # "DONE"
    BY <1>11, <2>1
  <2> HIDE DEF r
  <2>3. state'[r] # "DONE"
    BY <1>16, <2>1, <2>2 DEF DispatchSdo, Claimed, ClaimedStart, ClaimCanceled, TypeOK, r
  <2>4. QED
    BY <1>12, <1>13, <1>16, <2>1, <2>3
    DEF DispatchSdo, Claimed, ClaimedStart, StartActive, ClaimCanceled, Results, r
<1>17. CASE DispatchCancel
  <2>1. r \in Requests /\ UNCHANGED state
    BY <1>17, MqTypes DEF DispatchCancel, IsCommand, requestVars
  <2> HIDE DEF r
  <2>2. active = r \/ Has(pending, r) \/ Finish(<<>>, "dispatch")
    BY <1>17 DEF DispatchCancel, Has, r
  <2>3. Finish(<<>>, "dispatch") \/ Finish(<<<<r, "CANCELED">>>>, "dispatch")
    BY <1>17 DEF DispatchCancel, r
  <2>4. QED
    BY <1>11, <1>12, <1>13, <2>1, <2>2, <2>3 DEF Results
<1>18. CASE Reap
  <2> DEFINE head == pending[1]
  <2>1. pending # <<>> => head \in Requests /\ state[head] # "DONE"
    <3>1. ASSUME pending # <<>>
          PROVE  head \in Requests /\ Has(pending, head)
      BY <3>1 DEF TypeOK, Has
    <3>2. QED
      BY <1>11, <3>1
  <2>2. pending # <<>> => state'[head] # "DONE"
    BY <1>18, <2>1 DEF Reap, TypeOK
  <2>3. \/ Finish(<<>>, "events")
        \/ pending # <<>> /\ Finish(<<<<head, "LOCAL_ERROR">>>>, "reap")
        \/ pending # <<>> /\ Finish(<<<<head, "CANCELED">>>>, "events")
    BY <1>18 DEF Reap, StartActive
  <2> HIDE DEF head
  <2>4. QED
    BY <1>12, <1>13, <2>1, <2>2, <2>3 DEF Results
<1>19. CASE RetireSdo
  <2>1. r \in Requests /\ state'[r] # "DONE"
    BY <1>19, MqTypes DEF RetireSdo, IsCommand, TypeOK
  <2> HIDE DEF r
  <2>2. \E v \in Results : Finish(<<<<r, v>>>>, "fini_drain")
    BY <1>19 DEF RetireSdo, Results, r
  <2>3. QED
    BY <1>12, <2>1, <2>2
<1>20. QED
  BY <1>4, <1>5, <1>6, <1>7, <1>8, <1>9, <1>10, <1>14, <1>15, <1>16, <1>17, <1>18, <1>19 DEF OwnerNext

-----------------------------------------------------------------------------
(* What the threads do                                                     *)

\* A thread's own step.  The request is freed when the owner has left it.
LEMMA ThreadThreads ==
    ASSUME TypeOK, Places, Completions, Threads, NEW r \in Requests, ThreadNext(r)
    PROVE  Threads'
<1> SUFFICES ASSUME NEW q \in Requests
             PROVE  /\ pc'[q] \in {"destroying", "gone"} => state'[q] \in {"NEW", "DONE"}
                    /\ pc'[q] = "gone" => ~HasKey(todo', q)
                    /\ pc'[q] \in PinPcs <=> state'[q] \in {"PENDING_CANCEL_PINNED", "PENDING_CANCEL_DONE"}
                    /\ pc'[q] \in PinActivePcs <=> state'[q] \in {"ACTIVE_CANCEL_PINNED", "ACTIVE_CANCEL_DONE"}
                    /\ holds'[q] => pc'[q] \in {"post_pending", "unpin_pending", "drop_refs", "reschedule", "leave"}
                    /\ pc'[q] \in {"post_pending", "reschedule"} => holds'[q]
  BY DEF Threads
<1>1. todo' = todo
  BY ThreadLeaves DEF ownerVars
<1>2. CASE q # r
  BY <1>1, <1>2, ThreadLeaves DEF Threads
<1>3. CASE q = r
  <2> USE <1>3 DEF Goto, TypeOK, PinPcs, PinActivePcs
  <2>0. /\ pc[q] \in {"destroying", "gone"} => state[q] \in {"NEW", "DONE"}
        /\ pc[q] = "gone" => ~HasKey(todo, q)
        /\ pc[q] \in PinPcs <=> state[q] \in {"PENDING_CANCEL_PINNED", "PENDING_CANCEL_DONE"}
        /\ pc[q] \in PinActivePcs <=> state[q] \in {"ACTIVE_CANCEL_PINNED", "ACTIVE_CANCEL_DONE"}
        /\ holds[q] => pc[q] \in {"post_pending", "unpin_pending", "drop_refs", "reschedule", "leave"}
        /\ pc[q] \in {"post_pending", "reschedule"} => holds[q]
    BY DEF Threads
  <2>1. CASE Post(r)
    <3>1. pc'[q] = "posting" /\ state'[q] = "QUEUED" /\ pc[q] = "idle" /\ holds' = holds
      BY <2>1 DEF Post
    <3>2. QED
      BY <2>0, <3>1
  <2>2. CASE PostDone(r)
    <3>1. pc[q] = "posting" /\ pc'[q] = "idle" /\ state'[q] \in {state[q], "NEW"} /\ holds' = holds
      BY <2>2 DEF PostDone
    <3>2. QED
      BY <2>0, <3>1
  <2>3. CASE Wait(r) \/ WaitEvent(r) \/ WaitTimeout(r)
    <3>1. /\ pc[q] \in {"idle", "waiting"} /\ pc'[q] \in {"idle", "waiting"} /\ state'[q] = state[q]
          /\ holds' = holds
      BY <2>3 DEF Wait, WaitEvent, WaitTimeout, requestVars
    <3>2. QED
      BY <2>0, <3>1
  <2>4. CASE Destroy(r)
    <3>1. pc[q] = "idle" /\ pc'[q] = "destroying" /\ state'[q] = state[q] /\ state[q] \in {"NEW", "DONE"} /\ holds' = holds
      BY <2>4 DEF Destroy, requestVars
    <3>2. QED
      BY <2>0, <3>1
  <2>5. CASE DestroyFree(r)
    <3>1. pc[q] = "destroying" /\ pc'[q] = "gone" /\ state'[q] = state[q] /\ completion_refs[q] = 0 /\ holds' = holds
      BY <2>5 DEF DestroyFree, requestVars
    <3>2. ~HasKey(todo, q)
      <4>1. CASE state[q] = "NEW"
        BY <4>1 DEF Places, InPlace, Placed
      <4>2. CASE state[q] = "DONE"
        BY <3>1, <4>2 DEF Completions
      <4>3. QED
        BY <2>0, <3>1, <4>1, <4>2
    <3>3. QED
      BY <1>1, <2>0, <3>1, <3>2
  <2>6. CASE Cancel(r)
    <3>1. /\ pc[q] = "idle" /\ holds' = holds
          /\ \/ pc'[q] = "idle" /\ state[q] = "QUEUED" /\ state'[q] = "CANCEL_PENDING"
             \/ pc'[q] = "acquire" /\ state'[q] = "PENDING_CANCEL_PINNED"
             \/ pc'[q] = "post_active" /\ state'[q] = "ACTIVE_CANCEL_PINNED"
      BY <2>6 DEF Cancel
    <3>2. QED
      BY <2>0, <3>1
  <2>7. CASE CancelAcquire(r)
    <3>1. /\ pc[q] = "acquire" /\ state'[q] = state[q]
          /\ \/ pc'[q] = "post_pending" /\ holds'[q] = TRUE
             \/ pc'[q] = "unpin_pending" /\ holds'[q] = holds[q]
      BY <2>7 DEF CancelAcquire, requestVars
    <3>2. QED
      BY <2>0, <3>1
  <2>8. CASE CancelPost(r)
    <3>1. /\ state'[q] = state[q] /\ holds'[q] = holds[q]
          /\ \/ pc[q] = "post_pending" /\ pc'[q] = "unpin_pending"
             \/ pc[q] = "post_active" /\ pc'[q] = "unpin_active"
      BY <2>8 DEF CancelPost, requestVars
    <3>2. QED
      BY <2>0, <3>1
  <2>9. CASE CancelUnpin(r)
    <3>1. /\ holds'[q] = holds[q]
          /\ \/ /\ pc[q] = "unpin_pending" /\ state'[q] \in {"CANCEL_PENDING", "PENDING"}
                /\ pc'[q] = "leave" \/ (pc'[q] = "reschedule" /\ holds[q])
             \/ pc[q] = "unpin_active" /\ pc'[q] = "leave" /\ state'[q] = "ACTIVE"
      <4>1. CASE state[r] = "PENDING_CANCEL_PINNED" /\ pc[r] = "unpin_pending"
        <5>1. pc'[q] = IF holds[r] /\ ~admitted[r] THEN "reschedule" ELSE "leave"
          BY <2>9, <4>1 DEF CancelUnpin
        <5>2. state'[q] = IF admitted[r] THEN "CANCEL_PENDING" ELSE "PENDING"
          BY <2>9, <4>1 DEF CancelUnpin
        <5>3. holds' = holds
          BY <2>9 DEF CancelUnpin
        <5>4. pc'[q] = "leave" \/ (pc'[q] = "reschedule" /\ holds[q])
          BY <1>3, <5>1
        <5>5. state'[q] \in {"CANCEL_PENDING", "PENDING"}
          BY <5>2, Zenon
        <5>6. QED
          BY <4>1, <5>3, <5>4, <5>5
      <4>2. CASE state[r] = "ACTIVE_CANCEL_PINNED" /\ pc[r] = "unpin_active"
        BY <2>9, <4>2 DEF CancelUnpin
      <4>3. QED
        BY <2>9, <4>1, <4>2 DEF CancelUnpin
    <3>2. QED
      BY <2>0, <3>1
  <2>10. CASE CancelPublish(r)
    <3>1. /\ holds'[q] = holds[q] /\ pc'[q] = "drop_refs" /\ state'[q] = "DONE"
      BY <2>10 DEF CancelPublish
    <3>2. QED
      BY <2>0, <3>1
  <2>11. CASE CancelDropRefs(r) \/ CancelReschedule(r)
    <3>1. /\ state'[q] = state[q] /\ holds'[q] = holds[q]
          /\ pc[q] \in {"drop_refs", "reschedule"} /\ pc'[q] = "leave"
      BY <2>11 DEF CancelDropRefs, CancelReschedule, requestVars
    <3>2. QED
      BY <2>0, <3>1
  <2>12. CASE CancelLeave(r)
    <3>1. state'[q] = state[q] /\ holds'[q] = FALSE /\ pc[q] = "leave" /\ pc'[q] = "idle"
      BY <2>12 DEF CancelLeave, requestVars
    <3>2. QED
      BY <2>0, <3>1
  <2>13. QED
    BY <2>1, <2>2, <2>3, <2>4, <2>5, <2>6, <2>7, <2>8, <2>9, <2>10, <2>11, <2>12 DEF ThreadNext, ThreadCall
<1>4. QED
  BY <1>2, <1>3

\* The state changes that the owner makes: it claims a queued request, starts a
\* pending one, retires a queued one, and publishes the completion in progress.
OwnerMoves(q) ==
    \/ state'[q] = state[q]
    \/ state[q] = "QUEUED" /\ state'[q] \in {"ACTIVE", "PENDING", "TEARDOWN_PENDING"}
    \/ state[q] = "PENDING" /\ state'[q] = "ACTIVE"
    \/ /\ owner = "complete_cas" /\ q = Completing /\ HasKey(todo, q) /\ state[q] = seen
       /\ \/ state[q] \in CANCEL_PINNED /\ state'[q] = Staged(state[q])
          \/ state[q] \notin CANCEL_PINNED /\ state'[q] = "DONE"

LEMMA OwnerLeaves ==
    ASSUME TypeOK, Completions, OwnerNext
    PROVE  UNCHANGED threadVars /\ UNCHANGED callback_refs /\ \A q \in Requests : OwnerMoves(q)
<1>1. UNCHANGED threadVars /\ UNCHANGED callback_refs
  BY DEF OwnerNext, CompleteLoad, CompleteMark, CompleteCas, CompleteRetry, CompleteSignal, CompleteRelease,
         OwnerPoll, TransferEnd, NodeCancel, NodeGate, DispatchSdo, DispatchCancel, DispatchEnd, Reap,
         OwnerStop, RetireSdo, RetireCancel, FiniCancel, FiniRefs, FiniPins, pinVars
<1> SUFFICES ASSUME NEW q \in Requests
             PROVE  OwnerMoves(q)
  BY <1>1
<1>2. CASE UNCHANGED state
  BY <1>2 DEF OwnerMoves
<1>3. ASSUME NEW r \in Requests, NEW x, state' = [state EXCEPT ![r] = x],
             \/ state[r] = "QUEUED" /\ x \in {"ACTIVE", "PENDING", "TEARDOWN_PENDING"}
             \/ state[r] = "PENDING" /\ x = "ACTIVE"
             \/ /\ owner = "complete_cas" /\ r = Completing /\ HasKey(todo, r) /\ state[r] = seen
                /\ \/ state[r] \in CANCEL_PINNED /\ x = Staged(state[r])
                   \/ state[r] \notin CANCEL_PINNED /\ x = "DONE"
      PROVE  OwnerMoves(q)
  <2>1. CASE q = r
    <3>1. state'[q] = x
      BY <1>3, <2>1 DEF TypeOK
    <3>2. QED
      BY <1>3, <2>1, <3>1 DEF OwnerMoves
  <2>2. CASE q # r
    BY <1>3, <2>2 DEF OwnerMoves, TypeOK
  <2>3. QED
    BY <2>1, <2>2
<1>4. CASE CompleteCas
  <2>1. todo # <<>>
    BY <1>4 DEF CompleteCas, Completions, CompletePcs
  <2>2. HasKey(todo, Completing) /\ Completing \in Requests
    BY <2>1, KeyTake DEF TypeOK, Completing
  <2> HIDE DEF Completing
  <2>3. QED
    BY <1>3, <1>4, <2>2 DEF CompleteCas
<1>5. CASE DispatchSdo \/ RetireSdo
  <2> DEFINE r == mq[1][2]
  <2>1. r \in Requests
    BY <1>5, MqTypes DEF DispatchSdo, RetireSdo, IsCommand
  <2>2. \/ UNCHANGED state
        \/ \E x \in {"ACTIVE", "PENDING", "TEARDOWN_PENDING"} :
              state[r] = "QUEUED" /\ state' = [state EXCEPT ![r] = x]
    BY <1>5 DEF DispatchSdo, RetireSdo, Claimed, ClaimedStart, ClaimCanceled
  <2> HIDE DEF r
  <2>3. QED
    BY <1>2, <1>3, <2>1, <2>2
<1>6. CASE Reap
  <2>1. \/ UNCHANGED state
        \/ /\ pending # <<>> /\ state[pending[1]] = "PENDING"
           /\ state' = [state EXCEPT ![pending[1]] = "ACTIVE"]
    BY <1>6 DEF Reap
  <2>2. QED
    BY <1>2, <1>3, <2>1, FifoTypes
<1>7. QED
  BY <1>2, <1>4, <1>5, <1>6
  DEF OwnerNext, CompleteLoad, CompleteMark, CompleteRetry, CompleteSignal, CompleteRelease,
      OwnerPoll, TransferEnd, NodeCancel, NodeGate, DispatchCancel, DispatchEnd,
      OwnerStop, RetireCancel, FiniCancel, FiniRefs, FiniPins, requestVars

\* What the owner does to a request fits what its thread is doing.
LEMMA OwnerThreads ==
    ASSUME TypeOK, Places, Completions, Threads, Teardown, OwnerNext, Places', Completions'
    PROVE  Threads'
<1> SUFFICES ASSUME NEW q \in Requests
             PROVE  /\ pc'[q] \in {"destroying", "gone"} => state'[q] \in {"NEW", "DONE"}
                    /\ pc'[q] = "gone" => ~HasKey(todo', q)
                    /\ pc'[q] \in PinPcs <=> state'[q] \in {"PENDING_CANCEL_PINNED", "PENDING_CANCEL_DONE"}
                    /\ pc'[q] \in PinActivePcs <=> state'[q] \in {"ACTIVE_CANCEL_PINNED", "ACTIVE_CANCEL_DONE"}
                    /\ holds'[q] => pc'[q] \in {"post_pending", "unpin_pending", "drop_refs", "reschedule", "leave"}
                    /\ pc'[q] \in {"post_pending", "reschedule"} => holds'[q]
  BY DEF Threads
<1>0. /\ pc[q] \in {"destroying", "gone"} => state[q] \in {"NEW", "DONE"}
      /\ pc[q] = "gone" => ~HasKey(todo, q)
      /\ pc[q] \in PinPcs <=> state[q] \in {"PENDING_CANCEL_PINNED", "PENDING_CANCEL_DONE"}
      /\ pc[q] \in PinActivePcs <=> state[q] \in {"ACTIVE_CANCEL_PINNED", "ACTIVE_CANCEL_DONE"}
      /\ holds[q] => pc[q] \in {"post_pending", "unpin_pending", "drop_refs", "reschedule", "leave"}
      /\ pc[q] \in {"post_pending", "reschedule"} => holds[q]
  BY DEF Threads
<1>1. pc'[q] = pc[q] /\ holds'[q] = holds[q] /\ OwnerMoves(q)
  BY OwnerLeaves DEF threadVars
<1>2. HasKey(todo, q) => state[q] \notin CANCEL_DONE
  BY DEF Places, InPlace, Placed
<1>3. /\ state'[q] \in {"PENDING_CANCEL_PINNED", "PENDING_CANCEL_DONE"}
           <=> state[q] \in {"PENDING_CANCEL_PINNED", "PENDING_CANCEL_DONE"}
      /\ state'[q] \in {"ACTIVE_CANCEL_PINNED", "ACTIVE_CANCEL_DONE"}
           <=> state[q] \in {"ACTIVE_CANCEL_PINNED", "ACTIVE_CANCEL_DONE"}
      /\ state[q] \in {"NEW", "DONE"} => state'[q] \in {state[q], "DONE"}
  BY <1>1, <1>2 DEF OwnerMoves, Staged, CANCEL_PINNED, CANCEL_DONE
<1>4. ASSUME pc[q] = "gone"
      PROVE  ~HasKey(todo', q)
  <2>1. CASE state'[q] = "NEW"
    BY <2>1 DEF Places, InPlace, Placed
  <2>2. CASE state'[q] = "DONE" /\ HasKey(todo', q)
    <3>1. owner' \in {"complete_signal", "complete_release"}
      BY <2>2 DEF Completions
    <3>2. resume \notin CompletePcs
      BY DEF Teardown
    <3>3. todo' = todo
      <4>1. ASSUME NEW cs, NEW n \in {"events", "dispatch", "reap", "fini_drain", "fini_refs"}, Finish(cs, n)
            PROVE  FALSE
        BY <3>1, <4>1 DEF Finish
      <4>2. ~NextCompletion
        BY <3>1, <3>2 DEF NextCompletion, CompletePcs
      <4>3. CASE \/ TransferEnd \/ NodeCancel \/ DispatchSdo \/ DispatchCancel \/ Reap \/ RetireSdo \/ FiniCancel
        BY <4>1, <4>3
        DEF TransferEnd, NodeCancel, DispatchSdo, DispatchCancel, Reap, RetireSdo, FiniCancel,
            Claimed, ClaimedStart, ClaimCanceled, StartActive
      <4>4. QED
        BY <4>2, <4>3
        DEF OwnerNext, CompleteLoad, CompleteMark, CompleteCas, CompleteRetry, CompleteSignal, CompleteRelease,
            OwnerPoll, NodeGate, DispatchEnd, OwnerStop, RetireCancel, FiniRefs, FiniPins, ownerVars
    <3>4. QED
      BY <1>0, <1>4, <2>2, <3>3
  <2>3. QED
    BY <1>0, <1>3, <1>4, <2>1, <2>2
<1>5. QED
  BY <1>0, <1>1, <1>3, <1>4

\* An accepted cancel decides the result.
LEMMA CancelsNext ==
    ASSUME TypeOK, Places, Completions, Cancels, [Next]_vars
    PROVE  Cancels'
<1> SUFFICES ASSUME NEW q \in Requests, accepted'[q]
             PROVE  /\ state'[q] \in {"CANCEL_PENDING", "DONE"}
                    /\ state'[q] = "DONE" => status'[q] = "CANCELED"
  BY DEF Cancels
<1>1. CASE UNCHANGED <<state, status, accepted>>
  BY <1>1 DEF Cancels
<1>2. ASSUME NEW r \in Requests, ThreadNext(r)
      PROVE  /\ state'[q] \in {"CANCEL_PENDING", "DONE"}
             /\ state'[q] = "DONE" => status'[q] = "CANCELED"
  <2>1. status' = status
    BY <1>2, ThreadLeaves
  <2>2. CASE q # r
    BY <1>2, <2>1, <2>2, ThreadLeaves DEF Cancels
  <2>3. CASE q = r
    <3>1. CASE Cancel(r)
      BY <2>1, <2>3, <3>1 DEF Cancel, Cancels, TypeOK
    <3>2. CASE CancelUnpin(r)
      BY <2>1, <2>3, <3>2 DEF CancelUnpin, Cancels, TypeOK
    <3>3. CASE CancelPublish(r)
      BY <2>1, <2>3, <3>3 DEF CancelPublish, Cancels, CANCEL_DONE, TypeOK
    <3>4. CASE Post(r)
      BY <2>3, <3>4 DEF Post, Cancels, TypeOK
    <3>5. CASE PostDone(r)
      <4>1. state[q] = "QUEUED"
        BY <2>3, <3>5 DEF PostDone, Goto, Places, InPlace, Placed, TypeOK, States, CANCEL_DONE, CANCEL_PINNED
      <4>2. QED
        BY <2>3, <3>5, <4>1 DEF PostDone, Cancels
    <3>6. QED
      BY <1>1, <1>2, <3>1, <3>2, <3>3, <3>4, <3>5
      DEF ThreadNext, ThreadCall, Wait, WaitEvent, WaitTimeout, Destroy, DestroyFree, CancelAcquire, CancelPost,
          CancelDropRefs, CancelReschedule, CancelLeave, requestVars
  <2>4. QED
    BY <2>2, <2>3
<1>3. CASE OwnerNext
  <2>1. accepted[q] /\ OwnerMoves(q)
    BY <1>3, OwnerLeaves DEF threadVars
  <2>2. state[q] \in {"CANCEL_PENDING", "DONE"} /\ (state[q] = "DONE" => status[q] = "CANCELED")
    BY <2>1 DEF Cancels
  <2>3. CASE state[q] = "DONE"
    <3>1. state'[q] = "DONE"
      BY <2>1, <2>3 DEF OwnerMoves, CANCEL_PINNED
    <3>2. status'[q] = status[q]
      <4>1. ASSUME CompleteLoad, status' # status
            PROVE  status'[q] = status[q]
        BY <2>3, <4>1 DEF CompleteLoad, TypeOK
      <4>2. QED
        BY <1>3, <4>1
        DEF OwnerNext, CompleteMark, CompleteCas, CompleteRetry, CompleteSignal, CompleteRelease,
            OwnerPoll, TransferEnd, NodeCancel, NodeGate, DispatchSdo, DispatchCancel, DispatchEnd, Reap,
            OwnerStop, RetireSdo, RetireCancel, FiniCancel, FiniRefs, FiniPins, requestVars
    <3>3. QED
      BY <2>2, <2>3, <3>1, <3>2
  <2>4. CASE state[q] = "CANCEL_PENDING"
    <3>1. CASE state'[q] = state[q]
      BY <2>4, <3>1
    <3>2. CASE state'[q] # state[q]
      <4>1. /\ owner = "complete_cas" /\ q = Completing /\ state'[q] = "DONE"
            /\ Fate(todo, q, "CANCELED")
        BY <2>1, <2>4, <3>2 DEF OwnerMoves, CANCEL_PINNED, Places, InPlace
      <4>2. todo # <<>> /\ status[q] = todo[1][2] /\ todo[1][1] = q
        BY <4>1 DEF Completions, CompletePcs, Completing
      <4>3. status[q] = "CANCELED"
        <5>1. 1 \in 1 .. Len(todo)
          BY <4>2 DEF TypeOK
        <5>2. QED
          BY <4>1, <4>2, <5>1 DEF Fate
      <4>4. status' = status
        BY <1>3, <4>1
        DEF OwnerNext, CompleteLoad, CompleteMark, CompleteCas, CompleteRetry, CompleteSignal, CompleteRelease,
            OwnerPoll, TransferEnd, NodeCancel, NodeGate, DispatchSdo, DispatchCancel, DispatchEnd, Reap,
            OwnerStop, RetireSdo, RetireCancel, FiniCancel, FiniRefs, FiniPins, requestVars
      <4>5. QED
        BY <4>1, <4>3, <4>4
    <3>3. QED
      BY <3>1, <3>2
  <2>5. QED
    BY <2>2, <2>3, <2>4
<1>4. QED
  BY <1>1, <1>2, <1>3 DEF Next, Stop, RuntimeDestroy, Finished, vars, requestVars, threadVars

-----------------------------------------------------------------------------
(* The counts                                                              *)

\* sdo_cancel_refs counts the threads that owe a publication, and the mark;
\* callback_refs counts the threads that hold a pin.
LEMMA CountsNext ==
    ASSUME TypeOK, Places, Completions, Threads, Teardown, Counts, [Next]_vars
    PROVE  Counts'
<1>0. /\ IsFiniteSet(Owing) /\ IsFiniteSet(Holding)
      /\ Cardinality(Owing) \in Nat /\ Cardinality(Holding) \in Nat
  BY SdoAssumption, FS_Subset, FS_CardinalityType DEF Owing, Holding
<1>1. CASE UNCHANGED <<Owing, Holding, Marked, sdo_cancel_refs, callback_refs>>
  BY <1>1 DEF Counts
<1>2. ASSUME NEW r \in Requests, ThreadNext(r)
      PROVE  Counts'
  <2>0. Marked' = Marked
    BY <1>2, ThreadLeaves DEF Marked, ownerVars
  <2>1. Holding' = {q \in Requests : holds'[q]} /\ Owing' = {q \in Requests : state'[q] \in CANCEL_DONE \/ pc'[q] = "drop_refs"}
    BY DEF Holding, Owing
  <2>2. CASE CancelAcquire(r)
    <3>1. Owing' = Owing /\ sdo_cancel_refs' = sdo_cancel_refs
      BY <2>2 DEF CancelAcquire, Owing, requestVars, Goto, TypeOK
    <3>2. CASE callback_refs' = callback_refs + 1 /\ holds' = [holds EXCEPT ![r] = TRUE]
      <4>1. r \notin Holding
        BY <2>2 DEF CancelAcquire, Goto, Holding, Threads
      <4>2. Holding' = Holding \cup {r}
        BY <3>2 DEF Holding, TypeOK
      <4>3. QED
        BY <1>0, <2>0, <3>1, <3>2, <4>1, <4>2, FS_AddElement DEF Counts
    <3>3. CASE UNCHANGED <<callback_refs, holds>>
      BY <2>0, <3>1, <3>3 DEF Counts, Holding
    <3>4. QED
      BY <2>2, <3>2, <3>3 DEF CancelAcquire
  <2>3. CASE CancelLeave(r)
    <3>1. Owing' = Owing /\ sdo_cancel_refs' = sdo_cancel_refs
      BY <2>3 DEF CancelLeave, Owing, requestVars, Goto, TypeOK
    <3>2. Holding' = Holding \ {r}
      BY <2>3 DEF CancelLeave, Holding, TypeOK
    <3>3. CASE holds[r]
      <4>1. r \in Holding /\ callback_refs' = callback_refs - 1
        BY <2>3, <3>3 DEF CancelLeave, Holding
      <4>2. QED
        BY <1>0, <2>0, <3>1, <3>2, <4>1, FS_RemoveElement DEF Counts
    <3>4. CASE ~holds[r]
      <4>1. Holding' = Holding /\ callback_refs' = callback_refs
        BY <2>3, <3>2, <3>4 DEF CancelLeave, Holding
      <4>2. QED
        BY <2>0, <3>1, <4>1 DEF Counts
    <3>5. QED
      BY <3>3, <3>4
  <2>4. CASE CancelDropRefs(r)
    <3>1. Holding' = Holding /\ callback_refs' = callback_refs /\ sdo_cancel_refs' = sdo_cancel_refs - 1
      BY <2>4 DEF CancelDropRefs, Holding
    <3>2. r \in Owing /\ Owing' = Owing \ {r}
      BY <2>4 DEF CancelDropRefs, Owing, Goto, requestVars, TypeOK, Threads, PinPcs, PinActivePcs, CANCEL_DONE
    <3>3. Cardinality(Owing') = Cardinality(Owing) - 1
      BY <1>0, <3>2, FS_RemoveElement
    <3>4. Marked \in {0, 1}
      BY DEF Marked
    <3>5. QED
      BY <1>0, <2>0, <3>1, <3>3, <3>4 DEF Counts
  <2>5. CASE CancelPublish(r)
    <3>1. Holding' = Holding /\ UNCHANGED <<callback_refs, sdo_cancel_refs>>
      BY <2>5 DEF CancelPublish, Holding, pinVars
    <3>2. Owing' = Owing
      BY <2>5 DEF CancelPublish, Owing, Goto, TypeOK, CANCEL_DONE
    <3>3. QED
      BY <2>0, <3>1, <3>2 DEF Counts
  <2>6. CASE CancelUnpin(r)
    <3>1. Holding' = Holding /\ UNCHANGED <<callback_refs, sdo_cancel_refs>>
      BY <2>6 DEF CancelUnpin, Holding, pinVars
    <3>2. Owing' = Owing
      BY <2>6 DEF CancelUnpin, Owing, Goto, TypeOK, CANCEL_DONE
    <3>3. QED
      BY <2>0, <3>1, <3>2 DEF Counts
  <2>7. CASE Post(r) \/ PostDone(r) \/ Cancel(r)
    <3>1. Holding' = Holding /\ UNCHANGED <<callback_refs, sdo_cancel_refs>>
      BY <2>7 DEF Post, PostDone, Cancel, Holding, pinVars
    <3>2. r \notin Owing
      BY <2>7 DEF Post, PostDone, Cancel, Owing, Goto, TypeOK, Threads, PinPcs, PinActivePcs, CANCEL_DONE
    <3>3. r \notin Owing'
      BY <2>7 DEF Post, PostDone, Cancel, Owing, Goto, TypeOK, Threads, PinPcs, PinActivePcs, CANCEL_DONE
    <3>4. \A q \in Requests : q # r => (q \in Owing <=> q \in Owing')
      BY <1>2, ThreadLeaves DEF Owing
    <3>5. Owing' = Owing
      BY <3>2, <3>3, <3>4 DEF Owing
    <3>6. QED
      BY <2>0, <3>1, <3>5 DEF Counts
  <2>8. CASE Wait(r) \/ WaitEvent(r) \/ WaitTimeout(r) \/ Destroy(r) \/ DestroyFree(r) \/ CancelPost(r)
             \/ CancelReschedule(r)
    <3>1. Holding' = Holding /\ UNCHANGED <<callback_refs, sdo_cancel_refs>>
      BY <2>8 DEF Wait, WaitEvent, WaitTimeout, Destroy, DestroyFree, CancelPost, CancelReschedule, Holding, pinVars
    <3>2. state' = state /\ pc[r] # "drop_refs" /\ pc'[r] # "drop_refs"
      BY <2>8 DEF Wait, WaitEvent, WaitTimeout, Destroy, DestroyFree, CancelPost, CancelReschedule, requestVars,
                  Goto, TypeOK
    <3>3. Owing' = Owing
      BY <1>2, <3>2, ThreadLeaves DEF Owing
    <3>4. QED
      BY <2>0, <3>1, <3>3 DEF Counts
  <2>9. QED
    BY <1>2, <2>2, <2>3, <2>4, <2>5, <2>6, <2>7, <2>8 DEF ThreadNext, ThreadCall
<1>3. CASE OwnerNext
  <2>1. Holding' = Holding /\ callback_refs' = callback_refs /\ pc' = pc
    BY <1>3, OwnerLeaves, SdoAssumption DEF Holding, threadVars
  <2>2. todo # <<>> => Completing \in Requests
    BY KeyTake DEF TypeOK, Completing
  <2>3. CASE CompleteCas
    <3>1. todo # <<>>
      BY <2>3 DEF CompleteCas, Completions, CompletePcs
    <3>2. state[Completing] = seen /\ sdo_cancel_refs' = sdo_cancel_refs /\ owner = "complete_cas"
      BY <2>3 DEF CompleteCas, pinVars
    <3> HIDE DEF Completing
    <3>3. CASE seen \in CANCEL_PINNED
      <4>1. state' = [state EXCEPT ![Completing] = Staged(seen)] /\ owner' # "complete_cas"
        <5>1. state' = [state EXCEPT ![Completing] = Staged(seen)] /\ NextCompletion
          BY <2>3, <3>3 DEF CompleteCas
        <5>2. resume # "complete_cas"
          BY DEF Teardown, CompletePcs
        <5>3. QED
          BY <5>1, <5>2 DEF NextCompletion
      <4>2. Marked = 1 /\ Marked' = 0
        BY <3>2, <3>3, <4>1 DEF Marked
      <4>3. Completing \notin Owing
        BY <2>2, <3>1, <3>2, <3>3 DEF Owing, CANCEL_PINNED, CANCEL_DONE, Threads, PinPcs, PinActivePcs
      <4>4. Owing' = Owing \cup {Completing}
        <5>1. Staged(seen) \in CANCEL_DONE
          BY DEF Staged, CANCEL_DONE
        <5>2. \A q \in Requests : state'[q] = IF q = Completing THEN Staged(seen) ELSE state[q]
          BY <2>2, <3>1, <4>1 DEF TypeOK
        <5>3. QED
          BY <2>1, <2>2, <3>1, <5>1, <5>2 DEF Owing
      <4>5. Cardinality(Owing') = Cardinality(Owing) + 1
        BY <1>0, <4>3, <4>4, FS_AddElement
      <4>6. QED
        BY <1>0, <2>1, <3>2, <4>2, <4>5 DEF Counts
    <3>4. CASE seen \notin CANCEL_PINNED
      <4>1. state' = [state EXCEPT ![Completing] = "DONE"] /\ owner' = "complete_signal"
        BY <2>3, <3>4 DEF CompleteCas
      <4>2. Marked = 0 /\ Marked' = 0
        BY <3>4, <4>1 DEF Marked
      <4>3. state[Completing] \notin CANCEL_DONE
        <5>1. HasKey(todo, Completing)
          BY <3>1, KeyTake DEF TypeOK, Completing
        <5>2. QED
          BY <2>2, <3>1, <5>1 DEF Places, InPlace, Placed
      <4>4. Owing' = Owing
        BY <2>1, <2>2, <3>1, <4>1, <4>3 DEF Owing, TypeOK, CANCEL_DONE
      <4>5. QED
        BY <2>1, <3>2, <4>2, <4>4 DEF Counts
    <3>5. QED
      BY <3>3, <3>4
  <2>4. CASE CompleteMark
    <3>1. state' = state /\ seen' = seen /\ owner = "complete_mark" /\ owner' = "complete_cas"
      BY <2>4 DEF CompleteMark
    <3>2. Owing' = Owing /\ Marked = 0
      BY <2>1, <3>1 DEF Owing, Marked
    <3>3. sdo_cancel_refs' = sdo_cancel_refs + Marked'
      BY <1>0, <2>4, <3>1, <3>2 DEF CompleteMark, Marked, Counts
    <3>4. QED
      BY <1>0, <2>1, <3>2, <3>3 DEF Counts
  <2>5. CASE CompleteRetry
    <3>1. state' = state /\ owner = "complete_cas" /\ owner' = "complete_mark"
      BY <2>5 DEF CompleteRetry
    <3>2. Owing' = Owing /\ Marked' = 0
      BY <2>1, <3>1 DEF Owing, Marked
    <3>3. sdo_cancel_refs' = sdo_cancel_refs - Marked
      BY <1>0, <2>5, <3>1 DEF CompleteRetry, Marked, Counts
    <3>4. Marked \in {0, 1}
      BY DEF Marked
    <3>5. QED
      BY <1>0, <2>1, <3>2, <3>3, <3>4 DEF Counts
  <2>6. CASE ~(CompleteCas \/ CompleteMark \/ CompleteRetry)
    <3>1. owner # "complete_cas" /\ sdo_cancel_refs' = sdo_cancel_refs
      BY <1>3, <2>6
      DEF OwnerNext, CompleteLoad, CompleteMark, CompleteCas, CompleteRetry, CompleteSignal, CompleteRelease,
         OwnerPoll, TransferEnd, NodeCancel, NodeGate, DispatchSdo, DispatchCancel, DispatchEnd, Reap,
         OwnerStop, RetireSdo, RetireCancel, FiniCancel, FiniRefs, FiniPins, pinVars
    <3>2. owner' # "complete_cas"
      <4>1. ASSUME NEW cs, NEW n \in {"events", "dispatch", "reap", "fini_drain", "fini_refs"}, Finish(cs, n)
            PROVE  owner' # "complete_cas"
        BY <4>1 DEF Finish
      <4>2. NextCompletion => owner' # "complete_cas"
        BY DEF NextCompletion, Teardown, CompletePcs
      <4>3. CASE \/ TransferEnd \/ NodeCancel \/ DispatchSdo \/ DispatchCancel \/ Reap \/ RetireSdo \/ FiniCancel
        BY <4>1, <4>3
        DEF TransferEnd, NodeCancel, DispatchSdo, DispatchCancel, Reap, RetireSdo, FiniCancel,
            Claimed, ClaimedStart, ClaimCanceled, StartActive
      <4>4. QED
        BY <1>3, <2>6, <3>1, <4>2, <4>3
        DEF OwnerNext, CompleteLoad, CompleteSignal, CompleteRelease,
            OwnerPoll, NodeGate, DispatchEnd, OwnerStop, RetireCancel, FiniRefs, FiniPins, ownerVars
    <3>3. \A q \in Requests : OwnerMoves(q)
      BY <1>3, OwnerLeaves
    <3>4. \A q \in Requests : state'[q] \in CANCEL_DONE <=> state[q] \in CANCEL_DONE
      BY <3>1, <3>3 DEF OwnerMoves, CANCEL_DONE
    <3>5. Owing' = Owing /\ Marked' = 0 /\ Marked = 0
      BY <2>1, <3>1, <3>2, <3>4 DEF Owing, Marked
    <3>6. QED
      BY <2>1, <3>1, <3>5 DEF Counts
  <2>7. QED
    BY <2>3, <2>4, <2>5, <2>6
<1>4. QED
  BY <1>1, <1>2, <1>3 DEF Next, Stop, RuntimeDestroy, Finished, vars, requestVars, threadVars, pinVars, ownerVars,
                          Owing, Holding, Marked

-----------------------------------------------------------------------------
(* Teardown                                                                *)

\* A thread posts nothing after the owner has drained its queue, takes no pin
\* after callbacks_quiesce_begin, and drops no reference that is not counted.
LEMMA ThreadTeardown ==
    ASSUME TypeOK, Counts, Teardown, NEW r \in Requests, ThreadNext(r)
    PROVE  Teardown'
<1>0. UNCHANGED <<nodeVars, callback_quiescing, runtimeVars, ownerVars>>
  BY DEF ThreadNext, ThreadCall, Post, PostDone, Wait, WaitEvent, WaitTimeout, Destroy, DestroyFree,
         Cancel, CancelAcquire, CancelPost, CancelUnpin, CancelPublish, CancelDropRefs,
         CancelReschedule, CancelLeave, pinVars
<1>1. resume \in FiniPcs => mq' = mq
  BY DEF ThreadNext, ThreadCall, Post, PostDone, Wait, WaitEvent, WaitTimeout, Destroy, DestroyFree,
         Cancel, CancelAcquire, CancelPost, CancelUnpin, CancelPublish, CancelDropRefs,
         CancelReschedule, CancelLeave, CommandAdmitted, OwnerDrained
<1>2. IsFiniteSet(Owing) /\ IsFiniteSet(Holding) /\ Cardinality(Owing) \in Nat /\ Marked \in {0, 1}
  BY SdoAssumption, FS_Subset, FS_CardinalityType DEF Owing, Holding, Marked
<1>3. sdo_cancel_refs = 0 => sdo_cancel_refs' = 0
  <2>1. ASSUME CancelDropRefs(r)
        PROVE  sdo_cancel_refs # 0
    <3>1. r \in Owing
      BY <2>1 DEF CancelDropRefs, Goto, Owing
    <3>2. Cardinality(Owing) # 0
      BY <1>2, <3>1, FS_EmptySet
    <3>3. QED
      BY <1>2, <3>2 DEF Counts
  <2>2. QED
    BY <2>1
    DEF ThreadNext, ThreadCall, Post, PostDone, Wait, WaitEvent, WaitTimeout, Destroy, DestroyFree,
        Cancel, CancelAcquire, CancelPost, CancelUnpin, CancelPublish, CancelReschedule, CancelLeave, pinVars
<1>4. callback_quiescing /\ callback_refs = 0 => callback_refs' = 0
  <2>1. ASSUME CancelLeave(r), callback_refs = 0
        PROVE  callback_refs' = 0
    <3>1. Holding = {}
      BY <1>2, <2>1, FS_EmptySet DEF Counts
    <3>2. ~holds[r]
      BY <3>1 DEF Holding
    <3>3. QED
      BY <2>1, <3>2 DEF CancelLeave
  <2>2. QED
    BY <2>1
    DEF ThreadNext, ThreadCall, Post, PostDone, Wait, WaitEvent, WaitTimeout, Destroy, DestroyFree,
        Cancel, CancelAcquire, CancelPost, CancelUnpin, CancelPublish, CancelDropRefs, CancelReschedule, pinVars
<1>5. owner = "exit" => callback_quiescing
  BY DEF Teardown, FiniPcs, CompletePcs
<1>6. QED
  BY <1>0, <1>1, <1>3, <1>4, <1>5 DEF Teardown, nodeVars, runtimeVars, ownerVars, FiniPcs

\* The owner goes through the stages of the teardown in order.
LEMMA OwnerTeardown ==
    ASSUME TypeOK, Completions, Teardown, OwnerNext
    PROVE  Teardown'
<1>1. ASSUME NEW cs, NEW n \in {"events", "dispatch", "reap"}, Finish(cs, n),
             owner \in {"events", "dispatch", "reap"}, UNCHANGED runtimeVars
      PROVE  Teardown'
  <2>1. resume' = n /\ owner' \in {n, "complete_load"} /\ ~freed'
    BY <1>1 DEF Finish, Teardown, runtimeVars
  <2>2. QED
    BY <2>1 DEF Teardown, CompletePcs, FiniPcs
<1>2. CASE TransferEnd \/ NodeCancel \/ DispatchSdo \/ DispatchCancel \/ Reap
  <2>1. owner \in {"events", "dispatch", "reap"} /\ UNCHANGED runtimeVars
    BY <1>2 DEF TransferEnd, NodeCancel, DispatchSdo, DispatchCancel, Reap
  <2>2. QED
    BY <1>1, <1>2, <2>1
    DEF TransferEnd, NodeCancel, DispatchSdo, DispatchCancel, Reap, Claimed, ClaimedStart, ClaimCanceled, StartActive
<1>3. CASE OwnerPoll \/ NodeGate \/ DispatchEnd
  <2>1. owner \in {"events", "dispatch"} /\ owner' \in {"dispatch", "reap"} /\ resume' = resume /\ freed' = freed
    BY <1>3 DEF OwnerPoll, NodeGate, DispatchEnd, runtimeVars
  <2>2. resume \notin FiniPcs /\ resume \notin CompletePcs /\ ~freed
    BY <2>1 DEF Teardown, FiniPcs, CompletePcs
  <2>3. QED
    BY <2>1, <2>2 DEF Teardown, FiniPcs, CompletePcs
<1>4. CASE OwnerStop
  BY <1>4 DEF OwnerStop, Teardown, FiniPcs, CompletePcs, runtimeVars
<1>5. CASE RetireSdo
  <2>1. owner = "fini_drain" /\ resume' = "fini_drain" /\ owner' \in {"fini_drain", "complete_load"} /\ UNCHANGED <<runtimeVars, pinVars>>
    BY <1>5 DEF RetireSdo, Finish
  <2>2. QED
    BY <2>1 DEF Teardown, FiniPcs, CompletePcs, runtimeVars, pinVars
<1>6. CASE RetireCancel
  <2>1. owner = "fini_drain" /\ UNCHANGED <<owner, resume, runtimeVars, pinVars>>
    BY <1>6 DEF RetireCancel, ownerVars
  <2>2. QED
    BY <2>1 DEF Teardown, FiniPcs, CompletePcs, runtimeVars, pinVars
<1>7. CASE FiniCancel
  <2>1. /\ owner = "fini_drain" /\ resume' = "fini_refs" /\ owner' \in {"fini_refs", "complete_load"}
        /\ UNCHANGED <<runtimeVars, pinVars>> /\ mq' = <<>> /\ pending' = <<>> /\ active' = None
    BY <1>7 DEF FiniCancel, Finish
  <2>2. QED
    BY <2>1 DEF Teardown, FiniPcs, CompletePcs, runtimeVars, pinVars
<1>8. CASE FiniRefs
  BY <1>8 DEF FiniRefs, Teardown, FiniPcs, CompletePcs, runtimeVars, pinVars, nodeVars
<1>9. CASE FiniPins
  BY <1>9 DEF FiniPins, Teardown, FiniPcs, CompletePcs, runtimeVars, pinVars, nodeVars
<1>10. CASE CompleteLoad \/ CompleteMark \/ CompleteCas \/ CompleteRetry \/ CompleteSignal \/ CompleteRelease
  <2>1. /\ owner \in CompletePcs /\ resume' = resume /\ owner' \in CompletePcs \cup {resume}
        /\ UNCHANGED <<callback_quiescing, runtimeVars, mq, nodeVars>>
    BY <1>10
    DEF CompleteLoad, CompleteMark, CompleteCas, CompleteRetry, CompleteSignal, CompleteRelease, NextCompletion,
        CompletePcs, pinVars
  <2>2. resume \notin {"fini_pins", "exit"} /\ ~freed
    BY <2>1 DEF Teardown, CompletePcs
  <2>3. QED
    BY <2>1, <2>2 DEF Teardown, runtimeVars, nodeVars, FiniPcs, CompletePcs
<1>11. QED
  BY <1>2, <1>3, <1>4, <1>5, <1>6, <1>7, <1>8, <1>9, <1>10 DEF OwnerNext

-----------------------------------------------------------------------------
(* The invariant holds                                                     *)

LEMMA SdoInvInit == Init => SdoInv
<1> SUFFICES ASSUME Init
             PROVE  SdoInv
  OBVIOUS
<1>1. TypeOK
  <2>1. /\ admitted \in [Requests -> BOOLEAN] /\ holds \in [Requests -> BOOLEAN]
        /\ accepted \in [Requests -> BOOLEAN] /\ done_event \in [Requests -> BOOLEAN]
        /\ stop_pending \in BOOLEAN /\ available \in BOOLEAN /\ callback_quiescing \in BOOLEAN
        /\ stopping \in BOOLEAN /\ freed \in BOOLEAN
    BY DEF Init
  <2>2. cancels \in [Requests -> 0 .. MaxCancels] /\ completion_refs \in [Requests -> {0, 1}]
    BY SdoAssumption DEF Init
  <2>3. /\ mq \in Seq({"SDO", "SDO_CANCEL"} \X Requests) /\ Len(mq) <= QueueDepth
        /\ pending \in Seq(Requests) /\ Len(pending) <= FifoDepth /\ todo \in Seq(Requests \X Results)
    BY SdoAssumption DEF Init
  <2>4. /\ state \in [Requests -> States] /\ status \in [Requests -> Results \cup {"NONE"}]
        /\ pc \in [Requests -> ThreadPcs] /\ owner \in OwnerPcs /\ resume \in OwnerPcs /\ seen \in States
    BY DEF Init, States, ThreadPcs, OwnerPcs
  <2>5. QED
    BY <2>1, <2>2, <2>3, <2>4 DEF Init, TypeOK
<1>2. Places
  BY QueueEmpty, KeyNone, SdoAssumption DEF Init, Places, InPlace, Placed, CANCEL_DONE
<1>3. Threads
  BY KeyNone DEF Init, Threads, PinPcs, PinActivePcs
<1>4. Cancels
  BY DEF Init, Cancels
<1>5. Completions
  BY KeyNone DEF Init, Completions, CompletePcs
<1>6. Teardown
  BY DEF Init, Teardown, FiniPcs, CompletePcs
<1>7. Counts
  <2>1. Owing = {} /\ Holding = {} /\ Marked = 0
    BY DEF Init, Owing, Holding, Marked, CANCEL_DONE
  <2>2. QED
    BY <2>1, FS_EmptySet DEF Init, Counts
<1>8. QED
  BY <1>1, <1>2, <1>3, <1>4, <1>5, <1>6, <1>7 DEF SdoInv

\* The places, the threads, the completion in progress and the counts hold
\* together: for every number of requests, every queue and every FIFO depth.
THEOREM SdoInvHolds == Spec => []SdoInv
<1>1. SdoInv /\ [Next]_vars => SdoInv'
  <2> SUFFICES ASSUME SdoInv, [Next]_vars
               PROVE  SdoInv'
    OBVIOUS
  <2> USE DEF SdoInv
  <2>1. Counts' /\ Cancels'
    BY CountsNext, CancelsNext
  <2>2. sdo_cancel_refs' \in Nat /\ callback_refs' \in Nat
    <3>1. IsFiniteSet(Owing') /\ IsFiniteSet(Holding')
      <4>1. Owing' \subseteq Requests /\ Holding' \subseteq Requests
        BY DEF Owing, Holding
      <4>2. QED
        BY <4>1, SdoAssumption, FS_Subset
    <3>2. Cardinality(Owing') \in Nat /\ Cardinality(Holding') \in Nat /\ Marked' \in {0, 1}
      BY <3>1, FS_CardinalityType DEF Marked
    <3>3. QED
      BY <2>1, <3>2 DEF Counts
  <2>3. ASSUME NEW r \in Requests, ThreadNext(r)
        PROVE  SdoInv'
    BY <2>1, <2>2, <2>3, ThreadTypes, ThreadPlaces, ThreadThreads, ThreadCompletions, ThreadTeardown
  <2>4. CASE OwnerNext
    <3>1. TypeOK' /\ Places' /\ Completions' /\ Teardown'
      BY <2>2, <2>4, OwnerTypes, OwnerPlaces, OwnerCompletions, OwnerTeardown
    <3>2. QED
      BY <2>1, <2>4, <3>1, OwnerThreads
  <2>5. CASE UNCHANGED vars
    BY <2>1, <2>5
    DEF vars, requestVars, threadVars, nodeVars, pinVars, runtimeVars, ownerVars,
        TypeOK, Places, Threads, Completions, Completing, Teardown
  <2>6. CASE Stop \/ RuntimeDestroy
    <3>1. UNCHANGED <<requestVars, threadVars, mq, nodeVars, pinVars, ownerVars>>
      BY <2>6 DEF Stop, RuntimeDestroy
    <3>2. Places' /\ Threads' /\ Completions'
      BY <3>1 DEF requestVars, threadVars, nodeVars, ownerVars, Places, Threads, Completions, Completing
    <3>3. TypeOK'
      BY <2>6, <3>1
      DEF Stop, RuntimeDestroy, requestVars, threadVars, nodeVars, pinVars, ownerVars, TypeOK
    <3>4. Teardown'
      BY <2>6, <3>1 DEF Stop, RuntimeDestroy, nodeVars, pinVars, ownerVars, Teardown
    <3>5. QED
      BY <2>1, <3>2, <3>3, <3>4
  <2>7. QED
    BY <2>3, <2>4, <2>5, <2>6 DEF Next, Finished
<1>2. QED
  BY <1>1, SdoInvInit, PTL DEF Spec

-----------------------------------------------------------------------------
(* What the runs check                                                     *)

\* Type correctness: the queue and the FIFO stay within their depths, the
\* completion reference is 0 or 1, and neither pin count is ever negative.
THEOREM SdoTypeCorrect == Spec => []TypeOK
<1>1. SdoInv => TypeOK
  BY DEF SdoInv
<1>2. QED
  BY <1>1, SdoInvHolds, PTL

\* request_destroy frees no request that the owner can still reach.
THEOREM NoDanglingRequestHolds == Spec => []NoDanglingRequest
<1>1. SdoInv => NoDanglingRequest
  <2> SUFFICES ASSUME SdoInv, NEW r \in Requests, pc[r] = "gone"
               PROVE  ~InMq(r) /\ ~InFifo(r) /\ ~InTodo(r) /\ active # r
    BY DEF NoDanglingRequest
  <2>1. state[r] \in {"NEW", "DONE"} /\ ~HasKey(todo, r)
    BY DEF SdoInv, Threads
  <2>2. ~Has(mq, <<"SDO", r>>) /\ ~Has(pending, r) /\ active # r
    BY <2>1 DEF SdoInv, Places, InPlace, Placed
  <2>3. QED
    BY <2>1, <2>2 DEF InMq, InFifo, InTodo, Has, HasKey
<1>2. QED
  BY <1>1, SdoInvHolds, PTL

\* master_sdo_fini and callbacks_wait_idle outwait every thread that is inside
\* request_cancel and will use the runtime again.
THEOREM CancelKeepsRuntimeHolds == Spec => []CancelKeepsRuntime
<1>1. SdoInv => CancelKeepsRuntime
  <2> SUFFICES ASSUME SdoInv, freed, NEW r \in Requests
               PROVE  pc[r] \notin CancelPcs \ {"leave"} /\ ~holds[r]
    BY DEF CancelKeepsRuntime
  <2>1. owner = "exit" /\ callback_refs = 0
    BY DEF SdoInv, Teardown
  <2>2. resume = "exit"
    BY <2>1 DEF SdoInv, Teardown, CompletePcs, FiniPcs
  <2>3. mq = <<>> /\ pending = <<>> /\ active = None /\ sdo_cancel_refs = 0
    BY <2>2 DEF SdoInv, Teardown
  <2>4. todo = <<>>
    BY <2>1 DEF SdoInv, Completions, CompletePcs
  <2>5. Cardinality(Owing) = 0 /\ Cardinality(Holding) = 0
    <3>1. Marked = 0
      BY <2>1 DEF Marked
    <3>2. Owing \subseteq Requests
      BY DEF Owing
    <3>3. Cardinality(Owing) \in Nat
      BY <3>2, SdoAssumption, FS_Subset, FS_CardinalityType
    <3>4. QED
      BY <2>1, <2>3, <3>1, <3>3 DEF SdoInv, Counts
  <2>6. Owing = {} /\ Holding = {}
    <3>1. Owing \subseteq Requests /\ Holding \subseteq Requests
      BY DEF Owing, Holding
    <3>2. IsFiniteSet(Owing) /\ IsFiniteSet(Holding)
      BY <3>1, SdoAssumption, FS_Subset
    <3>3. QED
      BY <2>5, <3>2, FS_EmptySet
  <2>7. state[r] \notin CANCEL_DONE /\ pc[r] # "drop_refs" /\ ~holds[r]
    BY <2>6 DEF Owing, Holding
  <2>8. state[r] \notin CANCEL_PINNED
    <3>1. ~Has(pending, r) /\ active # r /\ ~HasKey(todo, r)
      BY <2>3, <2>4, QueueEmpty, KeyNone, SdoAssumption
    <3>2. Placed(state[r], pc[r], mq, pending, active, todo, r)
      BY DEF SdoInv, Places, InPlace
    <3>3. QED
      BY <3>1, <3>2 DEF Placed, CANCEL_PINNED
  <2>9. pc[r] \notin PinPcs /\ pc[r] \notin PinActivePcs /\ pc[r] # "reschedule"
    BY <2>7, <2>8 DEF SdoInv, Threads, CANCEL_DONE, CANCEL_PINNED
  <2>10. QED
    BY <2>7, <2>9 DEF CancelPcs, PinPcs, PinActivePcs
<1>2. QED
  BY <1>1, SdoInvHolds, PTL

\* At every moment exactly one party will bring a posted request to its end.
THEOREM NeverLostHolds == Spec => []NeverLost
<1>1. SdoInv => NeverLost
  <2> SUFFICES ASSUME SdoInv, NEW r \in Requests, state[r] \notin {"NEW", "DONE"}
               PROVE  Cardinality({k \in 1..6 : <<pc[r] = "posting", InMq(r), InFifo(r),
                                                  active = r, InTodo(r),
                                                  state[r] \in CANCEL_DONE>>[k]}) = 1
    BY DEF NeverLost
  <2> DEFINE p == pc[r] = "posting"
             q == InMq(r)
             f == InFifo(r)
             a == active = r
             t == InTodo(r)
             d == state[r] \in CANCEL_DONE
             S == {k \in 1..6 : <<p, q, f, a, t, d>>[k]}
  <2>1. state[r] \in States
    BY DEF SdoInv, TypeOK
  <2>2. Placed(state[r], pc[r], mq, pending, active, todo, r)
    BY DEF SdoInv, Places, InPlace
  <2>3. /\ q <=> Has(mq, <<"SDO", r>>)
        /\ f <=> Has(pending, r)
        /\ t <=> HasKey(todo, r)
    BY DEF InMq, InFifo, InTodo, Has, HasKey
  <2>4. \/ p /\ ~q /\ ~f /\ ~a /\ ~t /\ ~d
        \/ ~p /\ q /\ ~f /\ ~a /\ ~t /\ ~d
        \/ ~p /\ ~q /\ f /\ ~a /\ ~t /\ ~d
        \/ ~p /\ ~q /\ ~f /\ a /\ ~t /\ ~d
        \/ ~p /\ ~q /\ ~f /\ ~a /\ t /\ ~d
        \/ ~p /\ ~q /\ ~f /\ ~a /\ ~t /\ d
    <3>1. CASE state[r] \in CANCEL_DONE
      BY <2>2, <2>3, <3>1 DEF Placed
    <3>2. CASE state[r] = "QUEUED"
      BY <2>2, <2>3, <3>2 DEF Placed, CANCEL_DONE
    <3>3. CASE state[r] = "CANCEL_PENDING"
      BY <2>2, <2>3, <3>3 DEF Placed, CANCEL_DONE
    <3>4. CASE state[r] \in {"PENDING", "PENDING_CANCEL_PINNED"}
      BY <2>2, <2>3, <3>4 DEF Placed, CANCEL_DONE
    <3>5. CASE state[r] \in {"ACTIVE", "ACTIVE_CANCEL_PINNED"}
      BY <2>2, <2>3, <3>5 DEF Placed, CANCEL_DONE
    <3>6. CASE state[r] = "TEARDOWN_PENDING"
      BY <2>2, <2>3, <3>6 DEF Placed, CANCEL_DONE
    <3>7. QED
      BY <2>1, <3>1, <3>2, <3>3, <3>4, <3>5, <3>6 DEF States, CANCEL_PINNED
  <2> HIDE DEF p, q, f, a, t, d
  <2>5. \A k : k \in S <=> \/ k = 1 /\ p
                           \/ k = 2 /\ q
                           \/ k = 3 /\ f
                           \/ k = 4 /\ a
                           \/ k = 5 /\ t
                           \/ k = 6 /\ d
    OBVIOUS
  <2> HIDE DEF S
  <2>6. S = {1} \/ S = {2} \/ S = {3} \/ S = {4} \/ S = {5} \/ S = {6}
    BY <2>4, <2>5
  <2>7. Cardinality(S) = 1
    BY <2>6, FS_Singleton
  <2>8. QED
    BY <2>7 DEF S, p, q, f, a, t, d
<1>2. QED
  BY <1>1, SdoInvHolds, PTL

\* A cancel accepted before the start keeps the request from being started, and
\* its published result is CANCELED.
THEOREM CancelHonoredHolds == Spec => []CancelHonored
<1>1. SdoInv => CancelHonored
  <2> SUFFICES ASSUME SdoInv, NEW r \in Requests, accepted[r]
               PROVE  /\ active # r
                      /\ state[r] = "DONE" => status[r] = "CANCELED"
    BY DEF CancelHonored
  <2>1. /\ state[r] \in {"CANCEL_PENDING", "DONE"}
        /\ state[r] = "DONE" => status[r] = "CANCELED"
    BY DEF SdoInv, Cancels
  <2>2. QED
    BY <2>1 DEF SdoInv, Places, InPlace, Placed
<1>2. QED
  BY <1>1, SdoInvHolds, PTL

=============================================================================

-------------------------- MODULE MasterCfgProofs --------------------------
(***************************************************************************)
(* Proofs about MasterCfg for every number of callers and nodes and every  *)
(* depth of the command queue.                                             *)
(*                                                                         *)
(* The invariant follows a request from hand to hand.  As long as its      *)
(* caller waits and it is not done, exactly one of the queue, cfg_active   *)
(* and the completions of the running handler has it; afterwards none has, *)
(* but for the completion that still holds the last reference.  A node's   *)
(* cfg_active and Lely's cfg_data agree, which is what lets a confirmation *)
(* find its request and ties a staged resume to it.                        *)
(***************************************************************************)
EXTENDS MasterCfg, QueueLemmas, FiniteSetTheorems

-----------------------------------------------------------------------------
(* The invariant                                                           *)

CompletePcs == {"complete_mark", "complete_done", "complete_release"}
OwnerPcs == {"events", "dispatch", "drain", "reap", "fini", "destroy", "exit"}
Statuses == {"OK", "ABORT", "CANCELED", "LOCAL_ERROR"}
Commands == ({"CFG"} \X Callers) \cup ({"NMT"} \X NmtCommands \X Targets)

\* Sequences, the owner's place and the history, beside CfgTypeOK.
CfgTypes ==
    /\ CfgTypeOK
    /\ mq \in Seq(Commands) /\ todo \in Seq(Callers \X Statuses)
    /\ owner_at \in OwnerPcs \cup CompletePcs /\ resume \in OwnerPcs
    /\ applied \in [Callers -> BOOLEAN] /\ hit \in [Callers -> BOOLEAN]

\* Who holds a request with a caller at p and done = d: the queue (q), the
\* completions (t) or cfg_active (a).
Holder(p, d, q, t, a) ==
    /\ p = "wait" /\ ~d => \/ q /\ ~t /\ ~a
                           \/ ~q /\ t /\ ~a
                           \/ ~q /\ ~t /\ a
    /\ ~(p = "wait" /\ ~d) => ~q /\ ~a

Active(c) == \E n \in Nodes : cfg_active[n] = c

Holders ==
    \A c \in Callers :
        /\ Holder(pc[c], done[c], Has(mq, <<"CFG", c>>), HasKey(todo, c), Active(c))
        /\ AtMostOne(mq, <<"CFG", c>>) /\ OneKey(todo, c)

\* How far the owner is with the completion at the head of todo: only the one
\* that is being released belongs to a request that is done.
Completions ==
    /\ todo = <<>> <=> owner_at \notin CompletePcs
    /\ owner_at \in {"complete_done", "complete_release"} =>
         /\ completion_refs[todo[1][1]] = 1 /\ status[todo[1][1]] = todo[1][2]
         /\ done[todo[1][1]] <=> owner_at = "complete_release"
    /\ \A c \in Callers : HasKey(todo, c) =>
         IF owner_at = "complete_release" /\ todo[1][1] = c
         THEN pc[c] # "idle"
         ELSE pc[c] = "wait" /\ ~done[c]

\* The request in cfg_active is the one Lely will confirm, and it is for this
\* node; a download or a staged resume belongs to it.
Links ==
    \A n \in Nodes :
        /\ cfg_active[n] \in Callers => node[cfg_active[n]] = n
        /\ cfg_active[n] \in Callers \/ who[n] \in Callers => who[n] = cfg_active[n]
        /\ stage[n] = "none" <=> who[n] = None
        /\ dcf[n] => stage[n] = "user" /\ cfg_active[n] # None
        /\ cfg_resume[n] # "NO" => cfg_active[n] # None /\ stage[n] = "user" /\ ~dcf[n]

\* The result v is true of a request with this history.
Fits(v, a, h) == (v = "OK" => a) /\ (h => v = "CANCELED")

Results ==
    \A c \in Callers :
        /\ Has(mq, <<"CFG", c>>) => ~hit[c]
        /\ Active(c) /\ hit[c] => cancel_requested[c]
        /\ \A v \in Statuses : Has(todo, <<c, v>>) => Fits(v, applied[c], hit[c])
        /\ pc[c] # "idle" /\ done[c] => Fits(status[c], applied[c], hit[c])

CfgInv == CfgTypes /\ Holders /\ Completions /\ Links /\ Results

-----------------------------------------------------------------------------
(* Completions of many nodes                                               *)

\* Going through a set of nodes by number meets each of them once.
LEMMA ByNumberOnce ==
    ASSUME NEW S \in SUBSET Nodes, NEW ns \in ByNumber(S)
    PROVE  /\ Len(ns) \in Nat /\ \A i \in 1 .. Len(ns) : ns[i] \in S
           /\ \A i, j \in 1 .. Len(ns) : ns[i] = ns[j] => i = j
           /\ \A n \in S : \E i \in 1 .. Len(ns) : ns[i] = n
<1>0. IsFiniteSet(S) /\ \A n \in S : n \in Int
  <2>1. IsFiniteSet(S)
    BY MasterCfgAssumption, FS_Subset
  <2>2. \A n \in S : n \in 1 .. 127
    BY MasterCfgAssumption
  <2>3. QED
    BY <2>1, <2>2
<1>1. Cardinality(S) \in Nat /\ \A n \in S : n \in Int
  BY <1>0, FS_CardinalityType
<1>2. /\ ns \in [1 .. Cardinality(S) -> S]
      /\ \A i, j \in 1 .. Cardinality(S) : i < j => ns[i] < ns[j]
      /\ \A n \in S : \E i \in 1 .. Cardinality(S) : ns[i] = n
  BY DEF ByNumber
<1>3. Len(ns) = Cardinality(S)
  BY <1>1, <1>2
<1>4. \A i, j \in 1 .. Cardinality(S) : ns[i] = ns[j] => i = j
  BY <1>1, <1>2
<1>5. QED
  BY <1>1, <1>2, <1>3, <1>4

\* The completions made on the way, one for each node of S.
LEMMA CompletionList ==
    ASSUME NEW S \in SUBSET Nodes, NEW ns \in ByNumber(S),
           NEW key \in [S -> Callers], NEW val \in [S -> Statuses], NEW L,
           L = [i \in 1 .. Len(ns) |-> <<key[ns[i]], val[ns[i]]>>],
           \A n, o \in S : key[n] = key[o] => n = o
    PROVE  /\ L \in Seq(Callers \X Statuses)
           /\ \A k : HasKey(L, k) <=> \E n \in S : key[n] = k
           /\ \A k : OneKey(L, k)
           /\ \A k, v : Has(L, <<k, v>>) => \E n \in S : key[n] = k /\ val[n] = v
<1>1. /\ Len(ns) \in Nat /\ \A i \in 1 .. Len(ns) : ns[i] \in S
      /\ \A i, j \in 1 .. Len(ns) : ns[i] = ns[j] => i = j
      /\ \A n \in S : \E i \in 1 .. Len(ns) : ns[i] = n
  BY ByNumberOnce
<1>2. L \in Seq(Callers \X Statuses) /\ Len(L) = Len(ns)
  BY <1>1
<1>3. \A i \in 1 .. Len(L) :
         L[i] = <<key[ns[i]], val[ns[i]]>> /\ L[i][1] = key[ns[i]] /\ ns[i] \in S
  BY <1>1, <1>2
<1>4. \A k : HasKey(L, k) <=> \E n \in S : key[n] = k
  <2> TAKE k
  <2>1. HasKey(L, k) => \E n \in S : key[n] = k
    <3> SUFFICES ASSUME NEW i \in 1 .. Len(L), L[i][1] = k
                 PROVE  \E n \in S : key[n] = k
      BY DEF HasKey
    <3>1. ns[i] \in S /\ key[ns[i]] = k
      BY <1>3
    <3>2. QED
      BY <3>1
  <2>2. ASSUME NEW n \in S, key[n] = k
        PROVE  HasKey(L, k)
    BY <1>1, <1>2, <1>3, <2>2 DEF HasKey
  <2>3. QED
    BY <2>1, <2>2
<1>5. \A k : OneKey(L, k)
  BY <1>1, <1>2, <1>3 DEF OneKey
<1>6. ASSUME NEW k, NEW v, Has(L, <<k, v>>)
      PROVE  \E n \in S : key[n] = k /\ val[n] = v
  <2>1. PICK i \in 1 .. Len(L) : L[i] = <<k, v>>
    BY <1>6 DEF Has
  <2>2. <<key[ns[i]], val[ns[i]]>> = <<k, v>> /\ ns[i] \in S
    BY <1>3, <2>1
  <2>3. QED
    BY <2>2
<1>7. QED
  BY <1>2, <1>4, <1>5, <1>6

\* What a completing handler leaves behind, one completion or none.
LEMMA FinishOne ==
    ASSUME NEW c \in Callers, NEW v \in Statuses, NEW next \in OwnerPcs,
           Finish(<<<<c, v>>>>, next)
    PROVE  /\ todo' \in Seq(Callers \X Statuses) /\ todo' # <<>> /\ todo'[1] = <<c, v>>
           /\ owner_at' = "complete_mark" /\ resume' = next
           /\ \A k : (HasKey(todo', k) <=> c = k) /\ OneKey(todo', k)
           /\ \A k, w : Has(todo', <<k, w>>) => c = k /\ v = w
<1>1. \A y : Has(todo', y) <=> <<c, v>> = y
  BY KeyedOne DEF Finish
<1>2. QED
  BY <1>1, KeyedOne DEF Finish

LEMMA FinishNone ==
    ASSUME NEW next \in OwnerPcs, Finish(<<>>, next)
    PROVE  /\ todo' \in Seq(Callers \X Statuses) /\ todo' = <<>>
           /\ owner_at' = next /\ resume' = next
           /\ \A k : ~HasKey(todo', k) /\ OneKey(todo', k)
           /\ \A k, w : ~Has(todo', <<k, w>>)
BY KeyedNone, QueueEmpty DEF Finish

\* What slaves_fini and retire_all leave behind: every active request of these
\* nodes is completed, once, and none that was marked as anything but canceled.
LEMMA FinishAllList ==
    ASSUME CfgTypes, Links, NEW heard \in SUBSET Heard, NEW retired \in SUBSET Nodes,
           heard \cap retired = {}, NEW next \in OwnerPcs, FinishAll(heard, retired, next)
    PROVE  /\ todo' \in Seq(Callers \X Statuses)
           /\ owner_at' = IF todo' = <<>> THEN next ELSE "complete_mark"
           /\ resume' = next
           /\ \A c \in Callers : HasKey(todo', c) <=> \E n \in heard \cup retired : cfg_active[n] = c
           /\ \A c : OneKey(todo', c)
           /\ \A c \in Callers, v \in Statuses : Has(todo', <<c, v>>) =>
                v # "OK" /\ (cancel_requested[c] => v = "CANCELED")
<1> DEFINE quiet == {n \in retired : cfg_active[n] # None}
<1>1. PICK hs \in ByNumber(heard), ns \in ByNumber(quiet) :
         Finish(SlavesFiniCompletions(hs) \o RetireAllCompletions(ns), next)
  BY DEF FinishAll
<1> DEFINE hl == SlavesFiniCompletions(hs)
           nl == RetireAllCompletions(ns)
           hk == [n \in heard |-> who[n]]
           hv == [n \in heard |-> ConfirmedStatus(who[n], "ABORT")]
           nk == [n \in quiet |-> cfg_active[n]]
           nv == [n \in quiet |-> "CANCELED"]
<1>2. /\ heard \in SUBSET Nodes /\ quiet \in SUBSET Nodes
      /\ \A n \in heard : who[n] \in Callers /\ cfg_active[n] = who[n]
      /\ \A n \in quiet : n \in retired /\ cfg_active[n] \in Callers
      /\ \A n \in retired : cfg_active[n] \in Callers => n \in quiet
  <2>1. heard \in SUBSET Nodes /\ quiet \in SUBSET Nodes
    BY DEF Heard
  <2>2. \A n \in heard : who[n] \in Callers /\ cfg_active[n] = who[n]
    BY <2>1 DEF Links, Heard
  <2>3. \A n \in quiet : n \in retired /\ cfg_active[n] \in Callers
    BY DEF CfgTypes, CfgTypeOK
  <2>4. \A n \in retired : cfg_active[n] \in Callers => n \in quiet
    BY MasterCfgAssumption
  <2>5. QED
    BY <2>1, <2>2, <2>3, <2>4
<1>3. \A n, o \in Nodes : cfg_active[n] \in Callers /\ cfg_active[n] = cfg_active[o] => n = o
  BY DEF Links
<1> HIDE DEF quiet
<1>4. /\ hl \in Seq(Callers \X Statuses)
      /\ \A c : HasKey(hl, c) <=> \E n \in heard : who[n] = c
      /\ \A c : OneKey(hl, c)
      /\ \A c, v : Has(hl, <<c, v>>) =>
            \E n \in heard : who[n] = c /\ ConfirmedStatus(who[n], "ABORT") = v
  <2>1. hk \in [heard -> Callers] /\ hv \in [heard -> Statuses]
    BY <1>2 DEF ConfirmedStatus, Statuses
  <2>2. \A n, o \in heard : hk[n] = hk[o] => n = o
    BY <1>2, <1>3
  <2>3. hl = [i \in 1 .. Len(hs) |-> <<hk[hs[i]], hv[hs[i]]>>]
    BY <1>2, ByNumberOnce DEF SlavesFiniCompletions
  <2> HIDE DEF hl, hk, hv
  <2>4. /\ hl \in Seq(Callers \X Statuses)
        /\ \A c : HasKey(hl, c) <=> \E n \in heard : hk[n] = c
        /\ \A c : OneKey(hl, c)
        /\ \A c, v : Has(hl, <<c, v>>) => \E n \in heard : hk[n] = c /\ hv[n] = v
    BY <1>2, <2>1, <2>2, <2>3, CompletionList
  <2>5. \A n \in heard : hk[n] = who[n] /\ hv[n] = ConfirmedStatus(who[n], "ABORT")
    BY DEF hk, hv
  <2>6. QED
    BY <2>4, <2>5
<1>5. /\ nl \in Seq(Callers \X Statuses)
      /\ \A c : HasKey(nl, c) <=> \E n \in quiet : cfg_active[n] = c
      /\ \A c : OneKey(nl, c)
      /\ \A c, v : Has(nl, <<c, v>>) => v = "CANCELED"
  <2>1. nk \in [quiet -> Callers] /\ nv \in [quiet -> Statuses]
    BY <1>2 DEF Statuses
  <2>2. \A n, o \in quiet : nk[n] = nk[o] => n = o
    BY <1>2, <1>3
  <2>3. nl = [i \in 1 .. Len(ns) |-> <<nk[ns[i]], nv[ns[i]]>>]
    BY <1>2, ByNumberOnce DEF RetireAllCompletions
  <2> HIDE DEF nl, nk, nv
  <2>4. /\ nl \in Seq(Callers \X Statuses)
        /\ \A c : HasKey(nl, c) <=> \E n \in quiet : nk[n] = c
        /\ \A c : OneKey(nl, c)
        /\ \A c, v : Has(nl, <<c, v>>) => \E n \in quiet : nk[n] = c /\ nv[n] = v
    BY <1>2, <2>1, <2>2, <2>3, CompletionList
  <2>5. \A n \in quiet : nk[n] = cfg_active[n] /\ nv[n] = "CANCELED"
    BY DEF nk, nv
  <2>6. QED
    BY <2>4, <2>5
<1> HIDE DEF hl, nl
<1>6. todo' = hl \o nl /\ resume' = next /\ owner_at' = IF hl \o nl = <<>> THEN next ELSE "complete_mark"
  BY <1>1 DEF Finish, hl, nl
<1>7. /\ hl \o nl \in Seq(Callers \X Statuses)
      /\ \A c : HasKey(hl \o nl, c) <=> HasKey(hl, c) \/ HasKey(nl, c)
      /\ \A y : Has(hl \o nl, y) <=> Has(hl, y) \/ Has(nl, y)
      /\ \A c : OneKey(hl, c) /\ OneKey(nl, c) /\ ~(HasKey(hl, c) /\ HasKey(nl, c))
                   => OneKey(hl \o nl, c)
  BY <1>4, <1>5, KeyedConcat
<1>8. \A c \in Callers : HasKey(todo', c) <=> \E n \in heard \cup retired : cfg_active[n] = c
  <2> TAKE c \in Callers
  <2>1. HasKey(todo', c) <=> HasKey(hl, c) \/ HasKey(nl, c)
    BY <1>6, <1>7
  <2>2. HasKey(hl, c) <=> \E n \in heard : cfg_active[n] = c
    BY <1>2, <1>4
  <2>3. HasKey(nl, c) <=> \E n \in retired : cfg_active[n] = c
    BY <1>2, <1>5
  <2>4. QED
    BY <2>1, <2>2, <2>3
<1>9. \A c : ~(HasKey(hl, c) /\ HasKey(nl, c))
  BY <1>2, <1>3, <1>4, <1>5
<1>10. \A c \in Callers, v \in Statuses : Has(todo', <<c, v>>) =>
                v # "OK" /\ (cancel_requested[c] => v = "CANCELED")
  BY <1>4, <1>5, <1>6, <1>7 DEF ConfirmedStatus
<1>11. QED
  BY <1>4, <1>5, <1>6, <1>7, <1>8, <1>9, <1>10

-----------------------------------------------------------------------------
(* The head of the queue, and an owner that completes nothing              *)

\* A request at the head of the queue is taken.
LEMMA TakeCfg ==
    ASSUME CfgTypes, IsCfg
    PROVE  /\ mq[1][2] \in Callers /\ Tail(mq) \in Seq(Commands)
           /\ \A q \in Callers :
                /\ Has(mq, <<"CFG", q>>) <=> q = mq[1][2] \/ Has(Tail(mq), <<"CFG", q>>)
                /\ AtMostOne(mq, <<"CFG", q>>) =>
                     AtMostOne(Tail(mq), <<"CFG", q>>) /\ (q = mq[1][2] => ~Has(Tail(mq), <<"CFG", q>>))
<1>1. mq \in Seq(Commands) /\ mq # <<>> /\ mq[1] \in Commands /\ mq[1][1] = "CFG" /\ Head(mq) = mq[1]
  BY DEF CfgTypes, IsCfg
<1>2. mq[1] = <<"CFG", mq[1][2]>> /\ mq[1][2] \in Callers
  BY <1>1 DEF Commands
<1>3. \A q : <<"CFG", mq[1][2]>> = <<"CFG", q>> <=> mq[1][2] = q
  OBVIOUS
<1>4. QED
  BY <1>1, <1>2, <1>3, QueueTake

\* An NMT command at the head of the queue is taken.
LEMMA TakeNmt ==
    ASSUME CfgTypes, mq # <<>>, ~IsCfg
    PROVE  /\ mq[1][2] \in NmtCommands /\ mq[1][3] \in Targets /\ Tail(mq) \in Seq(Commands)
           /\ \A q \in Callers :
                /\ Has(mq, <<"CFG", q>>) <=> Has(Tail(mq), <<"CFG", q>>)
                /\ AtMostOne(mq, <<"CFG", q>>) => AtMostOne(Tail(mq), <<"CFG", q>>)
<1>1. mq \in Seq(Commands) /\ mq # <<>> /\ mq[1] \in Commands /\ mq[1][1] # "CFG" /\ Head(mq) = mq[1]
  BY DEF CfgTypes, IsCfg
<1>2. mq[1] \in {"NMT"} \X NmtCommands \X Targets
  BY <1>1 DEF Commands
<1>3. mq[1][2] \in NmtCommands /\ mq[1][3] \in Targets /\ \A q : mq[1] # <<"CFG", q>>
  BY <1>1, <1>2
<1>4. QED
  BY <1>1, <1>3, QueueTake

\* Between two handlers there is nothing to complete.
LEMMA NothingToDo ==
    ASSUME Completions, owner_at \in OwnerPcs
    PROVE  /\ todo = <<>>
           /\ \A q : ~HasKey(todo, q) /\ OneKey(todo, q)
           /\ \A y : ~Has(todo, y)
BY KeyedNone, QueueEmpty DEF Completions, OwnerPcs, CompletePcs

-----------------------------------------------------------------------------
(* Handlers                                                                *)

\* What a handler of the owner does to the requests: it takes those of D from
\* the queue or from cfg_active in order to complete them, it may make a queued
\* one active, and it leaves the others where they are.
Handler(D) ==
    /\ owner_at \in OwnerPcs
    /\ IF todo' = <<>> THEN owner_at' \in OwnerPcs ELSE owner_at' = "complete_mark"
    /\ UNCHANGED <<pc, done, status>>
    /\ \A q \in Callers :
        /\ HasKey(todo', q) <=> q \in D
        /\ OneKey(todo', q) /\ AtMostOne(mq', <<"CFG", q>>)
        /\ \/ /\ q \in D /\ (Has(mq, <<"CFG", q>>) \/ Active(q))
              /\ ~Has(mq', <<"CFG", q>>) /\ ~Active(q)'
           \/ /\ q \notin D /\ (Active(q)' <=> Active(q))
              /\ Has(mq', <<"CFG", q>>) <=> Has(mq, <<"CFG", q>>)
           \/ /\ q \notin D /\ Has(mq, <<"CFG", q>>)
              /\ ~Has(mq', <<"CFG", q>>) /\ Active(q)'
        /\ \A v \in Statuses : Has(todo', <<q, v>>) => Fits(v, applied'[q], hit'[q])
        /\ Has(mq', <<"CFG", q>>) => ~hit'[q]
        /\ Active(q)' /\ hit'[q] => cancel_requested'[q]
        /\ ~Active(q) => applied'[q] = applied[q] /\ hit'[q] = hit[q]

\* A handler keeps the invariant, as far as the requests are concerned.
LEMMA HandlerKeeps ==
    ASSUME CfgInv, NEW D, Handler(D)
    PROVE  Holders' /\ Completions' /\ Results'
<1>1. /\ todo = <<>> /\ \A q : ~HasKey(todo, q)
  BY NothingToDo DEF CfgInv, Handler
<1>2. ASSUME NEW q \in Callers
      PROVE  Holder(pc[q], done[q], Has(mq, <<"CFG", q>>), HasKey(todo, q), Active(q))
  BY DEF CfgInv, Holders
<1>3. Holders'
  <2> SUFFICES ASSUME NEW q \in Callers
               PROVE  /\ Holder(pc'[q], done'[q], Has(mq', <<"CFG", q>>), HasKey(todo', q), Active(q)')
                      /\ AtMostOne(mq', <<"CFG", q>>) /\ OneKey(todo', q)
    BY DEF Holders
  <2>1. QED
    BY <1>1, <1>2 DEF Handler, Holder
<1>4. Completions'
  <2>1. todo' = <<>> <=> owner_at' \notin CompletePcs
    BY DEF Handler, OwnerPcs, CompletePcs
  <2>2. owner_at' \notin {"complete_done", "complete_release"}
    BY DEF Handler, OwnerPcs
  <2>3. ASSUME NEW q \in Callers, HasKey(todo', q)
        PROVE  pc'[q] = "wait" /\ ~done'[q]
    BY <1>1, <1>2, <2>3 DEF Handler, Holder
  <2>4. QED
    BY <2>1, <2>2, <2>3 DEF Completions
<1>5. Results'
  <2> SUFFICES ASSUME NEW q \in Callers
               PROVE  /\ Has(mq', <<"CFG", q>>) => ~hit'[q]
                      /\ Active(q)' /\ hit'[q] => cancel_requested'[q]
                      /\ \A v \in Statuses : Has(todo', <<q, v>>) => Fits(v, applied'[q], hit'[q])
                      /\ pc'[q] # "idle" /\ done'[q] => Fits(status'[q], applied'[q], hit'[q])
    BY DEF Results
  <2>1. pc[q] # "idle" /\ done[q] => ~Active(q) /\ Fits(status[q], applied[q], hit[q])
    BY <1>2 DEF CfgInv, Results, Holder
  <2>2. QED
    BY <2>1 DEF Handler
<1>6. QED
  BY <1>3, <1>4, <1>5

\* A step of the owner that leaves every request where it is; it may mark some
\* as canceled.
LEMMA RestingKeeps ==
    ASSUME CfgInv, owner_at \in OwnerPcs, owner_at' \in OwnerPcs, todo' = <<>>,
           UNCHANGED <<pc, done, status, mq, cfg_active, applied, hit>>,
           \A q \in Callers : cancel_requested[q] => cancel_requested'[q]
    PROVE  Holders' /\ Completions' /\ Results'
<1>1. Handler({})
  <2>1. \A q : ~HasKey(todo', q) /\ OneKey(todo', q) /\ \A v : ~Has(todo', <<q, v>>)
    BY KeyedNone, QueueEmpty
  <2>2. \A q : Active(q)' <=> Active(q)
    BY DEF Active
  <2>3. ASSUME NEW q \in Callers
        PROVE  /\ AtMostOne(mq, <<"CFG", q>>)
               /\ Has(mq, <<"CFG", q>>) => ~hit[q]
               /\ Active(q) /\ hit[q] => cancel_requested[q]
    BY DEF CfgInv, Holders, Results
  <2>4. QED
    BY <2>1, <2>2, <2>3 DEF Handler
<1>2. QED
  BY <1>1, HandlerKeeps

\* The confirmation of a sequence of Lely's.
LEMMA ConfirmKeeps ==
    ASSUME CfgInv, NEW n \in Nodes, NEW ac \in {"OK", "ABORT"}, NEW next \in OwnerPcs,
           owner_at \in OwnerPcs, Confirm(n, ac, next),
           UNCHANGED <<pc, done, status, mq, cancel_requested, hit>>
    PROVE  Holders' /\ Completions' /\ Results'
<1>1. CASE who[n] \notin Callers
  <2>1. todo' = <<>> /\ owner_at' \in OwnerPcs /\ UNCHANGED <<cfg_active, applied>>
    BY <1>1, FinishNone DEF Confirm
  <2>2. QED
    BY <2>1, RestingKeeps
<1>2. CASE who[n] \in Callers
  <2> DEFINE c == who[n]
             v == ConfirmedStatus(c, ac)
  <2>1. /\ cfg_active' = [cfg_active EXCEPT ![n] = None]
        /\ Finish(<<<<c, v>>>>, next)
        /\ applied' = [applied EXCEPT ![c] = ac = "OK"]
    BY <1>2 DEF Confirm, Release
  <2>2. v \in Statuses /\ c \in Callers
    BY <1>2 DEF ConfirmedStatus, Statuses
  <2>3. /\ todo' # <<>> /\ owner_at' = "complete_mark"
        /\ \A k : (HasKey(todo', k) <=> c = k) /\ OneKey(todo', k)
        /\ \A k, w : Has(todo', <<k, w>>) => c = k /\ v = w
    BY <2>1, <2>2, FinishOne
  <2>4. /\ cfg_active \in [Nodes -> Callers \cup {None}] /\ applied \in [Callers -> BOOLEAN]
        /\ cfg_active[n] = c /\ \A m \in Nodes : cfg_active[m] = c => m = n
    BY <1>2 DEF CfgInv, CfgTypes, CfgTypeOK, Links
  <2> HIDE DEF c
  <2>5. \A q \in Callers : Active(q)' <=> Active(q) /\ q # c
    BY <2>1, <2>2, <2>4, MasterCfgAssumption DEF Active
  <2>6. Active(c)
    BY <2>4 DEF Active
  <2>7. \A q \in Callers : applied'[q] = IF q = c THEN ac = "OK" ELSE applied[q]
    BY <2>1, <2>2, <2>4
  <2>8. ASSUME NEW q \in Callers
        PROVE  /\ AtMostOne(mq, <<"CFG", q>>)
               /\ Active(q) => ~Has(mq, <<"CFG", q>>)
               /\ Has(mq, <<"CFG", q>>) => ~hit[q]
               /\ Active(q) /\ hit[q] => cancel_requested[q]
    BY DEF CfgInv, Holders, Holder, Results
  <2>9. Fits(v, ac = "OK", hit[c])
    BY <2>2, <2>6, <2>8 DEF Fits, ConfirmedStatus
  <2> HIDE DEF v
  <2>10. Handler({c})
    <3> SUFFICES ASSUME NEW q \in Callers
                 PROVE  /\ HasKey(todo', q) <=> q \in {c}
                        /\ OneKey(todo', q) /\ AtMostOne(mq', <<"CFG", q>>)
                        /\ \/ /\ q \in {c} /\ (Has(mq, <<"CFG", q>>) \/ Active(q))
                              /\ ~Has(mq', <<"CFG", q>>) /\ ~Active(q)'
                           \/ /\ q \notin {c} /\ (Active(q)' <=> Active(q))
                              /\ Has(mq', <<"CFG", q>>) <=> Has(mq, <<"CFG", q>>)
                        /\ \A w \in Statuses : Has(todo', <<q, w>>) => Fits(w, applied'[q], hit'[q])
                        /\ Has(mq', <<"CFG", q>>) => ~hit'[q]
                        /\ Active(q)' /\ hit'[q] => cancel_requested'[q]
                        /\ ~Active(q) => applied'[q] = applied[q] /\ hit'[q] = hit[q]
      BY <2>3 DEF Handler
    <3>1. CASE q = c
      BY <2>3, <2>5, <2>6, <2>7, <2>8, <2>9, <3>1
    <3>2. CASE q # c
      BY <2>3, <2>5, <2>7, <2>8, <3>2
    <3>3. QED
      BY <3>1, <3>2
  <2>11. QED
    BY <2>10, HandlerKeeps
<1>3. QED
  BY <1>1, <1>2

\* slaves_fini with retire_all: every active request is completed.
LEMMA FinishAllKeeps ==
    ASSUME CfgInv, NEW next \in OwnerPcs, owner_at \in OwnerPcs,
           FinishAll(Heard, Nodes \ Heard, next),
           cfg_active' = [n \in Nodes |-> None],
           UNCHANGED <<pc, done, status, mq, applied, hit>>
    PROVE  Holders' /\ Completions' /\ Results'
<1>1. /\ owner_at' = IF todo' = <<>> THEN next ELSE "complete_mark"
      /\ \A c \in Callers : HasKey(todo', c) <=> \E n \in Heard \cup (Nodes \ Heard) : cfg_active[n] = c
      /\ \A c : OneKey(todo', c)
      /\ \A c \in Callers, v \in Statuses : Has(todo', <<c, v>>) =>
            v # "OK" /\ (cancel_requested[c] => v = "CANCELED")
  <2> DEFINE heard == Heard
             retired == Nodes \ Heard
  <2>1. heard \in SUBSET Heard /\ retired \in SUBSET Nodes /\ heard \cap retired = {}
    OBVIOUS
  <2>2. CfgTypes /\ Links /\ FinishAll(heard, retired, next)
    BY DEF CfgInv
  <2> HIDE DEF heard, retired
  <2>3. /\ owner_at' = IF todo' = <<>> THEN next ELSE "complete_mark"
        /\ \A c \in Callers : HasKey(todo', c) <=> \E n \in heard \cup retired : cfg_active[n] = c
        /\ \A c : OneKey(todo', c)
        /\ \A c \in Callers, v \in Statuses : Has(todo', <<c, v>>) =>
              v # "OK" /\ (cancel_requested[c] => v = "CANCELED")
    BY <2>1, <2>2, FinishAllList
  <2>4. QED
    BY <2>3 DEF heard, retired
<1>2. \A q \in Callers : (HasKey(todo', q) <=> Active(q)) /\ ~Active(q)'
  BY <1>1, MasterCfgAssumption DEF Active, Heard
<1>3. \A q \in Callers, v \in Statuses : Has(todo', <<q, v>>) => HasKey(todo', q)
  BY DEF Has, HasKey
<1>4. ASSUME NEW q \in Callers
      PROVE  /\ AtMostOne(mq, <<"CFG", q>>)
             /\ Active(q) => ~Has(mq, <<"CFG", q>>)
             /\ Has(mq, <<"CFG", q>>) => ~hit[q]
             /\ Active(q) /\ hit[q] => cancel_requested[q]
  BY DEF CfgInv, Holders, Holder, Results
<1>5. \A q \in Callers, v \in Statuses : Has(todo', <<q, v>>) => Fits(v, applied[q], hit[q])
  BY <1>1, <1>2, <1>3, <1>4 DEF Fits
<1>6. Handler({q \in Callers : Active(q)})
  BY <1>1, <1>2, <1>4, <1>5 DEF Handler, OwnerPcs
<1>7. QED
  BY <1>6, HandlerKeeps

\* A request taken from the queue is completed at once.
LEMMA RefusedKeeps ==
    ASSUME CfgInv, IsCfg, owner_at \in OwnerPcs, mq' = Tail(mq),
           NEW v \in {"LOCAL_ERROR", "CANCELED"}, NEW next \in OwnerPcs,
           Finish(<<<<mq[1][2], v>>>>, next),
           UNCHANGED <<pc, done, status, cfg_active, applied, hit>>,
           \A q \in Callers : cancel_requested[q] => cancel_requested'[q]
    PROVE  Holders' /\ Completions' /\ Results'
<1> DEFINE c == mq[1][2]
<1>1. /\ c \in Callers
      /\ \A q \in Callers :
            /\ Has(mq, <<"CFG", q>>) <=> q = c \/ Has(mq', <<"CFG", q>>)
            /\ AtMostOne(mq, <<"CFG", q>>) =>
                 AtMostOne(mq', <<"CFG", q>>) /\ (q = c => ~Has(mq', <<"CFG", q>>))
  BY TakeCfg DEF CfgInv
<1> HIDE DEF c
<1>2. /\ todo' # <<>> /\ owner_at' = "complete_mark"
      /\ \A k : (HasKey(todo', k) <=> c = k) /\ OneKey(todo', k)
      /\ \A k, w : Has(todo', <<k, w>>) => c = k /\ v = w
  BY <1>1, FinishOne DEF c, Statuses
<1>3. \A q : Active(q)' <=> Active(q)
  BY DEF Active
<1>4. ASSUME NEW q \in Callers
      PROVE  /\ AtMostOne(mq, <<"CFG", q>>)
             /\ Has(mq, <<"CFG", q>>) => ~Active(q)
             /\ Has(mq, <<"CFG", q>>) => ~hit[q]
             /\ Active(q) /\ hit[q] => cancel_requested[q]
  BY DEF CfgInv, Holders, Holder, Results
<1>5. Fits(v, applied[c], hit[c])
  BY <1>1, <1>4 DEF Fits
<1>6. Handler({c})
  BY <1>1, <1>2, <1>3, <1>4, <1>5 DEF Handler
<1>7. QED
  BY <1>6, HandlerKeeps

\* cfg_dispatch
LEMMA DispatchCfgKeeps ==
    ASSUME CfgInv, DispatchCfg
    PROVE  Holders' /\ Completions' /\ Results'
<1> DEFINE c == mq[1][2]
           n == node[c]
<1>1. /\ c \in Callers /\ n \in Nodes
      /\ \A q \in Callers :
            /\ Has(mq, <<"CFG", q>>) <=> q = c \/ Has(mq', <<"CFG", q>>)
            /\ AtMostOne(mq, <<"CFG", q>>) =>
                 AtMostOne(mq', <<"CFG", q>>) /\ (q = c => ~Has(mq', <<"CFG", q>>))
  BY TakeCfg DEF CfgInv, DispatchCfg, CfgTypes, CfgTypeOK
<1>2. /\ IsCfg /\ owner_at = "dispatch" /\ owner_at \in OwnerPcs /\ mq' = Tail(mq)
      /\ UNCHANGED <<pc, done, status, applied, hit, cancel_requested>>
      /\ cfg_active \in [Nodes -> Callers \cup {None}]
  BY DEF DispatchCfg, callerVars, requestVars, history, OwnerPcs, CfgInv, CfgTypes, CfgTypeOK
<1>3. CASE Finish(<<<<c, "LOCAL_ERROR">>>>, "dispatch") /\ UNCHANGED cfg_active
  <2>1. "LOCAL_ERROR" \in {"LOCAL_ERROR", "CANCELED"} /\ "dispatch" \in OwnerPcs
    BY DEF OwnerPcs
  <2>2. \A q \in Callers : cancel_requested[q] => cancel_requested'[q]
    BY <1>2
  <2>3. QED
    BY <1>2, <1>3, <2>1, <2>2, RefusedKeeps
<1>4. CASE /\ ~Refused(n) /\ cfg_active' = [cfg_active EXCEPT ![n] = c]
           /\ UNCHANGED ownerVars
  <2>1. cfg_active[n] = None
    BY <1>4 DEF Refused
  <2>2. todo' = <<>> /\ owner_at' \in OwnerPcs
        /\ \A q : ~HasKey(todo', q) /\ OneKey(todo', q) /\ \A v : ~Has(todo', <<q, v>>)
    BY <1>2, <1>4, NothingToDo DEF ownerVars, CfgInv
  <2> HIDE DEF c, n
  <2>3. \A q \in Callers : Active(q)' <=> Active(q) \/ q = c
    BY <1>1, <1>2, <1>4, <2>1, MasterCfgAssumption DEF Active
  <2>4. ASSUME NEW q \in Callers
        PROVE  /\ AtMostOne(mq, <<"CFG", q>>)
               /\ Has(mq, <<"CFG", q>>) => ~Active(q)
               /\ Has(mq, <<"CFG", q>>) => ~hit[q]
               /\ Active(q) /\ hit[q] => cancel_requested[q]
    BY DEF CfgInv, Holders, Holder, Results
  <2>5. Handler({})
    BY <1>1, <1>2, <2>2, <2>3, <2>4 DEF Handler
  <2>6. QED
    BY <2>5, HandlerKeeps
<1>5. ASSUME ~Refused(n), Release(n)
      PROVE  UNCHANGED cfg_active
  BY <1>2, <1>5 DEF Refused, Release
<1>6. QED
  BY <1>3, <1>4, <1>5 DEF DispatchCfg

\* The dispatch of an NMT command, sent or not.
LEMMA DispatchNmtKeeps ==
    ASSUME CfgInv, DispatchNmt
    PROVE  Holders' /\ Completions' /\ Results'
<1>1. /\ owner_at \in OwnerPcs /\ mq' = Tail(mq) /\ mq # <<>> /\ ~IsCfg
      /\ UNCHANGED <<pc, done, status, applied, owner_at, todo, cfg_active>>
      /\ hit \in [Callers -> BOOLEAN] /\ cancel_requested \in [Callers -> BOOLEAN]
  BY DEF DispatchNmt, callerVars, ownerVars, cfgVars, OwnerPcs, IsNmt, IsCfg, CfgInv,
         CfgTypes, CfgTypeOK
<1>2. \A q \in Callers :
         /\ Has(mq, <<"CFG", q>>) <=> Has(mq', <<"CFG", q>>)
         /\ AtMostOne(mq, <<"CFG", q>>) => AtMostOne(mq', <<"CFG", q>>)
  BY <1>1, TakeNmt DEF CfgInv
<1>3. todo' = <<>> /\ \A q : ~HasKey(todo', q) /\ OneKey(todo', q) /\ \A v : ~Has(todo', <<q, v>>)
  BY <1>1, NothingToDo DEF CfgInv
<1>4. \A q : Active(q)' <=> Active(q)
  BY <1>1 DEF Active
<1>5. ASSUME NEW q \in Callers
      PROVE  /\ AtMostOne(mq, <<"CFG", q>>)
             /\ Has(mq, <<"CFG", q>>) => ~Active(q)
             /\ Has(mq, <<"CFG", q>>) => ~hit[q]
             /\ Active(q) /\ hit[q] => cancel_requested[q]
  BY DEF CfgInv, Holders, Holder, Results
<1>6. mq[1][3] \in Targets
  BY <1>1, TakeNmt DEF CfgInv
<1>7. ASSUME NEW q \in Callers, q \in Addressed(mq[1][3])
      PROVE  Active(q)
  BY <1>6, <1>7 DEF Addressed, Active, Targets
<1>8. ASSUME NEW q \in Callers
      PROVE  /\ hit'[q] => hit[q] \/ (Active(q) /\ cancel_requested'[q])
             /\ hit[q] => hit'[q]
             /\ cancel_requested[q] => cancel_requested'[q]
             /\ ~Active(q) => hit'[q] = hit[q]
  <2>1. CASE UNCHANGED <<cancel_requested, hit>>
    BY <2>1
  <2>2. CASE /\ OnNmtCommand(mq[1][2], mq[1][3])
             /\ hit' = [c \in Callers |->
                           \/ hit[c]
                           \/ mq[1][2] # "PREOP" /\ c \in Addressed(mq[1][3])]
    BY <1>1, <1>7, <2>2 DEF OnNmtCommand
  <2>3. QED
    BY <2>1, <2>2 DEF DispatchNmt
<1>9. Handler({})
  <2>1. ASSUME NEW q \in Callers
        PROVE  /\ Has(mq', <<"CFG", q>>) => ~hit'[q]
               /\ Active(q)' /\ hit'[q] => cancel_requested'[q]
    BY <1>2, <1>4, <1>5, <1>8
  <2>2. QED
    BY <1>1, <1>2, <1>3, <1>4, <1>5, <1>8, <2>1 DEF Handler
<1>10. QED
  BY <1>9, HandlerKeeps

\* command_fini for the command at the head.
LEMMA RetireQueuedKeeps ==
    ASSUME CfgInv, RetireQueued
    PROVE  Holders' /\ Completions' /\ Results'
<1>1. /\ owner_at \in OwnerPcs /\ mq' = Tail(mq) /\ mq # <<>>
      /\ UNCHANGED <<pc, done, status, applied, hit, cfg_active>>
      /\ cancel_requested \in [Callers -> BOOLEAN]
  BY DEF RetireQueued, callerVars, cfgVars, history, OwnerPcs, CfgInv, CfgTypes, CfgTypeOK
<1>2. CASE IsCfg
  <2>1. Finish(<<<<mq[1][2], "CANCELED">>>>, "fini")
    BY <1>2 DEF RetireQueued
  <2>2. \A q \in Callers : cancel_requested[q] => cancel_requested'[q]
    BY <1>1, <1>2 DEF RetireQueued
  <2>3. "CANCELED" \in {"LOCAL_ERROR", "CANCELED"} /\ "fini" \in OwnerPcs
    BY DEF OwnerPcs
  <2>4. QED
    BY <1>1, <1>2, <2>1, <2>2, <2>3, RefusedKeeps
<1>3. CASE ~IsCfg
  <2>1. UNCHANGED <<cancel_requested, owner_at, todo>>
    BY <1>3 DEF RetireQueued, ownerVars
  <2>2. \A q \in Callers :
           /\ Has(mq, <<"CFG", q>>) <=> Has(mq', <<"CFG", q>>)
           /\ AtMostOne(mq, <<"CFG", q>>) => AtMostOne(mq', <<"CFG", q>>)
    BY <1>1, <1>3, TakeNmt DEF CfgInv
  <2>3. todo' = <<>> /\ \A q : ~HasKey(todo', q) /\ OneKey(todo', q) /\ \A v : ~Has(todo', <<q, v>>)
    BY <1>1, <2>1, NothingToDo DEF CfgInv
  <2>4. \A q : Active(q)' <=> Active(q)
    BY <1>1 DEF Active
  <2>5. ASSUME NEW q \in Callers
        PROVE  /\ AtMostOne(mq, <<"CFG", q>>)
               /\ Has(mq, <<"CFG", q>>) => ~hit[q]
               /\ Active(q) /\ hit[q] => cancel_requested[q]
    BY DEF CfgInv, Holders, Results
  <2>6. Handler({})
    BY <1>1, <2>1, <2>2, <2>3, <2>4, <2>5 DEF Handler
  <2>7. QED
    BY <2>6, HandlerKeeps
<1>4. QED
  BY <1>2, <1>3

\* A stop of the master leaves the configurations alone; a reset and PRE-OP end
\* them all.
LEMMA MasterStateCases ==
    ASSUME CfgTypes, NEW k \in NmtCommands, MasterState(k)
    PROVE  \/ /\ FinishAll({}, {}, owner_at)
              /\ UNCHANGED <<stage, who, dcf, booting, cfg_active, cfg_resume, cancel_requested>>
           \/ /\ FinishAll(Heard, Nodes \ Heard, owner_at) /\ SlavesFini
              /\ cfg_active' = [n \in Nodes |-> None] /\ cfg_resume' = [n \in Nodes |-> "NO"]
              /\ cancel_requested' \in [Callers -> BOOLEAN]
<1>1. /\ cancel_requested \in [Callers -> BOOLEAN] /\ cfg_active \in [Nodes -> Callers \cup {None}]
      /\ cfg_resume \in [Nodes -> {"NO", "OK", "ABORT"}] /\ Heard \subseteq Nodes
  BY DEF CfgTypes, CfgTypeOK, Heard
<1>2. CASE k = "STOP"
  <2>1. /\ FinishAll({}, {}, owner_at)
        /\ UNCHANGED <<stage, who, dcf, booting>>
        /\ cancel_requested' = [c \in Callers |-> cancel_requested[c] \/ c \in Retired({})]
        /\ cfg_active' = [n \in Nodes |-> IF n \in {} \cup {} THEN None ELSE cfg_active[n]]
        /\ cfg_resume' = RetiredResume({} \cup {})
    BY <1>2 DEF MasterState, Retires
  <2>2. UNCHANGED <<cfg_active, cfg_resume>>
    BY <1>1, <2>1 DEF RetiredResume
  <2>3. UNCHANGED cancel_requested
    BY <1>1, <2>1 DEF Retired
  <2>4. QED
    BY <2>1, <2>2, <2>3
<1>3. CASE k # "STOP"
  <2> DEFINE quiet == Nodes \ Heard
  <2>1. /\ FinishAll(Heard, quiet, owner_at) /\ SlavesFini
        /\ cancel_requested' = [c \in Callers |-> cancel_requested[c] \/ c \in Retired(quiet)]
        /\ cfg_active' = [n \in Nodes |-> IF n \in Heard \cup quiet THEN None ELSE cfg_active[n]]
        /\ cfg_resume' = RetiredResume(Heard \cup quiet)
    BY <1>3 DEF MasterState, Retires, NmtCommands
  <2>2. \A n \in Nodes : n \in Heard \cup quiet
    OBVIOUS
  <2>3. cfg_active' = [n \in Nodes |-> None] /\ cfg_resume' = [n \in Nodes |-> "NO"]
    BY <2>1, <2>2 DEF RetiredResume
  <2>4. cancel_requested' \in [Callers -> BOOLEAN]
    BY <1>1, <2>1
  <2>5. QED
    BY <2>1, <2>3, <2>4
<1>4. QED
  BY <1>2, <1>3

\* No node, no completion.
LEMMA FinishAllNone ==
    ASSUME CfgTypes, Links, NEW next \in OwnerPcs, FinishAll({}, {}, next)
    PROVE  todo' = <<>> /\ owner_at' = next /\ resume' = next
<1> DEFINE heard == {}
           retired == {}
<1>1. heard \in SUBSET Heard /\ retired \in SUBSET Nodes /\ heard \cap retired = {}
  OBVIOUS
<1>2. FinishAll(heard, retired, next)
  OBVIOUS
<1> HIDE DEF heard, retired
<1>3. /\ todo' \in Seq(Callers \X Statuses) /\ resume' = next
      /\ owner_at' = IF todo' = <<>> THEN next ELSE "complete_mark"
      /\ \A c \in Callers : HasKey(todo', c) <=> \E n \in heard \cup retired : cfg_active[n] = c
  BY <1>1, <1>2, FinishAllList
<1>4. \A c \in Callers : ~HasKey(todo', c)
  BY <1>3 DEF heard, retired
<1>5. todo' = <<>>
  <2>1. ASSUME todo' # <<>>
        PROVE  FALSE
    <3>1. todo'[1] \in Callers \X Statuses
      BY <1>3, <2>1
    <3>2. \A k : HasKey(todo', k) <=> todo'[1][1] = k \/ HasKey(Tail(todo'), k)
      BY <1>3, <2>1, KeyedTake
    <3>3. QED
      BY <1>4, <3>1, <3>2
  <2>2. QED
    BY <2>1
<1>6. QED
  BY <1>3, <1>5

\* A change of the master's own state.
LEMMA MasterStateKeeps ==
    ASSUME CfgInv, NEW k \in NmtCommands, MasterState(k)
    PROVE  Holders' /\ Completions' /\ Results'
<1>1. /\ owner_at \in OwnerPcs /\ UNCHANGED <<pc, done, status, mq, applied, hit>>
      /\ CfgTypes /\ Links
  BY DEF MasterState, InEvents, OwnerPcs, callerVars, commandVars, history, CfgInv
<1>2. CASE FinishAll({}, {}, owner_at) /\ UNCHANGED <<cfg_active, cancel_requested>>
  <2>1. todo' = <<>> /\ owner_at' \in OwnerPcs
    BY <1>1, <1>2, FinishAllNone
  <2>2. \A q \in Callers : cancel_requested[q] => cancel_requested'[q]
    BY <1>2
  <2>3. QED
    BY <1>1, <1>2, <2>1, <2>2, RestingKeeps
<1>3. CASE FinishAll(Heard, Nodes \ Heard, owner_at) /\ cfg_active' = [n \in Nodes |-> None]
  BY <1>1, <1>3, FinishAllKeeps
<1>4. QED
  BY <1>1, <1>2, <1>3, MasterStateCases

-----------------------------------------------------------------------------
(* Completions                                                             *)

\* The request at the head of todo.
LEMMA Completing ==
    ASSUME CfgInv, owner_at \in CompletePcs
    PROVE  /\ todo # <<>> /\ todo \in Seq(Callers \X Statuses)
           /\ todo[1][1] \in Callers /\ todo[1][2] \in Statuses
           /\ HasKey(todo, todo[1][1]) /\ Has(todo, <<todo[1][1], todo[1][2]>>)
           /\ owner_at # "complete_release" => pc[todo[1][1]] = "wait" /\ ~done[todo[1][1]]
<1>1. todo # <<>> /\ todo \in Seq(Callers \X Statuses)
  BY DEF CfgInv, Completions, CfgTypes
<1>2. todo[1] \in Callers \X Statuses /\ HasKey(todo, todo[1][1])
  <2>1. \A k : HasKey(todo, k) <=> todo[1][1] = k \/ HasKey(Tail(todo), k)
    BY <1>1, KeyedTake
  <2>2. QED
    BY <1>1, <2>1
<1>3. todo[1] = <<todo[1][1], todo[1][2]>> /\ todo[1][1] \in Callers /\ todo[1][2] \in Statuses
  BY <1>2
<1>4. Has(todo, <<todo[1][1], todo[1][2]>>)
  <2>1. Has(todo, Head(todo)) /\ Head(todo) = todo[1]
    BY <1>1, QueueTake
  <2>2. QED
    BY <1>3, <2>1
<1>5. owner_at # "complete_release" => pc[todo[1][1]] = "wait" /\ ~done[todo[1][1]]
  BY <1>2, <1>3 DEF CfgInv, Completions
<1>6. QED
  BY <1>1, <1>2, <1>3, <1>4, <1>5

\* The first step of a completion.
LEMMA CompleteMarkKeeps ==
    ASSUME CfgInv, CompleteMark
    PROVE  Holders' /\ Completions' /\ Results'
<1> DEFINE h == todo[1][1]
<1>1. /\ owner_at = "complete_mark" /\ owner_at \in CompletePcs
      /\ UNCHANGED <<pc, done, mq, cfg_active, applied, hit, cancel_requested>>
      /\ status \in [Callers -> Statuses] /\ completion_refs \in [Callers -> {0, 1}]
  BY DEF CompleteMark, CompletePcs, callerVars, commandVars, cfgVars, history, CfgInv, CfgTypes,
         CfgTypeOK, Statuses
<1>2. /\ todo # <<>> /\ h \in Callers /\ HasKey(todo, h) /\ pc[h] = "wait" /\ ~done[h]
  BY <1>1, Completing
<1>3. /\ status' = [status EXCEPT ![h] = todo[1][2]]
      /\ completion_refs' = [completion_refs EXCEPT ![h] = 1]
      /\ owner_at' = "complete_done" /\ todo' = todo
  BY <1>2 DEF CompleteMark
<1>4. \A q : Active(q)' <=> Active(q)
  BY <1>1 DEF Active
<1>5. Holders'
  BY <1>1, <1>3, <1>4 DEF CfgInv, Holders
<1>6. Completions'
  <2>1. completion_refs'[h] = 1 /\ status'[h] = todo[1][2] /\ ~done'[h]
    BY <1>1, <1>2, <1>3
  <2>2. ASSUME NEW q \in Callers, HasKey(todo, q)
        PROVE  pc[q] = "wait" /\ ~done[q]
    BY <1>1, <2>2 DEF CfgInv, Completions
  <2>3. QED
    BY <1>1, <1>2, <1>3, <2>1, <2>2 DEF Completions, CompletePcs
<1>7. Results'
  <2> SUFFICES ASSUME NEW q \in Callers
               PROVE  /\ Has(mq', <<"CFG", q>>) => ~hit'[q]
                      /\ Active(q)' /\ hit'[q] => cancel_requested'[q]
                      /\ \A v \in Statuses : Has(todo', <<q, v>>) => Fits(v, applied'[q], hit'[q])
                      /\ pc'[q] # "idle" /\ done'[q] => Fits(status'[q], applied'[q], hit'[q])
    BY DEF Results
  <2>1. done[q] => status'[q] = status[q]
    BY <1>1, <1>2, <1>3
  <2>2. QED
    BY <1>1, <1>3, <1>4, <2>1 DEF CfgInv, Results
<1>8. QED
  BY <1>5, <1>6, <1>7

\* From here on the caller may leave its wait.
LEMMA CompleteDoneKeeps ==
    ASSUME CfgInv, CompleteDone
    PROVE  Holders' /\ Completions' /\ Results'
<1> DEFINE h == todo[1][1]
<1>1. /\ owner_at = "complete_done" /\ owner_at \in CompletePcs /\ owner_at' = "complete_release"
      /\ UNCHANGED <<pc, todo, mq, cfg_active, status, completion_refs, applied, hit, cancel_requested>>
      /\ done' = [done EXCEPT ![h] = TRUE] /\ done \in [Callers -> BOOLEAN]
  BY DEF CompleteDone, CompletePcs, callerVars, commandVars, cfgVars, history, CfgInv, CfgTypes,
         CfgTypeOK
<1>2. /\ todo # <<>> /\ h \in Callers /\ todo[1][2] \in Statuses
      /\ HasKey(todo, h) /\ Has(todo, <<h, todo[1][2]>>) /\ pc[h] = "wait" /\ ~done[h]
  BY <1>1, Completing
<1>3. completion_refs[h] = 1 /\ status[h] = todo[1][2]
  BY <1>1 DEF CfgInv, Completions
<1> HIDE DEF h
<1>4. \A q : Active(q)' <=> Active(q)
  BY <1>1 DEF Active
<1>5. \A q \in Callers : done'[q] = IF q = h THEN TRUE ELSE done[q]
  BY <1>1, <1>2
<1>6. Holders'
  <2> SUFFICES ASSUME NEW q \in Callers
               PROVE  /\ Holder(pc[q], done'[q], Has(mq, <<"CFG", q>>), HasKey(todo, q), Active(q))
                      /\ AtMostOne(mq, <<"CFG", q>>) /\ OneKey(todo, q)
    BY <1>1, <1>4 DEF Holders
  <2>1. /\ Holder(pc[q], done[q], Has(mq, <<"CFG", q>>), HasKey(todo, q), Active(q))
        /\ AtMostOne(mq, <<"CFG", q>>) /\ OneKey(todo, q)
    BY DEF CfgInv, Holders
  <2>2. QED
    BY <1>2, <1>5, <2>1 DEF Holder
<1>7. Completions'
  <2>1. ASSUME NEW q \in Callers, HasKey(todo, q)
        PROVE  pc[q] = "wait" /\ ~done[q]
    BY <1>1, <2>1 DEF CfgInv, Completions
  <2>2. ASSUME NEW q \in Callers, HasKey(todo, q)
        PROVE  IF h = q THEN pc[q] # "idle" ELSE pc[q] = "wait" /\ ~done'[q]
    BY <1>5, <2>1, <2>2
  <2>3. QED
    BY <1>1, <1>2, <1>3, <1>5, <2>2 DEF Completions, CompletePcs, h
<1>8. Results'
  <2> SUFFICES ASSUME NEW q \in Callers
               PROVE  /\ Has(mq', <<"CFG", q>>) => ~hit'[q]
                      /\ Active(q)' /\ hit'[q] => cancel_requested'[q]
                      /\ \A v \in Statuses : Has(todo', <<q, v>>) => Fits(v, applied'[q], hit'[q])
                      /\ pc'[q] # "idle" /\ done'[q] => Fits(status'[q], applied'[q], hit'[q])
    BY DEF Results
  <2>1. /\ Has(mq, <<"CFG", q>>) => ~hit[q]
        /\ Active(q) /\ hit[q] => cancel_requested[q]
        /\ \A v \in Statuses : Has(todo, <<q, v>>) => Fits(v, applied[q], hit[q])
        /\ pc[q] # "idle" /\ done[q] => Fits(status[q], applied[q], hit[q])
    BY DEF CfgInv, Results
  <2>2. q = h => Fits(status[q], applied[q], hit[q])
    BY <1>2, <1>3, <2>1
  <2>3. QED
    BY <1>1, <1>4, <1>5, <2>1, <2>2
<1>9. QED
  BY <1>6, <1>7, <1>8

\* The last reference is dropped.
LEMMA CompleteReleaseKeeps ==
    ASSUME CfgInv, CompleteRelease
    PROVE  Holders' /\ Completions' /\ Results'
<1> DEFINE h == todo[1][1]
<1>1. /\ owner_at = "complete_release" /\ owner_at \in CompletePcs /\ todo' = Tail(todo)
      /\ owner_at' = IF Len(todo) = 1 THEN resume ELSE "complete_mark"
      /\ UNCHANGED <<pc, done, mq, cfg_active, status, applied, hit, cancel_requested>>
      /\ resume \in OwnerPcs
  BY DEF CompleteRelease, CompletePcs, callerVars, commandVars, cfgVars, history, CfgInv, CfgTypes
<1>2. /\ todo # <<>> /\ todo \in Seq(Callers \X Statuses) /\ h \in Callers /\ HasKey(todo, h)
  BY <1>1, Completing
<1>3. done[h]
  BY <1>1 DEF CfgInv, Completions
<1> HIDE DEF h
<1>4. /\ Len(todo) = 1 <=> todo' = <<>>
      /\ \A q : HasKey(todo, q) <=> h = q \/ HasKey(todo', q)
      /\ \A q : OneKey(todo, q) => OneKey(todo', q) /\ (h = q => ~HasKey(todo', q))
  BY <1>1, <1>2, KeyedTake DEF h
<1>5. \A y : Has(todo', y) => Has(todo, y)
  BY <1>1, <1>2, QueueTake
<1>6. \A q : Active(q)' <=> Active(q)
  BY <1>1 DEF Active
<1>7. Holders'
  <2> SUFFICES ASSUME NEW q \in Callers
               PROVE  /\ Holder(pc[q], done[q], Has(mq, <<"CFG", q>>), HasKey(todo', q), Active(q))
                      /\ AtMostOne(mq, <<"CFG", q>>) /\ OneKey(todo', q)
    BY <1>1, <1>6 DEF Holders
  <2>1. /\ Holder(pc[q], done[q], Has(mq, <<"CFG", q>>), HasKey(todo, q), Active(q))
        /\ AtMostOne(mq, <<"CFG", q>>) /\ OneKey(todo, q)
    BY DEF CfgInv, Holders
  <2>2. QED
    BY <1>3, <1>4, <2>1 DEF Holder
<1>8. Completions'
  <2>1. ASSUME NEW q \in Callers, HasKey(todo', q)
        PROVE  pc[q] = "wait" /\ ~done[q]
    <3>1. HasKey(todo, q) /\ h # q
      BY <1>4, <2>1 DEF CfgInv, Holders
    <3>2. QED
      BY <1>1, <3>1 DEF CfgInv, Completions, h
  <2>2. todo' = <<>> <=> owner_at' \notin CompletePcs
    BY <1>1, <1>4 DEF OwnerPcs, CompletePcs
  <2>3. owner_at' \notin {"complete_done", "complete_release"}
    BY <1>1 DEF OwnerPcs
  <2>4. QED
    BY <1>1, <2>1, <2>2, <2>3 DEF Completions
<1>9. Results'
  BY <1>1, <1>5, <1>6 DEF CfgInv, Results
<1>10. QED
  BY <1>7, <1>8, <1>9

-----------------------------------------------------------------------------
(* Callers and posters                                                     *)

\* nmt_configure up to the wait.
LEMMA ConfigureKeeps ==
    ASSUME CfgInv, NEW c \in Callers, NEW n \in Nodes, Configure(c, n)
    PROVE  Holders' /\ Completions' /\ Results'
<1>1. /\ pc[c] = "idle" /\ UNCHANGED <<owner_at, todo, cfg_active>>
      /\ status' = [status EXCEPT ![c] = "LOCAL_ERROR"]
      /\ cancel_requested' = [cancel_requested EXCEPT ![c] = FALSE]
      /\ done' = [done EXCEPT ![c] = FALSE]
      /\ completion_refs' = [completion_refs EXCEPT ![c] = 0]
      /\ applied' = [applied EXCEPT ![c] = FALSE]
      /\ hit' = [hit EXCEPT ![c] = FALSE]
      /\ \/ mq' = Append(mq, <<"CFG", c>>) /\ pc' = [pc EXCEPT ![c] = "wait"]
         \/ mq' = mq /\ pc' = [pc EXCEPT ![c] = "fini"]
  BY DEF Configure, ownerVars, cfgVars
<1>2. /\ pc \in [Callers -> {"idle", "wait", "fini"}] /\ status \in [Callers -> Statuses]
      /\ cancel_requested \in [Callers -> BOOLEAN] /\ done \in [Callers -> BOOLEAN]
      /\ completion_refs \in [Callers -> {0, 1}]
      /\ applied \in [Callers -> BOOLEAN] /\ hit \in [Callers -> BOOLEAN]
      /\ mq \in Seq(Commands) /\ <<"CFG", c>> \in Commands
  BY DEF CfgInv, CfgTypes, CfgTypeOK, Statuses, Commands
<1>3. ~Has(mq, <<"CFG", c>>) /\ ~Active(c)
  BY <1>1 DEF CfgInv, Holders, Holder
<1>4. ~HasKey(todo, c)
  BY <1>1 DEF CfgInv, Completions
<1>5. /\ pc'[c] = "wait" <=> Has(mq', <<"CFG", c>>)
      /\ pc'[c] # "idle" /\ done'[c] = FALSE /\ hit'[c] = FALSE
      /\ AtMostOne(mq, <<"CFG", c>>) => AtMostOne(mq', <<"CFG", c>>)
  <2>1. CASE mq' = mq /\ pc' = [pc EXCEPT ![c] = "fini"]
    BY <1>1, <1>2, <1>3, <2>1
  <2>2. CASE mq' = Append(mq, <<"CFG", c>>) /\ pc' = [pc EXCEPT ![c] = "wait"]
    <3>1. Has(mq', <<"CFG", c>>) /\ (AtMostOne(mq, <<"CFG", c>>) => AtMostOne(mq', <<"CFG", c>>))
      BY <1>2, <1>3, <2>2, QueuePut
    <3>2. QED
      BY <1>1, <1>2, <2>2, <3>1
  <2>3. QED
    BY <1>1, <2>1, <2>2
<1>6. ASSUME NEW q \in Callers, q # c
      PROVE  /\ pc'[q] = pc[q] /\ done'[q] = done[q] /\ status'[q] = status[q]
             /\ completion_refs'[q] = completion_refs[q] /\ cancel_requested'[q] = cancel_requested[q]
             /\ applied'[q] = applied[q] /\ hit'[q] = hit[q]
             /\ Has(mq', <<"CFG", q>>) <=> Has(mq, <<"CFG", q>>)
             /\ AtMostOne(mq, <<"CFG", q>>) => AtMostOne(mq', <<"CFG", q>>)
  <2>1. /\ pc'[q] = pc[q] /\ done'[q] = done[q] /\ status'[q] = status[q]
        /\ completion_refs'[q] = completion_refs[q] /\ cancel_requested'[q] = cancel_requested[q]
        /\ applied'[q] = applied[q] /\ hit'[q] = hit[q]
    BY <1>1, <1>2, <1>6
  <2>2. <<"CFG", c>> # <<"CFG", q>>
    BY <1>6
  <2>3. /\ Has(mq', <<"CFG", q>>) <=> Has(mq, <<"CFG", q>>)
        /\ AtMostOne(mq, <<"CFG", q>>) => AtMostOne(mq', <<"CFG", q>>)
    <3>1. CASE mq' = mq
      BY <3>1
    <3>2. CASE mq' = Append(mq, <<"CFG", c>>)
      BY <1>2, <2>2, <3>2, QueuePut
    <3>3. QED
      BY <1>1, <3>1, <3>2
  <2>4. QED
    BY <2>1, <2>3
<1>7. \A q : Active(q)' <=> Active(q)
  BY <1>1 DEF Active
<1>8. Holders'
  <2> SUFFICES ASSUME NEW q \in Callers
               PROVE  /\ Holder(pc'[q], done'[q], Has(mq', <<"CFG", q>>), HasKey(todo, q), Active(q))
                      /\ AtMostOne(mq', <<"CFG", q>>) /\ OneKey(todo, q)
    BY <1>1, <1>7 DEF Holders
  <2>1. /\ Holder(pc[q], done[q], Has(mq, <<"CFG", q>>), HasKey(todo, q), Active(q))
        /\ AtMostOne(mq, <<"CFG", q>>) /\ OneKey(todo, q)
    BY DEF CfgInv, Holders
  <2>2. CASE q # c
    BY <1>6, <2>1, <2>2 DEF Holder
  <2>3. CASE q = c
    BY <1>3, <1>4, <1>5, <2>1, <2>3 DEF Holder
  <2>4. QED
    BY <2>2, <2>3
<1>9. Completions'
  <2>1. owner_at \in CompletePcs => todo[1][1] # c /\ todo[1][1] \in Callers
    BY <1>4, Completing
  <2>2. ASSUME NEW q \in Callers, HasKey(todo, q)
        PROVE  q # c /\ pc'[q] = pc[q] /\ done'[q] = done[q]
    BY <1>4, <1>6, <2>2
  <2>3. ASSUME NEW q \in Callers, HasKey(todo, q)
        PROVE  IF owner_at = "complete_release" /\ todo[1][1] = q
               THEN pc'[q] # "idle"
               ELSE pc'[q] = "wait" /\ ~done'[q]
    BY <2>2, <2>3 DEF CfgInv, Completions
  <2>4. owner_at \in {"complete_done", "complete_release"} =>
           /\ completion_refs'[todo[1][1]] = 1 /\ status'[todo[1][1]] = todo[1][2]
           /\ done'[todo[1][1]] <=> owner_at = "complete_release"
    <3> SUFFICES ASSUME owner_at \in {"complete_done", "complete_release"}
                 PROVE  /\ completion_refs'[todo[1][1]] = 1 /\ status'[todo[1][1]] = todo[1][2]
                        /\ done'[todo[1][1]] <=> owner_at = "complete_release"
      OBVIOUS
    <3>1. todo[1][1] # c /\ todo[1][1] \in Callers
      BY <2>1 DEF CompletePcs
    <3>2. /\ completion_refs'[todo[1][1]] = completion_refs[todo[1][1]]
          /\ status'[todo[1][1]] = status[todo[1][1]] /\ done'[todo[1][1]] = done[todo[1][1]]
      BY <1>6, <3>1
    <3>3. QED
      BY <3>2 DEF CfgInv, Completions
  <2>5. todo = <<>> <=> owner_at \notin CompletePcs
    BY DEF CfgInv, Completions
  <2>6. QED
    BY <1>1, <2>3, <2>4, <2>5 DEF Completions
<1>10. Results'
  <2> SUFFICES ASSUME NEW q \in Callers
               PROVE  /\ Has(mq', <<"CFG", q>>) => ~hit'[q]
                      /\ Active(q)' /\ hit'[q] => cancel_requested'[q]
                      /\ \A v \in Statuses : Has(todo', <<q, v>>) => Fits(v, applied'[q], hit'[q])
                      /\ pc'[q] # "idle" /\ done'[q] => Fits(status'[q], applied'[q], hit'[q])
    BY DEF Results
  <2>1. CASE q = c
    <3>1. \A v \in Statuses : ~Has(todo, <<c, v>>)
      BY <1>4 DEF Has, HasKey
    <3>2. QED
      BY <1>1, <1>3, <1>5, <1>7, <2>1, <3>1
  <2>2. CASE q # c
    BY <1>1, <1>6, <1>7, <2>2 DEF CfgInv, Results
  <2>3. QED
    BY <2>1, <2>2
<1>11. QED
  BY <1>8, <1>9, <1>10

\* sync_wait and sync_fini: the last reference keeps the frame.
LEMMA CallerKeeps ==
    ASSUME CfgInv, NEW c \in Callers, CallerNext(c)
    PROVE  Holders' /\ Completions' /\ Results'
<1>1. /\ UNCHANGED <<done, status, completion_refs, cancel_requested, mq, owner_at, todo, cfg_active,
                     applied, hit>>
      /\ pc \in [Callers -> {"idle", "wait", "fini"}]
  BY DEF CallerNext, SyncWait, SyncFini, requestVars, commandVars, ownerVars, cfgVars, history, CfgInv,
         CfgTypes, CfgTypeOK
<1>2. \A q : Active(q)' <=> Active(q)
  BY <1>1 DEF Active
<1>3. \/ pc[c] = "wait" /\ done[c] /\ pc' = [pc EXCEPT ![c] = "fini"]
      \/ pc[c] = "fini" /\ completion_refs[c] = 0 /\ pc' = [pc EXCEPT ![c] = "idle"]
  BY DEF CallerNext, SyncWait, SyncFini
<1>4. \A q \in Callers : q # c => pc'[q] = pc[q]
  BY <1>1, <1>3
<1>5. HasKey(todo, c) => owner_at = "complete_release" /\ todo[1][1] = c /\ pc'[c] = "fini"
  <2>1. HasKey(todo, c) => owner_at = "complete_release" /\ todo[1][1] = c
    BY <1>3 DEF CfgInv, Completions
  <2>2. HasKey(todo, c) => completion_refs[c] = 1
    BY <2>1 DEF CfgInv, Completions
  <2>3. QED
    BY <1>1, <1>3, <2>1, <2>2
<1>6. Holders'
  <2> SUFFICES ASSUME NEW q \in Callers
               PROVE  /\ Holder(pc'[q], done[q], Has(mq, <<"CFG", q>>), HasKey(todo, q), Active(q))
                      /\ AtMostOne(mq, <<"CFG", q>>) /\ OneKey(todo, q)
    BY <1>1, <1>2 DEF Holders
  <2>1. /\ Holder(pc[q], done[q], Has(mq, <<"CFG", q>>), HasKey(todo, q), Active(q))
        /\ AtMostOne(mq, <<"CFG", q>>) /\ OneKey(todo, q)
    BY DEF CfgInv, Holders
  <2>2. CASE q # c
    BY <1>4, <2>1, <2>2
  <2>3. CASE q = c
    <3>1. pc'[c] # "wait" /\ (pc[c] # "wait" \/ done[c])
      BY <1>1, <1>3
    <3>2. QED
      BY <2>1, <2>3, <3>1 DEF Holder
  <2>4. QED
    BY <2>2, <2>3
<1>7. Completions'
  <2>1. ASSUME NEW q \in Callers, HasKey(todo, q)
        PROVE  IF owner_at = "complete_release" /\ todo[1][1] = q
               THEN pc'[q] # "idle"
               ELSE pc'[q] = "wait" /\ ~done[q]
    <3>1. CASE q = c
      BY <1>5, <2>1, <3>1
    <3>2. CASE q # c
      BY <1>4, <2>1, <3>2 DEF CfgInv, Completions
    <3>3. QED
      BY <3>1, <3>2
  <2>2. QED
    BY <1>1, <2>1 DEF CfgInv, Completions
<1>8. Results'
  <2>1. \A q \in Callers : pc'[q] # "idle" => pc[q] # "idle"
    BY <1>1, <1>3, <1>4
  <2>2. QED
    BY <1>1, <1>2, <2>1 DEF CfgInv, Results
<1>9. QED
  BY <1>6, <1>7, <1>8

\* An NMT command in the queue, a stop, or nothing.
LEMMA OutsideKeeps ==
    ASSUME CfgInv,
           UNCHANGED <<pc, done, status, completion_refs, cancel_requested, owner_at, todo, cfg_active,
                       applied, hit>>,
           \/ UNCHANGED mq
           \/ \E k \in NmtCommands, t \in Targets : mq' = Append(mq, <<"NMT", k, t>>)
    PROVE  Holders' /\ Completions' /\ Results'
<1>1. \A q \in Callers :
         /\ Has(mq', <<"CFG", q>>) <=> Has(mq, <<"CFG", q>>)
         /\ AtMostOne(mq, <<"CFG", q>>) => AtMostOne(mq', <<"CFG", q>>)
  <2>1. CASE UNCHANGED mq
    BY <2>1
  <2>2. ASSUME NEW k \in NmtCommands, NEW t \in Targets, mq' = Append(mq, <<"NMT", k, t>>)
        PROVE  \A q \in Callers :
                 /\ Has(mq', <<"CFG", q>>) <=> Has(mq, <<"CFG", q>>)
                 /\ AtMostOne(mq, <<"CFG", q>>) => AtMostOne(mq', <<"CFG", q>>)
    <3>1. mq \in Seq(Commands) /\ <<"NMT", k, t>> \in Commands
      BY DEF CfgInv, CfgTypes, Commands
    <3>2. \A q : <<"NMT", k, t>> # <<"CFG", q>>
      OBVIOUS
    <3>3. QED
      BY <2>2, <3>1, <3>2, QueuePut
  <2>3. QED
    BY <2>1, <2>2
<1>2. \A q : Active(q)' <=> Active(q)
  BY DEF Active
<1>3. Holders'
  <2> SUFFICES ASSUME NEW q \in Callers
               PROVE  /\ Holder(pc[q], done[q], Has(mq', <<"CFG", q>>), HasKey(todo, q), Active(q))
                      /\ AtMostOne(mq', <<"CFG", q>>) /\ OneKey(todo, q)
    BY <1>2 DEF Holders
  <2>1. /\ Holder(pc[q], done[q], Has(mq, <<"CFG", q>>), HasKey(todo, q), Active(q))
        /\ AtMostOne(mq, <<"CFG", q>>) /\ OneKey(todo, q)
    BY DEF CfgInv, Holders
  <2>2. QED
    BY <1>1, <2>1 DEF Holder
<1>4. Results'
  BY <1>1, <1>2 DEF CfgInv, Results
<1>5. Completions'
  BY DEF CfgInv, Completions
<1>6. QED
  BY <1>3, <1>4, <1>5

\* Every step, as far as the requests are concerned.
LEMMA RequestsNext ==
    ASSUME CfgInv, [CfgNext]_masterCfgVars
    PROVE  Holders' /\ Completions' /\ Results'
<1> USE DEF callerVars, requestVars, commandVars, ownerVars, cfgVars, lelyVars, history
<1>1. CASE UNCHANGED masterCfgVars
  BY <1>1, OutsideKeeps DEF masterCfgVars
<1>2. ASSUME NEW c \in Callers, CallerNext(c)
      PROVE  Holders' /\ Completions' /\ Results'
  BY <1>2, CallerKeeps
<1>3. ASSUME NEW c \in Callers, NEW n \in Nodes, Configure(c, n)
      PROVE  Holders' /\ Completions' /\ Results'
  BY <1>3, ConfigureKeeps
<1>4. ASSUME NEW k \in NmtCommands, NEW t \in Targets, PostNmt(k, t)
      PROVE  Holders' /\ Completions' /\ Results'
  BY <1>4, OutsideKeeps DEF PostNmt
<1>5. CASE Stop
  BY <1>5, OutsideKeeps DEF Stop
<1>6. InEvents => owner_at \in OwnerPcs
  BY DEF InEvents, OwnerPcs
<1>7. owner_at \in OwnerPcs => todo = <<>>
  BY NothingToDo DEF CfgInv
<1>8. ASSUME NEW n \in Nodes, XferAbort(n)
      PROVE  Holders' /\ Completions' /\ Results'
  <2>1. /\ owner_at \in OwnerPcs /\ Confirm(n, "ABORT", owner_at)
        /\ UNCHANGED <<pc, done, status, mq, cancel_requested, hit>>
    BY <1>6, <1>8 DEF XferAbort
  <2>2. QED
    BY <2>1, ConfirmKeeps
<1>9. ASSUME NEW n \in Nodes, CfgInd(n)
      PROVE  Holders' /\ Completions' /\ Results'
  <2>1. /\ owner_at \in OwnerPcs /\ UNCHANGED <<pc, done, status, mq, cancel_requested, hit>>
        /\ Confirm(n, "OK", owner_at) \/ UNCHANGED <<cfg_active, owner_at, todo, applied>>
    BY <1>6, <1>9 DEF CfgInd
  <2>2. CASE Confirm(n, "OK", owner_at)
    BY <2>1, <2>2, ConfirmKeeps
  <2>3. CASE UNCHANGED <<cfg_active, owner_at, todo, applied>>
    BY <1>7, <2>1, <2>3, RestingKeeps
  <2>4. QED
    BY <2>1, <2>2, <2>3
<1>10. ASSUME NEW n \in Nodes, DcfCon(n) \/ AutoCfg(n) \/ BootBegin(n) \/ BootEnd(n)
       PROVE  Holders' /\ Completions' /\ Results'
  <2>1. /\ owner_at \in OwnerPcs
        /\ UNCHANGED <<pc, done, status, mq, cancel_requested, hit, cfg_active, owner_at, todo, applied>>
    BY <1>6, <1>10 DEF DcfCon, AutoCfg, BootBegin, BootEnd
  <2>2. QED
    BY <1>7, <2>1, RestingKeeps
<1>11. ASSUME NEW k \in NmtCommands, MasterState(k)
       PROVE  Holders' /\ Completions' /\ Results'
  BY <1>11, MasterStateKeeps
<1>12. CASE CompleteMark \/ CompleteDone \/ CompleteRelease
  BY <1>12, CompleteMarkKeeps, CompleteDoneKeeps, CompleteReleaseKeeps
<1>13. CASE OwnerPoll \/ DispatchEmpty \/ DrainEnd \/ ReapEnd \/ OwnerStop \/ PrepareNmtDestroy
  <2>1. /\ owner_at \in OwnerPcs /\ owner_at' \in OwnerPcs
        /\ UNCHANGED <<pc, done, status, mq, hit, cfg_active, todo, applied>>
    BY <1>13 DEF OwnerPoll, DispatchEmpty, DrainEnd, ReapEnd, OwnerStop, PrepareNmtDestroy, OwnerPcs,
                 KeepTodo
  <2>2. \A q \in Callers : cancel_requested[q] => cancel_requested'[q]
    BY <1>13 DEF OwnerPoll, DispatchEmpty, DrainEnd, ReapEnd, OwnerStop, PrepareNmtDestroy, CfgInv,
                 CfgTypes, CfgTypeOK
  <2>3. QED
    BY <1>7, <2>1, <2>2, RestingKeeps
<1>14. CASE DispatchCfg \/ DispatchNmt \/ RetireQueued
  BY <1>14, DispatchCfgKeeps, DispatchNmtKeeps, RetireQueuedKeeps
<1>15. ASSUME NEW n \in Nodes, Reap(n)
       PROVE  Holders' /\ Completions' /\ Results'
  <2>1. /\ owner_at \in OwnerPcs /\ "reap" \in OwnerPcs
        /\ UNCHANGED <<pc, done, status, mq, cancel_requested, hit>>
        /\ cfg_resume[n] \in {"OK", "ABORT"}
        /\ Confirm(n, cfg_resume[n], "reap") \/ UNCHANGED <<cfg_active, owner_at, todo, applied>>
    BY <1>15 DEF Reap, OwnerPcs, CfgInv, CfgTypes, CfgTypeOK
  <2>2. CASE Confirm(n, cfg_resume[n], "reap")
    BY <2>1, <2>2, ConfirmKeeps
  <2>3. CASE UNCHANGED <<cfg_active, owner_at, todo, applied>>
    BY <1>7, <2>1, <2>3, RestingKeeps
  <2>4. QED
    BY <2>1, <2>2, <2>3
<1>16. CASE NmtDestroy
  <2>1. /\ owner_at \in OwnerPcs /\ "exit" \in OwnerPcs /\ FinishAll(Heard, Nodes \ Heard, "exit")
        /\ cfg_active' = [n \in Nodes |-> None]
        /\ UNCHANGED <<pc, done, status, mq, applied, hit>>
    BY <1>16 DEF NmtDestroy, OwnerPcs
  <2>2. QED
    BY <2>1, FinishAllKeeps
<1>17. CASE Finished
  BY <1>1, <1>17 DEF Finished
<1>18. QED
  BY <1>1, <1>2, <1>3, <1>4, <1>5, <1>8, <1>9, <1>10, <1>11, <1>12, <1>13, <1>14, <1>15, <1>16, <1>17
     DEF CfgNext, LelyNext, CfgOwnerNext

-----------------------------------------------------------------------------
(* Nodes                                                                   *)

\* A node's part of Links.
Linked(a, w, st, d, r, n) ==
    /\ a \in Callers => node[a] = n
    /\ a \in Callers \/ w \in Callers => w = a
    /\ st = "none" <=> w = None
    /\ d => st = "user" /\ a # None
    /\ r # "NO" => a # None /\ st = "user" /\ ~d

LinkedNode(n) == Linked(cfg_active[n], who[n], stage[n], dcf[n], cfg_resume[n], n)

\* A confirmation ends the node's sequence and leaves the other nodes alone.
LEMMA ConfirmLinks ==
    ASSUME CfgInv, NEW n \in Nodes, NEW ac, NEW next, Confirm(n, ac, next), UNCHANGED node
    PROVE  Links'
<1>1. \A m \in Nodes : LinkedNode(m)
  BY DEF CfgInv, Links, LinkedNode, Linked
<1>2. /\ cfg_active \in [Nodes -> Callers \cup {None}] /\ cfg_resume \in [Nodes -> {"NO", "OK", "ABORT"}]
      /\ stage \in [Nodes -> {"none", "xfer", "user"}]
      /\ who \in [Nodes -> Callers \cup {None, Automatic}] /\ dcf \in [Nodes -> BOOLEAN]
  BY DEF CfgInv, CfgTypes, CfgTypeOK
<1>3. /\ stage' = [stage EXCEPT ![n] = "none"] /\ who' = [who EXCEPT ![n] = None]
      /\ dcf' = [dcf EXCEPT ![n] = FALSE]
      /\ \/ /\ cfg_active' = [cfg_active EXCEPT ![n] = None]
            /\ cfg_resume' = [cfg_resume EXCEPT ![n] = "NO"]
         \/ /\ who[n] \notin Callers /\ UNCHANGED <<cfg_active, cfg_resume>>
  BY DEF Confirm, Release
<1>4. ASSUME NEW m \in Nodes
      PROVE  Linked(cfg_active'[m], who'[m], stage'[m], dcf'[m], cfg_resume'[m], m)
  <2>1. CASE m # n
    BY <1>1, <1>2, <1>3, <2>1 DEF LinkedNode, Linked
  <2>2. CASE m = n
    <3>1. /\ stage'[n] = "none" /\ who'[n] = None /\ dcf'[n] = FALSE
          /\ cfg_active'[n] = None /\ cfg_resume'[n] = "NO"
      BY <1>1, <1>2, <1>3 DEF LinkedNode, Linked
    <3>2. QED
      BY <2>2, <3>1, MasterCfgAssumption DEF Linked
  <2>3. QED
    BY <2>1, <2>2
<1>5. QED
  BY <1>4 DEF Links, Linked

\* After slaves_fini and retire_all nothing is linked.
LEMMA EmptyLinks ==
    ASSUME SlavesFini, cfg_active' = [n \in Nodes |-> None], cfg_resume' = [n \in Nodes |-> "NO"]
    PROVE  Links'
BY MasterCfgAssumption DEF SlavesFini, Links

\* Every step, as far as the nodes are concerned.
LEMMA LinksNext ==
    ASSUME CfgInv, [CfgNext]_masterCfgVars
    PROVE  Links'
<1> USE DEF callerVars, requestVars, commandVars, ownerVars, cfgVars, lelyVars, history
<1>1. \A m \in Nodes : LinkedNode(m)
  BY DEF CfgInv, Links, LinkedNode, Linked
<1>2. /\ cfg_active \in [Nodes -> Callers \cup {None}] /\ cfg_resume \in [Nodes -> {"NO", "OK", "ABORT"}]
      /\ stage \in [Nodes -> {"none", "xfer", "user"}] /\ node \in [Callers -> Nodes]
      /\ who \in [Nodes -> Callers \cup {None, Automatic}] /\ dcf \in [Nodes -> BOOLEAN]
      /\ CfgTypes
  BY DEF CfgInv, CfgTypes, CfgTypeOK
<1>3. ASSUME UNCHANGED <<node, cfg_active, who, stage, dcf, cfg_resume>>
      PROVE  Links'
  BY <1>3 DEF CfgInv, Links
<1>4. CASE UNCHANGED masterCfgVars
  BY <1>3, <1>4 DEF masterCfgVars
<1>5. ASSUME NEW c \in Callers, CallerNext(c)
      PROVE  Links'
  BY <1>3, <1>5 DEF CallerNext, SyncWait, SyncFini
<1>6. ASSUME NEW c \in Callers, NEW n \in Nodes, Configure(c, n)
      PROVE  Links'
  <2>1. /\ pc[c] = "idle" /\ node' = [node EXCEPT ![c] = n]
        /\ UNCHANGED <<cfg_active, who, stage, dcf, cfg_resume>>
    BY <1>6 DEF Configure
  <2>2. ~Active(c)
    BY <2>1 DEF CfgInv, Holders, Holder
  <2>3. \A m \in Nodes : cfg_active[m] \in Callers => node'[cfg_active[m]] = node[cfg_active[m]]
    BY <1>2, <2>1, <2>2 DEF Active
  <2>4. QED
    BY <2>1, <2>3 DEF CfgInv, Links
<1>7. ASSUME NEW k \in NmtCommands, NEW t \in Targets, PostNmt(k, t)
      PROVE  Links'
  BY <1>3, <1>7 DEF PostNmt
<1>8. CASE Stop \/ CompleteMark \/ CompleteDone \/ CompleteRelease
  BY <1>3, <1>8 DEF Stop, CompleteMark, CompleteDone, CompleteRelease
<1>9. ASSUME NEW n \in Nodes, XferAbort(n)
      PROVE  Links'
  BY <1>9, ConfirmLinks DEF XferAbort
<1>10. ASSUME NEW n \in Nodes, CfgInd(n)
       PROVE  Links'
  <2>1. UNCHANGED node /\ stage[n] = "xfer"
    BY <1>10 DEF CfgInd
  <2>2. CASE Confirm(n, "OK", owner_at)
    BY <2>1, <2>2, ConfirmLinks
  <2>3. CASE /\ cfg_active[n] # None
             /\ stage' = [stage EXCEPT ![n] = "user"]
             /\ \/ dcf' = [dcf EXCEPT ![n] = TRUE] /\ UNCHANGED cfg_resume
                \/ cfg_resume' = [cfg_resume EXCEPT ![n] = "ABORT"] /\ UNCHANGED dcf
             /\ UNCHANGED <<who, cfg_active>>
    <3>1. ASSUME NEW m \in Nodes
          PROVE  Linked(cfg_active'[m], who'[m], stage'[m], dcf'[m], cfg_resume'[m], m)
      <4>1. CASE m # n
        BY <1>1, <1>2, <2>3, <4>1 DEF LinkedNode, Linked
      <4>2. CASE m = n
        BY <1>1, <1>2, <2>1, <2>3, <4>2 DEF LinkedNode, Linked
      <4>3. QED
        BY <4>1, <4>2
    <3>2. QED
      BY <2>1, <3>1 DEF Links, Linked
  <2>4. QED
    BY <1>10, <2>2, <2>3 DEF CfgInd
<1>11. ASSUME NEW n \in Nodes, DcfCon(n)
       PROVE  Links'
  <2>1. /\ dcf[n] /\ dcf' = [dcf EXCEPT ![n] = FALSE]
        /\ UNCHANGED <<node, cfg_active, stage, who>>
        /\ \/ UNCHANGED cfg_resume
           \/ /\ cfg_active[n] # None
              /\ \E ac \in {"OK", "ABORT"} : cfg_resume' = [cfg_resume EXCEPT ![n] = ac]
    BY <1>11 DEF DcfCon
  <2>2. ASSUME NEW m \in Nodes
        PROVE  Linked(cfg_active'[m], who'[m], stage'[m], dcf'[m], cfg_resume'[m], m)
    BY <1>1, <1>2, <2>1 DEF LinkedNode, Linked
  <2>3. QED
    BY <2>1, <2>2 DEF Links, Linked
<1>12. ASSUME NEW n \in Nodes, AutoCfg(n)
       PROVE  Links'
  <2>1. /\ stage[n] = "none" /\ stage' = [stage EXCEPT ![n] = "xfer"]
        /\ who' = [who EXCEPT ![n] = Automatic]
        /\ UNCHANGED <<node, cfg_active, cfg_resume, dcf>>
    BY <1>12 DEF AutoCfg
  <2>2. ASSUME NEW m \in Nodes
        PROVE  Linked(cfg_active'[m], who'[m], stage'[m], dcf'[m], cfg_resume'[m], m)
    <3>1. CASE m # n
      BY <1>1, <1>2, <2>1, <3>1 DEF LinkedNode, Linked
    <3>2. CASE m = n
      <4>1. cfg_active[n] \notin Callers
        BY <1>1, <2>1, MasterCfgAssumption DEF LinkedNode, Linked
      <4>2. QED
        BY <1>1, <1>2, <2>1, <3>2, <4>1, MasterCfgAssumption DEF LinkedNode, Linked
    <3>3. QED
      BY <3>1, <3>2
  <2>3. QED
    BY <2>1, <2>2 DEF Links, Linked
<1>13. ASSUME NEW n \in Nodes, BootBegin(n) \/ BootEnd(n)
       PROVE  Links'
  BY <1>3, <1>13 DEF BootBegin, BootEnd
<1>14. ASSUME NEW k \in NmtCommands, MasterState(k)
       PROVE  Links'
  <2>1. UNCHANGED node
    BY <1>14 DEF MasterState
  <2>2. QED
    BY <1>2, <1>3, <1>14, <2>1, MasterStateCases, EmptyLinks
<1>15. CASE OwnerPoll \/ DispatchNmt \/ DispatchEmpty \/ DrainEnd \/ ReapEnd \/ OwnerStop
            \/ RetireQueued \/ PrepareNmtDestroy
  BY <1>3, <1>15 DEF OwnerPoll, DispatchNmt, DispatchEmpty, DrainEnd, ReapEnd, OwnerStop, RetireQueued,
                     PrepareNmtDestroy
<1>16. CASE DispatchCfg
  <2> DEFINE c == mq[1][2]
             n == node[c]
  <2>1. c \in Callers /\ n \in Nodes /\ UNCHANGED <<node, dcf>>
    BY <1>2, <1>16, TakeCfg DEF DispatchCfg
  <2>2. CASE UNCHANGED <<cfg_active, cfg_resume, stage, who>>
    BY <1>3, <2>1, <2>2
  <2>3. CASE ~Refused(n) /\ Release(n) /\ UNCHANGED <<stage, who>>
    <3>1. cfg_active[n] = None
      BY <2>3 DEF Refused
    <3>2. UNCHANGED <<cfg_active, cfg_resume>>
      BY <1>1, <1>2, <2>1, <2>3, <3>1 DEF Release, LinkedNode, Linked
    <3>3. QED
      BY <1>3, <2>1, <2>3, <3>2
  <2>4. CASE /\ ~Refused(n) /\ stage[n] = "none"
             /\ cfg_active' = [cfg_active EXCEPT ![n] = c]
             /\ stage' = [stage EXCEPT ![n] = "xfer"]
             /\ who' = [who EXCEPT ![n] = c]
             /\ UNCHANGED cfg_resume
    <3>1. cfg_active[n] = None
      BY <2>4 DEF Refused
    <3>2. ASSUME NEW m \in Nodes
          PROVE  Linked(cfg_active'[m], who'[m], stage'[m], dcf'[m], cfg_resume'[m], m)
      <4>1. CASE m # n
        BY <1>1, <1>2, <2>1, <2>4, <4>1 DEF LinkedNode, Linked
      <4>2. CASE m = n
        BY <1>1, <1>2, <2>1, <2>4, <3>1, <4>2, MasterCfgAssumption DEF LinkedNode, Linked
      <4>3. QED
        BY <4>1, <4>2
    <3>3. QED
      BY <2>1, <3>2 DEF Links, Linked
  <2>5. QED
    BY <1>16, <2>2, <2>3, <2>4 DEF DispatchCfg
<1>17. ASSUME NEW n \in Nodes, Reap(n)
       PROVE  Links'
  <2>1. UNCHANGED node
    BY <1>17 DEF Reap
  <2>2. CASE Confirm(n, cfg_resume[n], "reap")
    BY <2>1, <2>2, ConfirmLinks
  <2>3. CASE cfg_resume' = [cfg_resume EXCEPT ![n] = "NO"] /\ UNCHANGED <<cfg_active, stage, who, dcf>>
    <3>1. ASSUME NEW m \in Nodes
          PROVE  Linked(cfg_active'[m], who'[m], stage'[m], dcf'[m], cfg_resume'[m], m)
      BY <1>1, <1>2, <2>3 DEF LinkedNode, Linked
    <3>2. QED
      BY <2>1, <3>1 DEF Links, Linked
  <2>4. QED
    BY <1>17, <2>2, <2>3 DEF Reap
<1>18. CASE NmtDestroy
  BY <1>18, EmptyLinks DEF NmtDestroy
<1>19. CASE Finished
  BY <1>4, <1>19 DEF Finished
<1>20. QED
  BY <1>4, <1>5, <1>6, <1>7, <1>8, <1>9, <1>10, <1>11, <1>12, <1>13, <1>14, <1>15, <1>16, <1>17, <1>18,
     <1>19
     DEF CfgNext, LelyNext, CfgOwnerNext

-----------------------------------------------------------------------------
(* Types                                                                   *)

\* The types of the callers' frames and of the queue, of the owner, and of the
\* nodes.
FrameTypes ==
    /\ pc \in [Callers -> {"idle", "wait", "fini"}]
    /\ node \in [Callers -> Nodes] /\ calls \in [Callers -> 0..MaxCalls]
    /\ status \in [Callers -> Statuses]
    /\ cancel_requested \in [Callers -> BOOLEAN] /\ done \in [Callers -> BOOLEAN]
    /\ completion_refs \in [Callers -> {0, 1}]
    /\ applied \in [Callers -> BOOLEAN] /\ hit \in [Callers -> BOOLEAN]

QueueTypes ==
    /\ mq \in Seq(Commands) /\ Len(mq) <= CommandDepth
    /\ quiescing \in BOOLEAN /\ commands \in 0..MaxCommands

OwnerTypes ==
    /\ todo \in Seq(Callers \X Statuses)
    /\ owner_at \in OwnerPcs \cup CompletePcs /\ resume \in OwnerPcs

NodeTypes ==
    /\ cfg_active \in [Nodes -> Callers \cup {None}]
    /\ cfg_resume \in [Nodes -> {"NO", "OK", "ABORT"}]
    /\ cfg_tearing_down \in BOOLEAN
    /\ stage \in [Nodes -> {"none", "xfer", "user"}]
    /\ who \in [Nodes -> Callers \cup {None, Automatic}]
    /\ dcf \in [Nodes -> BOOLEAN] /\ booting \in [Nodes -> BOOLEAN]

LEMMA TypesParts == CfgTypes <=> FrameTypes /\ QueueTypes /\ OwnerTypes /\ NodeTypes
BY DEF CfgTypes, CfgTypeOK, FrameTypes, QueueTypes, OwnerTypes, NodeTypes, Statuses

LEMMA TypesPartsNext == CfgTypes' <=> FrameTypes' /\ QueueTypes' /\ OwnerTypes' /\ NodeTypes'
BY DEF CfgTypes, CfgTypeOK, FrameTypes, QueueTypes, OwnerTypes, NodeTypes, Statuses

\* The callers' frames.
LEMMA FrameTypesNext ==
    ASSUME CfgInv, [CfgNext]_masterCfgVars
    PROVE  FrameTypes'
<1> USE DEF callerVars, requestVars, commandVars, ownerVars, cfgVars, lelyVars, history
<1>1. FrameTypes /\ CfgTypes
  BY TypesParts DEF CfgInv
<1>2. ASSUME UNCHANGED <<pc, node, calls, status, cancel_requested, done, completion_refs, applied, hit>>
      PROVE  FrameTypes'
  BY <1>1, <1>2 DEF FrameTypes
<1>3. CASE UNCHANGED masterCfgVars
  BY <1>2, <1>3 DEF masterCfgVars
<1>4. ASSUME NEW c \in Callers, CallerNext(c)
      PROVE  FrameTypes'
  BY <1>1, <1>4 DEF CallerNext, SyncWait, SyncFini, FrameTypes
<1>5. ASSUME NEW c \in Callers, NEW n \in Nodes, Configure(c, n)
      PROVE  FrameTypes'
  <2>1. calls' \in [Callers -> 0..MaxCalls]
    BY <1>1, <1>5, MasterCfgAssumption DEF Configure, FrameTypes
  <2>2. pc' \in [Callers -> {"idle", "wait", "fini"}]
    BY <1>1, <1>5 DEF Configure, FrameTypes
  <2>3. QED
    BY <1>1, <1>5, <2>1, <2>2 DEF Configure, FrameTypes, Statuses
<1>6. ASSUME NEW n \in Nodes, NEW ac, NEW next, Confirm(n, ac, next),
             UNCHANGED <<pc, node, calls, status, cancel_requested, done, completion_refs, hit>>
      PROVE  FrameTypes'
  BY <1>1, <1>6 DEF Confirm, FrameTypes
<1>7. ASSUME NEW n \in Nodes, LelyNext(n) \/ AutoCfg(n) \/ BootBegin(n) \/ BootEnd(n) \/ Reap(n)
      PROVE  FrameTypes'
  <2>1. UNCHANGED <<pc, node, calls, status, cancel_requested, done, completion_refs, hit>>
    BY <1>7 DEF LelyNext, XferAbort, CfgInd, DcfCon, AutoCfg, BootBegin, BootEnd, Reap
  <2>2. \/ UNCHANGED applied
        \/ Confirm(n, "ABORT", owner_at) \/ Confirm(n, "OK", owner_at)
        \/ Confirm(n, cfg_resume[n], "reap")
    BY <1>7 DEF LelyNext, XferAbort, CfgInd, DcfCon, AutoCfg, BootBegin, BootEnd, Reap
  <2>3. QED
    BY <1>2, <1>6, <2>1, <2>2
<1>8. ASSUME NEW k \in NmtCommands, NEW t \in Targets, PostNmt(k, t)
      PROVE  FrameTypes'
  BY <1>2, <1>8 DEF PostNmt
<1>9. ASSUME NEW k \in NmtCommands, MasterState(k)
      PROVE  FrameTypes'
  <2>1. UNCHANGED <<pc, node, calls, status, done, completion_refs, applied, hit>>
    BY <1>9 DEF MasterState
  <2>2. cancel_requested' \in [Callers -> BOOLEAN]
    <3>1. cancel_requested' = cancel_requested \/ cancel_requested' \in [Callers -> BOOLEAN]
      BY <1>1, <1>9, MasterStateCases
    <3>2. QED
      BY <1>1, <3>1 DEF FrameTypes
  <2>3. QED
    BY <1>1, <2>1, <2>2 DEF FrameTypes
<1>10. CASE CompleteMark \/ CompleteDone \/ CompleteRelease
  <2>1. todo[1][1] \in Callers /\ todo[1][2] \in Statuses
    BY <1>10, Completing DEF CompleteMark, CompleteDone, CompleteRelease, CompletePcs
  <2>2. UNCHANGED <<pc, node, calls, cancel_requested, applied, hit>>
    BY <1>10 DEF CompleteMark, CompleteDone, CompleteRelease
  <2>3. status' \in [Callers -> Statuses]
    BY <1>1, <1>10, <2>1 DEF CompleteMark, CompleteDone, CompleteRelease, FrameTypes
  <2>4. done' \in [Callers -> BOOLEAN]
    BY <1>1, <1>10, <2>1 DEF CompleteMark, CompleteDone, CompleteRelease, FrameTypes
  <2>5. completion_refs' \in [Callers -> {0, 1}]
    BY <1>1, <1>10, <2>1 DEF CompleteMark, CompleteDone, CompleteRelease, FrameTypes
  <2>6. QED
    BY <1>1, <2>2, <2>3, <2>4, <2>5 DEF FrameTypes
<1>11. CASE \/ OwnerPoll \/ DispatchCfg \/ DispatchEmpty \/ DrainEnd \/ ReapEnd \/ OwnerStop
            \/ NmtDestroy \/ Stop
  BY <1>2, <1>11 DEF OwnerPoll, DispatchCfg, DispatchEmpty, DrainEnd, ReapEnd, OwnerStop, NmtDestroy, Stop
<1>12. CASE DispatchNmt \/ RetireQueued \/ PrepareNmtDestroy
  <2>1. UNCHANGED <<pc, node, calls, status, done, completion_refs, applied>>
    BY <1>12 DEF DispatchNmt, RetireQueued, PrepareNmtDestroy
  <2>2. cancel_requested' \in [Callers -> BOOLEAN]
    BY <1>1, <1>12 DEF DispatchNmt, OnNmtCommand, RetireQueued, PrepareNmtDestroy, FrameTypes
  <2>3. hit' \in [Callers -> BOOLEAN]
    BY <1>1, <1>12 DEF DispatchNmt, RetireQueued, PrepareNmtDestroy, FrameTypes
  <2>4. QED
    BY <1>1, <2>1, <2>2, <2>3 DEF FrameTypes
<1>13. CASE Finished
  BY <1>3, <1>13 DEF Finished
<1>14. QED
  BY <1>3, <1>4, <1>5, <1>7, <1>8, <1>9, <1>10, <1>11, <1>12, <1>13
     DEF CfgNext, CfgOwnerNext

\* The command queue.
LEMMA QueueTypesNext ==
    ASSUME CfgInv, [CfgNext]_masterCfgVars
    PROVE  QueueTypes'
<1> USE DEF callerVars, requestVars, commandVars, ownerVars, cfgVars, lelyVars, history
<1>1. QueueTypes
  BY TypesParts DEF CfgInv
<1>2. ASSUME UNCHANGED <<mq, quiescing, commands>>
      PROVE  QueueTypes'
  BY <1>1, <1>2 DEF QueueTypes
<1>3. CASE UNCHANGED masterCfgVars
  BY <1>2, <1>3 DEF masterCfgVars
<1>4. ASSUME NEW c \in Callers, CallerNext(c)
      PROVE  QueueTypes'
  BY <1>2, <1>4 DEF CallerNext, SyncWait, SyncFini
<1>5. ASSUME NEW x \in Commands, CanPost, mq' = Append(mq, x)
      PROVE  mq' \in Seq(Commands) /\ Len(mq') <= CommandDepth
  BY <1>1, <1>5, QueuePut, MasterCfgAssumption DEF CanPost, QueueTypes
<1>6. ASSUME NEW c \in Callers, NEW n \in Nodes, Configure(c, n)
      PROVE  QueueTypes'
  <2>1. <<"CFG", c>> \in Commands
    BY DEF Commands
  <2>2. \/ UNCHANGED mq
        \/ CanPost /\ mq' = Append(mq, <<"CFG", c>>)
    BY <1>6 DEF Configure
  <2>3. UNCHANGED <<quiescing, commands>>
    BY <1>6 DEF Configure
  <2>4. QED
    BY <1>1, <1>5, <2>1, <2>2, <2>3 DEF QueueTypes
<1>7. ASSUME NEW k \in NmtCommands, NEW t \in Targets, PostNmt(k, t)
      PROVE  QueueTypes'
  <2>1. <<"NMT", k, t>> \in Commands
    BY DEF Commands
  <2>2. /\ CanPost /\ mq' = Append(mq, <<"NMT", k, t>>) /\ UNCHANGED quiescing
        /\ commands < MaxCommands /\ commands' = commands + 1
    BY <1>7 DEF PostNmt
  <2>3. commands' \in 0..MaxCommands
    BY <1>1, <2>2, MasterCfgAssumption DEF QueueTypes
  <2>4. QED
    BY <1>1, <1>5, <2>1, <2>2, <2>3 DEF QueueTypes
<1>8. ASSUME mq # <<>>, mq' = Tail(mq), UNCHANGED <<quiescing, commands>>
      PROVE  QueueTypes'
  <2>1. Tail(mq) \in Seq(Commands) /\ Len(Tail(mq)) = Len(mq) - 1 /\ Len(mq) \in Nat
    BY <1>1, <1>8 DEF QueueTypes
  <2>2. QED
    BY <1>1, <1>8, <2>1, MasterCfgAssumption DEF QueueTypes
<1>9. CASE DispatchCfg \/ DispatchNmt \/ RetireQueued
  BY <1>8, <1>9 DEF DispatchCfg, DispatchNmt, RetireQueued, IsCfg, IsNmt
<1>10. CASE Stop
  BY <1>1, <1>10 DEF Stop, QueueTypes
<1>11. ASSUME NEW n \in Nodes, LelyNext(n) \/ AutoCfg(n) \/ BootBegin(n) \/ BootEnd(n) \/ Reap(n)
       PROVE  QueueTypes'
  BY <1>2, <1>11 DEF LelyNext, XferAbort, CfgInd, DcfCon, AutoCfg, BootBegin, BootEnd, Reap
<1>12. ASSUME NEW k \in NmtCommands, MasterState(k)
       PROVE  QueueTypes'
  BY <1>2, <1>12 DEF MasterState
<1>13. CASE \/ CompleteMark \/ CompleteDone \/ CompleteRelease \/ OwnerPoll \/ DispatchEmpty
            \/ DrainEnd \/ ReapEnd \/ OwnerStop \/ PrepareNmtDestroy \/ NmtDestroy
  BY <1>2, <1>13 DEF CompleteMark, CompleteDone, CompleteRelease, OwnerPoll, DispatchEmpty, DrainEnd,
                     ReapEnd, OwnerStop, PrepareNmtDestroy, NmtDestroy
<1>14. CASE Finished
  BY <1>3, <1>14 DEF Finished
<1>15. QED
  BY <1>3, <1>4, <1>6, <1>7, <1>9, <1>10, <1>11, <1>12, <1>13, <1>14 DEF CfgNext, CfgOwnerNext

\* The owner's place and its completions.
LEMMA OwnerTypesNext ==
    ASSUME CfgInv, [CfgNext]_masterCfgVars
    PROVE  OwnerTypes'
<1> USE DEF callerVars, requestVars, commandVars, ownerVars, cfgVars, lelyVars, history
<1>1. OwnerTypes /\ FrameTypes /\ NodeTypes /\ CfgTypes /\ Links
  BY TypesParts DEF CfgInv
<1>2. ASSUME UNCHANGED <<todo, owner_at, resume>>
      PROVE  OwnerTypes'
  BY <1>1, <1>2 DEF OwnerTypes
<1>3. CASE UNCHANGED masterCfgVars
  BY <1>2, <1>3 DEF masterCfgVars
<1>4. ASSUME NEW c \in Callers, CallerNext(c) \/ \E n \in Nodes : Configure(c, n)
      PROVE  OwnerTypes'
  BY <1>2, <1>4 DEF CallerNext, SyncWait, SyncFini, Configure
<1>5. ASSUME NEW k \in NmtCommands, NEW t \in Targets, PostNmt(k, t)
      PROVE  OwnerTypes'
  BY <1>2, <1>5 DEF PostNmt
<1>6. ASSUME NEW c \in Callers, NEW v \in Statuses, NEW next \in OwnerPcs, Finish(<<<<c, v>>>>, next)
      PROVE  OwnerTypes'
  BY <1>6, FinishOne DEF OwnerTypes, CompletePcs
<1>7. ASSUME NEW next \in OwnerPcs, Finish(<<>>, next)
      PROVE  OwnerTypes'
  BY <1>7, FinishNone DEF OwnerTypes
<1>8. ASSUME NEW n \in Nodes, NEW ac \in {"OK", "ABORT"}, NEW next \in OwnerPcs, Confirm(n, ac, next)
      PROVE  OwnerTypes'
  <2>1. CASE who[n] \in Callers
    <3>1. ConfirmedStatus(who[n], ac) \in Statuses
      BY DEF ConfirmedStatus, Statuses
    <3>2. QED
      BY <1>6, <1>8, <2>1, <3>1 DEF Confirm
  <2>2. CASE who[n] \notin Callers
    BY <1>7, <1>8, <2>2 DEF Confirm
  <2>3. QED
    BY <2>1, <2>2
<1>9. InEvents => owner_at \in OwnerPcs
  BY DEF InEvents, OwnerPcs
<1>10. ASSUME NEW n \in Nodes, LelyNext(n) \/ AutoCfg(n) \/ BootBegin(n) \/ BootEnd(n) \/ Reap(n)
       PROVE  OwnerTypes'
  <2>1. \/ UNCHANGED <<todo, owner_at, resume>>
        \/ InEvents /\ (Confirm(n, "ABORT", owner_at) \/ Confirm(n, "OK", owner_at))
        \/ cfg_resume[n] # "NO" /\ Confirm(n, cfg_resume[n], "reap")
    BY <1>10 DEF LelyNext, XferAbort, CfgInd, DcfCon, AutoCfg, BootBegin, BootEnd, Reap
  <2>2. "reap" \in OwnerPcs /\ (cfg_resume[n] # "NO" => cfg_resume[n] \in {"OK", "ABORT"})
    BY <1>1 DEF OwnerPcs, NodeTypes
  <2>3. QED
    BY <1>2, <1>8, <1>9, <2>1, <2>2
<1>11. ASSUME NEW next \in OwnerPcs, FinishAll(Heard, Nodes \ Heard, next)
       PROVE  OwnerTypes'
  <2> DEFINE heard == Heard
             retired == Nodes \ Heard
  <2>1. heard \in SUBSET Heard /\ retired \in SUBSET Nodes /\ heard \cap retired = {}
    OBVIOUS
  <2>2. FinishAll(heard, retired, next)
    BY <1>11
  <2> HIDE DEF heard, retired
  <2>3. /\ todo' \in Seq(Callers \X Statuses) /\ resume' = next
        /\ owner_at' = IF todo' = <<>> THEN next ELSE "complete_mark"
    BY <1>1, <2>1, <2>2, FinishAllList
  <2>4. QED
    BY <2>3 DEF OwnerTypes, CompletePcs
<1>12. ASSUME NEW k \in NmtCommands, MasterState(k)
       PROVE  OwnerTypes'
  <2>1. owner_at \in OwnerPcs
    BY <1>9, <1>12 DEF MasterState
  <2>2. CASE FinishAll({}, {}, owner_at)
    <3>1. todo' = <<>> /\ owner_at' = owner_at /\ resume' = owner_at
      BY <1>1, <2>1, <2>2, FinishAllNone
    <3>2. QED
      BY <2>1, <3>1 DEF OwnerTypes
  <2>3. CASE FinishAll(Heard, Nodes \ Heard, owner_at)
    BY <1>11, <2>1, <2>3
  <2>4. QED
    BY <1>1, <1>12, <2>2, <2>3, MasterStateCases
<1>13. CASE CompleteMark \/ CompleteDone \/ CompleteRelease
  <2>1. todo # <<>>
    BY <1>13, Completing DEF CompleteMark, CompleteDone, CompleteRelease, CompletePcs
  <2>2. UNCHANGED resume /\ (todo' = todo \/ todo' = Tail(todo))
    BY <1>13 DEF CompleteMark, CompleteDone, CompleteRelease
  <2>3. owner_at' \in CompletePcs \/ owner_at' = resume
    BY <1>13 DEF CompleteMark, CompleteDone, CompleteRelease, CompletePcs
  <2>4. todo' \in Seq(Callers \X Statuses)
    <3>1. todo \in Seq(Callers \X Statuses)
      BY <1>1 DEF OwnerTypes
    <3>2. Tail(todo) \in Seq(Callers \X Statuses)
      BY <2>1, <3>1, KeyedTake
    <3>3. QED
      BY <2>2, <3>1, <3>2
  <2>5. QED
    BY <1>1, <2>2, <2>3, <2>4 DEF OwnerTypes
<1>14. CASE OwnerPoll \/ DispatchEmpty \/ DrainEnd \/ ReapEnd \/ OwnerStop \/ PrepareNmtDestroy
  BY <1>1, <1>14 DEF OwnerPoll, DispatchEmpty, DrainEnd, ReapEnd, OwnerStop, PrepareNmtDestroy, KeepTodo,
                     OwnerTypes, OwnerPcs
<1>15. CASE DispatchNmt \/ Stop
  BY <1>2, <1>15 DEF DispatchNmt, Stop
<1>16. CASE DispatchCfg
  <2>1. mq[1][2] \in Callers /\ "LOCAL_ERROR" \in Statuses /\ "dispatch" \in OwnerPcs
    BY <1>1, <1>16, TakeCfg DEF DispatchCfg, Statuses, OwnerPcs
  <2>2. UNCHANGED <<todo, owner_at, resume>> \/ Finish(<<<<mq[1][2], "LOCAL_ERROR">>>>, "dispatch")
    BY <1>16 DEF DispatchCfg
  <2>3. QED
    BY <1>2, <1>6, <2>1, <2>2
<1>17. CASE RetireQueued
  <2>1. IsCfg => mq[1][2] \in Callers
    BY <1>1, TakeCfg
  <2>2. "CANCELED" \in Statuses /\ "fini" \in OwnerPcs
    BY DEF Statuses, OwnerPcs
  <2>3. \/ UNCHANGED <<todo, owner_at, resume>>
        \/ IsCfg /\ Finish(<<<<mq[1][2], "CANCELED">>>>, "fini")
    BY <1>17 DEF RetireQueued
  <2>4. QED
    BY <1>2, <1>6, <2>1, <2>2, <2>3
<1>18. CASE NmtDestroy
  BY <1>11, <1>18 DEF NmtDestroy, OwnerPcs
<1>19. CASE Finished
  BY <1>3, <1>19 DEF Finished
<1>20. QED
  BY <1>3, <1>4, <1>5, <1>10, <1>12, <1>13, <1>14, <1>15, <1>16, <1>17, <1>18, <1>19
     DEF CfgNext, CfgOwnerNext

\* The nodes.
LEMMA NodeTypesNext ==
    ASSUME CfgInv, [CfgNext]_masterCfgVars
    PROVE  NodeTypes'
<1> USE DEF callerVars, requestVars, commandVars, ownerVars, cfgVars, lelyVars, history
<1>1. NodeTypes /\ FrameTypes /\ CfgTypes
  BY TypesParts DEF CfgInv
<1>2. ASSUME UNCHANGED <<cfg_active, cfg_resume, cfg_tearing_down, stage, who, dcf, booting>>
      PROVE  NodeTypes'
  BY <1>1, <1>2 DEF NodeTypes
<1>3. CASE UNCHANGED masterCfgVars
  BY <1>2, <1>3 DEF masterCfgVars
<1>4. ASSUME NEW c \in Callers, CallerNext(c) \/ \E n \in Nodes : Configure(c, n)
      PROVE  NodeTypes'
  BY <1>2, <1>4 DEF CallerNext, SyncWait, SyncFini, Configure
<1>5. ASSUME NEW k \in NmtCommands, NEW t \in Targets, PostNmt(k, t)
      PROVE  NodeTypes'
  BY <1>2, <1>5 DEF PostNmt
<1>6. ASSUME NEW n \in Nodes, NEW ac, NEW next, Confirm(n, ac, next),
             UNCHANGED <<cfg_tearing_down, booting>>
      PROVE  NodeTypes'
  BY <1>1, <1>6 DEF Confirm, Release, NodeTypes
<1>7. ASSUME NEW n \in Nodes, XferAbort(n) \/ CfgInd(n) \/ Reap(n)
      PROVE  NodeTypes'
  <2>1. UNCHANGED <<cfg_tearing_down, booting>>
    BY <1>7 DEF XferAbort, CfgInd, Reap
  <2>2. CASE \/ Confirm(n, "ABORT", owner_at) \/ Confirm(n, "OK", owner_at)
             \/ Confirm(n, cfg_resume[n], "reap")
    BY <1>6, <2>1, <2>2
  <2>3. CASE /\ stage' = [stage EXCEPT ![n] = "user"]
             /\ \/ dcf' = [dcf EXCEPT ![n] = TRUE] /\ UNCHANGED cfg_resume
                \/ cfg_resume' = [cfg_resume EXCEPT ![n] = "ABORT"] /\ UNCHANGED dcf
             /\ UNCHANGED <<who, cfg_active>>
    BY <1>1, <2>1, <2>3 DEF NodeTypes
  <2>4. CASE /\ cfg_resume' = [cfg_resume EXCEPT ![n] = "NO"]
             /\ UNCHANGED <<cfg_active, stage, who, dcf>>
    BY <1>1, <2>1, <2>4 DEF NodeTypes
  <2>5. QED
    BY <1>7, <2>2, <2>3, <2>4 DEF XferAbort, CfgInd, Reap
<1>8. ASSUME NEW n \in Nodes, DcfCon(n)
      PROVE  NodeTypes'
  BY <1>1, <1>8 DEF DcfCon, NodeTypes
<1>9. ASSUME NEW n \in Nodes, AutoCfg(n) \/ BootBegin(n) \/ BootEnd(n)
      PROVE  NodeTypes'
  BY <1>1, <1>9 DEF AutoCfg, BootBegin, BootEnd, NodeTypes
<1>10. ASSUME NEW k \in NmtCommands, MasterState(k)
       PROVE  NodeTypes'
  <2>1. UNCHANGED cfg_tearing_down
    BY <1>10 DEF MasterState
  <2>2. CASE UNCHANGED <<stage, who, dcf, booting, cfg_active, cfg_resume>>
    BY <1>2, <2>1, <2>2
  <2>3. CASE /\ SlavesFini /\ cfg_active' = [n \in Nodes |-> None]
             /\ cfg_resume' = [n \in Nodes |-> "NO"]
    BY <1>1, <2>1, <2>3 DEF SlavesFini, NodeTypes
  <2>4. QED
    BY <1>1, <1>10, <2>2, <2>3, MasterStateCases
<1>11. CASE \/ CompleteMark \/ CompleteDone \/ CompleteRelease \/ OwnerPoll \/ DispatchNmt
            \/ DispatchEmpty \/ DrainEnd \/ ReapEnd \/ OwnerStop \/ RetireQueued \/ Stop
  BY <1>2, <1>11 DEF CompleteMark, CompleteDone, CompleteRelease, OwnerPoll, DispatchNmt, DispatchEmpty,
                     DrainEnd, ReapEnd, OwnerStop, RetireQueued, Stop
<1>12. CASE DispatchCfg
  <2>1. mq[1][2] \in Callers /\ node[mq[1][2]] \in Nodes
    BY <1>1, <1>12, TakeCfg DEF DispatchCfg, FrameTypes
  <2>2. QED
    BY <1>1, <1>12, <2>1 DEF DispatchCfg, Release, NodeTypes
<1>13. CASE PrepareNmtDestroy
  BY <1>1, <1>13 DEF PrepareNmtDestroy, NodeTypes
<1>14. CASE NmtDestroy
  BY <1>14 DEF NmtDestroy, SlavesFini, NodeTypes
<1>15. CASE Finished
  BY <1>3, <1>15 DEF Finished
<1>16. QED
  BY <1>3, <1>4, <1>5, <1>7, <1>8, <1>9, <1>10, <1>11, <1>12, <1>13, <1>14, <1>15
     DEF CfgNext, CfgOwnerNext, LelyNext

-----------------------------------------------------------------------------
(* The theorems                                                            *)

\* Nothing is held before the first call.
LEMMA CfgInvInit == CfgInit => CfgInv
<1> SUFFICES ASSUME CfgInit
             PROVE  CfgInv
  OBVIOUS
<1>1. CfgTypes
  <2>1. (CHOOSE n \in Nodes : TRUE) \in Nodes
    BY MasterCfgAssumption
  <2>2. FrameTypes
    <3>1. 0 \in 0..MaxCalls
      BY MasterCfgAssumption
    <3>2. QED
      BY <2>1, <3>1 DEF CfgInit, NothingHeld, FrameTypes, Statuses
  <2>3. NodeTypes
    BY DEF CfgInit, NothingHeld, NodeTypes
  <2>4. QueueTypes
    <3>1. mq = <<>> /\ quiescing = FALSE /\ commands = 0
      BY DEF CfgInit, NothingHeld
    <3>2. <<>> \in Seq(Commands) /\ Len(<<>>) = 0
      OBVIOUS
    <3>3. 0 <= CommandDepth /\ 0 \in 0..MaxCommands
      BY MasterCfgAssumption
    <3>4. Len(mq) <= CommandDepth
      BY <3>1, <3>2, <3>3
    <3>5. QED
      BY <3>1, <3>2, <3>3, <3>4 DEF QueueTypes
  <2>5. OwnerTypes
    BY DEF CfgInit, NothingHeld, OwnerTypes, OwnerPcs
  <2>6. QED
    BY <2>2, <2>3, <2>4, <2>5, TypesParts
<1>2. \A c \in Callers : ~Active(c)
  BY MasterCfgAssumption DEF CfgInit, NothingHeld, Active
<1>3. Holders
  BY <1>2, QueueEmpty, KeyedNone DEF CfgInit, NothingHeld, Holders, Holder
<1>4. Completions
  BY KeyedNone DEF CfgInit, NothingHeld, Completions, CompletePcs
<1>5. Links
  BY MasterCfgAssumption DEF CfgInit, NothingHeld, Links
<1>6. Results
  BY <1>2, QueueEmpty DEF CfgInit, NothingHeld, Results
<1>7. QED
  BY <1>1, <1>3, <1>4, <1>5, <1>6 DEF CfgInv

\* The invariant of manual configuration: every request is in one hand, and the
\* node, Lely and the owner agree on whose.
THEOREM CfgInvHolds == CfgSpec => []CfgInv
<1>1. CfgInv /\ [CfgNext]_masterCfgVars => CfgInv'
  <2> SUFFICES ASSUME CfgInv, [CfgNext]_masterCfgVars
               PROVE  CfgInv'
    OBVIOUS
  <2>1. CfgTypes'
    BY FrameTypesNext, QueueTypesNext, OwnerTypesNext, NodeTypesNext, TypesPartsNext
  <2>2. QED
    BY <2>1, RequestsNext, LinksNext DEF CfgInv
<1>2. QED
  BY <1>1, CfgInvInit, PTL DEF CfgSpec

\* The types of all variables, and the bound on the command queue.
THEOREM CfgTypeCorrect == CfgSpec => []CfgTypeOK
<1>1. CfgInv => CfgTypeOK
  BY DEF CfgInv, CfgTypes
<1>2. QED
  BY <1>1, CfgInvHolds, PTL

\* The request on a waiting caller's stack is in exactly one hand, and when
\* nmt_configure has returned in nobody's: neither queue, completion, cfg_active
\* nor Lely's cfg_data can still reach the frame.
THEOREM HeldOnceHolds == CfgSpec => []HeldOnce
<1>1. CfgInv => HeldOnce
  <2> SUFFICES ASSUME CfgInv, NEW c \in Callers
               PROVE  /\ pc[c] = "wait" /\ ~done[c] =>
                            Cardinality({k \in 1..3 : <<InQueue(c), InTodo(c),
                               \E n \in Nodes : cfg_active[n] = c /\ who[n] = c>>[k]}) = 1
                      /\ pc[c] = "idle" =>
                            /\ ~InQueue(c) /\ ~InTodo(c)
                            /\ \A n \in Nodes : cfg_active[n] # c /\ who[n] # c
    BY DEF HeldOnce
  <2> DEFINE q == InQueue(c)
             t == InTodo(c)
             a == \E n \in Nodes : cfg_active[n] = c /\ who[n] = c
             S == {k \in 1..3 : <<q, t, a>>[k]}
  <2>1. (q <=> Has(mq, <<"CFG", c>>)) /\ (t <=> HasKey(todo, c))
    BY DEF InQueue, InTodo, Has, HasKey
  <2>2. \A n \in Nodes : cfg_active[n] = c <=> who[n] = c
    BY DEF CfgInv, Links
  <2>3. a <=> Active(c)
    BY <2>2 DEF Active
  <2>4. Holder(pc[c], done[c], Has(mq, <<"CFG", c>>), HasKey(todo, c), Active(c))
    BY DEF CfgInv, Holders
  <2>5. pc[c] = "idle" => ~HasKey(todo, c)
    BY DEF CfgInv, Completions
  <2>6. pc[c] = "idle" => ~q /\ ~t /\ \A n \in Nodes : cfg_active[n] # c /\ who[n] # c
    BY <2>1, <2>2, <2>4, <2>5 DEF Holder, Active
  <2> HIDE DEF q, t, a
  <2>7. pc[c] = "wait" /\ ~done[c] => Cardinality(S) = 1
    <3> SUFFICES ASSUME pc[c] = "wait", ~done[c]
                 PROVE  Cardinality(S) = 1
      OBVIOUS
    <3>1. \/ q /\ ~t /\ ~a
          \/ ~q /\ t /\ ~a
          \/ ~q /\ ~t /\ a
      BY <2>1, <2>3, <2>4 DEF Holder
    <3>2. \A k : k \in S <=> \/ k = 1 /\ q
                             \/ k = 2 /\ t
                             \/ k = 3 /\ a
      OBVIOUS
    <3> HIDE DEF S
    <3>3. S = {1} \/ S = {2} \/ S = {3}
      BY <3>1, <3>2
    <3>4. QED
      BY <3>3, FS_Singleton
  <2>8. QED
    BY <2>6, <2>7 DEF S, q, t, a
<1>2. QED
  BY <1>1, CfgInvHolds, PTL

\* The reaper resumes the sequence whose download staged the resume, and no
\* later one of the same node.
THEOREM ResumeMatchesHolds == CfgSpec => []ResumeMatches
<1>1. CfgInv => ResumeMatches
  BY DEF CfgInv, CfgTypes, CfgTypeOK, Links, ResumeMatches
<1>2. QED
  BY <1>1, CfgInvHolds, PTL

\* What nmt_configure reports is what happened to this request.
THEOREM ResultTrueHolds == CfgSpec => []ResultTrue
<1>1. CfgInv => ResultTrue
  BY DEF CfgInv, Results, Fits, ResultTrue
<1>2. QED
  BY <1>1, CfgInvHolds, PTL

=============================================================================

----------------------------- MODULE Snapshots -----------------------------
(***************************************************************************)
(* The three sequence-locked snapshots that the owner publishes to         *)
(* application threads: the last processed SYNC (master_sync.c), the last  *)
(* received TIME (master_time.c) and the last local object dictionary      *)
(* write (master_od.c).  Each is a counter, odd while the fields change,   *)
(* and three or four fields; every load and store is one step.             *)
(*                                                                         *)
(* A field holds the number of the publication that stored it, 0 after a   *)
(* reset: a snapshot is torn when its fields hold different numbers.       *)
(* A reader of higher priority preempts the owner, which runs only while   *)
(* such readers are idle or asleep.                                        *)
(***************************************************************************)
EXTENDS Integers, Sequences, FiniteSets

CONSTANTS Readers,          \* threads calling get_sync, get_time or
                            \* get_local_od_change
          SeqMod,           \* 2^32: the counters are unsigned
          MaxPublications,  \* bound: publications of all snapshots together
          MaxStarts,          \* bound: starts of the runtime
          DrainReaders \* start() is not called while a read is going on

ASSUME SnapshotsAssumption ==
    /\ IsFiniteSet(Readers)
    /\ SeqMod \in Nat /\ SeqMod % 2 = 0 /\ SeqMod >= 6
    /\ MaxPublications \in Nat /\ MaxStarts \in Nat \ {0}
    /\ DrainReaders \in BOOLEAN

VARIABLES
    seq,        \* local_od_change_seq, time_snapshot_seq, sync_snapshot_seq
    field,      \* the fields of each snapshot
    publisher,  \* what the owner is doing: "run", "publish", "reset", "down"
    target,     \* the snapshot it publishes or resets
    step,       \* the next field of it to store
    base,       \* local seq of the publish functions
    published,  \* publications so far
    last,       \* the last complete publication of each snapshot in this run
    starts,     \* starts so far
    high,       \* the readers with a higher priority than the owner
    rpc,        \* program counter of each reader
    what,       \* the snapshot it reads
    begin,      \* its local begin
    got,        \* the fields it has loaded
    floor,      \* last[what] when the call began
    during      \* publications begun since it loaded begin

publisherVars == <<seq, field, publisher, target, step, base, published, last, starts>>
readerVars == <<high, rpc, what, begin, got, floor>>
snapshotsVars == <<publisherVars, readerVars, during>>

Snapshots == {"od", "time", "sync"}
Fields(k) == 1 .. (IF k = "od" THEN 4 ELSE 3)
Empty(k) == [i \in Fields(k) |-> 0]

\* snapshots_reset handles them in this order.
ResetOrder == <<"od", "time", "sync">>

\* How many publications bring a counter back to the same value.
Cycle == SeqMod \div 2 - 1

SnapshotsInit ==
    /\ seq = [k \in Snapshots |-> 0]
    /\ field = [k \in Snapshots |-> Empty(k)]
    /\ publisher = "run" /\ target = "od" /\ step = 0 /\ base = 0
    /\ published = 0 /\ last = [k \in Snapshots |-> 0] /\ starts = 1
    /\ high \in SUBSET Readers
    /\ rpc = [r \in Readers |-> "idle"]
    /\ what = [r \in Readers |-> "od"]
    /\ begin = [r \in Readers |-> 0]
    /\ got = [r \in Readers |-> <<>>]
    /\ floor = [r \in Readers |-> 0]
    /\ during = [r \in Readers |-> 0]

-----------------------------------------------------------------------------
(* The owner                                                               *)

\* A thread of higher priority keeps the owner from running until it sleeps.
OwnerMayRun == \A r \in high : rpc[r] \in {"idle", "sleep"}

\* Where publication of k begins: an even value that leaves room for +2.
NextBase(k) ==
    LET even == IF seq[k] % 2 = 1 THEN seq[k] + 1 ELSE seq[k]
    IN  IF even > SeqMod - 4 THEN 0 ELSE even

\* The store of the odd counter.
PublishBegin(k) ==
    /\ OwnerMayRun
    /\ publisher = "run" /\ published < MaxPublications
    /\ publisher' = "publish" /\ target' = k /\ step' = 1
    /\ base' = NextBase(k)
    /\ seq' = [seq EXCEPT ![k] = (NextBase(k) + 1) % SeqMod]
    /\ published' = published + 1
    /\ during' = [r \in Readers |-> IF rpc[r] # "idle" /\ what[r] = k
                                    THEN during[r] + 1 ELSE during[r]]
    /\ UNCHANGED <<field, last, starts, readerVars>>

\* sync_ind, after Lely has processed the PDOs of this SYNC.
SyncInd == PublishBegin("sync")

\* time_ind, for a received TIME message.
TimeInd == PublishBegin("time")

\* dn_ind, when the wrapped indication has accepted the last segment of a write,
\* whether it came over the bus or from local_od_write.
LocalOdDnInd == PublishBegin("od")

\* One field is stored.
PublishField ==
    /\ OwnerMayRun
    /\ publisher = "publish" /\ step \in Fields(target)
    /\ field' = [field EXCEPT ![target][step] = published]
    /\ step' = step + 1
    /\ UNCHANGED <<seq, publisher, target, base, published, last, starts, readerVars, during>>

\* Fault: the counter is made even before the last field is stored.
PublishEndEarly ==
    /\ OwnerMayRun
    /\ publisher = "publish" /\ step + 1 \notin Fields(target)
    /\ seq' = [seq EXCEPT ![target] = (base + 2) % SeqMod]
    /\ last' = [last EXCEPT ![target] = published]
    /\ publisher' = IF step \in Fields(target) THEN "publish" ELSE "run"
    /\ UNCHANGED <<field, target, step, base, published, starts, readerVars, during>>

\* The store of the even counter.
PublishEnd ==
    /\ OwnerMayRun
    /\ publisher = "publish" /\ step \notin Fields(target)
    /\ seq' = [seq EXCEPT ![target] = (base + 2) % SeqMod]
    /\ last' = [last EXCEPT ![target] = published]
    /\ publisher' = "run"
    /\ UNCHANGED <<field, target, step, base, published, starts, readerVars, during>>

\* master_fini at the end of stop(): snapshots_reset, counter before fields.
ResetBegin ==
    /\ OwnerMayRun
    /\ publisher = "run"
    /\ publisher' = "reset" /\ target' = ResetOrder[1] /\ step' = 0
    /\ UNCHANGED <<seq, field, base, published, last, starts, readerVars, during>>

ResetSeq ==
    /\ OwnerMayRun
    /\ publisher = "reset" /\ step = 0
    /\ seq' = [seq EXCEPT ![target] = 0]
    /\ last' = [last EXCEPT ![target] = 0]
    /\ step' = 1
    /\ UNCHANGED <<field, publisher, target, base, published, starts, readerVars, during>>

ResetField ==
    /\ OwnerMayRun
    /\ publisher = "reset" /\ step \in Fields(target)
    /\ field' = [field EXCEPT ![target][step] = 0]
    /\ IF step + 1 \in Fields(target)
       THEN step' = step + 1 /\ UNCHANGED <<publisher, target>>
       ELSE IF target = ResetOrder[3]
            THEN publisher' = "down" /\ step' = 0 /\ UNCHANGED target
            ELSE /\ target' = IF target = ResetOrder[1] THEN ResetOrder[2]
                                                        ELSE ResetOrder[3]
                 /\ step' = 0 /\ UNCHANGED publisher
    /\ UNCHANGED <<seq, base, published, last, starts, readerVars, during>>

\* start(); its own resets find everything 0 already.
Restart ==
    /\ publisher = "down" /\ starts < MaxStarts
    /\ DrainReaders => \A r \in Readers : rpc[r] = "idle"
    /\ publisher' = "run" /\ starts' = starts + 1
    /\ UNCHANGED <<seq, field, target, step, base, published, last, readerVars, during>>

-----------------------------------------------------------------------------
(* The readers                                                             *)

ReadCall(r, k) ==
    /\ rpc[r] = "idle"
    /\ rpc' = [rpc EXCEPT ![r] = "begin"]
    /\ what' = [what EXCEPT ![r] = k]
    /\ floor' = [floor EXCEPT ![r] = last[k]]
    /\ UNCHANGED <<high, publisherVars, begin, got, during>>

GetSync(r) == ReadCall(r, "sync")
GetTime(r) == ReadCall(r, "time")
GetLocalOdChange(r) == ReadCall(r, "od")

\* Fault: an odd counter is polled without sleeping.
ReadBeginSpins(r) ==
    LET s == seq[what[r]] IN
    /\ rpc[r] = "begin"
    /\ begin' = [begin EXCEPT ![r] = s]
    /\ got' = [got EXCEPT ![r] = <<>>]
    /\ during' = [during EXCEPT ![r] = 0]
    /\ rpc' = [rpc EXCEPT ![r] = IF s = 0 THEN "idle"
                                 ELSE IF s % 2 = 1 THEN "begin" ELSE "load"]
    /\ UNCHANGED <<high, publisherVars, what, floor>>

\* The load of begin: empty is -RT_EBUSY, odd is a publication in progress.
ReadBegin(r) ==
    LET s == seq[what[r]] IN
    /\ rpc[r] = "begin"
    /\ begin' = [begin EXCEPT ![r] = s]
    /\ got' = [got EXCEPT ![r] = <<>>]
    /\ during' = [during EXCEPT ![r] = 0]
    /\ rpc' = [rpc EXCEPT ![r] = IF s = 0 THEN "idle"
                                 ELSE IF s % 2 = 1 THEN "sleep" ELSE "load"]
    /\ UNCHANGED <<high, publisherVars, what, floor>>

\* The load of one field.
ReadField(r) ==
    /\ rpc[r] = "load"
    /\ got' = [got EXCEPT ![r] = Append(@, field[what[r]][Len(@) + 1])]
    /\ rpc' = [rpc EXCEPT ![r] = IF Len(got[r]) + 2 \in Fields(what[r])
                                 THEN "load" ELSE "end"]
    /\ UNCHANGED <<high, publisherVars, what, begin, floor, during>>

\* The load of end: the same value, which is even, or another attempt.
ReadEnd(r) ==
    LET end == seq[what[r]] IN
    /\ rpc[r] = "end"
    /\ rpc' = [rpc EXCEPT ![r] = IF begin[r] = end /\ end % 2 = 0
                                 THEN "done" ELSE "sleep"]
    /\ UNCHANGED <<high, publisherVars, what, begin, got, floor, during>>

\* rt_thread_mdelay(1) is over.
ReadWake(r) ==
    /\ rpc[r] = "sleep"
    /\ rpc' = [rpc EXCEPT ![r] = "begin"]
    /\ UNCHANGED <<high, publisherVars, what, begin, got, floor, during>>

\* RT_EOK is returned with the fields.
ReadReturn(r) ==
    /\ rpc[r] = "done"
    /\ rpc' = [rpc EXCEPT ![r] = "idle"]
    /\ begin' = [begin EXCEPT ![r] = 0]
    /\ got' = [got EXCEPT ![r] = <<>>]
    /\ during' = [during EXCEPT ![r] = 0]
    /\ UNCHANGED <<high, publisherVars, what, floor>>

-----------------------------------------------------------------------------
Publishing == PublishField \/ PublishEnd
Resetting == ResetSeq \/ ResetField

Reading(r) == ReadBegin(r) \/ ReadField(r) \/ ReadEnd(r) \/ ReadWake(r)
              \/ ReadReturn(r)

SnapshotsNext ==
    \/ SyncInd \/ TimeInd \/ LocalOdDnInd
    \/ Publishing \/ ResetBegin \/ Resetting \/ Restart
    \/ \E r \in Readers : \/ GetSync(r) \/ GetTime(r) \/ GetLocalOdChange(r)
                          \/ Reading(r)

SnapshotsSpec == SnapshotsInit /\ [][SnapshotsNext]_snapshotsVars

\* A reader inside a call keeps running.  The owner finishes what it has begun
\* if it gets the processor again and again: a reader that sleeps gives it up
\* for a tick.
SnapshotsFairness ==
    /\ SF_snapshotsVars(Publishing \/ Resetting)
    /\ \A r \in Readers : WF_snapshotsVars(Reading(r))

SnapshotsFairSpec == SnapshotsSpec /\ SnapshotsFairness

-----------------------------------------------------------------------------
(* Properties                                                              *)

\* Type invariant: in particular a publication never begins at a counter value
\* from which the two increments would overflow.
SnapshotsTypeOK ==
    /\ seq \in [Snapshots -> 0 .. SeqMod - 1]
    /\ \A k \in Snapshots : field[k] \in [Fields(k) -> 0 .. MaxPublications]
    /\ publisher \in {"run", "publish", "reset", "down"} /\ target \in Snapshots
    /\ step \in 0 .. 5 /\ base \in 0 .. SeqMod - 4
    /\ published \in 0 .. MaxPublications /\ starts \in 1 .. MaxStarts
    /\ last \in [Snapshots -> 0 .. MaxPublications]
    /\ high \subseteq Readers
    /\ rpc \in [Readers -> {"idle", "begin", "load", "end", "sleep", "done"}]
    /\ what \in [Readers -> Snapshots]
    /\ begin \in [Readers -> 0 .. SeqMod - 1]
    /\ floor \in [Readers -> 0 .. MaxPublications]
    /\ during \in [Readers -> Nat]

\* internal.h: an even non-zero counter identifies a stable snapshot.  What a
\* reader returns is one publication's fields, unless the counter went round a
\* whole cycle (2^31 - 1 publications) during its attempt.  A reader never goes
\* back in time: it is the publication that was the last one when the call
\* began, or a later one.
ReadStable ==
    \A r \in Readers : rpc[r] = "done" /\ during[r] < Cycle =>
        /\ \A i, j \in Fields(what[r]) : got[r][i] = got[r][j]
        /\ got[r][1] > 0 /\ got[r][1] >= floor[r]

\* A reader of any priority returns: it cannot keep the owner from closing the
\* publication it is waiting for.
ReadReturns ==
    \A r \in Readers : (rpc[r] # "idle") ~> (rpc[r] = "idle")

=============================================================================

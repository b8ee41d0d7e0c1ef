---------------------------- MODULE EmcyHistory ----------------------------
(***************************************************************************)
(* The ring of received EMCY events (port/rtthread/src/master_emcy.c): the *)
(* owner publishes into one slot after the other, each guarded by its own  *)
(* sequence lock, and then announces the event's sequence number; readers  *)
(* scan back from the announced number for the newest event of a node.     *)
(*                                                                         *)
(* Events are numbered in the order they arrive.  The fields of a slot     *)
(* hold the number of the event that stored them; its sequence field holds *)
(* the wrapping number that the code computes.                             *)
(***************************************************************************)
EXTENDS Integers, Sequences, FiniteSets

CONSTANTS Readers,       \* threads calling get_emcy
          Producers,         \* remote producers
          AnyNode,       \* node id 0: any producer
          Depth,         \* PKG_LELY_MASTER_EMCY_HISTORY_DEPTH
          SequenceMod,        \* 2^32: event sequence numbers are unsigned
          GuardMod,      \* 2^32: slot guards are unsigned
          MaxEvents,     \* bound: events received
          MaxRuns        \* bound: starts of the runtime

ASSUME EmcyAssumption ==
    /\ IsFiniteSet(Readers)
    /\ AnyNode \notin Producers
    /\ Depth \in Nat \ {0}
    /\ SequenceMod \in Nat /\ SequenceMod > Depth + 1
    /\ GuardMod \in Nat /\ GuardMod % 2 = 0 /\ GuardMod >= 6
    /\ MaxEvents \in Nat /\ MaxRuns \in Nat \ {0}

VARIABLES
    latest,     \* emcy_latest_sequence
    guard, sequence, header, msef_lo, msef_hi, \* the slots' fields
    publisher,  \* program counter of the owner
    base,       \* local guard of emcy_publish
    next,       \* local sequence of emcy_publish
    reset,      \* the slot that emcy_reset clears next
    sent,       \* the producers of the events received so far
    first,      \* number of the first event of this run
    runs,       \* starts so far
    rpc,        \* program counter of each reader
    node_id,    \* the node it asks for
    candidate, remaining, begin, \* its locals
    got,        \* the fields it has loaded
    top,        \* the event that latest announced when the scan began
    during      \* events received since the scan began

slotVars == <<guard, sequence, header, msef_lo, msef_hi>>
ownerVars == <<latest, slotVars, publisher, base, next, reset, sent, first, runs>>
readerVars == <<rpc, node_id, candidate, remaining, begin, got, top>>
emcyVars == <<ownerVars, readerVars, during>>

Slots == 0 .. Depth - 1
Slot(s) == (s - 1) % Depth

\* The owner has received an event and not announced it yet.
PublishPcs == {"sequence", "header", "msef_lo", "msef_hi", "guard", "latest"}

\* The number that the m-th event, of this run, is published under.
SeqNumber(m) == ((m - first) % (SequenceMod - 1)) + 1

EmcyInit ==
    /\ latest = 0
    /\ guard = [i \in Slots |-> 0] /\ sequence = [i \in Slots |-> 0]
    /\ header = [i \in Slots |-> 0]
    /\ msef_lo = [i \in Slots |-> 0] /\ msef_hi = [i \in Slots |-> 0]
    /\ publisher = "run" /\ base = 0 /\ next = 0 /\ reset = 0
    /\ sent = <<>> /\ first = 1 /\ runs = 1
    /\ rpc = [r \in Readers |-> "idle"]
    /\ node_id = [r \in Readers |-> AnyNode]
    /\ candidate = [r \in Readers |-> 0] /\ remaining = [r \in Readers |-> 0]
    /\ begin = [r \in Readers |-> 0] /\ got = [r \in Readers |-> <<>>]
    /\ top = [r \in Readers |-> 0] /\ during = [r \in Readers |-> 0]

-----------------------------------------------------------------------------
(* The owner                                                               *)

OwnerGoto(from, to) == publisher = from /\ publisher' = to

NextSequence == IF (latest + 1) % SequenceMod = 0 THEN 1 ELSE latest + 1

\* emcy_ind up to the store of the odd guard.
EmcyInd(n) ==
    LET i == Slot(NextSequence)
        even == IF guard[i] % 2 = 1 THEN guard[i] + 1 ELSE guard[i]
    IN  /\ OwnerGoto("run", "sequence")
        /\ Len(sent) < MaxEvents
        /\ sent' = Append(sent, n)
        /\ next' = NextSequence
        /\ base' = IF even > GuardMod - 4 THEN 0 ELSE even
        /\ guard' = [guard EXCEPT ![i] = base' + 1]
        /\ during' = [r \in Readers |-> IF rpc[r] = "idle" THEN 0
                                                           ELSE during[r] + 1]
        /\ UNCHANGED <<latest, sequence, header, msef_lo, msef_hi, reset, first,
                       runs, readerVars>>

StoreSequence ==
    /\ OwnerGoto("sequence", "header")
    /\ sequence' = [sequence EXCEPT ![Slot(next)] = next]
    /\ UNCHANGED <<latest, guard, header, msef_lo, msef_hi, base, next, reset,
                   sent, first, runs, readerVars, during>>

StoreHeader ==
    /\ OwnerGoto("header", "msef_lo")
    /\ header' = [header EXCEPT ![Slot(next)] = Len(sent)]
    /\ UNCHANGED <<latest, guard, sequence, msef_lo, msef_hi, base, next, reset,
                   sent, first, runs, readerVars, during>>

StoreMsefLo ==
    /\ OwnerGoto("msef_lo", "msef_hi")
    /\ msef_lo' = [msef_lo EXCEPT ![Slot(next)] = Len(sent)]
    /\ UNCHANGED <<latest, guard, sequence, header, msef_hi, base, next, reset,
                   sent, first, runs, readerVars, during>>

StoreMsefHi ==
    /\ OwnerGoto("msef_hi", "guard")
    /\ msef_hi' = [msef_hi EXCEPT ![Slot(next)] = Len(sent)]
    /\ UNCHANGED <<latest, guard, sequence, header, msef_lo, base, next, reset,
                   sent, first, runs, readerVars, during>>

StoreGuard ==
    /\ OwnerGoto("guard", "latest")
    /\ guard' = [guard EXCEPT ![Slot(next)] = base + 2]
    /\ UNCHANGED <<latest, sequence, header, msef_lo, msef_hi, base, next, reset,
                   sent, first, runs, readerVars, during>>

StoreLatest ==
    /\ OwnerGoto("latest", "run")
    /\ latest' = next
    /\ UNCHANGED <<slotVars, base, next, reset, sent, first, runs, readerVars,
                   during>>

\* emcy_reset at the end of stop(): latest, then slot by slot, guard first.
ResetLatest ==
    /\ OwnerGoto("run", "reset_guard")
    /\ latest' = 0 /\ reset' = 0
    /\ UNCHANGED <<slotVars, base, next, sent, first, runs, readerVars, during>>

ResetGuard ==
    /\ OwnerGoto("reset_guard", "reset_sequence")
    /\ guard' = [guard EXCEPT ![reset] = 0]
    /\ UNCHANGED <<latest, sequence, header, msef_lo, msef_hi, base, next, reset,
                   sent, first, runs, readerVars, during>>

ResetSequence ==
    /\ OwnerGoto("reset_sequence", "reset_fields")
    /\ sequence' = [sequence EXCEPT ![reset] = 0]
    /\ UNCHANGED <<latest, guard, header, msef_lo, msef_hi, base, next, reset,
                   sent, first, runs, readerVars, during>>

\* The last three stores change fields that guard 0 has already invalidated.
ResetFields ==
    /\ OwnerGoto("reset_fields", IF reset = Depth - 1 THEN "down" ELSE "reset_guard")
    /\ header' = [header EXCEPT ![reset] = 0]
    /\ msef_lo' = [msef_lo EXCEPT ![reset] = 0]
    /\ msef_hi' = [msef_hi EXCEPT ![reset] = 0]
    /\ reset' = IF reset = Depth - 1 THEN 0 ELSE reset + 1
    /\ UNCHANGED <<latest, guard, sequence, base, next, sent, first, runs,
                   readerVars, during>>

\* start(); the application does not call it while a thread of the run before
\* is still in get_emcy, which could meet the old sequence numbers again.
Restart ==
    /\ publisher = "down" /\ runs < MaxRuns
    /\ \A r \in Readers : rpc[r] = "idle"
    /\ publisher' = "run" /\ runs' = runs + 1 /\ first' = Len(sent) + 1
    /\ UNCHANGED <<latest, slotVars, base, next, reset, sent, readerVars, during>>

-----------------------------------------------------------------------------
(* get_emcy                                                                *)

ReaderGoto(r, from, to) == rpc[r] = from /\ rpc' = [rpc EXCEPT ![r] = to]

GetEmcy(r, n) ==
    /\ ReaderGoto(r, "idle", "latest")
    /\ node_id' = [node_id EXCEPT ![r] = n]
    /\ UNCHANGED <<ownerVars, candidate, remaining, begin, got, top, during>>

\* The load of emcy_latest_sequence, and the start of a scan.
LoadLatest(r) ==
    /\ ReaderGoto(r, "latest", IF latest = 0 THEN "idle" ELSE "begin")
    /\ candidate' = [candidate EXCEPT ![r] = latest]
    /\ remaining' = [remaining EXCEPT ![r] = Depth - 1]
    /\ got' = [got EXCEPT ![r] = <<>>]
    /\ top' = [top EXCEPT ![r] = IF publisher \in PublishPcs THEN Len(sent) - 1
                                                         ELSE Len(sent)]
    /\ during' = [during EXCEPT ![r] = 0]
    /\ UNCHANGED <<ownerVars, node_id, begin>>

\* The first load of a slot's guard: 0 ends the scan, odd restarts it.
LoadBegin(r) ==
    LET g == guard[Slot(candidate[r])] IN
    /\ ReaderGoto(r, "begin", IF g = 0 THEN "busy"
                              ELSE IF g % 2 = 1 THEN "sleep" ELSE "load")
    /\ begin' = [begin EXCEPT ![r] = g]
    /\ got' = [got EXCEPT ![r] = <<>>]
    /\ UNCHANGED <<ownerVars, node_id, candidate, remaining, top, during>>

\* The loads of sequence, header, msef_lo and msef_hi.
LoadField(r) ==
    LET i == Slot(candidate[r]) IN
    /\ ReaderGoto(r, "load", IF Len(got[r]) = 3 THEN "end" ELSE "load")
    /\ got' = [got EXCEPT ![r] = Append(@, <<sequence[i], header[i], msef_lo[i],
                                             msef_hi[i]>>[Len(@) + 1])]
    /\ UNCHANGED <<ownerVars, node_id, candidate, remaining, begin, top, during>>

\* emcy_prev_sequence
PrevSequence(s) == IF s > 1 THEN s - 1 ELSE 0

\* The node id in the header is the one asked for; an empty slot has none.
Matches(r) ==
    node_id[r] = AnyNode \/ (got[r][2] # 0 /\ node_id[r] = sent[got[r][2]])

Unchanged(r) ==
    LET end == guard[Slot(candidate[r])]
    IN  begin[r] = end /\ end % 2 = 0

\* The slot was stable and holds the event looked for: return it, look at the
\* previous one, or give up at the end of the ring or of the epoch.
Accept(r) ==
    LET prev == PrevSequence(candidate[r]) IN
    \/ /\ Matches(r)
       /\ ReaderGoto(r, "end", "done")
       /\ UNCHANGED <<candidate, remaining>>
    \/ /\ ~Matches(r)
       /\ candidate' = [candidate EXCEPT ![r] = prev]
       /\ \/ /\ remaining[r] > 0 /\ prev # 0
             /\ remaining' = [remaining EXCEPT ![r] = @ - 1]
             /\ ReaderGoto(r, "end", "begin")
          \/ /\ remaining[r] = 0 \/ prev = 0
             /\ UNCHANGED remaining
             /\ ReaderGoto(r, "end", "busy")

\* Fault: the guard is not loaded again.
LoadEndUnguarded(r) ==
    /\ rpc[r] = "end"
    /\ \/ got[r][1] = candidate[r] /\ Accept(r)
       \/ /\ got[r][1] # candidate[r]
          /\ ReaderGoto(r, "end", "sleep") /\ UNCHANGED <<candidate, remaining>>
    /\ UNCHANGED <<ownerVars, node_id, begin, got, top, during>>

\* The second load of the guard and the checks after it.
LoadEnd(r) ==
    /\ rpc[r] = "end"
    /\ \/ /\ Unchanged(r) /\ got[r][1] = candidate[r]
          /\ Accept(r)
       \/ /\ ~(Unchanged(r) /\ got[r][1] = candidate[r])
          /\ ReaderGoto(r, "end", "sleep") /\ UNCHANGED <<candidate, remaining>>
    /\ UNCHANGED <<ownerVars, node_id, begin, got, top, during>>

\* rt_thread_mdelay(1) is over.
Wake(r) ==
    /\ ReaderGoto(r, "sleep", "latest")
    /\ UNCHANGED <<ownerVars, node_id, candidate, remaining, begin, got, top,
                   during>>

\* RT_EOK with the event, or -RT_EBUSY.
Return(r) ==
    /\ \/ ReaderGoto(r, "done", "idle")
       \/ ReaderGoto(r, "busy", "idle")
    /\ got' = [got EXCEPT ![r] = <<>>]
    /\ candidate' = [candidate EXCEPT ![r] = 0]
    /\ remaining' = [remaining EXCEPT ![r] = 0]
    /\ begin' = [begin EXCEPT ![r] = 0]
    /\ top' = [top EXCEPT ![r] = 0]
    /\ during' = [during EXCEPT ![r] = 0]
    /\ UNCHANGED <<ownerVars, node_id>>

-----------------------------------------------------------------------------
Working == StoreSequence \/ StoreHeader \/ StoreMsefLo \/ StoreMsefHi
           \/ StoreGuard \/ StoreLatest \/ ResetGuard \/ ResetSequence
           \/ ResetFields

Reading(r) == LoadLatest(r) \/ LoadBegin(r) \/ LoadField(r) \/ LoadEnd(r)
              \/ Wake(r) \/ Return(r)

EmcyNext == \/ \E n \in Producers : EmcyInd(n)
        \/ Working \/ ResetLatest \/ Restart
        \/ \E r \in Readers : \/ \E n \in Producers \cup {AnyNode} : GetEmcy(r, n)
                              \/ Reading(r)

EmcySpec == EmcyInit /\ [][EmcyNext]_emcyVars

-----------------------------------------------------------------------------
(* Properties                                                              *)

\* Type invariant: in particular sequence 0 is never published.
EmcyTypeOK ==
    /\ latest \in 0 .. SequenceMod - 1
    /\ guard \in [Slots -> 0 .. GuardMod - 2]
    /\ sequence \in [Slots -> 0 .. SequenceMod - 1]
    /\ header \in [Slots -> 0 .. MaxEvents]
    /\ msef_lo \in [Slots -> 0 .. MaxEvents] /\ msef_hi \in [Slots -> 0 .. MaxEvents]
    /\ publisher \in PublishPcs \cup {"run", "reset_guard", "reset_sequence",
                                  "reset_fields", "down"}
    /\ base \in 0 .. GuardMod - 4 /\ next \in 0 .. SequenceMod - 1 /\ reset \in Slots
    /\ publisher \in PublishPcs => next # 0
    /\ sent \in Seq(Producers) /\ Len(sent) <= MaxEvents
    /\ first \in 1 .. MaxEvents + 1 /\ runs \in 1 .. MaxRuns
    /\ rpc \in [Readers -> {"idle", "latest", "begin", "load", "end", "sleep",
                            "done", "busy"}]
    /\ node_id \in [Readers -> Producers \cup {AnyNode}]
    /\ candidate \in [Readers -> 0 .. SequenceMod - 1]
    /\ remaining \in [Readers -> 0 .. Depth - 1]
    /\ begin \in [Readers -> 0 .. GuardMod - 2]
    /\ top \in [Readers -> 0 .. MaxEvents] /\ during \in [Readers -> Nat]

\* A scan during which no counter went all the way round.
Bounded(r) == during[r] < SequenceMod - 1 - Depth /\ during[r] < GuardMod \div 2 - 1

\* The events that the ring keeps when m is the last: the sequence wrap begins a
\* new epoch and hides what came before it.
Retained(m) == {e \in 1 .. m : e > m - Depth /\ e > m - SeqNumber(m)}

\* runtime.h: get_emcy returns the newest retained event of the node.  It is one
\* whole event, under the sequence it was published with, although slots are
\* overwritten during the scan, and none that was already announced when the
\* scan began is newer.  -RT_EBUSY is answered when no matching retained event
\* exists, also when the slots move under the scan, except during teardown.
EventNewest ==
    \A r \in Readers : Bounded(r) =>
        /\ rpc[r] = "done" =>
             /\ got[r][3] = got[r][2] /\ got[r][4] = got[r][2]
             /\ got[r][1] = SeqNumber(got[r][2])
             /\ Matches(r)
             /\ \A m \in got[r][2] + 1 .. top[r] : node_id[r] \notin {AnyNode, sent[m]}
        /\ rpc[r] = "busy" =>
             \/ latest = 0
             \/ \A m \in Retained(top[r]) : node_id[r] \notin {AnyNode, sent[m]}

=============================================================================

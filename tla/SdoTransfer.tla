---------------------------- MODULE SdoTransfer ----------------------------
(***************************************************************************)
(* One SDO channel: the Client-SDO of the master and the Server-SDO of a   *)
(* remote node, both from the Lely stack, over a CAN bus that may lose a   *)
(* frame (a full receive ring, a bus-off) but keeps the order of the rest. *)
(* Timers run on their own: a timeout may fire although the answer is      *)
(* already on its way. The node may be reset, the client may be stopped,   *)
(* and a transfer may be aborted by the application at any point.          *)
(*                                                                         *)
(* The variables req, issued, done, window and harm are history: they      *)
(* record what was asked for, what took effect and what disturbed the      *)
(* pending request, and no step of the code depends on them.               *)
(***************************************************************************)
EXTENDS Csdo, Ssdo, FiniteSets

CONSTANTS NoReq,
          Requests,     \* the requests the application makes:
                        \* [kind, idx, size, pst], or [kind, items] for a DCF
          MaxRequests,  \* requests per behaviour
          MaxFaults,    \* frames lost, stops, resets, application aborts and
                        \* local writes per behaviour; timeouts are not counted
          InitialSize   \* the size of every object's first value

VARIABLES req, issued, done, window, harm, nreq, faults

hist == <<req, issued, done, window, harm>>
budget == <<nreq, faults>>
vars == <<csdo, con, ssdo, od, c2s, s2c, hist, budget>>

(* The objects a request names, there or not.                               *)
Requested == {r.idx : r \in {q \in Requests : q.kind # "dcf"}}
               \cup UNION {{q.items[k].idx : k \in 1..Len(q.items)} : q \in {p \in Requests : p.kind = "dcf"}}
Indices == Objects \cup {NoIdx} \cup Requested

Byte == Nat \X Nat
Item == [idx : Indices, data : Seq(Byte)]

(* No value is empty: master_sdo_request.c refuses an empty download, and a *)
(* block transfer of no data does not work in either direction.             *)
ASSUME SdoAssumption ==
  /\ CO_SDO_MAX_SEQNO \in 1..127 /\ CO_SSDO_MAX_SEQNO \in 1..CO_SDO_MAX_SEQNO
  /\ Writable \subseteq Objects /\ NoIdx \notin Objects
  /\ DOMAIN InitialSize = Objects /\ \A o \in Objects : InitialSize[o] \in Nat \ {0}
  /\ \A r \in Requests :
       \/ r.kind \in {"up", "blk_up"} /\ r.pst \in Nat
       \/ r.kind \in {"dn", "blk_dn"} /\ r.size \in Nat \ {0}
       \/ /\ r.kind = "dcf" /\ Len(r.items) \in Nat \ {0}
          /\ \A k \in 1..Len(r.items) : r.items[k].size \in Nat \ {0}
  /\ NoReq \notin [up : BOOLEAN, items : SUBSET Item, idx : Indices, quiet : BOOLEAN]
  /\ {MaxRequests, MaxFaults} \subseteq Nat

(* The bytes of a data set: each one knows the set it belongs to and its    *)
(* place in it, so that a mixture of two sets, a gap or a swap shows.       *)
Bytes(tag, size) == [i \in 1..size |-> <<tag, i>>]

LocalValue == Bytes(2, 4)

(* The items of a request: one, or one per entry of a DCF. The request's    *)
(* number tells its data from every other request's.                        *)
ItemsOf(r) ==
  IF r.kind = "dcf"
  THEN [k \in 1..Len(r.items) |-> [idx  |-> r.items[k].idx,
                                   data |-> Bytes(10 * (nreq + 1) + k, r.items[k].size)]]
  ELSE <<[idx |-> r.idx, data |-> Bytes(10 * (nreq + 1), r.size)]>>

IsUp(r) == r.kind \in {"up", "blk_up"}

Init ==
  /\ csdo = CsdoInit /\ con = NoCon
  /\ \E t \in BOOLEAN : ssdo = [SsdoInit EXCEPT !.timeout = t]
  /\ od = [o \in Objects |-> Bytes(1, InitialSize[o])]
  /\ c2s = <<>> /\ s2c = <<>>
  /\ req = NoReq /\ issued = {} /\ done = {} /\ window = {} /\ harm = FALSE
  /\ nreq = 0 /\ faults = 0

(***************************************************************************)
(* History                                                                 *)
(***************************************************************************)
(* A step that may end the pending request: the client confirms it.         *)
EndRequest ==
  /\ req' = IF csdo'.pending THEN req ELSE NoReq
  /\ window' = IF csdo'.pending THEN window ELSE {}

(* A step that may write an object: a requested item has taken effect, and  *)
(* a pending upload of the object may now return the new value.             *)
Effect ==
  LET new == {item \in issued \ done : item.idx \in Objects /\ od'[item.idx] = item.data}
  IN  /\ done' = IF od' # od THEN done \cup new ELSE done
      /\ window' = IF req # NoReq /\ req.up /\ req.idx \in Objects
                   THEN window \cup {od'[req.idx]} ELSE window

Quiet == c2s = <<>> /\ s2c = <<>>

(***************************************************************************)
(* Steps                                                                   *)
(***************************************************************************)
(* The application submits a request (co_csdo_dn_req and its siblings).     *)
Submit(r) ==
  LET items == ItemsOf(r)
  IN  /\ nreq < MaxRequests /\ nreq' = nreq + 1
      /\ CASE r.kind = "dn"     -> co_csdo_dn_req(items[1])
           [] r.kind = "up"     -> co_csdo_up_req(r.idx)
           [] r.kind = "blk_dn" -> co_csdo_blk_dn_req(items[1])
           [] r.kind = "blk_up" -> co_csdo_blk_up_req(r.idx, r.pst)
           [] r.kind = "dcf"    -> co_csdo_dn_dcf_req(items)
      /\ LET dn == IF IsUp(r) THEN {} ELSE {items[k] : k \in DOMAIN items}
         IN  /\ req' = [up |-> IsUp(r), items |-> dn, idx |-> items[1].idx, quiet |-> Quiet]
             /\ issued' = issued \cup dn
      /\ window' = IF IsUp(r) /\ r.idx \in Objects THEN {od[r.idx]} ELSE {}
      /\ harm' = ~(Quiet /\ ssdo.state = "wait")
      /\ UNCHANGED <<ssdo, od, s2c, done, faults>>

ClientRecv ==
  /\ co_csdo_recv
  /\ EndRequest
  /\ UNCHANGED <<ssdo, od, issued, done, harm, budget>>

ServerRecv ==
  /\ co_ssdo_recv
  /\ Effect
  /\ UNCHANGED <<csdo, con, req, issued, harm, budget>>

ClientTimeout ==
  /\ co_csdo_timer
  /\ EndRequest
  /\ harm' = TRUE
  /\ UNCHANGED <<ssdo, od, s2c, issued, done, budget>>

ServerTimeout ==
  /\ co_ssdo_timer
  /\ harm' = TRUE
  /\ UNCHANGED <<csdo, con, od, c2s, req, issued, done, window, budget>>

Fault == faults < MaxFaults /\ faults' = faults + 1

Drop(q, i) == SubSeq(q, 1, i - 1) \o SubSeq(q, i + 1, Len(q))

LoseRequest ==
  /\ Fault /\ harm' = TRUE
  /\ \E i \in 1..Len(c2s) : c2s' = Drop(c2s, i)
  /\ UNCHANGED <<csdo, con, ssdo, od, s2c, req, issued, done, window, nreq>>

LoseResponse ==
  /\ Fault /\ harm' = TRUE
  /\ \E i \in 1..Len(s2c) : s2c' = Drop(s2c, i)
  /\ UNCHANGED <<csdo, con, ssdo, od, c2s, req, issued, done, window, nreq>>

(* The application cancels (co_csdo_abort_req) or the service goes away.    *)
ClientAbort ==
  /\ Fault /\ harm' = TRUE
  /\ co_csdo_abort_req("NO_SDO")
  /\ EndRequest
  /\ UNCHANGED <<ssdo, od, s2c, issued, done, nreq>>

ClientStop ==
  /\ Fault /\ harm' = TRUE
  /\ co_csdo_stop
  /\ EndRequest
  /\ UNCHANGED <<ssdo, od, s2c, issued, done, nreq>>

ClientStart ==
  /\ co_csdo_start
  /\ UNCHANGED <<ssdo, od, s2c, hist, budget>>

(* The remote node resets its communication: the server stops and starts.   *)
ServerStop ==
  /\ Fault /\ harm' = TRUE
  /\ co_ssdo_stop
  /\ UNCHANGED <<csdo, con, od, c2s, req, issued, done, window, nreq>>

ServerStart ==
  /\ co_ssdo_start
  /\ UNCHANGED <<csdo, con, od, c2s, s2c, hist, budget>>

ServerTimeoutOff ==
  /\ ssdo.timeout
  /\ co_ssdo_set_timeout(FALSE)
  /\ UNCHANGED <<csdo, con, od, c2s, s2c, hist, budget>>

(* The application of the remote node updates an object.                    *)
LocalWrite ==
  /\ Fault
  /\ \E o \in Writable : od' = [od EXCEPT ![o] = LocalValue]
  /\ Effect
  /\ UNCHANGED <<csdo, con, ssdo, c2s, s2c, req, issued, harm, nreq>>

Next ==
  \/ \E r \in Requests : Submit(r)
  \/ ClientRecv \/ ServerRecv \/ ClientTimeout \/ ServerTimeout
  \/ LoseRequest \/ LoseResponse
  \/ ClientAbort \/ ClientStop \/ ClientStart
  \/ ServerStop \/ ServerStart \/ ServerTimeoutOff \/ LocalWrite

(* The CAN timer of a pending request fires unless it is stopped first; the *)
(* event loop delivers the frames that arrive; a stopped service is started *)
(* again.                                                                   *)
Fairness ==
  /\ WF_vars(ClientTimeout)
  /\ WF_vars(ClientRecv) /\ WF_vars(ServerRecv)
  /\ WF_vars(ClientStart) /\ WF_vars(ServerStart)

Spec == Init /\ [][Next]_vars /\ Fairness

(***************************************************************************)
(* Properties                                                              *)
(***************************************************************************)
Service == INSTANCE SdoService WITH
  od <- od, req <- req, issued <- issued, done <- done, window <- window, con <- con

(* The channel is what its user takes it for: whole values only, a download *)
(* confirmed with success has taken effect, an upload returns a value the   *)
(* object had while it was pending (co_csdo_abort_on_leave confirms). It    *)
(* says so of a channel with one fault: when the abort of one segmented     *)
(* download and the initiation of the next are both lost, the server takes  *)
(* the first segment of the second for a repetition, and mixes the two.     *)
Implements == Service!Spec

AccessErrors == {"NO_OBJ", "NO_WRITE"}

(* A request that nothing disturbed is confirmed with success, unless the   *)
(* object refuses it, and while it is pending a frame is on its way: the    *)
(* two state machines agree on every toggle bit, sequence number, size and  *)
(* CRC of every transfer mode, and never wait for each other.               *)
UndisturbedSucceeds ==
  ~harm => /\ (req = NoReq /\ con.ac # "NONE") => con.ac \in {"OK"} \cup AccessErrors
           /\ req # NoReq => ~Quiet

(* The timer of either end runs only in a state that has a timer handler;   *)
(* elsewhere co_csdo_emit_time and co_ssdo_emit_time call a null pointer.   *)
TimerHasHandler ==
  /\ csdo.timer => csdo.state \notin {"wait", "stopped"}
  /\ ssdo.timer => ssdo.state \notin {"wait", "stopped"}

(* Every accepted request is confirmed, whatever is lost: the client's      *)
(* timer runs from the request to the confirmation.                         *)
RequestConfirmed == (req # NoReq) ~> (req = NoReq)

=============================================================================

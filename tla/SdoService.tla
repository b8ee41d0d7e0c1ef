----------------------------- MODULE SdoService -----------------------------
(***************************************************************************)
(* What an SDO channel promises its user, without frames, segments, blocks *)
(* or timers: reads and writes of whole objects.                           *)
(*                                                                         *)
(*   - the value of an object changes only to the complete data of a       *)
(*     download that was requested and has not taken effect yet, or by the *)
(*     server's own application;                                           *)
(*   - a download confirmed with success has taken effect, all of it;      *)
(*   - an upload confirmed with success returns a value the object had     *)
(*     while the request was pending.                                      *)
(*                                                                         *)
(* The last two hold for a request that was submitted on a quiet channel.  *)
(* SDO frames carry no transfer number, so an answer to an abandoned       *)
(* transfer of the same object that is still on its way can be taken for   *)
(* the answer to the next one.                                             *)
(***************************************************************************)
EXTENDS Sequences

CONSTANTS NoReq,      \* no request is pending
          LocalValue  \* what the server's application writes

VARIABLES od,      \* the value of every object
          req,     \* the pending request [up, items, idx, quiet], or NoReq
          issued,  \* the items [idx, data] of the downloads requested so far
          done,    \* those that took effect
          window,  \* the values the object of a pending upload has had
          con      \* the last confirmation [ac, data]

vars == <<od, req, issued, done, window, con>>

Init == /\ req = NoReq
        /\ issued = {} /\ done = {} /\ window = {}

(* A new request: of a download its items, of an upload the object to read. *)
Request ==
  /\ req = NoReq /\ req' # NoReq
  /\ issued \cap req'.items = {}
  /\ issued' = issued \cup req'.items
  /\ window' = IF req'.up /\ req'.idx \in DOMAIN od THEN {od[req'.idx]} ELSE {}
  /\ UNCHANGED <<od, done, con>>

Write(i, v) ==
  /\ od' = [od EXCEPT ![i] = v]
  /\ window' = IF req # NoReq /\ req.up /\ req.idx = i THEN window \cup {v} ELSE window
  /\ UNCHANGED <<req, issued, con>>

(* A requested download takes effect, perhaps after it was abandoned.       *)
Serve ==
  \E item \in {i \in issued \ done : i.idx \in DOMAIN od} :
    /\ Write(item.idx, item.data)
    /\ done' = done \cup {item}

LocalWrite ==
  \E i \in DOMAIN od : Write(i, LocalValue) /\ UNCHANGED done

Confirm ==
  /\ req # NoReq /\ req' = NoReq
  /\ (req.quiet /\ con'.ac = "OK") =>
       IF req.up THEN con'.data \in window ELSE req.items \subseteq done
  /\ window' = {}
  /\ UNCHANGED <<od, issued, done>>

Next == Request \/ Serve \/ LocalWrite \/ Confirm

Spec == Init /\ [][Next]_vars
=============================================================================

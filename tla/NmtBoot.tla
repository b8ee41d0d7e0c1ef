------------------------------ MODULE NmtBoot ------------------------------
(***************************************************************************)
(* The 'boot slave' service of the Lely stack (co/nmt_boot.c): the checks  *)
(* the NMT master makes of one slave before it may be started.             *)
(*                                                                         *)
(* A boot is a record: state, the SDO or configuration request it waits    *)
(* for (pend), the error status es, the NMT state st the slave last        *)
(* reported, the retries left, whether its CAN timer and receiver are      *)
(* active, and whether the boot time of object 1F89 is over (late). Every  *)
(* operator takes a boot and returns its successor; "done" is the error    *)
(* state, which confirms the boot and ends it. c is what the object        *)
(* dictionary says of the slave: the bits of its assignment (1F81), the    *)
(* identity objects that are to be checked, whether it produces a          *)
(* heartbeat the master consumes (1016), whether a boot time is set, and   *)
(* od, which of these it holds: a configuration date and time (1F26,       *)
(* 1F27), the software identification (1F55) and the program (1F58) of the *)
(* slave, and a concise DCF to send to it (1F22).                          *)
(***************************************************************************)
EXTENDS Integers, Sequences

CONSTANT SDO_RETRY   \* LELY_CO_NMT_BOOT_SDO_RETRY

NoBoot == [state |-> "none", pend |-> "none", es |-> "0", st |-> "none",
           retry |-> 0, timer |-> FALSE, recv |-> FALSE, late |-> FALSE]

(* __co_nmt_boot_init: the boot time starts now.                            *)
co_nmt_boot_create == [NoBoot EXCEPT !.state = "wait"]

(* Fault: the boot time is not looked at.                                   *)
AbortKeepsTrying(b, c) ==
  LET retry == b.es = "B"
  IN  [b EXCEPT !.es = IF b.es = "0" /\ b.st = "op" THEN "L" ELSE b.es, !.pend = "none",
                !.recv = FALSE, !.timer = retry, !.state = IF retry THEN "wait" ELSE "done"]

(* co_nmt_boot_abort_on_enter: a slave that does not answer (status B) is   *)
(* tried again, a mandatory one until the boot time is over.                *)
co_nmt_boot_abort_on_enter(b, c) ==
  LET es    == IF b.es = "0" /\ b.st = "op" THEN "L" ELSE b.es
      retry == es = "B" /\ ~("mandatory" \in c.assign /\ c.boottime /\ b.late)
  IN  [b EXCEPT !.es = es, !.pend = "none", !.recv = FALSE, !.timer = retry,
                !.state = IF retry THEN "wait" ELSE "done"]

co_nmt_boot_up(b, state) == [b EXCEPT !.state = state, !.pend = "up"]
co_nmt_boot_dn(b, state) == [b EXCEPT !.state = state, !.pend = "dn"]

(* The first request of a state that simulates a timeout, and the ones it   *)
(* makes after real timeouts.                                               *)
FirstTry(b) == [b EXCEPT !.retry = SDO_RETRY]

co_nmt_boot_ec_on_enter(b, c) ==
  IF c.heartbeat
  THEN [b EXCEPT !.state = "ec", !.pend = "none", !.es = "K", !.recv = TRUE, !.timer = TRUE]
  ELSE co_nmt_boot_abort_on_enter([b EXCEPT !.es = "0"], c)

(* The configuration is a service of its own, which the boot waits for.     *)
(* With nothing to send it ends at once: the port answers the application's *)
(* stage of an automatic configuration in lely_rtt_master_cfg_ind.          *)
co_nmt_boot_up_cfg_on_enter(b, c) ==
  IF "stored" \in c.od THEN [b EXCEPT !.state = "up_cfg", !.es = "J", !.pend = "cfg"]
                       ELSE co_nmt_boot_ec_on_enter([b EXCEPT !.es = "J"], c)

co_nmt_boot_chk_cfg_date_on_enter(b, c) ==
  IF "cfgdate" \in c.od THEN FirstTry(co_nmt_boot_up([b EXCEPT !.es = "J"], "chk_cfg_date"))
                        ELSE co_nmt_boot_up_cfg_on_enter(b, c)

co_nmt_boot_chk_sw_on_enter(b, c) ==
  CASE "chksw" \notin c.assign -> co_nmt_boot_chk_cfg_date_on_enter(b, c)
    [] "chksw" \in c.assign /\ "sw_id" \notin c.od ->
         co_nmt_boot_abort_on_enter([b EXCEPT !.es = "G"], c)
    [] OTHER -> FirstTry(co_nmt_boot_up([b EXCEPT !.es = "G"], "chk_sw"))

(* A slave to be kept alive is only reset when it is not operational.       *)
co_nmt_boot_chk_node_on_enter(b, c) ==
  IF "keep" \in c.assign
  THEN [b EXCEPT !.state = "chk_node", !.pend = "none", !.recv = TRUE, !.timer = TRUE,
                 !.es = IF c.heartbeat THEN "E" ELSE "F"]
  ELSE co_nmt_boot_chk_sw_on_enter(b, c)

(* Vendor-ID, product code, revision and serial number, each checked only   *)
(* when an expected value is configured. k is the first one to look at.     *)
Identity == <<"D", "M", "N", "O">>

EnterIdentity(b, c, k) ==
  LET rest == {i \in k..4 : Identity[i] \in c.identity}
  IN  IF rest = {} THEN co_nmt_boot_chk_node_on_enter(b, c)
      ELSE LET i == CHOOSE i \in rest : \A j \in rest : i <= j
           IN  co_nmt_boot_up([b EXCEPT !.es = Identity[i]], "chk_identity")

co_nmt_boot_chk_device_type_on_enter(b) ==
  FirstTry(co_nmt_boot_up([b EXCEPT !.es = "B"], "chk_device_type"))

(* co_nmt_boot_wait_on_time: the request itself, and every new attempt.     *)
co_nmt_boot_wait_on_time(b, c) ==
  LET n == [b EXCEPT !.st = "none", !.es = "0", !.timer = FALSE]
  IN  CASE "listed" \notin c.assign -> co_nmt_boot_abort_on_enter([n EXCEPT !.es = "A"], c)
        [] "listed" \in c.assign /\ "boot" \notin c.assign -> co_nmt_boot_ec_on_enter(n, c)
        [] OTHER -> co_nmt_boot_chk_device_type_on_enter(n)

(* States in which the CAN timer has a handler.                             *)
OnTimeStates == {"wait", "chk_node", "reset_comm", "wait_flash", "wait_prog", "ec"}

co_nmt_boot_emit_time(b, c) ==
  LET f == [b EXCEPT !.timer = FALSE]
  IN  CASE b.state = "wait" -> co_nmt_boot_wait_on_time(f, c)
        [] b.state = "wait_flash" -> co_nmt_boot_up(f, "wait_flash")
        [] b.state = "wait_prog" -> FirstTry(co_nmt_boot_up(f, "wait_prog"))
        [] b.state \in {"chk_node", "reset_comm", "ec"} -> co_nmt_boot_abort_on_enter(f, c)

(***************************************************************************)
(* A heartbeat of the slave reaches the boot service. A boot-up message    *)
(* does not: the master's own receiver for the slave comes first.          *)
(***************************************************************************)
co_nmt_boot_reset_comm_on_enter(b) ==
  [b EXCEPT !.state = "reset_comm", !.recv = TRUE, !.timer = TRUE]

co_nmt_boot_chk_node_on_recv(b, c, st) ==
  LET f == [b EXCEPT !.timer = FALSE, !.recv = FALSE]
  IN  IF st = "op" THEN co_nmt_boot_ec_on_enter([f EXCEPT !.st = st], c)
                   ELSE co_nmt_boot_reset_comm_on_enter([f EXCEPT !.st = "none"])

co_nmt_boot_reset_comm_on_recv(b, c) == co_nmt_boot_chk_sw_on_enter([b EXCEPT !.recv = FALSE], c)

co_nmt_boot_ec_on_recv(b, c, st) == co_nmt_boot_abort_on_enter([b EXCEPT !.st = st, !.es = "0"], c)

co_nmt_boot_emit_recv(b, c, st) ==
  CASE b.state = "chk_node"   -> co_nmt_boot_chk_node_on_recv(b, c, st)
    [] b.state = "reset_comm" -> co_nmt_boot_reset_comm_on_recv(b, c)
    [] b.state = "ec"         -> co_nmt_boot_ec_on_recv(b, c, st)

(***************************************************************************)
(* The result of an SDO upload: the value is the expected one ("match") or *)
(* another one ("differ"), the transfer was aborted or timed out; a flash  *)
(* status may also be not valid yet ("busy"), and the first download after *)
(* an upload may find no memory for its value ("nomem"), the only way a    *)
(* request of the boot's own, idle client is refused. In the states that   *)
(* ask again after a timeout, Retried comes first.                         *)
(***************************************************************************)
Retried(b, res) == res = "timeout" /\ b.retry > 0
Again(b) == [b EXCEPT !.retry = @ - 1]
Ended(b) == [b EXCEPT !.pend = "none"]

co_nmt_boot_chk_device_type_on_up_con(b, c, res) ==
  CASE Retried(b, res) -> Again(b)
    [] res = "match"   -> EnterIdentity([Ended(b) EXCEPT !.recv = FALSE], c, 1)
    [] OTHER -> co_nmt_boot_abort_on_enter(
                  [Ended(b) EXCEPT !.es = IF res = "differ" THEN "C" ELSE @], c)

IdentityOnUpCon(b, c, res) ==
  IF res = "match" THEN EnterIdentity(Ended(b), c, 1 + CHOOSE i \in 1..4 : Identity[i] = b.es)
                   ELSE co_nmt_boot_abort_on_enter(Ended(b), c)

co_nmt_boot_chk_sw_on_up_con(b, c, res) ==
  LET update == "update" \in c.assign /\ "keep" \notin c.assign
  IN  CASE Retried(b, res) -> Again(b)
        [] res = "match"   -> co_nmt_boot_chk_cfg_date_on_enter(Ended(b), c)
        [] res = "differ" /\ update  -> co_nmt_boot_up([b EXCEPT !.es = "I"], "stop_prog")
        [] res = "differ" /\ ~update -> co_nmt_boot_abort_on_enter([Ended(b) EXCEPT !.es = "H"], c)
        [] OTHER -> co_nmt_boot_abort_on_enter(Ended(b), c)

co_nmt_boot_stop_prog_on_up_con(b, c, res) ==   \* "match": it is stopped already
  CASE res = "nomem" -> co_nmt_boot_abort_on_enter(Ended(b), c)
    [] res = "match" -> FirstTry(co_nmt_boot_dn(b, "clear_prog"))
    [] OTHER         -> co_nmt_boot_dn(b, "stop_prog")

co_nmt_boot_wait_flash_on_up_con(b, c, res) ==   \* "match": no error, "differ": an error code
  CASE res = "match"  -> co_nmt_boot_up(b, "chk_prog")
    [] res = "differ" -> co_nmt_boot_abort_on_enter(Ended(b), c)
    [] OTHER          -> [Ended(b) EXCEPT !.timer = TRUE]

co_nmt_boot_chk_prog_on_up_con(b, c, res) ==
  IF res = "match" THEN co_nmt_boot_dn(b, "start_prog") ELSE co_nmt_boot_abort_on_enter(Ended(b), c)

co_nmt_boot_wait_prog_on_up_con(b, c, res) ==
  CASE Retried(b, res) -> Again(b)
    [] res = "match"   -> co_nmt_boot_chk_device_type_on_enter(Ended(b))
    [] res = "differ"  -> [Ended(b) EXCEPT !.timer = TRUE]
    [] OTHER           -> co_nmt_boot_abort_on_enter(Ended(b), c)

co_nmt_boot_chk_cfg_date_on_up_con(b, c, res) ==
  CASE Retried(b, res) -> Again(b)
    [] res = "match"   -> co_nmt_boot_up(b, "chk_cfg_time")
    [] OTHER           -> co_nmt_boot_up_cfg_on_enter(b, c)

co_nmt_boot_chk_cfg_time_on_up_con(b, c, res) ==
  IF res = "match" THEN co_nmt_boot_ec_on_enter(b, c) ELSE co_nmt_boot_up_cfg_on_enter(b, c)

co_nmt_boot_up_con(b, c, res) ==
  CASE b.state = "chk_device_type" -> co_nmt_boot_chk_device_type_on_up_con(b, c, res)
    [] b.state = "chk_identity"    -> IdentityOnUpCon(b, c, res)
    [] b.state = "chk_sw"          -> co_nmt_boot_chk_sw_on_up_con(b, c, res)
    [] b.state = "stop_prog"       -> co_nmt_boot_stop_prog_on_up_con(b, c, res)
    [] b.state = "wait_flash"      -> co_nmt_boot_wait_flash_on_up_con(b, c, res)
    [] b.state = "chk_prog"        -> co_nmt_boot_chk_prog_on_up_con(b, c, res)
    [] b.state = "wait_prog"       -> co_nmt_boot_wait_prog_on_up_con(b, c, res)
    [] b.state = "chk_cfg_date"    -> co_nmt_boot_chk_cfg_date_on_up_con(b, c, res)
    [] b.state = "chk_cfg_time"    -> co_nmt_boot_chk_cfg_time_on_up_con(b, c, res)

(***************************************************************************)
(* The result of an SDO download of the software update. Stopping and      *)
(* starting the program may go unanswered; a block transfer that fails is  *)
(* tried again segmented.                                                  *)
(***************************************************************************)
co_nmt_boot_stop_prog_on_dn_con(b, c, res) ==
  IF res = "abort" THEN co_nmt_boot_abort_on_enter(Ended(b), c)
                   ELSE FirstTry(co_nmt_boot_dn(b, "clear_prog"))

co_nmt_boot_clear_prog_on_dn_con(b, c, res) ==
  CASE Retried(b, res) -> Again(b)
    [] res = "ok" /\ "program" \in c.od -> FirstTry(co_nmt_boot_dn(b, "blk_dn_prog"))
    [] OTHER           -> co_nmt_boot_abort_on_enter(Ended(b), c)

WaitFlash(b) == [Ended(b) EXCEPT !.state = "wait_flash", !.timer = TRUE]

co_nmt_boot_blk_dn_prog_on_dn_con(b, res) ==
  CASE Retried(b, res) -> Again(b)
    [] res = "ok"      -> WaitFlash(b)
    [] OTHER           -> FirstTry(co_nmt_boot_dn(b, "dn_prog"))

co_nmt_boot_dn_prog_on_dn_con(b, c, res) ==
  CASE Retried(b, res) -> Again(b)
    [] res = "ok"      -> WaitFlash(b)
    [] OTHER           -> co_nmt_boot_abort_on_enter(Ended(b), c)

co_nmt_boot_start_prog_on_dn_con(b, c, res) ==
  IF res = "abort" THEN co_nmt_boot_abort_on_enter(Ended(b), c)
                   ELSE [Ended(b) EXCEPT !.state = "wait_prog", !.timer = TRUE]

co_nmt_boot_dn_con(b, c, res) ==
  CASE b.state = "stop_prog"   -> co_nmt_boot_stop_prog_on_dn_con(b, c, res)
    [] b.state = "clear_prog"  -> co_nmt_boot_clear_prog_on_dn_con(b, c, res)
    [] b.state = "blk_dn_prog" -> co_nmt_boot_blk_dn_prog_on_dn_con(b, res)
    [] b.state = "dn_prog"     -> co_nmt_boot_dn_prog_on_dn_con(b, c, res)
    [] b.state = "start_prog"  -> co_nmt_boot_start_prog_on_dn_con(b, c, res)

co_nmt_boot_cfg_con(b, c, res) ==
  IF res = "ok" THEN co_nmt_boot_ec_on_enter(b, c) ELSE co_nmt_boot_abort_on_enter(Ended(b), c)
=============================================================================

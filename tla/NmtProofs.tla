----------------------------- MODULE NmtProofs ------------------------------
(***************************************************************************)
(* Proofs about NmtMaster for every number of slaves and every object      *)
(* dictionary: the master starts no slave whose boot failed, and does not  *)
(* become operational by itself before the mandatory slaves have booted.   *)
(*                                                                         *)
(* The handlers of the boot service are shown to keep a boot sound, the    *)
(* operations of the master to keep what they may promise of its verdicts  *)
(* and of the commands sent so far, and the loop of co_nmt_slaves_boot to  *)
(* keep it for the slaves it has passed.                                   *)
(***************************************************************************)
EXTENDS NmtMaster, WellFoundedInduction, TLAPS

-----------------------------------------------------------------------------
(* The boot service                                                        *)

Status    == {"0", "A", "B", "C", "D", "E", "F", "G", "H", "I", "J", "K", "L", "M", "N", "O"}
NodeState == {"none", "preop", "op", "stopped"}

UpStates   == {"chk_device_type", "chk_identity", "chk_sw", "stop_prog", "wait_flash", "chk_prog",
               "wait_prog", "chk_cfg_date", "chk_cfg_time"}
DnStates   == {"stop_prog", "clear_prog", "blk_dn_prog", "dn_prog", "start_prog"}
RecvStates == {"chk_node", "reset_comm", "ec"}
BootStates == UpStates \cup DnStates \cup RecvStates \cup {"wait", "up_cfg", "done"}

BootRecord == [state : BootStates, pend : {"none", "up", "dn", "cfg"}, es : Status,
               st : NodeState, retry : Nat, timer : BOOLEAN, recv : BOOLEAN, late : BOOLEAN]

\* A boot waits for a request, or listens, only in a state that handles the answer.
SoundBoot(b) ==
  /\ b \in BootRecord
  /\ b.pend = "up"  => b.state \in UpStates
  /\ b.pend = "dn"  => b.state \in DnStates
  /\ b.pend = "cfg" => b.state = "up_cfg"
  /\ b.recv => b.state \in RecvStates
  /\ b.state = "chk_identity" => b.es \in {"D", "M", "N", "O"}

\* The same, and the answer has arrived: what the states enter with.
Entering(b) == b \in BootRecord /\ ~b.recv

LEMMA AbortSound ==
    ASSUME NEW b \in BootRecord, NEW c
    PROVE  SoundBoot(co_nmt_boot_abort_on_enter(b, c))
BY ZenonT(60) DEF SoundBoot, BootRecord, BootStates, Status, co_nmt_boot_abort_on_enter

LEMMA EcSound ==
    ASSUME NEW b \in BootRecord, NEW c
    PROVE  SoundBoot(co_nmt_boot_ec_on_enter(b, c))
<1>1. [b EXCEPT !.es = "0"] \in BootRecord
  BY DEF BootRecord, Status
<1>2. SoundBoot(co_nmt_boot_abort_on_enter([b EXCEPT !.es = "0"], c))
  BY <1>1, AbortSound
<1>3. SoundBoot([b EXCEPT !.state = "ec", !.pend = "none", !.es = "K", !.recv = TRUE, !.timer = TRUE])
  BY DEF SoundBoot, BootRecord, BootStates, RecvStates, Status
<1>4. QED
  BY <1>2, <1>3 DEF co_nmt_boot_ec_on_enter

LEMMA UpCfgSound ==
    ASSUME NEW b, Entering(b), NEW c
    PROVE  SoundBoot(co_nmt_boot_up_cfg_on_enter(b, c))
<1>1. SoundBoot([b EXCEPT !.state = "up_cfg", !.es = "J", !.pend = "cfg"])
  BY DEF Entering, SoundBoot, BootRecord, BootStates, Status
<1>2. [b EXCEPT !.es = "J"] \in BootRecord
  BY DEF Entering, BootRecord, Status
<1>3. QED
  BY <1>1, <1>2, EcSound DEF co_nmt_boot_up_cfg_on_enter

LEMMA UpSound ==
    ASSUME NEW b, Entering(b), NEW state \in UpStates,
           state = "chk_identity" => b.es \in {"D", "M", "N", "O"}
    PROVE  SoundBoot(co_nmt_boot_up(b, state)) /\ SoundBoot(FirstTry(co_nmt_boot_up(b, state)))
BY NmtAssumption
   DEF Entering, SoundBoot, BootRecord, BootStates, UpStates, co_nmt_boot_up, FirstTry

LEMMA DnSound ==
    ASSUME NEW b, Entering(b), NEW state \in DnStates
    PROVE  SoundBoot(co_nmt_boot_dn(b, state)) /\ SoundBoot(FirstTry(co_nmt_boot_dn(b, state)))
BY NmtAssumption
   DEF Entering, SoundBoot, BootRecord, BootStates, DnStates, co_nmt_boot_dn, FirstTry

\* What a handler has changed before it enters the next state.
LEMMA EnteringWith ==
    ASSUME NEW b, Entering(b)
    PROVE  /\ b \in BootRecord
           /\ \A es \in Status : Entering([b EXCEPT !.es = es]) /\ [b EXCEPT !.es = es].es = es
           /\ Entering(Ended(b)) /\ Entering([b EXCEPT !.timer = FALSE])
           /\ Entering([Ended(b) EXCEPT !.recv = FALSE])
           /\ \A es \in Status : [Ended(b) EXCEPT !.es = es] \in BootRecord
           /\ [Ended(b) EXCEPT !.es = @] \in BootRecord
BY DEF Entering, BootRecord, Ended

LEMMA CfgDateSound ==
    ASSUME NEW b, Entering(b), NEW c
    PROVE  SoundBoot(co_nmt_boot_chk_cfg_date_on_enter(b, c))
<1>1. Entering([b EXCEPT !.es = "J"])
  BY EnteringWith DEF Status
<1>2. SoundBoot(FirstTry(co_nmt_boot_up([b EXCEPT !.es = "J"], "chk_cfg_date")))
  BY <1>1, UpSound DEF UpStates
<1>3. QED
  BY <1>2, UpCfgSound DEF co_nmt_boot_chk_cfg_date_on_enter

LEMMA ChkSwSound ==
    ASSUME NEW b, Entering(b), NEW c
    PROVE  SoundBoot(co_nmt_boot_chk_sw_on_enter(b, c))
<1>1. Entering([b EXCEPT !.es = "G"])
  BY EnteringWith DEF Status
<1>2. SoundBoot(FirstTry(co_nmt_boot_up([b EXCEPT !.es = "G"], "chk_sw")))
  BY <1>1, UpSound DEF UpStates
<1>3. SoundBoot(co_nmt_boot_abort_on_enter([b EXCEPT !.es = "G"], c))
  BY <1>1, AbortSound DEF Entering
<1>4. QED
  BY <1>2, <1>3, CfgDateSound DEF co_nmt_boot_chk_sw_on_enter

LEMMA ChkNodeSound ==
    ASSUME NEW b, Entering(b), NEW c
    PROVE  SoundBoot(co_nmt_boot_chk_node_on_enter(b, c))
<1>1. SoundBoot([b EXCEPT !.state = "chk_node", !.pend = "none", !.recv = TRUE, !.timer = TRUE,
                          !.es = IF c.heartbeat THEN "E" ELSE "F"])
  BY DEF Entering, SoundBoot, BootRecord, BootStates, RecvStates, Status
<1>2. QED
  BY <1>1, ChkSwSound DEF co_nmt_boot_chk_node_on_enter

\* The least identity object that is still to be checked.
LEMMA IdentitySound ==
    ASSUME NEW b, Entering(b), NEW c, NEW k \in 1 .. 5
    PROVE  SoundBoot(EnterIdentity(b, c, k))
<1> DEFINE rest == {i \in k .. 4 : Identity[i] \in c.identity}
<1>1. CASE rest = {}
  BY <1>1, ChkNodeSound DEF EnterIdentity
<1>2. CASE rest # {}
  <2> DEFINE i == CHOOSE i \in rest : \A j \in rest : i <= j
  <2>1. rest \subseteq 1 .. 4
    OBVIOUS
  <2>2. \E x \in rest : \A j \in rest : x <= j
    <3> HIDE DEF rest
    <3>1. CASE 1 \in rest
      BY <2>1, <3>1
    <3>2. CASE 1 \notin rest /\ 2 \in rest
      BY <2>1, <3>2
    <3>3. CASE 1 \notin rest /\ 2 \notin rest /\ 3 \in rest
      BY <2>1, <3>3
    <3>4. CASE 1 \notin rest /\ 2 \notin rest /\ 3 \notin rest
      <4>1. \A x \in rest : x = 4
        BY <2>1, <3>4
      <4>2. QED
        BY <1>2, <4>1
    <3>5. QED
      BY <3>1, <3>2, <3>3, <3>4
  <2>3. i \in 1 .. 4
    <3> HIDE DEF rest
    <3>1. QED
      BY <2>1, <2>2
  <2> HIDE DEF i
  <2>4. Identity[i] \in {"D", "M", "N", "O"} /\ Identity[i] \in Status
    BY <2>3 DEF Identity, Status
  <2>5. /\ Entering([b EXCEPT !.es = Identity[i]])
        /\ [b EXCEPT !.es = Identity[i]].es = Identity[i]
    BY <2>4, EnteringWith
  <2>6. SoundBoot(co_nmt_boot_up([b EXCEPT !.es = Identity[i]], "chk_identity"))
    BY <2>4, <2>5, UpSound DEF UpStates
  <2>7. QED
    BY <1>2, <2>6 DEF EnterIdentity, i
<1>3. QED
  BY <1>1, <1>2

LEMMA DeviceTypeSound ==
    ASSUME NEW b, Entering(b)
    PROVE  /\ SoundBoot(co_nmt_boot_chk_device_type_on_enter(b))
           /\ co_nmt_boot_chk_device_type_on_enter(b).state # "done"
<1>1. Entering([b EXCEPT !.es = "B"])
  BY EnteringWith DEF Status
<1>2. SoundBoot(co_nmt_boot_chk_device_type_on_enter(b))
  BY <1>1, UpSound DEF UpStates, co_nmt_boot_chk_device_type_on_enter
<1>3. co_nmt_boot_chk_device_type_on_enter(b).state = "chk_device_type"
  BY DEF Entering, BootRecord, co_nmt_boot_chk_device_type_on_enter, co_nmt_boot_up, FirstTry
<1>4. QED
  BY <1>2, <1>3

\* An attempt that ends at once is of a slave that is not listed, or of one that
\* is neither to be booted nor watched, which counts as booted.
LEMMA WaitSound ==
    ASSUME NEW b, Entering(b), NEW c
    PROVE  LET w == co_nmt_boot_wait_on_time(b, c)
           IN  /\ SoundBoot(w)
               /\ w.state = "done" => \/ "listed" \notin c.assign
                                      \/ "boot" \notin c.assign /\ ~c.heartbeat /\ w.es = "0"
<1> DEFINE n == [b EXCEPT !.st = "none", !.es = "0", !.timer = FALSE]
<1>1. Entering(n) /\ n \in BootRecord /\ n.st = "none" /\ n.es = "0"
  BY DEF Entering, BootRecord, NodeState, Status
<1>2. CASE "listed" \notin c.assign
  <2>1. [n EXCEPT !.es = "A"] \in BootRecord
    BY <1>1 DEF BootRecord, Status
  <2>2. QED
    BY <1>2, <2>1, AbortSound DEF co_nmt_boot_wait_on_time
<1>3. CASE "listed" \in c.assign /\ "boot" \notin c.assign
  <2>1. co_nmt_boot_wait_on_time(b, c) = co_nmt_boot_ec_on_enter(n, c)
    BY <1>3 DEF co_nmt_boot_wait_on_time
  <2>2. SoundBoot(co_nmt_boot_ec_on_enter(n, c))
    BY <1>1, EcSound
  <2> HIDE DEF n
  <2>3. c.heartbeat => co_nmt_boot_ec_on_enter(n, c).state = "ec"
    BY <1>1 DEF co_nmt_boot_ec_on_enter, BootRecord
  <2>4. ~c.heartbeat => co_nmt_boot_ec_on_enter(n, c).es = "0"
    BY <1>1 DEF co_nmt_boot_ec_on_enter, co_nmt_boot_abort_on_enter, BootRecord
  <2>5. QED
    BY <1>3, <2>1, <2>2, <2>3, <2>4
<1>4. CASE "listed" \in c.assign /\ "boot" \in c.assign
  <2>1. co_nmt_boot_wait_on_time(b, c) = co_nmt_boot_chk_device_type_on_enter(n)
    BY <1>4 DEF co_nmt_boot_wait_on_time
  <2>2. QED
    BY <1>1, <2>1, DeviceTypeSound
<1>5. QED
  BY <1>2, <1>3, <1>4

\* The CAN timer, in a state that has a handler for it.
LEMMA EmitTimeSound ==
    ASSUME NEW b, SoundBoot(b), NEW c, b.state \in OnTimeStates
    PROVE  SoundBoot(co_nmt_boot_emit_time(b, c))
<1> DEFINE f == [b EXCEPT !.timer = FALSE]
<1>1. f \in BootRecord /\ f.recv = b.recv /\ b \in BootRecord
  BY DEF SoundBoot, BootRecord
<1>2. b.state \notin RecvStates => Entering(f)
  BY <1>1 DEF SoundBoot, Entering
<1> HIDE DEF f
<1>3. CASE b.state = "wait"
  <2>1. SoundBoot(co_nmt_boot_wait_on_time(f, c))
    BY <1>2, <1>3, WaitSound DEF RecvStates
  <2>2. QED
    BY <1>3, <2>1 DEF co_nmt_boot_emit_time, f
<1>4. CASE b.state = "wait_flash"
  <2>1. SoundBoot(co_nmt_boot_up(f, "wait_flash"))
    BY <1>2, <1>4, UpSound DEF RecvStates, UpStates
  <2>2. QED
    BY <1>4, <2>1 DEF co_nmt_boot_emit_time, f
<1>5. CASE b.state = "wait_prog"
  <2>1. SoundBoot(FirstTry(co_nmt_boot_up(f, "wait_prog")))
    BY <1>2, <1>5, UpSound DEF RecvStates, UpStates
  <2>2. QED
    BY <1>5, <2>1 DEF co_nmt_boot_emit_time, f
<1>6. CASE b.state \in {"chk_node", "reset_comm", "ec"}
  <2>1. SoundBoot(co_nmt_boot_abort_on_enter(f, c))
    BY <1>1, AbortSound
  <2>2. QED
    BY <1>6, <2>1 DEF co_nmt_boot_emit_time, f
<1>7. QED
  BY <1>3, <1>4, <1>5, <1>6 DEF OnTimeStates

\* A heartbeat, while the boot listens.
LEMMA EmitRecvSound ==
    ASSUME NEW b, SoundBoot(b), b.recv, NEW c, NEW st \in NodeState
    PROVE  SoundBoot(co_nmt_boot_emit_recv(b, c, st))
<1>1. b \in BootRecord /\ b.state \in RecvStates
  BY DEF SoundBoot
<1>2. CASE b.state = "chk_node"
  <2> DEFINE f == [b EXCEPT !.timer = FALSE, !.recv = FALSE]
  <2>1. [f EXCEPT !.st = st] \in BootRecord
    BY <1>1 DEF BootRecord
  <2>2. SoundBoot(co_nmt_boot_reset_comm_on_enter([f EXCEPT !.st = "none"]))
    BY <1>1, <1>2 DEF SoundBoot, BootRecord, BootStates, RecvStates, UpStates, DnStates, NodeState,
                co_nmt_boot_reset_comm_on_enter
  <2>3. SoundBoot(co_nmt_boot_ec_on_enter([f EXCEPT !.st = st], c))
    BY <2>1, EcSound
  <2>4. QED
    BY <1>2, <2>2, <2>3 DEF co_nmt_boot_emit_recv, co_nmt_boot_chk_node_on_recv
<1>3. CASE b.state = "reset_comm"
  <2>1. Entering([b EXCEPT !.recv = FALSE])
    BY <1>1 DEF Entering, BootRecord
  <2>2. SoundBoot(co_nmt_boot_chk_sw_on_enter([b EXCEPT !.recv = FALSE], c))
    BY <2>1, ChkSwSound
  <2>3. QED
    BY <1>3, <2>2 DEF co_nmt_boot_emit_recv, co_nmt_boot_reset_comm_on_recv
<1>4. CASE b.state = "ec"
  <2>1. [b EXCEPT !.st = st, !.es = "0"] \in BootRecord
    BY <1>1 DEF BootRecord, Status
  <2>2. SoundBoot(co_nmt_boot_abort_on_enter([b EXCEPT !.st = st, !.es = "0"], c))
    BY <2>1, AbortSound
  <2>3. QED
    BY <1>4, <2>2 DEF co_nmt_boot_emit_recv, co_nmt_boot_ec_on_recv
<1>5. QED
  BY <1>1, <1>2, <1>3, <1>4 DEF RecvStates

\* A request that timed out is made again.
LEMMA AgainSound ==
    ASSUME NEW b, SoundBoot(b), NEW res, Retried(b, res)
    PROVE  SoundBoot(Again(b))
<1>1. b \in BootRecord /\ b.retry \in Nat /\ b.retry > 0
  BY DEF SoundBoot, BootRecord, Retried
<1>2. b.retry - 1 \in Nat
  BY <1>1
<1>3. Again(b) \in BootRecord
  BY <1>1, <1>2 DEF Again, BootRecord
<1>4. /\ Again(b).pend = b.pend /\ Again(b).state = b.state /\ Again(b).recv = b.recv
      /\ Again(b).es = b.es
  BY <1>1 DEF Again, BootRecord
<1>5. QED
  BY <1>3, <1>4 DEF SoundBoot

\* A boot that waits with its timer for a slave that is not ready.
LEMMA TimedSound ==
    ASSUME NEW b, Entering(b), NEW state \in {"wait_flash", "wait_prog"}
    PROVE  SoundBoot([Ended(b) EXCEPT !.state = state, !.timer = TRUE])
BY DEF Entering, SoundBoot, BootRecord, BootStates, UpStates, Ended

LEMMA StaysSound ==
    ASSUME NEW b, SoundBoot(b), b.state \in {"wait_flash", "wait_prog"}
    PROVE  SoundBoot([Ended(b) EXCEPT !.timer = TRUE])
BY DEF SoundBoot, BootRecord, BootStates, UpStates, RecvStates, Ended

\* The confirmation of an SDO upload.
LEMMA UpConSound ==
    ASSUME NEW b, SoundBoot(b), b.pend = "up", NEW c, NEW res
    PROVE  SoundBoot(co_nmt_boot_up_con(b, c, res))
<1>1. b.state \in UpStates /\ b \in BootRecord
  BY DEF SoundBoot
<1>2. Entering(b)
  BY <1>1 DEF SoundBoot, Entering, UpStates, RecvStates
<1>3. Entering(Ended(b)) /\ Ended(b) \in BootRecord
  BY <1>2, EnteringWith DEF Entering
<1>4. SoundBoot(co_nmt_boot_abort_on_enter(Ended(b), c))
  BY <1>3, AbortSound
<1>5. Retried(b, res) => SoundBoot(Again(b))
  BY AgainSound
<1>6. CASE b.state = "chk_device_type"
  <2>1. SoundBoot(EnterIdentity([Ended(b) EXCEPT !.recv = FALSE], c, 1))
    <3>1. Entering([Ended(b) EXCEPT !.recv = FALSE])
      BY <1>2, EnteringWith
    <3>2. 1 \in 1 .. 5
      OBVIOUS
    <3>3. QED
      BY <3>1, <3>2, IdentitySound
  <2>2. SoundBoot(co_nmt_boot_abort_on_enter([Ended(b) EXCEPT !.es = IF res = "differ" THEN "C" ELSE @], c))
    <3>1. [Ended(b) EXCEPT !.es = IF res = "differ" THEN "C" ELSE @] \in BootRecord
      BY <1>3 DEF BootRecord, Status
    <3>2. QED
      BY <3>1, AbortSound
  <2>3. QED
    BY <1>5, <1>6, <2>1, <2>2 DEF co_nmt_boot_up_con, co_nmt_boot_chk_device_type_on_up_con
<1>7. CASE b.state = "chk_identity"
  <2> DEFINE k == CHOOSE i \in 1 .. 4 : Identity[i] = b.es
  <2>1. \E i \in 1 .. 4 : Identity[i] = b.es
    <3>1. b.es \in {"D", "M", "N", "O"}
      BY <1>7 DEF SoundBoot
    <3>2. Identity[1] = "D" /\ Identity[2] = "M" /\ Identity[3] = "N" /\ Identity[4] = "O"
      BY DEF Identity
    <3>3. QED
      BY <3>1, <3>2
  <2>2. k \in 1 .. 4
    BY <2>1
  <2> HIDE DEF k
  <2>3. 1 + k \in 1 .. 5
    BY <2>2
  <2>4. SoundBoot(EnterIdentity(Ended(b), c, 1 + k))
    BY <1>3, <2>3, IdentitySound
  <2>5. QED
    BY <1>4, <1>7, <2>4 DEF co_nmt_boot_up_con, IdentityOnUpCon, k
<1>8. CASE b.state = "chk_sw"
  <2>1. SoundBoot(co_nmt_boot_chk_cfg_date_on_enter(Ended(b), c))
    BY <1>3, CfgDateSound
  <2>2. SoundBoot(co_nmt_boot_up([b EXCEPT !.es = "I"], "stop_prog"))
    BY <1>2, EnteringWith, UpSound DEF UpStates, Status
  <2>3. SoundBoot(co_nmt_boot_abort_on_enter([Ended(b) EXCEPT !.es = "H"], c))
    BY <1>2, EnteringWith, AbortSound DEF Status
  <2>4. QED
    BY <1>4, <1>5, <1>8, <2>1, <2>2, <2>3 DEF co_nmt_boot_up_con, co_nmt_boot_chk_sw_on_up_con
<1>9. CASE b.state = "stop_prog"
  <2>1. SoundBoot(FirstTry(co_nmt_boot_dn(b, "clear_prog"))) /\ SoundBoot(co_nmt_boot_dn(b, "stop_prog"))
    BY <1>2, DnSound DEF DnStates
  <2>2. QED
    BY <1>4, <1>9, <2>1 DEF co_nmt_boot_up_con, co_nmt_boot_stop_prog_on_up_con
<1>10. CASE b.state = "wait_flash"
  <2>1. SoundBoot(co_nmt_boot_up(b, "chk_prog"))
    BY <1>2, UpSound DEF UpStates
  <2>2. SoundBoot([Ended(b) EXCEPT !.timer = TRUE])
    BY <1>10, StaysSound
  <2>3. QED
    BY <1>4, <1>10, <2>1, <2>2 DEF co_nmt_boot_up_con, co_nmt_boot_wait_flash_on_up_con
<1>11. CASE b.state = "chk_prog"
  <2>1. SoundBoot(co_nmt_boot_dn(b, "start_prog"))
    BY <1>2, DnSound DEF DnStates
  <2>2. QED
    BY <1>4, <1>11, <2>1 DEF co_nmt_boot_up_con, co_nmt_boot_chk_prog_on_up_con
<1>12. CASE b.state = "wait_prog"
  <2>1. SoundBoot(co_nmt_boot_chk_device_type_on_enter(Ended(b)))
    BY <1>3, DeviceTypeSound
  <2>2. SoundBoot([Ended(b) EXCEPT !.timer = TRUE])
    BY <1>12, StaysSound
  <2>3. QED
    BY <1>4, <1>5, <1>12, <2>1, <2>2 DEF co_nmt_boot_up_con, co_nmt_boot_wait_prog_on_up_con
<1>13. CASE b.state = "chk_cfg_date"
  <2>1. SoundBoot(co_nmt_boot_up(b, "chk_cfg_time"))
    BY <1>2, UpSound DEF UpStates
  <2>2. QED
    BY <1>2, <1>5, <1>13, <2>1, UpCfgSound
       DEF co_nmt_boot_up_con, co_nmt_boot_chk_cfg_date_on_up_con
<1>14. CASE b.state = "chk_cfg_time"
  BY <1>1, <1>2, <1>14, EcSound, UpCfgSound
     DEF co_nmt_boot_up_con, co_nmt_boot_chk_cfg_time_on_up_con
<1>15. QED
  BY <1>1, <1>6, <1>7, <1>8, <1>9, <1>10, <1>11, <1>12, <1>13, <1>14 DEF UpStates

\* The confirmation of an SDO download.
LEMMA DnConSound ==
    ASSUME NEW b, SoundBoot(b), b.pend = "dn", NEW c, NEW res
    PROVE  SoundBoot(co_nmt_boot_dn_con(b, c, res))
<1>1. b.state \in DnStates /\ b \in BootRecord
  BY DEF SoundBoot
<1>2. Entering(b)
  BY <1>1 DEF SoundBoot, Entering, DnStates, RecvStates
<1>3. SoundBoot(co_nmt_boot_abort_on_enter(Ended(b), c))
  BY <1>2, EnteringWith, AbortSound DEF Entering
<1>4. Retried(b, res) => SoundBoot(Again(b))
  BY AgainSound
<1>5. SoundBoot(WaitFlash(b))
  BY <1>2, TimedSound DEF WaitFlash
<1>6. CASE b.state = "stop_prog"
  <2>1. SoundBoot(FirstTry(co_nmt_boot_dn(b, "clear_prog")))
    BY <1>2, DnSound DEF DnStates
  <2>2. QED
    BY <1>3, <1>6, <2>1 DEF co_nmt_boot_dn_con, co_nmt_boot_stop_prog_on_dn_con
<1>7. CASE b.state = "clear_prog"
  <2>1. SoundBoot(FirstTry(co_nmt_boot_dn(b, "blk_dn_prog")))
    BY <1>2, DnSound DEF DnStates
  <2>2. QED
    BY <1>3, <1>4, <1>7, <2>1 DEF co_nmt_boot_dn_con, co_nmt_boot_clear_prog_on_dn_con
<1>8. CASE b.state = "blk_dn_prog"
  <2>1. SoundBoot(FirstTry(co_nmt_boot_dn(b, "dn_prog")))
    BY <1>2, DnSound DEF DnStates
  <2>2. QED
    BY <1>4, <1>5, <1>8, <2>1 DEF co_nmt_boot_dn_con, co_nmt_boot_blk_dn_prog_on_dn_con
<1>9. CASE b.state = "dn_prog"
  BY <1>3, <1>4, <1>5, <1>9 DEF co_nmt_boot_dn_con, co_nmt_boot_dn_prog_on_dn_con
<1>10. CASE b.state = "start_prog"
  <2>1. SoundBoot([Ended(b) EXCEPT !.state = "wait_prog", !.timer = TRUE])
    BY <1>2, TimedSound
  <2>2. QED
    BY <1>3, <1>10, <2>1 DEF co_nmt_boot_dn_con, co_nmt_boot_start_prog_on_dn_con
<1>11. QED
  BY <1>1, <1>6, <1>7, <1>8, <1>9, <1>10 DEF DnStates

\* The end of the slave's configuration.
LEMMA CfgConSound ==
    ASSUME NEW b, SoundBoot(b), b.pend = "cfg", NEW c, NEW res
    PROVE  SoundBoot(co_nmt_boot_cfg_con(b, c, res))
<1>1. b \in BootRecord /\ Ended(b) \in BootRecord
  BY DEF SoundBoot, BootRecord, Ended
<1>2. QED
  BY <1>1, EcSound, AbortSound DEF co_nmt_boot_cfg_con

-----------------------------------------------------------------------------
(* The master                                                              *)

Cs        == {"start", "stop", "preop", "reset_node", "reset_comm"}
Consumer  == [on : BOOLEAN, timer : BOOLEAN, state : {"resolved", "occurred"}]
Verdict   == [booted : BOOLEAN, es : Status, est : NodeState]
Frame     == [cs : Cs, to : Nodes \cup {All}, by : {"master", "user"}]

MasterRecord ==
  [st : {"init", "preop", "start", "stop"}, reset : BOOLEAN, halt : BOOLEAN, auto : BOOLEAN,
   out : Seq(Frame), crashed : BOOLEAN, hb : [Nodes -> Consumer], slave : [Nodes -> Verdict],
   boot : [Nodes -> BootRecord \cup {NoBoot}]]

\* Slave n has booted without error; the boots under way are sound.
Done(s, n) == s.slave[n].booted /\ Good(s.slave[n].es)
SoundBoots(s) ==
  \A n \in Nodes : s.boot[n] = NoBoot \/ (SoundBoot(s.boot[n]) /\ s.boot[n].state # "done")

\* The commands sent so far: no start command of the master's own, or only such
\* to slaves that booted.
Starts(f) == f.cs = "start" /\ f.by = "master"
StartFree(s) == \A i \in 1 .. Len(s.out) : ~Starts(s.out[i])
OutSound(s) ==
  \A i \in 1 .. Len(s.out) : Starts(s.out[i]) =>
    \A n \in Nodes : s.out[i].to = n \/ (s.out[i].to = All /\ Listed(n)) => Listed(n) /\ Done(s, n)

\* While the startup procedure is not halted, every mandatory slave up to k is
\* being booted or has booted.
Passed(s, k) ==
  s.st = "preop" /\ ~s.halt => \A n \in 1 .. k : Mandatory(n) => s.boot[n] # NoBoot \/ Done(s, n)

\* The mandatory slaves that the startup procedure waits for, all of them up to k
\* when the master became operational by itself.
Awaited(n) == Mandatory(n) /\ ~(\E k \in 1 .. (n - 1) : AtOnce(k))
Decided(s, k) ==
  s.auto => \A n \in Nodes : Awaited(n) => n <= k /\ Done(s, n) /\ s.boot[n] = NoBoot

Sound(s, k) == s \in MasterRecord /\ SoundBoots(s) /\ OutSound(s) /\ Passed(s, k) /\ Decided(s, k)

NmtInv ==
  /\ cfg \in Configs
  /\ ec \in [Nodes -> {"none", "bootup", "preop", "op", "stopped"}]
  /\ Sound(m, NumNodes)

\* The master r differs from s in what it sent, what it expects of the slaves, its
\* heartbeat consumers and its own state.
Same(s, r) ==
  /\ r \in MasterRecord /\ r.boot = s.boot /\ r.halt = s.halt
  /\ \A n \in Nodes : r.slave[n].booted = s.slave[n].booted /\ r.slave[n].es = s.slave[n].es

LEMMA NodesNat == NumNodes \in Nat /\ Nodes = 1 .. NumNodes /\ All \notin Nodes
BY NmtAssumption DEF Nodes, All

LEMMA NoBootApart == NoBoot \notin BootRecord /\ \A b : SoundBoot(b) => b # NoBoot
BY DEF NoBoot, BootRecord, BootStates, UpStates, DnStates, RecvStates, SoundBoot

LEMMA SameTrans ==
    ASSUME NEW s, NEW r, NEW q, Same(s, r), Same(r, q)
    PROVE  Same(s, q)
BY DEF Same

LEMMA SameDone ==
    ASSUME NEW s, NEW r, Same(s, r)
    PROVE  /\ \A n \in Nodes : Done(r, n) <=> Done(s, n)
           /\ SoundBoots(s) => SoundBoots(r)
BY DEF Same, Done, SoundBoots

LEMMA SendSame ==
    ASSUME NEW s \in MasterRecord, NEW cs \in Cs, NEW t \in Nodes \cup {All},
           NEW by \in {"master", "user"}
    PROVE  LET r == SendAs(s, cs, t, by)
           IN  /\ Same(s, r) /\ r.st = s.st /\ r.reset = s.reset /\ r.auto = s.auto
               /\ r.out = Append(s.out, [cs |-> cs, to |-> t, by |-> by])
<1> DEFINE f == [cs |-> cs, to |-> t, by |-> by]
<1> DEFINE v == [n \in Nodes |->
                   IF t \in {All, n} /\ s.slave[n].est # "none"
                   THEN [s.slave[n] EXCEPT !.est = CommandState(cs)] ELSE s.slave[n]]
<1>1. f \in Frame
  BY DEF Frame
<1>2. Append(s.out, f) \in Seq(Frame)
  <2>1. s.out \in Seq(Frame)
    BY DEF MasterRecord
  <2> HIDE DEF f
  <2>2. QED
    BY <1>1, <2>1
<1>3. CommandState(cs) \in NodeState
  BY DEF CommandState, Cs, NodeState
<1>4. ASSUME NEW n \in Nodes
      PROVE  /\ v[n] \in Verdict /\ v[n].booted = s.slave[n].booted /\ v[n].es = s.slave[n].es
  <2>1. s.slave[n] \in Verdict
    BY DEF MasterRecord
  <2>2. /\ [s.slave[n] EXCEPT !.est = CommandState(cs)] \in Verdict
        /\ [s.slave[n] EXCEPT !.est = CommandState(cs)].booted = s.slave[n].booted
        /\ [s.slave[n] EXCEPT !.est = CommandState(cs)].es = s.slave[n].es
    BY <1>3, <2>1 DEF Verdict
  <2>3. v[n] = IF t \in {All, n} /\ s.slave[n].est # "none"
               THEN [s.slave[n] EXCEPT !.est = CommandState(cs)] ELSE s.slave[n]
    OBVIOUS
  <2> HIDE DEF v
  <2>4. QED
    BY <2>1, <2>2, <2>3
<1>5. v \in [Nodes -> Verdict]
  <2>1. v = [n \in Nodes |-> v[n]]
    OBVIOUS
  <2> HIDE DEF v
  <2>2. QED
    BY <1>4, <2>1
<1>6. SendAs(s, cs, t, by) = [s EXCEPT !.out = Append(s.out, f), !.slave = v]
  BY DEF SendAs
<1> HIDE DEF f, v
<1>7. [s EXCEPT !.out = Append(s.out, f), !.slave = v] \in MasterRecord
  BY <1>2, <1>5 DEF MasterRecord
<1>8. LET r == [s EXCEPT !.out = Append(s.out, f), !.slave = v]
      IN  /\ r.slave = v /\ r.boot = s.boot /\ r.halt = s.halt
          /\ r.st = s.st /\ r.reset = s.reset /\ r.auto = s.auto /\ r.out = Append(s.out, f)
  BY DEF MasterRecord
<1>9. QED
  BY <1>4, <1>6, <1>7, <1>8 DEF Same, f

\* The sends of the master's own accord.
LEMMA ReqSound ==
    ASSUME NEW s \in MasterRecord, NEW cs \in Cs, NEW t \in Nodes \cup {All},
           cs = "start" => \A n \in Nodes : t = n \/ (t = All /\ Listed(n)) => Listed(n) /\ Done(s, n)
    PROVE  LET r == co_nmt_cs_req(s, cs, t)
           IN  /\ Same(s, r) /\ r.st = s.st /\ r.reset = s.reset /\ r.auto = s.auto
               /\ OutSound(s) => OutSound(r)
               /\ cs # "start" /\ StartFree(s) => StartFree(r)
<1> DEFINE f == [cs |-> cs, to |-> t, by |-> "master"]
<1> DEFINE r == co_nmt_cs_req(s, cs, t)
<1>1. /\ Same(s, r) /\ r.st = s.st /\ r.reset = s.reset /\ r.auto = s.auto
      /\ r.out = Append(s.out, f)
  BY SendSame DEF co_nmt_cs_req
<1>2. s.out \in Seq(Frame) /\ f \in Frame
  BY DEF MasterRecord, Frame
<1>3. f.cs = cs /\ f.to = t
  OBVIOUS
<1> HIDE DEF f, r
<1>4. /\ Len(r.out) = Len(s.out) + 1 /\ Len(s.out) \in Nat
      /\ \A i \in 1 .. Len(s.out) + 1 : r.out[i] = IF i = Len(s.out) + 1 THEN f ELSE s.out[i]
  BY <1>1, <1>2
<1>5. \A n \in Nodes : Done(r, n) <=> Done(s, n)
  BY <1>1, SameDone
<1>6. ASSUME NEW i \in 1 .. Len(r.out)
      PROVE  (i \in 1 .. Len(s.out) /\ r.out[i] = s.out[i]) \/ r.out[i] = f
  BY <1>4
<1>7. OutSound(s) => OutSound(r)
  BY <1>3, <1>5, <1>6 DEF OutSound, Starts
<1>8. cs # "start" /\ StartFree(s) => StartFree(r)
  BY <1>3, <1>6 DEF StartFree, Starts
<1>9. QED
  BY <1>1, <1>7, <1>8 DEF r

-----------------------------------------------------------------------------
(* The loops over the node-IDs                                             *)

LEMMA Least ==
    ASSUME NEW T, T \subseteq Nat, T # {}
    PROVE  \E x \in T : \A y \in T : x <= y
<1> DEFINE R == OpToRel(<, Nat)
<1>1. IsWellFoundedOn(R, Nat)
  BY NatLessThanWellFounded
<1>2. PICK x \in T : \A y \in T : ~(<<y, x>> \in R)
  <2> HIDE DEF R
  <2>1. QED
    BY <1>1, WFMin
<1>3. \A y \in T : ~(y < x)
  BY <1>2 DEF OpToRel
<1>4. QED
  BY <1>3

\* What the loops do for slave k, and the states they go through up to n.
Turn(t, boots, cs, S, k) ==
  IF boots THEN IF Mandatory(k) \/ Keep(k) THEN co_nmt_boot_req(t, k) ELSE t
           ELSE IF k \in S THEN co_nmt_cs_req(t, cs, k) ELSE t
Turns(g, s, boots, cs, S, n) ==
  g = [i \in 0 .. n |-> IF i = 0 THEN s ELSE Turn(g[i - 1], boots, cs, S, i)]

LEMMA TurnsExist ==
    ASSUME NEW s, NEW boots, NEW cs, NEW S
    PROVE  \A n \in Nat : \E g : Turns(g, s, boots, cs, S, n)
<1> DEFINE Go(t, k) == Turn(t, boots, cs, S, k)
<1> DEFINE T == {n \in Nat : ~(\E g : Turns(g, s, boots, cs, S, n))}
<1>1. SUFFICES ASSUME T # {} PROVE FALSE
  OBVIOUS
<1>2. PICK n \in T : \A y \in T : n <= y
  BY <1>1, Least
<1>3. n # 0
  <2>1. Turns([i \in 0 .. 0 |-> s], s, boots, cs, S, 0)
    BY DEF Turns
  <2>2. QED
    BY <2>1
<1>4. n - 1 \in Nat /\ n - 1 \notin T
  BY <1>2, <1>3
<1>5. PICK g : Turns(g, s, boots, cs, S, n - 1)
  BY <1>4
<1> DEFINE h == [i \in 0 .. n |-> IF i = n THEN Go(g[n - 1], n) ELSE g[i]]
<1>6. Turns(h, s, boots, cs, S, n)
  <2>1. \A i \in 0 .. n : h[i] = IF i = 0 THEN s ELSE Go(h[i - 1], i)
    <3> SUFFICES ASSUME NEW i \in 0 .. n PROVE h[i] = IF i = 0 THEN s ELSE Go(h[i - 1], i)
      OBVIOUS
    <3>1. CASE i = n
      <4>1. n - 1 \in 0 .. n /\ n - 1 # n
        BY <1>3
      <4>2. h[n - 1] = g[n - 1]
        BY <4>1
      <4>3. h[n] = Go(g[n - 1], n)
        OBVIOUS
      <4>4. QED
        BY <1>3, <3>1, <4>2, <4>3
    <3>2. CASE i # n
      <4>1. i \in 0 .. n - 1 /\ h[i] = g[i]
        BY <3>2
      <4>2. g[i] = IF i = 0 THEN s ELSE Go(g[i - 1], i)
        BY <1>5, <4>1 DEF Turns
      <4>3. i # 0 => h[i - 1] = g[i - 1]
        BY <3>2
      <4>4. QED
        BY <4>1, <4>2, <4>3
    <3>3. QED
      BY <3>1, <3>2
  <2> HIDE DEF h
  <2>2. h = [i \in 0 .. n |-> h[i]]
    BY DEF h
  <2>3. QED
    BY <2>1, <2>2 DEF Turns
<1>7. QED
  BY <1>2, <1>6

\* The states of a loop, as the recursive definitions give them.
LEMMA SendEachTurns ==
    ASSUME NEW s, NEW cs, NEW S
    PROVE  \E g : /\ g[0] = s /\ SendEach(s, cs, S) = g[NumNodes]
                  /\ \A k \in Nodes : g[k] = IF k \in S THEN co_nmt_cs_req(g[k - 1], cs, k) ELSE g[k - 1]
<1> DEFINE g == CHOOSE g : Turns(g, s, FALSE, cs, S, NumNodes)
<1>1. Turns(g, s, FALSE, cs, S, NumNodes)
  BY NodesNat, TurnsExist
<1>2. SendEach(s, cs, S) = g[NumNodes]
  BY DEF SendEach, Turns, Turn
<1> HIDE DEF g
<1>3. g[0] = s
  BY <1>1, NodesNat DEF Turns
<1>4. ASSUME NEW k \in Nodes
      PROVE  g[k] = IF k \in S THEN co_nmt_cs_req(g[k - 1], cs, k) ELSE g[k - 1]
  BY <1>1, NodesNat DEF Turns, Turn
<1>5. QED
  BY <1>2, <1>3, <1>4

LEMMA SlavesBootTurns ==
    ASSUME NEW s
    PROVE  \E g : /\ g[0] = s /\ co_nmt_slaves_boot(s) = g[NumNodes]
                  /\ \A k \in Nodes : g[k] = IF Mandatory(k) \/ Keep(k) THEN co_nmt_boot_req(g[k - 1], k)
                                                                       ELSE g[k - 1]
<1> DEFINE g == CHOOSE g : Turns(g, s, TRUE, "none", {}, NumNodes)
<1>1. Turns(g, s, TRUE, "none", {}, NumNodes)
  BY NodesNat, TurnsExist
<1>2. co_nmt_slaves_boot(s) = g[NumNodes]
  BY DEF co_nmt_slaves_boot, Turns, Turn
<1> HIDE DEF g
<1>3. g[0] = s
  BY <1>1, NodesNat DEF Turns
<1>4. ASSUME NEW k \in Nodes
      PROVE  g[k] = IF Mandatory(k) \/ Keep(k) THEN co_nmt_boot_req(g[k - 1], k) ELSE g[k - 1]
  BY <1>1, NodesNat DEF Turns, Turn
<1>5. QED
  BY <1>2, <1>3, <1>4

LEMMA SameRefl == \A s \in MasterRecord : Same(s, s)
BY DEF Same

LEMMA SendEachSound ==
    ASSUME NEW s \in MasterRecord, NEW cs \in Cs, NEW S \in SUBSET Nodes,
           cs = "start" => \A n \in S : Listed(n) /\ Done(s, n)
    PROVE  LET r == SendEach(s, cs, S)
           IN  /\ Same(s, r) /\ r.st = s.st /\ r.reset = s.reset /\ r.auto = s.auto
               /\ OutSound(s) => OutSound(r)
               /\ cs # "start" /\ StartFree(s) => StartFree(r)
<1> DEFINE Kept(r) == /\ Same(s, r) /\ r.st = s.st /\ r.reset = s.reset /\ r.auto = s.auto
                      /\ OutSound(s) => OutSound(r)
                      /\ cs # "start" /\ StartFree(s) => StartFree(r)
<1>1. PICK g : /\ g[0] = s /\ SendEach(s, cs, S) = g[NumNodes]
               /\ \A k \in Nodes : g[k] = IF k \in S THEN co_nmt_cs_req(g[k - 1], cs, k) ELSE g[k - 1]
  BY SendEachTurns
<1>2. Kept(g[0])
  BY <1>1, SameRefl
<1>3. ASSUME NEW k \in Nodes, Kept(g[k - 1])
      PROVE  Kept(g[k])
  <2>1. CASE k \notin S
    BY <1>1, <1>3, <2>1
  <2>2. CASE k \in S
    <3> DEFINE q == g[k - 1]
    <3>1. g[k] = co_nmt_cs_req(q, cs, k)
      BY <1>1, <2>2
    <3>2. q \in MasterRecord /\ \A n \in Nodes : Done(q, n) <=> Done(s, n)
      BY <1>3, SameDone DEF Same
    <3>3. cs = "start" => \A n \in Nodes : k = n \/ (k = All /\ Listed(n)) => Listed(n) /\ Done(q, n)
      BY <2>2, <3>2, NodesNat
    <3> HIDE DEF q
    <3>4. LET r == co_nmt_cs_req(q, cs, k)
          IN  /\ Same(q, r) /\ r.st = q.st /\ r.reset = q.reset /\ r.auto = q.auto
              /\ OutSound(q) => OutSound(r)
              /\ cs # "start" /\ StartFree(q) => StartFree(r)
      BY <3>2, <3>3, ReqSound
    <3>5. Same(s, q) /\ q.st = s.st /\ q.reset = s.reset /\ q.auto = s.auto
            /\ (OutSound(s) => OutSound(q)) /\ (cs # "start" /\ StartFree(s) => StartFree(q))
      BY <1>3 DEF q
    <3>6. Same(s, g[k])
      BY <3>1, <3>4, <3>5, SameTrans
    <3>7. QED
      BY <3>1, <3>4, <3>5, <3>6
  <2>3. QED
    BY <2>1, <2>2
<1> HIDE DEF Kept
<1>4. \A k \in 0 .. NumNodes : Kept(g[k])
  <2> DEFINE T == {k \in 0 .. NumNodes : ~Kept(g[k])}
  <2> SUFFICES ASSUME T # {} PROVE FALSE
    OBVIOUS
  <2>1. PICK k \in T : \A y \in T : k <= y
    <3>1. T \subseteq Nat
      BY NodesNat
    <3>2. QED
      BY <3>1, Least
  <2>2. k \in Nodes /\ k - 1 \in 0 .. NumNodes /\ k - 1 \notin T
    BY <1>2, <2>1, NodesNat
  <2>3. QED
    BY <1>3, <2>2
<1>5. Kept(SendEach(s, cs, S))
  BY <1>1, <1>4, NodesNat
<1>6. QED
  BY <1>5 DEF Kept

\* Entering the operational state.
LEMMA StartOnEnterSound ==
    ASSUME NEW s \in MasterRecord, OutSound(s)
    PROVE  LET r == co_nmt_start_on_enter(s)
           IN  Same(s, r) /\ r.st = "start" /\ r.reset = s.reset /\ r.auto = s.auto /\ OutSound(r)
<1> DEFINE e == [s EXCEPT !.st = "start"]
<1> DEFINE Ok(n) == e.slave[n].booted /\ Good(e.slave[n].es)
<1> DEFINE each == {n \in Nodes : MayStart(n) /\ Ok(n) /\ e.slave[n].est # "op"}
<1>1. /\ e \in MasterRecord /\ e.st = "start" /\ e.reset = s.reset /\ e.auto = s.auto
      /\ e.out = s.out /\ e.slave = s.slave /\ e.boot = s.boot /\ e.halt = s.halt
  BY DEF MasterRecord
<1>2. Same(s, e) /\ OutSound(e) /\ \A n : Ok(n) <=> Done(e, n)
  BY <1>1 DEF Same, OutSound, Done
<1>3. co_nmt_start_on_enter(s) =
        CASE "all" \notin cfg.startup \/ "nostart" \in cfg.startup -> e
          [] OTHER ->
               IF \A n \in Nodes : Listed(n) => Ok(n) /\ "boot" \notin cfg.slave[n].assign
               THEN co_nmt_cs_req(e, "start", All)
               ELSE SendEach(e, "start", each)
  BY DEF co_nmt_start_on_enter
<1>4. ASSUME \A n \in Nodes : Listed(n) => Ok(n) /\ "boot" \notin cfg.slave[n].assign
      PROVE  LET r == co_nmt_cs_req(e, "start", All)
             IN  Same(e, r) /\ r.st = e.st /\ r.reset = e.reset /\ r.auto = e.auto /\ OutSound(r)
  <2> HIDE DEF e, Ok
  <2>1. "start" \in Cs /\ All \in Nodes \cup {All}
    BY DEF Cs
  <2>2. \A n \in Nodes : All = n \/ (All = All /\ Listed(n)) => Listed(n) /\ Done(e, n)
    BY <1>2, <1>4, NodesNat
  <2>3. QED
    BY <1>1, <1>2, <2>1, <2>2, ReqSound
<1>5. LET r == SendEach(e, "start", each)
      IN  Same(e, r) /\ r.st = e.st /\ r.reset = e.reset /\ r.auto = e.auto /\ OutSound(r)
  <2>1. "start" \in Cs /\ each \in SUBSET Nodes
    BY DEF Cs
  <2>2. \A n \in each : Listed(n) /\ Done(e, n)
    BY <1>2 DEF MayStart, Listed
  <2> HIDE DEF e, each
  <2>3. QED
    BY <1>1, <1>2, <2>1, <2>2, SendEachSound
<1> HIDE DEF e, Ok, each
<1>6. QED
  BY <1>1, <1>2, <1>3, <1>4, <1>5, SameTrans

\* The end of the startup procedure: only now may the master become operational.
LEMMA StartupSlaveSound ==
    ASSUME NEW s \in MasterRecord, OutSound(s)
    PROVE  LET r == co_nmt_startup_slave(s)
           IN  /\ Same(s, r) /\ OutSound(r)
               /\ r.st = "start" \/ (r.st = s.st /\ r.auto = s.auto)
<1> DEFINE e == [s EXCEPT !.reset = FALSE]
<1> DEFINE o == co_nmt_start_on_enter(e)
<1> DEFINE r == [o EXCEPT !.auto = TRUE]
<1>1. /\ e \in MasterRecord /\ e.st = s.st /\ e.auto = s.auto
      /\ e.out = s.out /\ e.slave = s.slave /\ e.boot = s.boot /\ e.halt = s.halt
  BY DEF MasterRecord
<1>2. Same(s, e) /\ OutSound(e)
  BY <1>1 DEF Same, OutSound, Done
<1>3. co_nmt_startup_slave(s) = CASE ~s.reset -> s
                                  [] s.reset /\ "manual" \in cfg.startup -> e
                                  [] OTHER -> r
  BY DEF co_nmt_startup_slave
<1> HIDE DEF e
<1>4. Same(e, o) /\ o.st = "start" /\ OutSound(o) /\ o \in MasterRecord
  BY <1>1, <1>2, StartOnEnterSound DEF Same
<1> HIDE DEF o
<1>5. /\ r \in MasterRecord /\ r.st = o.st /\ r.out = o.out /\ r.slave = o.slave
      /\ r.boot = o.boot /\ r.halt = o.halt
  BY <1>4 DEF MasterRecord
<1>6. Same(o, r) /\ OutSound(r)
  BY <1>4, <1>5 DEF Same, OutSound, Done
<1> HIDE DEF r
<1>7. Same(s, r) /\ r.st = "start"
  BY <1>2, <1>4, <1>5, <1>6, SameTrans
<1>8. QED
  BY <1>1, <1>2, <1>3, <1>6, <1>7, SameRefl

-----------------------------------------------------------------------------
(* The end and the begin of a boot                                         *)

\* The verdict of slave id is open, among those up to k, and the master is not
\* operational by itself unless it did not wait for it.
Pending(s, id, k) ==
  /\ s \in MasterRecord /\ SoundBoots(s) /\ OutSound(s)
  /\ s.st = "preop" /\ ~s.halt =>
       \A n \in 1 .. k : n # id /\ Mandatory(n) => s.boot[n] # NoBoot \/ Done(s, n)
  /\ s.auto => \A n \in Nodes : Awaited(n) => n # id /\ n <= k /\ Done(s, n) /\ s.boot[n] = NoBoot

\* No slave beyond k is one that the startup procedure waits for.
NoneBeyond(k) == \A n \in Nodes : n > k => ~Awaited(n)

LEMMA PreopOnBootSound ==
    ASSUME NEW k \in 0 .. NumNodes, NEW id \in Nodes, id <= k, NEW s, Pending(s, id, k), NoneBeyond(k),
           s.st = "preop", s.boot[id] = NoBoot, s.slave[id].booted
    PROVE  LET r == co_nmt_preop_on_boot(s, id) IN Sound(r, k) /\ r.boot = s.boot
<1> DEFINE halt == s.halt \/ (Mandatory(id) /\ ~Good(s.slave[id].es))
<1> DEFINE h == [s EXCEPT !.halt = halt]
<1> DEFINE r == co_nmt_startup_slave(h)
<1>1. s \in MasterRecord /\ halt \in BOOLEAN
  BY DEF Pending
<1> HIDE DEF halt
<1>2. /\ h \in MasterRecord /\ h.st = s.st /\ h.auto = s.auto /\ h.halt = halt
      /\ h.out = s.out /\ h.slave = s.slave /\ h.boot = s.boot
  BY <1>1 DEF MasterRecord
<1>3. co_nmt_preop_on_boot(s, id) =
        IF h.halt \/ \E n \in Nodes : Mandatory(n) /\ h.boot[n] # NoBoot THEN h ELSE r
  BY DEF co_nmt_preop_on_boot, halt
<1> HIDE DEF h
<1>4. /\ SoundBoots(h) /\ OutSound(h) /\ \A n \in Nodes : Done(h, n) <=> Done(s, n)
  BY <1>2 DEF Pending, SoundBoots, OutSound, Done
<1>5. ~h.halt => \A n \in 1 .. k : Mandatory(n) => h.boot[n] # NoBoot \/ Done(h, n)
  <2> SUFFICES ASSUME ~h.halt, NEW n \in 1 .. k, Mandatory(n)
               PROVE  h.boot[n] # NoBoot \/ Done(h, n)
    OBVIOUS
  <2>1. n \in Nodes
    BY NodesNat
  <2>2. CASE n = id
    BY <1>2, <1>4, <2>1, <2>2 DEF halt, Done
  <2>3. CASE n # id
    BY <1>2, <1>4, <2>1, <2>3 DEF halt, Pending
  <2>4. QED
    BY <2>2, <2>3
<1>6. Decided(h, k)
  BY <1>2, <1>4 DEF Pending, Decided
<1>7. Sound(h, k)
  BY <1>2, <1>4, <1>5, <1>6 DEF Sound, Passed
<1>8. ASSUME ~h.halt, \A n \in Nodes : ~(Mandatory(n) /\ h.boot[n] # NoBoot)
      PROVE  Sound(r, k) /\ r.boot = h.boot
  <2>1. /\ Same(h, r) /\ OutSound(r)
        /\ r.st = "start" \/ (r.st = h.st /\ r.auto = h.auto)
    BY <1>2, <1>4, StartupSlaveSound
  <2> HIDE DEF r
  <2>2. /\ r \in MasterRecord /\ r.boot = h.boot /\ r.halt = h.halt /\ SoundBoots(r)
        /\ \A n \in Nodes : Done(r, n) <=> Done(h, n)
    BY <1>4, <2>1, SameDone DEF Same
  <2>3. Decided(r, k)
    <3> SUFFICES ASSUME NEW n \in Nodes, Awaited(n)
                 PROVE  n <= k /\ Done(r, n) /\ r.boot[n] = NoBoot
      BY DEF Decided
    <3>1. n <= k /\ Mandatory(n) /\ n \in 1 .. k
      BY NodesNat DEF NoneBeyond, Awaited
    <3>2. h.boot[n] = NoBoot
      BY <1>8, <3>1
    <3>3. Done(h, n)
      BY <1>5, <1>8, <3>1, <3>2
    <3>4. QED
      BY <2>2, <3>1, <3>2, <3>3
  <2>4. Passed(r, k)
    <3>1. \A n \in 1 .. k : n \in Nodes
      BY NodesNat
    <3>2. QED
      BY <1>5, <1>8, <2>2, <3>1 DEF Passed
  <2>5. QED
    BY <2>1, <2>2, <2>3, <2>4 DEF Sound
<1> HIDE DEF r
<1>9. QED
  BY <1>2, <1>3, <1>7, <1>8

LEMMA ConsumerTypes ==
    ASSUME cfg \in Configs
    PROVE  /\ \A id \in Nodes : co_nmt_hb_set_1016(cfg.slave[id].heartbeat) \in Consumer
           /\ co_nmt_hb_set_1016(FALSE) \in Consumer
           /\ \A hb \in Consumer : co_nmt_hb_set_st(hb) \in Consumer
           /\ co_nmt_hb_init \in [Nodes -> Consumer]
<1>1. \A id \in Nodes : cfg.slave[id].heartbeat \in BOOLEAN
  BY NmtAssumption
<1>2. \A id \in Nodes : co_nmt_hb_set_1016(cfg.slave[id].heartbeat) \in Consumer
  BY <1>1 DEF co_nmt_hb_set_1016, Consumer
<1>3. co_nmt_hb_set_1016(FALSE) \in Consumer
  BY DEF co_nmt_hb_set_1016, Consumer
<1>4. \A hb \in Consumer : co_nmt_hb_set_st(hb) \in Consumer
  BY DEF co_nmt_hb_set_st, Consumer
<1>5. QED
  BY <1>2, <1>3, <1>4 DEF co_nmt_hb_init

\* A change of a heartbeat consumer.
LEMMA HbSame ==
    ASSUME NEW s \in MasterRecord, NEW id \in Nodes, NEW hb \in Consumer
    PROVE  LET r == [s EXCEPT !.hb[id] = hb]
           IN  /\ Same(s, r) /\ r.st = s.st /\ r.reset = s.reset /\ r.auto = s.auto
               /\ r.out = s.out /\ r.slave = s.slave
               /\ OutSound(s) => OutSound(r)
<1> DEFINE r == [s EXCEPT !.hb[id] = hb]
<1>1. r = [s EXCEPT !.hb = [s.hb EXCEPT ![id] = hb]]
  OBVIOUS
<1>2. [s.hb EXCEPT ![id] = hb] \in [Nodes -> Consumer]
  BY DEF MasterRecord
<1>3. /\ r \in MasterRecord /\ r.st = s.st /\ r.reset = s.reset /\ r.auto = s.auto
      /\ r.out = s.out /\ r.slave = s.slave /\ r.boot = s.boot /\ r.halt = s.halt
  BY <1>1, <1>2 DEF MasterRecord
<1> HIDE DEF r
<1>4. Same(s, r) /\ (OutSound(s) => OutSound(r))
  BY <1>3 DEF Same, OutSound, Done
<1>5. QED
  BY <1>3, <1>4 DEF r

LEMMA PendingSame ==
    ASSUME NEW k \in 0 .. NumNodes, NEW id, NEW s, NEW r, Pending(s, id, k), Same(s, r),
           r.st = s.st, r.auto = s.auto, OutSound(r)
    PROVE  Pending(r, id, k)
<1>1. /\ r \in MasterRecord /\ r.boot = s.boot /\ r.halt = s.halt /\ SoundBoots(r)
      /\ \A n \in Nodes : Done(r, n) <=> Done(s, n)
  BY SameDone DEF Same, Pending
<1>2. \A n \in 1 .. k : n \in Nodes
  BY NodesNat
<1>3. QED
  BY <1>1, <1>2 DEF Pending

LEMMA BootConSound ==
    ASSUME cfg \in Configs, NEW k \in 0 .. NumNodes, NEW id \in Nodes, id <= k, NEW s,
           Pending(s, id, k), NoneBeyond(k), NEW b, SoundBoot(b), StartFree(s) \/ Good(b.es)
    PROVE  LET r == co_nmt_boot_con(s, id, b)
           IN  Sound(r, k) /\ \A n \in Nodes : n # id => r.boot[n] = s.boot[n]
<1> DEFINE est == IF b.st = "none" /\ Good(b.es) THEN "preop" ELSE b.st
<1> DEFINE v == [booted |-> TRUE, es |-> b.es, est |-> est]
<1> DEFINE hb == co_nmt_hb_set_1016(cfg.slave[id].heartbeat)
<1> DEFINE ended == [s EXCEPT !.slave[id] = v, !.boot[id] = NoBoot, !.hb[id] = hb]
<1> DEFINE starts == /\ b.es = "0" /\ MayStart(id) /\ "nostart" \notin cfg.startup
                     /\ "all" \notin cfg.startup \/ s.st = "start"
<1> DEFINE begun == IF starts THEN co_nmt_cs_req(ended, "start", id) ELSE ended
<1> DEFINE watched == IF Good(b.es) THEN [begun EXCEPT !.hb[id] = co_nmt_hb_set_st(@)] ELSE begun
<1>1. s \in MasterRecord
  BY DEF Pending
<1>2. v \in Verdict /\ v.booted /\ v.es = b.es
  BY DEF SoundBoot, BootRecord, Verdict, NodeState
<1>3. hb \in Consumer
  BY ConsumerTypes
<1>4. co_nmt_boot_con(s, id, b) = IF s.st = "preop" THEN co_nmt_preop_on_boot(watched, id) ELSE watched
  BY DEF co_nmt_boot_con
<1> HIDE DEF v, hb
<1>5. ended = [s EXCEPT !.slave = [s.slave EXCEPT ![id] = v], !.boot = [s.boot EXCEPT ![id] = NoBoot],
                        !.hb = [s.hb EXCEPT ![id] = hb]]
  BY <1>1 DEF MasterRecord
<1>6. /\ [s.slave EXCEPT ![id] = v] \in [Nodes -> Verdict]
      /\ [s.boot EXCEPT ![id] = NoBoot] \in [Nodes -> BootRecord \cup {NoBoot}]
      /\ [s.hb EXCEPT ![id] = hb] \in [Nodes -> Consumer]
  BY <1>1, <1>2, <1>3 DEF MasterRecord
<1>7. /\ ended \in MasterRecord /\ ended.st = s.st /\ ended.auto = s.auto /\ ended.halt = s.halt
      /\ ended.out = s.out /\ ended.slave = [s.slave EXCEPT ![id] = v]
      /\ ended.boot = [s.boot EXCEPT ![id] = NoBoot]
  BY <1>1, <1>5, <1>6 DEF MasterRecord
<1>8. s.slave \in [Nodes -> Verdict] /\ s.boot \in [Nodes -> BootRecord \cup {NoBoot}]
  BY <1>1 DEF MasterRecord
<1> HIDE DEF ended
<1>9. /\ ended.slave[id] = v /\ ended.boot[id] = NoBoot
      /\ \A n \in Nodes : n # id => ended.slave[n] = s.slave[n] /\ ended.boot[n] = s.boot[n]
  BY <1>7, <1>8
<1>10. \A n \in Nodes : n # id => (Done(ended, n) <=> Done(s, n))
  BY <1>9 DEF Done
<1>11. Done(ended, id) <=> Good(b.es)
  BY <1>2, <1>9 DEF Done
<1>12. OutSound(ended)
  <2>1. CASE StartFree(s)
    BY <1>7, <2>1 DEF StartFree, OutSound
  <2>2. CASE Good(b.es)
    <3>1. \A n \in Nodes : Done(s, n) => Done(ended, n)
      BY <1>10, <1>11, <2>2
    <3>2. QED
      BY <1>7, <3>1 DEF OutSound, Pending
  <2>3. QED
    BY <2>1, <2>2
<1>13. Pending(ended, id, k)
  <2>1. SoundBoots(ended)
    BY <1>9 DEF SoundBoots, Pending
  <2>2. \A n \in 1 .. k : n \in Nodes
    BY NodesNat
  <2>3. QED
    BY <1>7, <1>9, <1>10, <1>12, <2>1, <2>2 DEF Pending
<1>14. Same(ended, begun) /\ begun.st = s.st /\ begun.auto = s.auto /\ OutSound(begun)
  <2>1. CASE starts
    <3>1. Listed(id) /\ Done(ended, id)
      BY <1>11, <2>1 DEF MayStart, Listed, Good
    <3>2. \A n \in Nodes : id = n \/ (id = All /\ Listed(n)) => Listed(n) /\ Done(ended, n)
      BY <3>1, NodesNat
    <3>3. "start" \in Cs /\ id \in Nodes \cup {All}
      BY DEF Cs
    <3>4. LET r == co_nmt_cs_req(ended, "start", id)
          IN  Same(ended, r) /\ r.st = ended.st /\ r.auto = ended.auto /\ OutSound(r)
      BY <1>7, <1>12, <3>2, <3>3, ReqSound
    <3>5. QED
      BY <1>7, <2>1, <3>4
  <2>2. CASE ~starts
    BY <1>7, <1>12, <2>2, SameRefl
  <2>3. QED
    BY <2>1, <2>2
<1> HIDE DEF begun
<1>15. Same(begun, watched) /\ watched.st = s.st /\ watched.auto = s.auto /\ OutSound(watched)
  <2>1. begun \in MasterRecord
    BY <1>14 DEF Same
  <2>2. begun.hb[id] \in Consumer
    BY <2>1 DEF MasterRecord
  <2>3. co_nmt_hb_set_st(begun.hb[id]) \in Consumer
    BY <2>2, ConsumerTypes
  <2>4. LET r == [begun EXCEPT !.hb[id] = co_nmt_hb_set_st(begun.hb[id])]
        IN  /\ Same(begun, r) /\ r.st = begun.st /\ r.auto = begun.auto /\ OutSound(r)
    BY <1>14, <2>1, <2>3, HbSame
  <2>5. watched = IF Good(b.es) THEN [begun EXCEPT !.hb[id] = co_nmt_hb_set_st(begun.hb[id])] ELSE begun
    OBVIOUS
  <2> HIDE DEF watched
  <2>6. QED
    BY <1>14, <2>1, <2>4, <2>5, SameRefl
<1> HIDE DEF watched
<1>16. Same(ended, watched)
  BY <1>14, <1>15, SameTrans
<1>17. Pending(watched, id, k)
  BY <1>7, <1>13, <1>15, <1>16, PendingSame
<1>18. /\ watched.boot[id] = NoBoot /\ watched.slave[id].booted
       /\ \A n \in Nodes : n # id => watched.boot[n] = s.boot[n]
  BY <1>2, <1>9, <1>16 DEF Same
<1>19. CASE s.st = "preop"
  BY <1>4, <1>15, <1>17, <1>18, <1>19, PreopOnBootSound
<1>20. CASE s.st # "preop"
  <2>1. Sound(watched, k)
    BY <1>15, <1>17, <1>20 DEF Sound, Pending, Passed, Decided
  <2>2. QED
    BY <1>4, <1>18, <1>20, <2>1
<1>21. QED
  BY <1>19, <1>20

LEMMA SettleSound ==
    ASSUME cfg \in Configs, NEW k \in 0 .. NumNodes, NEW id \in Nodes, id <= k, NEW s,
           Pending(s, id, k), NEW b, SoundBoot(b),
           b.state = "done" => NoneBeyond(k) /\ (StartFree(s) \/ Good(b.es))
    PROVE  LET r == Settle(s, id, b)
           IN  Sound(r, k) /\ \A n \in Nodes : n # id => r.boot[n] = s.boot[n]
<1>1. CASE b.state = "done"
  BY <1>1, BootConSound DEF Settle
<1>2. CASE b.state # "done"
  <2> DEFINE r == [s EXCEPT !.boot[id] = b]
  <2>1. s \in MasterRecord /\ b \in BootRecord \cup {NoBoot} /\ b # NoBoot
    BY NoBootApart DEF Pending, SoundBoot
  <2>2. s.boot \in [Nodes -> BootRecord \cup {NoBoot}]
    BY <2>1 DEF MasterRecord
  <2>3. r = [s EXCEPT !.boot = [s.boot EXCEPT ![id] = b]]
    OBVIOUS
  <2>4. [s.boot EXCEPT ![id] = b] \in [Nodes -> BootRecord \cup {NoBoot}]
    BY <2>1, <2>2
  <2>5. /\ r \in MasterRecord /\ r.st = s.st /\ r.auto = s.auto /\ r.halt = s.halt
        /\ r.out = s.out /\ r.slave = s.slave /\ r.boot = [s.boot EXCEPT ![id] = b]
    BY <2>1, <2>3, <2>4 DEF MasterRecord
  <2> HIDE DEF r
  <2>6. r.boot[id] = b /\ \A n \in Nodes : n # id => r.boot[n] = s.boot[n]
    BY <2>2, <2>5
  <2>7. \A n \in Nodes : Done(r, n) <=> Done(s, n)
    BY <2>5 DEF Done
  <2>8. OutSound(r)
    BY <2>5, <2>7 DEF Pending, OutSound
  <2>9. SoundBoots(r)
    BY <1>2, <2>6 DEF Pending, SoundBoots
  <2>10. Passed(r, k)
    <3>1. \A n \in 1 .. k : n \in Nodes
      BY NodesNat
    <3>2. QED
      BY <2>1, <2>5, <2>6, <2>7, <3>1 DEF Pending, Passed
  <2>11. Decided(r, k)
    BY <2>5, <2>6, <2>7 DEF Pending, Decided
  <2>12. Settle(s, id, b) = r
    BY <1>2 DEF Settle, r
  <2>13. QED
    BY <2>5, <2>6, <2>8, <2>9, <2>10, <2>11, <2>12 DEF Sound
<1>3. QED
  BY <1>1, <1>2

LEMMA BootReqSound ==
    ASSUME cfg \in Configs, NEW k \in 0 .. NumNodes, NEW id \in Nodes, id <= k, NEW s,
           Pending(s, id, k),
           \/ k = NumNodes /\ StartFree(s) /\ ~s.auto
           \/ k = id /\ (Mandatory(id) \/ Keep(id)) /\ s.boot[id] = NoBoot
    PROVE  LET r == co_nmt_boot_req(s, id)
           IN  Sound(r, k) /\ \A n \in Nodes : n # id => r.boot[n] = s.boot[n]
<1>1. CASE s.boot[id] # NoBoot
  <2>1. Passed(s, k)
    BY <1>1 DEF Pending, Passed
  <2>2. Decided(s, k)
    BY <1>1 DEF Pending, Decided
  <2>3. QED
    BY <1>1, <2>1, <2>2 DEF co_nmt_boot_req, Pending, Sound
<1>2. CASE s.boot[id] = NoBoot
  <2> DEFINE e == [s EXCEPT !.hb[id] = co_nmt_hb_set_1016(FALSE)]
  <2> DEFINE b == co_nmt_boot_wait_on_time(co_nmt_boot_create, cfg.slave[id])
  <2>1. s \in MasterRecord /\ OutSound(s)
    BY DEF Pending
  <2>2. /\ Same(s, e) /\ e.st = s.st /\ e.auto = s.auto /\ e.out = s.out /\ OutSound(e)
    BY <2>1, ConsumerTypes, HbSame
  <2>3. Pending(e, id, k)
    BY <2>2, PendingSame
  <2>4. Entering(co_nmt_boot_create)
    BY DEF Entering, BootRecord, co_nmt_boot_create, NoBoot, BootStates, Status, NodeState
  <2>5. /\ SoundBoot(b)
        /\ b.state = "done" => \/ "listed" \notin cfg.slave[id].assign
                               \/ "boot" \notin cfg.slave[id].assign /\ ~cfg.slave[id].heartbeat /\ b.es = "0"
    BY <2>4, WaitSound
  <2> HIDE DEF b, e
  <2>6. ASSUME b.state = "done"
        PROVE  NoneBeyond(k) /\ (StartFree(e) \/ Good(b.es))
    <3>1. CASE k = NumNodes /\ StartFree(s)
      <4>1. StartFree(e)
        BY <2>2, <3>1 DEF StartFree
      <4>2. QED
        BY <3>1, <4>1, NodesNat DEF NoneBeyond
    <3>2. CASE k = id /\ (Mandatory(id) \/ Keep(id))
      <4>1. "listed" \in cfg.slave[id].assign
        BY <3>2 DEF Mandatory, Keep
      <4>2. AtOnce(id) /\ Good(b.es)
        BY <2>5, <2>6, <3>2, <4>1 DEF AtOnce, MayStart, Good
      <4>3. \A n \in Nodes : n > id => id \in 1 .. (n - 1)
        BY NodesNat
      <4>4. QED
        BY <3>2, <4>2, <4>3 DEF NoneBeyond, Awaited
    <3>3. QED
      BY <3>1, <3>2
  <2>7. LET r == Settle(e, id, b)
        IN  Sound(r, k) /\ \A n \in Nodes : n # id => r.boot[n] = e.boot[n]
    BY <2>3, <2>5, <2>6, SettleSound
  <2>8. e.boot = s.boot
    BY <2>2 DEF Same
  <2>9. co_nmt_boot_req(s, id) = Settle(e, id, b)
    BY <1>2 DEF co_nmt_boot_req, e, b
  <2>10. QED
    BY <2>7, <2>8, <2>9
<1>3. QED
  BY <1>1, <1>2

-----------------------------------------------------------------------------
(* Entering pre-operational                                                *)

\* The loop over the slaves: what has been decided, of the slaves passed so far.
LEMMA SlavesBootSound ==
    ASSUME cfg \in Configs, NEW s \in MasterRecord, OutSound(s), ~s.auto,
           \A n \in Nodes : s.boot[n] = NoBoot
    PROVE  Sound(co_nmt_slaves_boot(s), NumNodes)
<1> DEFINE Kept(t, k) == Sound(t, k) /\ \A n \in Nodes : n > k => t.boot[n] = NoBoot
<1>1. PICK g : /\ g[0] = s /\ co_nmt_slaves_boot(s) = g[NumNodes]
               /\ \A k \in Nodes : g[k] = IF Mandatory(k) \/ Keep(k) THEN co_nmt_boot_req(g[k - 1], k)
                                                                    ELSE g[k - 1]
  BY SlavesBootTurns
<1>2. Kept(g[0], 0)
  BY <1>1 DEF Sound, SoundBoots, Passed, Decided
<1>3. ASSUME NEW k \in Nodes, Kept(g[k - 1], k - 1)
      PROVE  Kept(g[k], k)
  <2> DEFINE t == g[k - 1]
  <2>1. /\ t \in MasterRecord /\ SoundBoots(t) /\ OutSound(t)
        /\ Passed(t, k - 1) /\ Decided(t, k - 1) /\ \A n \in Nodes : n > k - 1 => t.boot[n] = NoBoot
    BY <1>3 DEF Sound
  <2>2. g[k] = IF Mandatory(k) \/ Keep(k) THEN co_nmt_boot_req(t, k) ELSE t
    BY <1>1
  <2> HIDE DEF t
  <2>3. /\ \A n \in 1 .. k : n # k => n \in 1 .. k - 1
        /\ \A n \in Nodes : n <= k - 1 => n # k /\ n <= k
        /\ \A n \in Nodes : n > k => n > k - 1 /\ n # k
        /\ k > k - 1 /\ k \in 0 .. NumNodes /\ k <= k
    BY NodesNat
  <2>4. CASE Mandatory(k) \/ Keep(k)
    <3>1. Pending(t, k, k)
      BY <2>1, <2>3 DEF Pending, Passed, Decided
    <3>2. t.boot[k] = NoBoot
      BY <2>1, <2>3
    <3>3. LET r == co_nmt_boot_req(t, k)
          IN  Sound(r, k) /\ \A n \in Nodes : n # k => r.boot[n] = t.boot[n]
      BY <2>3, <2>4, <3>1, <3>2, BootReqSound
    <3>4. QED
      BY <2>1, <2>2, <2>3, <2>4, <3>3
  <2>5. CASE ~(Mandatory(k) \/ Keep(k))
    <3>1. Passed(t, k)
      BY <2>1, <2>3, <2>5 DEF Passed
    <3>2. Decided(t, k)
      BY <2>1, <2>3 DEF Decided
    <3>3. QED
      BY <2>1, <2>2, <2>3, <2>5, <3>1, <3>2 DEF Sound
  <2>6. QED
    BY <2>4, <2>5
<1> HIDE DEF Kept
<1>4. \A k \in 0 .. NumNodes : Kept(g[k], k)
  <2> DEFINE T == {k \in 0 .. NumNodes : ~Kept(g[k], k)}
  <2> SUFFICES ASSUME T # {} PROVE FALSE
    OBVIOUS
  <2>1. PICK k \in T : \A y \in T : k <= y
    <3>1. T \subseteq Nat
      BY NodesNat
    <3>2. QED
      BY <3>1, Least
  <2>2. k \in Nodes /\ k - 1 \in 0 .. NumNodes /\ k - 1 \notin T
    BY <1>2, <2>1, NodesNat
  <2>3. QED
    BY <1>3, <2>2
<1>5. Kept(co_nmt_slaves_boot(s), NumNodes)
  BY <1>1, <1>4, NodesNat
<1>6. QED
  BY <1>5 DEF Kept

LEMMA StartupMasterSound ==
    ASSUME cfg \in Configs, NEW s \in MasterRecord, OutSound(s), ~s.auto,
           \A n \in Nodes : s.boot[n] = NoBoot
    PROVE  Sound(co_nmt_startup_master(s), NumNodes)
<1> DEFINE kept == {n \in Nodes : Keep(n)}
<1> DEFINE reset == IF kept = {} THEN co_nmt_cs_req(s, "reset_comm", All)
                    ELSE SendEach(s, "reset_comm", Nodes \ kept)
<1> DEFINE booted == co_nmt_slaves_boot(reset)
<1>1. co_nmt_startup_master(s) =
        IF \E n \in Nodes : Mandatory(n) THEN booted ELSE co_nmt_startup_slave(booted)
  BY DEF co_nmt_startup_master
<1>2. "reset_comm" \in Cs /\ All \in Nodes \cup {All} /\ Nodes \ kept \in SUBSET Nodes
  BY DEF Cs
<1> HIDE DEF kept
<1>3. LET r == co_nmt_cs_req(s, "reset_comm", All) IN Same(s, r) /\ r.auto = s.auto /\ OutSound(r)
  BY <1>2, ReqSound
<1>4. LET r == SendEach(s, "reset_comm", Nodes \ kept)
      IN  Same(s, r) /\ r.auto = s.auto /\ OutSound(r)
  BY <1>2, SendEachSound
<1>5. Same(s, reset) /\ reset.auto = s.auto /\ OutSound(reset)
  BY <1>3, <1>4
<1> HIDE DEF reset
<1>6. Sound(booted, NumNodes)
  BY <1>5, SlavesBootSound DEF Same
<1> HIDE DEF booted
<1>7. CASE \E n \in Nodes : Mandatory(n)
  BY <1>1, <1>6, <1>7
<1>8. CASE ~(\E n \in Nodes : Mandatory(n))
  <2> DEFINE r == co_nmt_startup_slave(booted)
  <2>1. booted \in MasterRecord /\ SoundBoots(booted) /\ OutSound(booted)
    BY <1>6 DEF Sound
  <2>2. Same(booted, r) /\ OutSound(r)
    BY <2>1, StartupSlaveSound
  <2> HIDE DEF r
  <2>3. r \in MasterRecord /\ SoundBoots(r)
    BY <2>1, <2>2, SameDone DEF Same
  <2>4. Passed(r, NumNodes) /\ Decided(r, NumNodes)
    BY <1>8, NodesNat DEF Passed, Decided, Awaited
  <2>5. QED
    BY <1>1, <1>8, <2>2, <2>3, <2>4 DEF Sound, r
<1>9. QED
  BY <1>7, <1>8

LEMMA PreopOnEnterSound ==
    ASSUME cfg \in Configs, NEW s \in MasterRecord, StartFree(s), ~s.auto
    PROVE  Sound(co_nmt_preop_on_enter(s), NumNodes)
<1> DEFINE e == [co_nmt_slaves_init(s) EXCEPT !.halt = FALSE, !.st = "preop"]
           twice == s.crashed \/ \E n \in Nodes : DestroyedTwice(s.boot[n], cfg.slave[n])
<1>0. twice \in BOOLEAN
  OBVIOUS
<1>1. e = [s EXCEPT !.slave = [n \in Nodes |-> NoSlave], !.boot = [n \in Nodes |-> NoBoot],
                    !.crashed = twice, !.halt = FALSE, !.st = "preop"]
  BY DEF co_nmt_slaves_init, MasterRecord
<1> HIDE DEF twice
<1>2. [n \in Nodes |-> NoSlave] \in [Nodes -> Verdict]
  BY DEF NoSlave, Verdict, Status, NodeState
<1>3. [n \in Nodes |-> NoBoot] \in [Nodes -> BootRecord \cup {NoBoot}]
  OBVIOUS
<1>4. e \in MasterRecord /\ e.out = s.out /\ e.auto = s.auto /\ e.boot = [n \in Nodes |-> NoBoot]
  BY <1>0, <1>1, <1>2, <1>3 DEF MasterRecord
<1>5. co_nmt_preop_on_enter(s) = co_nmt_startup_master(e)
  BY DEF co_nmt_preop_on_enter
<1> HIDE DEF e
<1>6. OutSound(e) /\ ~e.auto /\ \A n \in Nodes : e.boot[n] = NoBoot
  BY <1>4 DEF StartFree, OutSound
<1>7. QED
  BY <1>4, <1>5, <1>6, StartupMasterSound

LEMMA ResetCommOnEnterSound ==
    ASSUME cfg \in Configs, NEW s \in MasterRecord, StartFree(s), ~s.auto
    PROVE  Sound(co_nmt_reset_comm_on_enter(s), NumNodes)
<1> DEFINE e == [s EXCEPT !.reset = TRUE, !.hb = co_nmt_hb_init]
<1>1. co_nmt_hb_init \in [Nodes -> Consumer]
  BY ConsumerTypes
<1>2. e \in MasterRecord /\ e.out = s.out /\ e.auto = s.auto
  BY <1>1 DEF MasterRecord
<1>3. co_nmt_reset_comm_on_enter(s) = co_nmt_preop_on_enter(e)
  BY DEF co_nmt_reset_comm_on_enter
<1> HIDE DEF e
<1>4. StartFree(e) /\ ~e.auto
  BY <1>2 DEF StartFree
<1>5. QED
  BY <1>2, <1>3, <1>4, PreopOnEnterSound

-----------------------------------------------------------------------------
(* A command to the master, and the loss of a slave                        *)

LEMMA CsIndSound ==
    ASSUME cfg \in Configs, NEW s, Sound(s, NumNodes), StartFree(s), ~s.auto, NEW cs \in Cs
    PROVE  Sound(co_nmt_cs_ind(s, cs), NumNodes)
<1>1. s \in MasterRecord /\ SoundBoots(s) /\ OutSound(s)
  BY DEF Sound
<1>2. Sound(co_nmt_reset_comm_on_enter(s), NumNodes) /\ Sound(co_nmt_preop_on_enter(s), NumNodes)
  BY <1>1, ResetCommOnEnterSound, PreopOnEnterSound
<1>3. Sound(co_nmt_start_on_enter(s), NumNodes)
  <2> DEFINE r == co_nmt_start_on_enter(s)
  <2>1. Same(s, r) /\ r.st = "start" /\ r.auto = s.auto /\ OutSound(r)
    BY <1>1, StartOnEnterSound
  <2> HIDE DEF r
  <2>2. r \in MasterRecord /\ SoundBoots(r)
    BY <1>1, <2>1, SameDone DEF Same
  <2>3. QED
    BY <2>1, <2>2 DEF Sound, Passed, Decided, r
<1>4. Sound([s EXCEPT !.st = "stop"], NumNodes)
  <2> DEFINE r == [s EXCEPT !.st = "stop"]
  <2>1. /\ r \in MasterRecord /\ r.st = "stop" /\ r.auto = s.auto /\ r.out = s.out
        /\ r.slave = s.slave /\ r.boot = s.boot
    BY <1>1 DEF MasterRecord
  <2> HIDE DEF r
  <2>2. SoundBoots(r) /\ OutSound(r)
    BY <1>1, <2>1 DEF SoundBoots, OutSound, Done
  <2>3. QED
    BY <2>1, <2>2 DEF Sound, Passed, Decided, r
<1>5. QED
  BY <1>2, <1>3, <1>4 DEF co_nmt_cs_ind

LEMMA SoundSame ==
    ASSUME NEW s, NEW r, NEW k \in 0 .. NumNodes, Sound(s, k), Same(s, r), r.st = s.st,
           r.auto = s.auto, OutSound(r)
    PROVE  Sound(r, k)
<1>1. /\ r \in MasterRecord /\ r.boot = s.boot /\ r.halt = s.halt /\ SoundBoots(r)
      /\ \A n \in Nodes : Done(r, n) <=> Done(s, n)
  BY SameDone DEF Same, Sound
<1>2. \A n \in 1 .. k : n \in Nodes
  BY NodesNat
<1>3. QED
  BY <1>1, <1>2 DEF Sound, Passed, Decided

LEMMA NodeErrIndSound ==
    ASSUME cfg \in Configs, NEW s, Sound(s, NumNodes), StartFree(s), ~s.auto, NEW id \in Nodes
    PROVE  Sound(co_nmt_node_err_ind(s, id), NumNodes)
<1>1. s \in MasterRecord /\ OutSound(s) /\ NumNodes \in 0 .. NumNodes
  BY NodesNat DEF Sound
<1>2. ASSUME NEW cs \in {"stop", "reset_node"}, NEW t \in Nodes \cup {All}
      PROVE  LET r == co_nmt_cs_req(s, cs, t)
             IN  Sound(r, NumNodes) /\ StartFree(r) /\ ~r.auto
  <2> DEFINE r == co_nmt_cs_req(s, cs, t)
  <2>1. cs \in Cs /\ cs # "start"
    BY DEF Cs
  <2>2. Same(s, r) /\ r.st = s.st /\ r.auto = s.auto /\ OutSound(r) /\ StartFree(r)
    BY <1>1, <2>1, ReqSound
  <2> HIDE DEF r
  <2>3. QED
    BY <1>1, <2>2, SoundSame DEF r
<1>3. All \in Nodes \cup {All} /\ id \in Nodes \cup {All} /\ "stop" \in Cs /\ "reset_node" \in Cs
  BY DEF Cs
<1>4. Sound(co_nmt_cs_ind(co_nmt_cs_req(s, "stop", All), "stop"), NumNodes)
  BY <1>2, <1>3, CsIndSound
<1>5. Sound(co_nmt_cs_ind(co_nmt_cs_req(s, "reset_node", All), "reset_node"), NumNodes)
  BY <1>2, <1>3, CsIndSound
<1>6. Sound(co_nmt_cs_req(s, "reset_node", id), NumNodes)
  BY <1>2, <1>3
<1>7. QED
  BY <1>4, <1>5, <1>6 DEF co_nmt_node_err_ind

-----------------------------------------------------------------------------
(* The steps                                                               *)

\* What a step begins with: nothing sent yet, and every verdict as it was.
LEMMA IdleSound ==
    ASSUME NmtInv
    PROVE  /\ Sound(Idle, NumNodes) /\ StartFree(Idle) /\ ~Idle.auto /\ Idle \in MasterRecord
           /\ Idle.boot = m.boot /\ Idle.st = m.st /\ Idle.hb = m.hb
<1>1. m \in MasterRecord /\ SoundBoots(m) /\ Passed(m, NumNodes)
  BY DEF NmtInv, Sound
<1>2. /\ Idle \in MasterRecord /\ Idle.st = m.st /\ Idle.boot = m.boot /\ Idle.halt = m.halt
      /\ Idle.hb = m.hb /\ Idle.slave = m.slave /\ Idle.out = <<>> /\ Idle.auto = FALSE
  <2>1. <<>> \in Seq(Frame) /\ FALSE \in BOOLEAN
    OBVIOUS
  <2>2. Idle = [m EXCEPT !.out = <<>>, !.auto = FALSE]
    BY DEF Idle
  <2>3. QED
    BY <1>1, <2>1, <2>2 DEF MasterRecord
<1>3. StartFree(Idle) /\ OutSound(Idle)
  BY <1>2 DEF StartFree, OutSound
<1>4. SoundBoots(Idle) /\ Passed(Idle, NumNodes) /\ Decided(Idle, NumNodes)
  BY <1>1, <1>2 DEF SoundBoots, Passed, Decided, Done
<1>5. QED
  BY <1>2, <1>3, <1>4 DEF Sound

\* Before a boot of slave n ends or begins.
LEMMA SoundPending ==
    ASSUME NEW s, Sound(s, NumNodes), ~s.auto, NEW n \in Nodes
    PROVE  /\ Pending(s, n, NumNodes) /\ NoneBeyond(NumNodes)
           /\ NumNodes \in 0 .. NumNodes /\ n <= NumNodes
<1>1. Pending(s, n, NumNodes)
  BY DEF Sound, Passed, Pending
<1>2. QED
  BY <1>1, NodesNat DEF NoneBeyond

\* The boot of slave n goes on, or ends, in a step.
LEMMA GoOnSound ==
    ASSUME NmtInv, NEW n \in Nodes, NEW s, Sound(s, NumNodes), StartFree(s), ~s.auto,
           NEW b, SoundBoot(b)
    PROVE  Sound(Settle(s, n, b), NumNodes)
<1>1. cfg \in Configs
  BY DEF NmtInv
<1>2. QED
  BY <1>1, SoundPending, SettleSound

LEMMA ReceivedSound ==
    ASSUME NmtInv, NEW n \in Nodes, ec[n] # "none"
    PROVE  Sound(Received(n, ec[n]), NumNodes)
<1> DEFINE f == ec[n]
<1>1. f \in {"bootup", "preop", "op", "stopped"} /\ cfg \in Configs
  BY DEF NmtInv
<1>2. /\ Sound(Idle, NumNodes) /\ StartFree(Idle) /\ ~Idle.auto /\ Idle \in MasterRecord
      /\ Idle.boot = m.boot /\ Idle.hb = m.hb /\ OutSound(Idle)
  BY IdleSound DEF Sound
<1> HIDE DEF f
<1>3. Sound(co_nmt_boot_req([Idle EXCEPT !.slave[n].est = "preop"], n), NumNodes)
  <2> DEFINE v == [Idle.slave[n] EXCEPT !.est = "preop"]
  <2> DEFINE e == [Idle EXCEPT !.slave = [Idle.slave EXCEPT ![n] = v]]
  <2>1. Idle.slave \in [Nodes -> Verdict] /\ Idle.slave[n] \in Verdict
    BY <1>2 DEF MasterRecord
  <2>2. v \in Verdict /\ v.booted = Idle.slave[n].booted /\ v.es = Idle.slave[n].es
    BY <2>1 DEF Verdict, NodeState
  <2>3. [Idle EXCEPT !.slave[n].est = "preop"] = e
    BY <1>2, <2>1 DEF MasterRecord
  <2> HIDE DEF v
  <2>4. [Idle.slave EXCEPT ![n] = v] \in [Nodes -> Verdict]
    BY <2>1, <2>2
  <2>5. /\ e \in MasterRecord /\ e.st = Idle.st /\ e.auto = Idle.auto /\ e.halt = Idle.halt
        /\ e.out = Idle.out /\ e.boot = Idle.boot /\ e.slave = [Idle.slave EXCEPT ![n] = v]
    BY <1>2, <2>4 DEF MasterRecord
  <2> HIDE DEF e
  <2>6. Same(Idle, e)
    BY <2>1, <2>2, <2>5 DEF Same
  <2>7. StartFree(e) /\ OutSound(e)
    BY <1>2, <2>5 DEF StartFree, OutSound
  <2>8. Sound(e, NumNodes) /\ ~e.auto
    BY <1>2, <2>5, <2>6, <2>7, SoundSame, NodesNat
  <2>9. Sound(co_nmt_boot_req(e, n), NumNodes)
    BY <1>1, <2>7, <2>8, SoundPending, BootReqSound
  <2>10. QED
    BY <2>3, <2>9
<1>4. ASSUME m.boot[n] # NoBoot, m.boot[n].recv, f # "bootup",
             NEW s \in {Idle, co_nmt_cs_req(Idle, "reset_comm", n)}
      PROVE  Sound(Settle(s, n, co_nmt_boot_emit_recv(m.boot[n], cfg.slave[n], f)), NumNodes)
  <2>1. SoundBoot(m.boot[n]) /\ f \in NodeState
    BY <1>1, <1>4 DEF NmtInv, Sound, SoundBoots, NodeState
  <2>2. SoundBoot(co_nmt_boot_emit_recv(m.boot[n], cfg.slave[n], f))
    BY <1>4, <2>1, EmitRecvSound
  <2>3. LET r == co_nmt_cs_req(Idle, "reset_comm", n)
        IN  Sound(r, NumNodes) /\ StartFree(r) /\ ~r.auto
    <3> DEFINE r == co_nmt_cs_req(Idle, "reset_comm", n)
    <3>1. "reset_comm" \in Cs /\ n \in Nodes \cup {All}
      BY DEF Cs
    <3>2. Same(Idle, r) /\ r.st = Idle.st /\ r.auto = Idle.auto /\ OutSound(r) /\ StartFree(r)
      BY <1>2, <3>1, ReqSound
    <3> HIDE DEF r
    <3>3. QED
      BY <1>2, <3>2, SoundSame, NodesNat DEF r
  <2>4. QED
    BY <1>2, <1>4, <2>2, <2>3, GoOnSound
<1>5. Sound([Idle EXCEPT !.hb[n] = co_nmt_hb_set_st(Idle.hb[n])], NumNodes)
  <2>1. co_nmt_hb_set_st(Idle.hb[n]) \in Consumer
    BY <1>1, <1>2, ConsumerTypes DEF MasterRecord
  <2> DEFINE r == [Idle EXCEPT !.hb[n] = co_nmt_hb_set_st(Idle.hb[n])]
  <2>2. Same(Idle, r) /\ r.st = Idle.st /\ r.auto = Idle.auto /\ OutSound(r)
    BY <1>2, <2>1, HbSame
  <2> HIDE DEF r
  <2>3. Sound(r, NumNodes)
    BY <1>2, <2>2, SoundSame, NodesNat
  <2>4. QED
    BY <2>3 DEF r
<1>6. Received(n, f) =
        CASE m.st = "init" -> Idle
          [] m.st # "init" /\ f = "bootup" ->
               co_nmt_boot_req([Idle EXCEPT !.slave[n].est = "preop"], n)
          [] m.st # "init" /\ f # "bootup" /\ m.boot[n] # NoBoot ->
               IF ~m.boot[n].recv THEN Idle
               ELSE Settle(IF m.boot[n].state = "chk_node" /\ f # "op"
                           THEN co_nmt_cs_req(Idle, "reset_comm", n) ELSE Idle, n,
                           co_nmt_boot_emit_recv(m.boot[n], cfg.slave[n], f))
          [] OTHER -> [Idle EXCEPT !.hb[n] = co_nmt_hb_set_st(Idle.hb[n])]
  BY DEF Received
<1>7. Sound(Received(n, f), NumNodes)
  BY <1>2, <1>3, <1>4, <1>5, <1>6
<1>8. QED
  BY <1>7 DEF f

LEMMA HbTimerSound ==
    ASSUME NmtInv, NEW n \in Nodes
    PROVE  Sound(co_nmt_node_err_ind([Idle EXCEPT !.hb[n].timer = FALSE, !.hb[n].state = "occurred"], n),
                 NumNodes)
<1> DEFINE hb == [Idle.hb[n] EXCEPT !.timer = FALSE, !.state = "occurred"]
<1> DEFINE e == [Idle EXCEPT !.hb[n] = hb]
<1>1. /\ Sound(Idle, NumNodes) /\ StartFree(Idle) /\ ~Idle.auto /\ Idle \in MasterRecord
      /\ OutSound(Idle) /\ cfg \in Configs
  BY IdleSound DEF Sound, NmtInv
<1>2. Idle.hb \in [Nodes -> Consumer] /\ Idle.hb[n] \in Consumer
  BY <1>1 DEF MasterRecord
<1>3. hb \in Consumer
  BY <1>2 DEF Consumer
<1>4. [Idle EXCEPT !.hb[n].timer = FALSE, !.hb[n].state = "occurred"] = e
  BY <1>1, <1>2 DEF MasterRecord
<1> HIDE DEF hb
<1>5. Same(Idle, e) /\ e.st = Idle.st /\ e.auto = Idle.auto /\ e.out = Idle.out /\ OutSound(e)
  BY <1>1, <1>3, HbSame
<1> HIDE DEF e
<1>6. Sound(e, NumNodes) /\ StartFree(e) /\ ~e.auto
  BY <1>1, <1>5, SoundSame, NodesNat DEF StartFree
<1>7. QED
  BY <1>1, <1>4, <1>6, NodeErrIndSound

LEMMA BootTimerSound ==
    ASSUME NmtInv, NEW n \in Nodes, m.boot[n].timer
    PROVE  Sound(IF m.boot[n].state \in OnTimeStates
                 THEN Settle(Idle, n, co_nmt_boot_emit_time(m.boot[n], cfg.slave[n]))
                 ELSE [Idle EXCEPT !.crashed = TRUE], NumNodes)
<1>1. Sound(Idle, NumNodes) /\ StartFree(Idle) /\ ~Idle.auto /\ Idle \in MasterRecord
  BY IdleSound
<1>2. SoundBoot(m.boot[n])
  BY DEF NmtInv, Sound, SoundBoots, NoBoot
<1>3. ASSUME m.boot[n].state \in OnTimeStates
      PROVE  Sound(Settle(Idle, n, co_nmt_boot_emit_time(m.boot[n], cfg.slave[n])), NumNodes)
  BY <1>1, <1>2, <1>3, EmitTimeSound, GoOnSound
<1>4. Sound([Idle EXCEPT !.crashed = TRUE], NumNodes)
  <2> DEFINE r == [Idle EXCEPT !.crashed = TRUE]
  <2>1. /\ r \in MasterRecord /\ r.st = Idle.st /\ r.auto = Idle.auto /\ r.halt = Idle.halt
        /\ r.out = Idle.out /\ r.boot = Idle.boot /\ r.slave = Idle.slave
    BY <1>1 DEF MasterRecord
  <2> HIDE DEF r
  <2>2. Same(Idle, r) /\ OutSound(r)
    BY <1>1, <2>1 DEF Same, OutSound, Done, Sound
  <2>3. Sound(r, NumNodes)
    BY <1>1, <2>1, <2>2, SoundSame, NodesNat
  <2>4. QED
    BY <2>3 DEF r
<1>5. QED
  BY <1>3, <1>4

LEMMA BootTimeOverSound ==
    ASSUME NmtInv, NEW n \in Nodes, m.boot[n] # NoBoot
    PROVE  Sound([Idle EXCEPT !.boot[n].late = TRUE], NumNodes)
<1> DEFINE b == [Idle.boot[n] EXCEPT !.late = TRUE]
<1>1. /\ Sound(Idle, NumNodes) /\ StartFree(Idle) /\ ~Idle.auto /\ Idle \in MasterRecord
      /\ Idle.boot = m.boot
  BY IdleSound
<1>2. SoundBoot(Idle.boot[n]) /\ Idle.boot[n].state # "done"
  BY <1>1 DEF Sound, SoundBoots
<1>3. SoundBoot(b) /\ b.state # "done"
  BY <1>2 DEF SoundBoot, BootRecord
<1>4. Settle(Idle, n, b) = [Idle EXCEPT !.boot[n].late = TRUE]
  BY <1>1, <1>3 DEF Settle, MasterRecord
<1> HIDE DEF b
<1>5. Sound(Settle(Idle, n, b), NumNodes)
  BY <1>1, <1>3, GoOnSound
<1>6. QED
  BY <1>4, <1>5

LEMMA ConSound ==
    ASSUME NmtInv, NEW n \in Nodes, NEW res
    PROVE  /\ m.boot[n].pend = "up" =>
                Sound(Settle(Idle, n, co_nmt_boot_up_con(m.boot[n], cfg.slave[n], res)), NumNodes)
           /\ m.boot[n].pend = "dn" =>
                Sound(Settle(Idle, n, co_nmt_boot_dn_con(m.boot[n], cfg.slave[n], res)), NumNodes)
           /\ m.boot[n].pend = "cfg" =>
                Sound(Settle(Idle, n, co_nmt_boot_cfg_con(m.boot[n], cfg.slave[n], res)), NumNodes)
<1>1. Sound(Idle, NumNodes) /\ StartFree(Idle) /\ ~Idle.auto
  BY IdleSound
<1>2. m.boot[n].pend \in {"up", "dn", "cfg"} => SoundBoot(m.boot[n])
  BY DEF NmtInv, Sound, SoundBoots, NoBoot
<1>3. QED
  BY <1>1, <1>2, UpConSound, DnConSound, CfgConSound, GoOnSound

LEMMA CommandSound ==
    ASSUME NmtInv, NEW cs \in Cs, NEW t \in Nodes \cup {All, Master}
    PROVE  Sound(IF t = Master THEN co_nmt_cs_ind(Idle, cs) ELSE SendAs(Idle, cs, t, "user"), NumNodes)
<1>1. /\ Sound(Idle, NumNodes) /\ StartFree(Idle) /\ ~Idle.auto /\ Idle \in MasterRecord
      /\ cfg \in Configs
  BY IdleSound DEF NmtInv
<1>2. Sound(co_nmt_cs_ind(Idle, cs), NumNodes)
  BY <1>1, CsIndSound
<1>3. ASSUME t # Master
      PROVE  Sound(SendAs(Idle, cs, t, "user"), NumNodes)
  <2> DEFINE r == SendAs(Idle, cs, t, "user")
  <2> DEFINE f == [cs |-> cs, to |-> t, by |-> "user"]
  <2>1. t \in Nodes \cup {All}
    BY <1>3
  <2>2. Same(Idle, r) /\ r.st = Idle.st /\ r.auto = Idle.auto /\ r.out = Append(Idle.out, f)
    BY <1>1, <2>1, SendSame
  <2>3. Idle.out \in Seq(Frame) /\ f \in Frame /\ ~Starts(f)
    BY <1>1, <2>1 DEF MasterRecord, Frame, Starts
  <2> HIDE DEF r, f
  <2>4. \A i \in 1 .. Len(r.out) : (i \in 1 .. Len(Idle.out) /\ r.out[i] = Idle.out[i]) \/ r.out[i] = f
    BY <2>2, <2>3
  <2>5. OutSound(r)
    BY <1>1, <2>3, <2>4 DEF OutSound, StartFree
  <2>6. QED
    BY <1>1, <2>2, <2>5, SoundSame, NodesNat DEF r
<1>4. QED
  BY <1>2, <1>3

\* A step to the master s leaves the invariant when s is sound.
LEMMA StepSound ==
    ASSUME NEW s, Sound(s, NumNodes), m' = s, cfg' = cfg
    PROVE  Sound(m, NumNodes)'
BY DEF Sound, SoundBoots, SoundBoot, OutSound, Passed, Decided, Awaited, AtOnce, Done, Listed, Mandatory,
       Keep, MayStart

LEMMA NmtStep == NmtInv /\ [Next]_vars => NmtInv'
<1> SUFFICES ASSUME NmtInv, [Next]_vars PROVE NmtInv'
  OBVIOUS
<1> DEFINE Ecs == {"none", "bootup", "preop", "op", "stopped"}
<1>1. cfg \in Configs /\ ec \in [Nodes -> Ecs] /\ Sound(m, NumNodes)
  BY DEF NmtInv
<1>2. ASSUME NEW s, Sound(s, NumNodes), m' = s, cfg' = cfg, ec' \in [Nodes -> Ecs]
      PROVE  NmtInv'
  BY <1>1, <1>2, StepSound DEF NmtInv
<1>3. Sound(Idle, NumNodes) /\ StartFree(Idle) /\ ~Idle.auto
  BY IdleSound
<1>4. CASE Startup
  <2>1. Sound(co_nmt_cs_ind(Idle, "reset_node"), NumNodes)
    BY <1>1, <1>3, CsIndSound DEF Cs
  <2>2. QED
    BY <1>1, <1>2, <1>4, <2>1 DEF Startup, Step
<1>5. ASSUME NEW t \in Nodes \cup {All, Master},
             NEW cs \in {"start", "stop", "preop", "reset_node", "reset_comm"}, Command(cs, t)
      PROVE  NmtInv'
  <2> DEFINE s == IF t = Master THEN co_nmt_cs_ind(Idle, cs) ELSE SendAs(Idle, cs, t, "user")
  <2>1. Sound(s, NumNodes)
    BY CommandSound DEF Cs
  <2>2. m' = s /\ cfg' = cfg /\ ec' = ec
    BY <1>5 DEF Command, Step
  <2> HIDE DEF s
  <2>3. QED
    BY <1>1, <1>2, <2>1, <2>2
<1>6. ASSUME NEW n \in Nodes, co_nmt_recv_700(n)
      PROVE  NmtInv'
  <2>1. Sound(Received(n, ec[n]), NumNodes)
    BY <1>6, ReceivedSound DEF co_nmt_recv_700
  <2>2. ec' \in [Nodes -> Ecs]
    BY <1>1, <1>6 DEF co_nmt_recv_700
  <2>3. QED
    BY <1>2, <1>6, <2>1, <2>2 DEF co_nmt_recv_700, Step
<1>7. ASSUME NEW n \in Nodes, co_nmt_hb_timer(n)
      PROVE  NmtInv'
  BY <1>1, <1>2, <1>7, HbTimerSound DEF co_nmt_hb_timer, Step
<1>8. ASSUME NEW n \in Nodes, BootTimer(n)
      PROVE  NmtInv'
  <2> DEFINE s == IF m.boot[n].state \in OnTimeStates
                  THEN Settle(Idle, n, co_nmt_boot_emit_time(m.boot[n], cfg.slave[n]))
                  ELSE [Idle EXCEPT !.crashed = TRUE]
  <2>1. Sound(s, NumNodes)
    BY <1>8, BootTimerSound DEF BootTimer
  <2>2. m' = s /\ cfg' = cfg /\ ec' = ec
    BY <1>8 DEF BootTimer, Step
  <2> HIDE DEF s
  <2>3. QED
    BY <1>1, <1>2, <2>1, <2>2
<1>9. ASSUME NEW n \in Nodes, BootTimeOver(n)
      PROVE  NmtInv'
  BY <1>1, <1>2, <1>9, BootTimeOverSound DEF BootTimeOver, Step
<1>10. ASSUME NEW n \in Nodes, UpCon(n)
       PROVE  NmtInv'
  <2>1. PICK res : Step(Settle(Idle, n, co_nmt_boot_up_con(m.boot[n], cfg.slave[n], res)))
    BY <1>10 DEF UpCon
  <2>2. QED
    BY <1>1, <1>2, <1>10, <2>1, ConSound DEF UpCon, Step
<1>11. ASSUME NEW n \in Nodes, DnCon(n)
       PROVE  NmtInv'
  <2>1. PICK res : Step(Settle(Idle, n, co_nmt_boot_dn_con(m.boot[n], cfg.slave[n], res)))
    BY <1>11 DEF DnCon
  <2>2. QED
    BY <1>1, <1>2, <1>11, <2>1, ConSound DEF DnCon, Step
<1>12. ASSUME NEW n \in Nodes, CfgCon(n)
       PROVE  NmtInv'
  <2>1. PICK res : Step(Settle(Idle, n, co_nmt_boot_cfg_con(m.boot[n], cfg.slave[n], res)))
    BY <1>12 DEF CfgCon
  <2>2. QED
    BY <1>1, <1>2, <1>12, <2>1, ConSound DEF CfgCon, Step
<1>13. ASSUME NEW n \in Nodes, NodeBootup(n) \/ NodeHeartbeat(n) \/ PowerOff(n) \/ PowerOn(n)
       PROVE  NmtInv'
  <2>1. PICK st, f : NodeStep(n, st, f) /\ f \in Ecs
    BY <1>1, <1>13 DEF NodeBootup, NodeHeartbeat, PowerOff, PowerOn, Alive
  <2>2. ec' \in [Nodes -> Ecs]
    BY <1>1, <2>1 DEF NodeStep
  <2>3. QED
    BY <1>2, <1>3, <2>1, <2>2 DEF NodeStep
<1>14. CASE UNCHANGED vars
  BY <1>1, <1>2, <1>14 DEF vars
<1>15. QED
  BY <1>4, <1>5, <1>6, <1>7, <1>8, <1>9, <1>10, <1>11, <1>12, <1>13, <1>14 DEF Next

LEMMA NmtInit == Init => NmtInv
<1> SUFFICES ASSUME Init PROVE NmtInv
  OBVIOUS
<1>1. co_nmt_hb_set_1016(FALSE) \in Consumer /\ NoSlave \in Verdict
  BY DEF co_nmt_hb_set_1016, Consumer, NoSlave, Verdict, Status, NodeState
<1> DEFINE hb == [n \in Nodes |-> co_nmt_hb_set_1016(FALSE)]
<1> DEFINE slave == [n \in Nodes |-> NoSlave]
<1> DEFINE boot == [n \in Nodes |-> NoBoot]
<1>2. /\ hb \in [Nodes -> Consumer] /\ slave \in [Nodes -> Verdict]
      /\ boot \in [Nodes -> BootRecord \cup {NoBoot}] /\ <<>> \in Seq(Frame)
      /\ \A n \in Nodes : boot[n] = NoBoot
  <2>1. hb \in [Nodes -> Consumer]
    BY <1>1
  <2>2. slave \in [Nodes -> Verdict]
    BY <1>1
  <2>3. boot \in [Nodes -> BootRecord \cup {NoBoot}] /\ \A n \in Nodes : boot[n] = NoBoot
    OBVIOUS
  <2>4. <<>> \in Seq(Frame)
    OBVIOUS
  <2>5. QED
    BY <2>1, <2>2, <2>3, <2>4
<1>3. m = [st |-> "init", reset |-> FALSE, halt |-> FALSE, auto |-> FALSE, out |-> <<>>,
           crashed |-> FALSE, hb |-> hb, slave |-> slave, boot |-> boot]
  BY DEF Init
<1> HIDE DEF hb, slave, boot
<1>4. /\ m \in MasterRecord /\ m.st = "init" /\ ~m.auto /\ m.out = <<>>
      /\ \A n \in Nodes : m.boot[n] = NoBoot
  BY <1>2, <1>3 DEF MasterRecord
<1>5. Sound(m, NumNodes)
  BY <1>4 DEF Sound, SoundBoots, OutSound, Passed, Decided
<1>6. cfg \in Configs /\ ec \in [Nodes -> {"none", "bootup", "preop", "op", "stopped"}]
  BY DEF Init
<1>7. QED
  BY <1>5, <1>6 DEF NmtInv

-----------------------------------------------------------------------------
(* The theorems                                                            *)

\* The state of the master stays well typed, a boot waits only for what its state
\* handles, and while co_nmt_preop_on_boot may still go on, every mandatory slave is
\* being booted or has booted.
THEOREM NmtInvHolds == Spec => []NmtInv
<1>1. QED
  BY NmtInit, NmtStep, PTL DEF Spec

\* Whatever the slaves do and however often they fail or restart, the master enters
\* operational by itself (co_nmt_startup_slave) only after every mandatory slave that
\* the startup procedure waits for was booted without error, and is not being booted.
THEOREM MandatoryBootedHolds == Spec => []MandatoryBooted
<1>1. NmtInv => MandatoryBooted
  BY DEF NmtInv, Sound, Decided, Awaited, Done, MandatoryBooted
<1>2. QED
  BY <1>1, NmtInvHolds, PTL

\* No start command of the master's own goes to a slave whose last boot failed, in
\* co_nmt_start_on_enter or in co_nmt_boot_con.
THEOREM FailedNotStartedHolds == Spec => []FailedNotStarted
<1>1. NmtInv => FailedNotStarted
  BY DEF NmtInv, Sound, OutSound, Starts, Done, FailedNotStarted
<1>2. QED
  BY <1>1, NmtInvHolds, PTL
=============================================================================

-------------------------------- MODULE Csdo --------------------------------
(***************************************************************************)
(* The Client-SDO service of the Lely stack (co/csdo.c): the state machine *)
(* behind every SDO request of the master, for expedited, segmented and    *)
(* block transfers and for the download of a concise DCF.                  *)
(*                                                                         *)
(* csdo is struct __co_csdo: the current state, the request it works on    *)
(* and the timer. con is the last confirmation handed to the application.  *)
(* Entering the abort state, its on_enter (stop the timer, go to the wait  *)
(* state) and its on_leave (confirm) happen in one call of co_csdo_enter   *)
(* and are one step here.                                                  *)
(***************************************************************************)
EXTENDS SdoFrame

CONSTANT CO_SDO_MAX_SEQNO   \* segments per block, 127 in co/sdo.h

VARIABLES csdo, con

cvars == <<csdo, con>>

NoCon == [ac |-> "NONE", data |-> <<>>]

CsdoInit == [state |-> "wait", pending |-> FALSE, up |-> FALSE, idx |-> NoIdx,
             data |-> <<>>, pos |-> 0, rx |-> <<>>, size |-> 0, toggle |-> 0,
             blksize |-> 0, pst |-> 0, ackseq |-> 0, crc |-> FALSE,
             dcf |-> <<>>, timer |-> FALSE]

co_csdo_is_idle == csdo.state = "wait"

Arm(c) == [c EXCEPT !.timer = TRUE]

(* co_csdo_dn_ind and co_csdo_up_ind: the service starts from a clean       *)
(* slate, whatever the transfer before it left behind.                      *)
co_csdo_dn_ind(c, item) ==
  [c EXCEPT !.pending = TRUE, !.up = FALSE, !.idx = item.idx, !.data = item.data,
            !.pos = 0, !.size = Len(item.data), !.toggle = 0, !.blksize = 0,
            !.pst = 0, !.ackseq = 0, !.crc = FALSE]

(* Fault: the toggle bit of the last transfer is kept.                      *)
UpIndKeepsToggle(c, idx) ==
  [c EXCEPT !.pending = TRUE, !.up = TRUE, !.idx = idx, !.rx = <<>>, !.size = 0,
            !.blksize = 0, !.pst = 0, !.ackseq = 0, !.crc = FALSE]

co_csdo_up_ind(c, idx) ==
  [c EXCEPT !.pending = TRUE, !.up = TRUE, !.idx = idx, !.rx = <<>>, !.size = 0,
            !.toggle = 0, !.blksize = 0, !.pst = 0, !.ackseq = 0, !.crc = FALSE]

(* Fault: the timer of a request is not started.                            *)
DnReqNoTimer(c, item) ==
  LET n == Len(item.data)
  IN  [co_csdo_dn_ind(c, item) EXCEPT !.state = "dn_ini",
                                      !.pos = IF n \in 1..4 THEN n ELSE 0]

(* co_csdo_dn_req: up to four bytes travel in the initiate request, after   *)
(* which nothing is left to send.                                           *)
DnReqState(c, item) ==
  LET n == Len(item.data)
  IN  Arm([co_csdo_dn_ind(c, item) EXCEPT !.state = "dn_ini",
                                          !.pos = IF n \in 1..4 THEN n ELSE 0])

DnReqFrame(item) ==
  LET n == Len(item.data)
  IN  IF n \in 1..4 THEN Frame(ExpByte(CCS_DN_INI, n), item.idx, NoArg, Expedited(item.data))
                    ELSE Frame(SizeByte(CCS_DN_INI), item.idx, Num(n), <<>>)

(* The abort state: stop the timer, go to the wait state and confirm. The   *)
(* confirmation of one DCF entry submits the next one, or confirms the DCF  *)
(* when it was the last or failed (co_csdo_dn_dcf_dn_con). out is what the  *)
(* handler sent before.                                                     *)
co_csdo_abort_ind(c, ac, out) ==
  LET w == [c EXCEPT !.state = "wait", !.timer = FALSE]
  IN  IF ac = "OK" /\ c.dcf # <<>>
      THEN /\ csdo' = DnReqState([w EXCEPT !.dcf = Tail(@)], Head(c.dcf))
           /\ c2s' = c2s \o out \o <<DnReqFrame(Head(c.dcf))>>
           /\ UNCHANGED con
      ELSE /\ csdo' = [w EXCEPT !.pending = FALSE, !.dcf = <<>>]
           /\ c2s' = c2s \o out
           /\ con' = IF c.pending
                     THEN [ac |-> ac, data |-> IF c.up /\ ac = "OK" THEN c.rx ELSE <<>>]
                     ELSE con

co_csdo_abort_res(c, ac) == co_csdo_abort_ind(c, ac, <<AbortFrame(c.idx, ac)>>)

Continue(c, out) == csdo' = c /\ c2s' = c2s \o out /\ UNCHANGED con

(***************************************************************************)
(* Requests                                                                *)
(***************************************************************************)
co_csdo_dn_req(item) ==
  /\ co_csdo_is_idle
  /\ Continue(DnReqState(csdo, item), <<DnReqFrame(item)>>)

co_csdo_dn_dcf_req(items) ==
  /\ co_csdo_is_idle
  /\ Continue(DnReqState([csdo EXCEPT !.dcf = Tail(items)], Head(items)),
              <<DnReqFrame(Head(items))>>)

co_csdo_up_req(idx) ==
  /\ co_csdo_is_idle
  /\ Continue(Arm([co_csdo_up_ind(csdo, idx) EXCEPT !.state = "up_ini"]),
              <<Frame(32 * CCS_UP_INI, idx, NoArg, <<>>)>>)

co_csdo_blk_dn_req(item) ==
  /\ co_csdo_is_idle
  /\ Continue(Arm([co_csdo_dn_ind(csdo, item) EXCEPT !.state = "blk_dn_ini"]),
              <<Frame(BlkIniByte(CCS_BLK_DN, TRUE), item.idx, Num(Len(item.data)), <<>>)>>)

BlkUpIniReq(c) ==
  Frame(BlkIniByte(CCS_BLK_UP, FALSE), c.idx, Blk(c.pst, c.blksize), <<>>)

co_csdo_blk_up_req(idx, pst) ==
  /\ co_csdo_is_idle
  /\ LET c == [co_csdo_up_ind(csdo, idx) EXCEPT !.state = "blk_up_ini", !.pst = pst,
                                                !.blksize = CO_SDO_MAX_SEQNO]
     IN  Continue(Arm(c), <<BlkUpIniReq(c)>>)

(* The application aborts whatever is under way; nothing happens in the     *)
(* wait and stopped states.                                                 *)
co_csdo_abort_req(ac) ==
  /\ csdo.state \notin {"wait", "stopped"}
  /\ co_csdo_abort_res(csdo, ac)

(* Stopping aborts, then takes the timer and the receiver away.             *)
co_csdo_stop ==
  /\ csdo.state # "stopped"
  /\ csdo' = [csdo EXCEPT !.state = "stopped", !.pending = FALSE, !.dcf = <<>>, !.timer = FALSE]
  /\ IF csdo.state = "wait"
     THEN UNCHANGED <<c2s, con>>
     ELSE /\ c2s' = Append(c2s, AbortFrame(csdo.idx, "NO_SDO"))
          /\ con' = [ac |-> "NO_SDO", data |-> <<>>]

co_csdo_start ==
  /\ csdo.state = "stopped"
  /\ Continue([csdo EXCEPT !.state = "wait"], <<>>)

(* co_csdo_timer: every state but wait and stopped answers the timer by     *)
(* aborting the transfer.                                                   *)
co_csdo_timer ==
  /\ csdo.timer
  /\ co_csdo_abort_res(csdo, "TIMEOUT")

(***************************************************************************)
(* Reception, one operator per state                                       *)
(***************************************************************************)
(* An abort from the server, a command the state expects, or neither.       *)
Checked(m, scs, handler) ==
  CASE Cs(m) = CS_ABORT -> co_csdo_abort_ind(csdo, AbortCode(m), <<>>)
    [] Cs(m) = scs      -> handler
    [] OTHER            -> co_csdo_abort_res(csdo, "NO_CS")

co_csdo_wait_on_recv(m) ==
  IF Cs(m) = CS_ABORT THEN co_csdo_abort_ind(csdo, AbortCode(m), <<>>) ELSE Continue(csdo, <<>>)

(* Send the next segment, or finish when none is left; an expedited         *)
(* download finishes here too. An empty value still needs one segment.      *)
co_csdo_dn_seg_on_enter(c) ==
  LET left == c.size - c.pos
      n    == Lesser(left, SegBytes)
  IN  IF left > 0 \/ (c.size = 0 /\ c.toggle = 0)
      THEN Continue(Arm([c EXCEPT !.state = "dn_seg", !.pos = @ + n, !.toggle = 1 - @]),
                    <<Frame(SegByte(CCS_DN_SEG, c.toggle, n, left <= SegBytes), NoIdx, NoArg,
                            Segment(c.data, c.pos, n))>>)
      ELSE co_csdo_abort_ind(c, "OK", <<>>)

co_csdo_dn_ini_on_recv(m) ==
  Checked(m, SCS_DN_INI,
    IF m.idx # csdo.idx THEN co_csdo_abort_res(csdo, "ERROR")
                        ELSE co_csdo_dn_seg_on_enter(csdo))

co_csdo_dn_seg_on_recv(m) ==
  Checked(m, SCS_DN_SEG,
    IF Toggle(m) = csdo.toggle THEN co_csdo_abort_res(csdo, "TOGGLE")
                               ELSE co_csdo_dn_seg_on_enter(csdo))

UpSegReq(c) == Frame(32 * CCS_UP_SEG + 16 * c.toggle, NoIdx, NoArg, <<>>)

co_csdo_up_ini_on_recv(m) ==
  Checked(m, SCS_UP_INI,
    CASE m.idx # csdo.idx -> co_csdo_abort_res(csdo, "ERROR")
      [] m.idx = csdo.idx /\ IsExpedited(m) ->
           co_csdo_abort_ind([csdo EXCEPT !.size = ExpSize(m),
                                          !.rx = @ \o Padded(m.data, ExpSize(m))], "OK", <<>>)
      [] OTHER ->
           Continue(Arm([csdo EXCEPT !.state = "up_seg", !.size = m.arg.num, !.toggle = 1 - @]),
                    <<UpSegReq(csdo)>>))

(* A repeated segment (same toggle) is ignored; the last one must complete  *)
(* the announced size.                                                      *)
co_csdo_up_seg_on_recv(m) ==
  Checked(m, SCS_UP_SEG,
    LET c == [csdo EXCEPT !.rx = @ \o m.data]
    IN  CASE Toggle(m) = csdo.toggle -> Continue(csdo, <<>>)
          [] Toggle(m) # csdo.toggle /\ Len(c.rx) > csdo.size ->
               co_csdo_abort_res(csdo, "TYPE_LEN_HI")
          [] Toggle(m) # csdo.toggle /\ Len(c.rx) <= csdo.size /\ IsLastSeg(m) ->
               IF csdo.size > 0 /\ Len(c.rx) # csdo.size
               THEN co_csdo_abort_res(c, "TYPE_LEN_LO")
               ELSE co_csdo_abort_ind(c, "OK", <<>>)
          [] OTHER -> Continue(Arm([c EXCEPT !.toggle = 1 - @]), <<UpSegReq(c)>>))

(* Send the whole next block, or the end request when no data is left.      *)
co_csdo_blk_dn_sub_on_enter(c) ==
  LET left == c.size - c.pos
      k    == Lesser((left + SegBytes - 1) \div SegBytes, c.blksize)
  IN  IF (left > 0 /\ c.blksize = 0) \/ c.blksize > CO_SDO_MAX_SEQNO
      THEN co_csdo_abort_res(c, "BLK_SIZE")
      ELSE IF left > 0
      THEN Continue(Arm([c EXCEPT !.state = "blk_dn_sub", !.blksize = k,
                                  !.pos = Lesser(@ + k * SegBytes, c.size)]),
                    BlockOf(c.data, c.pos, k, TRUE))
      ELSE Continue(Arm([c EXCEPT !.state = "blk_dn_end", !.blksize = k]),
                    <<Frame(BlkEndByte(CCS_BLK_DN, LastBytes(c.size)), NoIdx,
                            [NoArg EXCEPT !.crc = IF c.crc THEN co_crc(<<>>, c.data) ELSE @],
                            <<>>)>>)

co_csdo_blk_dn_ini_on_recv(m) ==
  Checked(m, SCS_BLK_DN,
    CASE Sc(m) # SC_INI_BLK -> co_csdo_abort_res(csdo, "NO_CS")
      [] Sc(m) = SC_INI_BLK /\ m.idx # csdo.idx -> co_csdo_abort_res(csdo, "ERROR")
      [] OTHER -> co_csdo_blk_dn_sub_on_enter(
                    [csdo EXCEPT !.crc = HasCrc(m), !.blksize = m.arg.blksize]))

(* The server acknowledged fewer segments than the block has: go back to    *)
(* the first one it misses.                                                 *)
co_csdo_blk_dn_sub_on_recv(m) ==
  Checked(m, SCS_BLK_DN,
    IF Sc(m) # SC_BLK_RES THEN co_csdo_abort_res(csdo, "NO_CS")
    ELSE LET sent   == (csdo.pos + SegBytes - 1) \div SegBytes
             missed == csdo.blksize - m.arg.num
         IN  co_csdo_blk_dn_sub_on_enter(
               [csdo EXCEPT !.pos = IF missed > 0 THEN (sent - missed) * SegBytes ELSE @,
                            !.blksize = m.arg.blksize]))

co_csdo_blk_dn_end_on_recv(m) ==
  Checked(m, SCS_BLK_DN,
    IF Sc(m) # SC_END_BLK THEN co_csdo_abort_res(csdo, "NO_CS")
                          ELSE co_csdo_abort_ind(csdo, "OK", <<>>))

(* The server may switch to the normal upload protocol, or refuse the block *)
(* size, which is then halved.                                              *)
co_csdo_blk_up_ini_on_recv(m) ==
  CASE Cs(m) = SCS_UP_INI -> co_csdo_up_ini_on_recv(m)
    [] Cs(m) = CS_ABORT /\ AbortCode(m) = "BLK_SIZE" /\ csdo.blksize > 1 ->
         LET c == [csdo EXCEPT !.blksize = (@ + 1) \div 2]
         IN  Continue(Arm(c), <<BlkUpIniReq(c)>>)
    [] OTHER ->
         Checked(m, SCS_BLK_UP,
           CASE m.cs % 2 # SC_INI_BLK -> co_csdo_abort_res(csdo, "NO_CS")
             [] m.cs % 2 = SC_INI_BLK /\ m.idx # csdo.idx -> co_csdo_abort_res(csdo, "ERROR")
             [] OTHER ->
                  Continue(Arm([csdo EXCEPT !.state = "blk_up_sub", !.crc = HasCrc(m),
                                            !.size = m.arg.num, !.ackseq = 0]),
                           <<Frame(32 * CCS_BLK_UP + SC_START_UP, NoIdx, NoArg, <<>>)>>))

(* Only the segment that follows the last accepted one is stored. The end   *)
(* of a block is acknowledged with the number of segments accepted; the     *)
(* end of the data leads to the end state, whether or not it was accepted.  *)
co_csdo_blk_up_sub_on_recv(m) ==
  LET next == SeqNo(m) = csdo.ackseq + 1
      n    == Lesser(csdo.size - Len(csdo.rx), SegBytes)
      c    == IF next THEN [csdo EXCEPT !.ackseq = @ + 1, !.rx = @ \o Padded(m.data, n)]
                      ELSE csdo
      done == EndOfBlock(m, csdo.blksize)
  IN  CASE IsAbortByte(m) -> co_csdo_abort_ind(csdo, AbortCode(m), <<>>)
        [] ~IsAbortByte(m) /\ next /\ ~IsLastSeq(m) /\ n < SegBytes ->
             co_csdo_abort_res(csdo, "TYPE_LEN_HI")
        [] OTHER ->
             Continue(Arm([c EXCEPT !.ackseq = IF done THEN 0 ELSE @,
                                    !.state = IF IsLastSeq(m) THEN "blk_up_end" ELSE @]),
                      IF done
                      THEN <<Frame(32 * CCS_BLK_UP + SC_BLK_RES, NoIdx,
                                   Blk(c.ackseq, c.blksize), <<>>)>>
                      ELSE <<>>)

co_csdo_blk_up_end_on_recv(m) ==
  Checked(m, SCS_BLK_UP,
    CASE Sc(m) # SC_END_BLK -> co_csdo_abort_res(csdo, "NO_CS")
      [] Sc(m) = SC_END_BLK /\ csdo.size > 0 /\ Len(csdo.rx) # csdo.size ->
           co_csdo_abort_res(csdo, "TYPE_LEN_LO")
      [] Sc(m) = SC_END_BLK /\ (csdo.size = 0 \/ Len(csdo.rx) = csdo.size)
           /\ BlkSizeGet(m) # LastBytes(csdo.size) -> co_csdo_abort_res(csdo, "NO_CS")
      [] Sc(m) = SC_END_BLK /\ (csdo.size = 0 \/ Len(csdo.rx) = csdo.size)
           /\ BlkSizeGet(m) = LastBytes(csdo.size)
           /\ csdo.crc /\ m.arg.crc # co_crc(<<>>, csdo.rx) -> co_csdo_abort_res(csdo, "BLK_CRC")
      [] OTHER ->
           co_csdo_abort_ind(csdo, "OK", <<Frame(32 * CCS_BLK_UP + SC_END_BLK, NoIdx, NoArg, <<>>)>>))

(* co_csdo_recv: a frame goes to the handler of the current state; without  *)
(* a receiver (stopped) it is not delivered.                                *)
co_csdo_recv ==
  /\ s2c # <<>>
  /\ s2c' = Tail(s2c)
  /\ LET m == Head(s2c)
     IN  CASE csdo.state = "stopped"    -> UNCHANGED <<csdo, con, c2s>>
           [] csdo.state = "wait"       -> co_csdo_wait_on_recv(m)
           [] csdo.state = "dn_ini"     -> co_csdo_dn_ini_on_recv(m)
           [] csdo.state = "dn_seg"     -> co_csdo_dn_seg_on_recv(m)
           [] csdo.state = "up_ini"     -> co_csdo_up_ini_on_recv(m)
           [] csdo.state = "up_seg"     -> co_csdo_up_seg_on_recv(m)
           [] csdo.state = "blk_dn_ini" -> co_csdo_blk_dn_ini_on_recv(m)
           [] csdo.state = "blk_dn_sub" -> co_csdo_blk_dn_sub_on_recv(m)
           [] csdo.state = "blk_dn_end" -> co_csdo_blk_dn_end_on_recv(m)
           [] csdo.state = "blk_up_ini" -> co_csdo_blk_up_ini_on_recv(m)
           [] csdo.state = "blk_up_sub" -> co_csdo_blk_up_sub_on_recv(m)
           [] csdo.state = "blk_up_end" -> co_csdo_blk_up_end_on_recv(m)
=============================================================================

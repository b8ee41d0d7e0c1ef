-------------------------------- MODULE Ssdo --------------------------------
(***************************************************************************)
(* The Server-SDO service of the Lely stack (co/ssdo.c) with the SDO       *)
(* request buffer it fills (co/sdo.c) and the default download and upload  *)
(* indications of the object dictionary (co/obj.c).                        *)
(*                                                                         *)
(* ssdo is struct __co_ssdo. Its struct co_sdo_req is size, off, seg       *)
(* (req.buf with req.nbyte bytes) and membuf; buf holds the bytes of an    *)
(* upload that are waiting to be sent or acknowledged, nbyte how many      *)
(* bytes of req.buf were copied to it. od maps an object to its bytes.     *)
(***************************************************************************)
EXTENDS SdoFrame

CONSTANTS CO_SSDO_MAX_SEQNO,  \* segments per block the server accepts
          Objects,            \* the objects of the dictionary
          Writable            \* those a client may write

VARIABLES ssdo, od

svars == <<ssdo, od>>

SsdoInit == [state |-> "wait", idx |-> NoIdx, toggle |-> 0, blksize |-> 0,
             ackseq |-> 0, gencrc |-> FALSE, crc |-> <<>>, size |-> 0, off |-> 0,
             seg |-> <<>>, membuf |-> <<>>, buf |-> <<>>, nbyte |-> 0,
             timer |-> FALSE, timeout |-> FALSE]

ArmServer(s) == [s EXCEPT !.timer = @ \/ s.timeout]

(* co_sdo_req_clear                                                         *)
co_sdo_req_clear(s) == [s EXCEPT !.size = 0, !.off = 0, !.seg = <<>>, !.membuf = <<>>]

(* co_ssdo_abort_ind: forget the transfer and wait for the next one.        *)
co_ssdo_abort_ind(s) ==
  [SsdoInit EXCEPT !.timeout = s.timeout, !.timer = s.timer /\ ~s.timeout]

(* Answer with out, continue as s.                                          *)
Reply(s, out) == ssdo' = s /\ s2c' = s2c \o out /\ UNCHANGED od

co_ssdo_abort_res(s, ac) == Reply(co_ssdo_abort_ind(s), <<AbortFrame(s.idx, ac)>>)

(***************************************************************************)
(* The object dictionary                                                   *)
(***************************************************************************)
(* co_sdo_req_dn_buf: the segment goes to its offset; a segment that was    *)
(* passed before is written over itself, a gap is an error.                 *)
DnBuf(s) == SubSeq(s.membuf, 1, s.off) \o s.seg

(* The abort code of co_ssdo_dn_ind, "OK" when the segment was accepted.    *)
DnAc(s) == CASE s.idx \notin Objects -> "NO_OBJ"
             [] s.idx \in Objects /\ s.idx \notin Writable -> "NO_WRITE"
             [] s.idx \in Writable /\ s.off > Len(s.membuf) -> "ERROR"
             [] OTHER -> "OK"

(* Fault: every segment reaches the object.                                 *)
DnOdEachSegment(s) == [od EXCEPT ![s.idx] = DnBuf(s)]

(* The value reaches the object only when the request includes the last     *)
(* segment (co_sdo_req_last, co_sub_dn).                                    *)
DnOd(s) == IF s.off + Len(s.seg) >= s.size THEN [od EXCEPT ![s.idx] = DnBuf(s)] ELSE od

(* co_ssdo_dn_ind: pass the segment to the object, then answer.             *)
co_ssdo_dn_ind(s, next, out) ==
  IF DnAc(s) # "OK" THEN co_ssdo_abort_res(s, DnAc(s))
  ELSE ssdo' = next /\ od' = DnOd(s) /\ s2c' = s2c \o out

(* co_ssdo_up_ind: the request takes a copy of the whole value.             *)
co_ssdo_up_ind(s) ==
  [s EXCEPT !.size = Len(od[s.idx]), !.off = 0, !.seg = od[s.idx], !.nbyte = 0]

(* co_ssdo_up_buf: move up to n more bytes of the copy to the buffer.       *)
co_ssdo_up_buf(s, n) ==
  LET k     == Lesser(n, Len(s.seg) - s.nbyte)
      bytes == Segment(s.seg, s.nbyte, k)
  IN  [s EXCEPT !.buf = @ \o bytes, !.nbyte = @ + k,
                !.crc = IF s.gencrc THEN co_crc(@, bytes) ELSE @]

UpDone(s) == s.nbyte = Len(s.seg)

(***************************************************************************)
(* Reception, one operator per state                                       *)
(***************************************************************************)
(* An abort from the client, a command the state expects, or neither.       *)
Accepted(m, ccs, handler) ==
  CASE Cs(m) = CS_ABORT -> Reply(co_ssdo_abort_ind(ssdo), <<>>)
    [] Cs(m) = ccs      -> handler
    [] OTHER            -> co_ssdo_abort_res(ssdo, "NO_CS")

DnIniRes(s) == Frame(32 * SCS_DN_INI, s.idx, NoArg, <<>>)

(* An expedited value is passed to the object at once; otherwise the object *)
(* sees the size first and may refuse it.                                   *)
co_ssdo_dn_ini_on_recv(m) ==
  LET exp == IsExpedited(m)
      s   == [co_sdo_req_clear(ssdo) EXCEPT
                !.idx = m.idx, !.size = IF exp THEN ExpSize(m) ELSE m.arg.num,
                !.seg = IF exp THEN Padded(m.data, ExpSize(m)) ELSE <<>>]
  IN  co_ssdo_dn_ind(s, IF exp THEN co_ssdo_abort_ind(s)
                        ELSE ArmServer([s EXCEPT !.state = "dn_seg"]),
                     <<DnIniRes(s)>>)

(* A repeated segment (same toggle) is ignored.                             *)
co_ssdo_dn_seg_on_recv(m) ==
  LET s    == [ssdo EXCEPT !.seg = m.data, !.off = @ + Len(ssdo.seg)]
      fits == s.off + Len(s.seg) <= s.size
      full == s.off + Len(s.seg) = s.size
      last == IsLastSeg(m)
  IN  Accepted(m, CCS_DN_SEG,
        CASE Toggle(m) # ssdo.toggle -> Reply(ssdo, <<>>)
          [] Toggle(m) = ssdo.toggle /\ ~fits -> co_ssdo_abort_res(ssdo, "TYPE_LEN_HI")
          [] Toggle(m) = ssdo.toggle /\ fits /\ last /\ ~full -> co_ssdo_abort_res(s, "TYPE_LEN_LO")
          [] OTHER ->
               co_ssdo_dn_ind(s, IF last THEN co_ssdo_abort_ind(s)
                                 ELSE ArmServer([s EXCEPT !.membuf = DnBuf(s), !.toggle = 1 - @]),
                              <<Frame(32 * SCS_DN_SEG + 16 * s.toggle, NoIdx, NoArg, <<>>)>>))

(* Up to four bytes travel in the initiate response.                        *)
UpExpedited(s) ==
  Reply(co_ssdo_abort_ind(s), <<Frame(ExpByte(SCS_UP_INI, s.size), s.idx, NoArg, Expedited(s.seg))>>)

UpSegmented(s) ==
  Reply(ArmServer([s EXCEPT !.state = "up_seg"]), <<Frame(SizeByte(SCS_UP_INI), s.idx, Num(s.size), <<>>)>>)

co_ssdo_up_ini_on_recv(m) ==
  LET q == [co_sdo_req_clear(ssdo) EXCEPT !.idx = m.idx]
  IN  IF m.idx \notin Objects THEN co_ssdo_abort_res(q, "NO_OBJ")
      ELSE LET s == co_ssdo_up_ind(q)
           IN  IF s.size \in 1..4 THEN UpExpedited(s) ELSE UpSegmented(s)

co_ssdo_up_seg_on_recv(m) ==
  LET s    == co_ssdo_up_buf([ssdo EXCEPT !.buf = <<>>], SegBytes)
      last == UpDone(s)
  IN  Accepted(m, CCS_UP_SEG,
        IF Toggle(m) # ssdo.toggle THEN co_ssdo_abort_res(ssdo, "TOGGLE")
        ELSE Reply(IF last THEN co_ssdo_abort_ind(s) ELSE ArmServer([s EXCEPT !.toggle = 1 - @]),
                   <<Frame(SegByte(SCS_UP_SEG, s.toggle, Len(s.buf), last), NoIdx, NoArg, s.buf)>>))

co_ssdo_blk_dn_ini_on_recv(m) ==
  LET s == [co_sdo_req_clear(ssdo) EXCEPT
              !.gencrc = HasCrc(m), !.idx = m.idx, !.size = m.arg.num,
              !.blksize = CO_SSDO_MAX_SEQNO, !.ackseq = 0]
  IN  IF m.cs % 2 # SC_INI_BLK THEN co_ssdo_abort_res(ssdo, "NO_CS")
      ELSE co_ssdo_dn_ind(s, ArmServer([s EXCEPT !.state = "blk_dn_sub"]),
                          <<Frame(BlkIniByte(SCS_BLK_DN, FALSE) - (IF s.gencrc THEN 0 ELSE 4),
                                  s.idx, Blk(0, s.blksize), <<>>)>>)

(* Only the segment that follows the last accepted one is stored. A segment *)
(* goes to the object at once, the last one only after the end request. The *)
(* end of a block is acknowledged with the number of segments accepted; the *)
(* end of the data leads to the end state, whether or not it was accepted.  *)
co_ssdo_blk_dn_sub_on_recv(m) ==
  LET seqno == SeqNo(m)
      last  == IsLastSeq(m)
      next  == seqno = ssdo.ackseq + 1
      done  == EndOfBlock(m, ssdo.blksize)
      at    == ssdo.off + Len(ssdo.seg)
      n     == Lesser(ssdo.size - at, SegBytes)
      s     == IF next THEN [ssdo EXCEPT !.ackseq = @ + 1, !.off = at,
                                         !.seg = Padded(m.data, n)]
                       ELSE ssdo
      t     == IF next /\ ~last
               THEN [s EXCEPT !.crc = IF s.gencrc THEN co_crc(@, s.seg) ELSE @,
                              !.membuf = DnBuf(s)]
               ELSE s
      ack   == IF done THEN <<Frame(32 * SCS_BLK_DN + SC_BLK_RES, NoIdx,
                                    Blk(s.ackseq, s.blksize), <<>>)>>
                       ELSE <<>>
      u     == ArmServer([t EXCEPT !.ackseq = IF done THEN 0 ELSE @,
                                   !.state = IF last THEN "blk_dn_end" ELSE @])
  IN  CASE IsAbortByte(m) -> Reply(co_ssdo_abort_ind(ssdo), <<>>)
        [] ~IsAbortByte(m) /\ seqno \notin 1..ssdo.blksize -> co_ssdo_abort_res(ssdo, "BLK_SEQ")
        [] ~IsAbortByte(m) /\ seqno \in 1..ssdo.blksize /\ next /\ ~last /\ n < SegBytes ->
             co_ssdo_abort_res(ssdo, "TYPE_LEN_HI")
        [] OTHER -> IF ~last /\ (next \/ done) THEN co_ssdo_dn_ind(s, u, ack) ELSE Reply(u, ack)

co_ssdo_blk_dn_end_on_recv(m) ==
  LET crc == co_crc(ssdo.crc, ssdo.seg)
  IN  Accepted(m, CCS_BLK_DN,
        CASE Sc(m) # SC_END_BLK -> co_ssdo_abort_res(ssdo, "NO_CS")
          [] Sc(m) = SC_END_BLK /\ ssdo.size # ssdo.off + Len(ssdo.seg) ->
               co_ssdo_abort_res(ssdo, "TYPE_LEN_LO")
          [] Sc(m) = SC_END_BLK /\ ssdo.size = ssdo.off + Len(ssdo.seg)
               /\ BlkSizeGet(m) # LastBytes(ssdo.size) -> co_ssdo_abort_res(ssdo, "NO_CS")
          [] Sc(m) = SC_END_BLK /\ ssdo.size = ssdo.off + Len(ssdo.seg)
               /\ BlkSizeGet(m) = LastBytes(ssdo.size)
               /\ ssdo.gencrc /\ crc # m.arg.crc -> co_ssdo_abort_res(ssdo, "BLK_CRC")
          [] OTHER -> co_ssdo_dn_ind(ssdo, co_ssdo_abort_ind(ssdo),
                                     <<Frame(32 * SCS_BLK_DN + SC_END_BLK, NoIdx, NoArg, <<>>)>>))

(* The block size must be one the server supports; a value within the       *)
(* protocol switch threshold is sent with the normal upload protocol.       *)
co_ssdo_blk_up_ini_on_recv(m) ==
  LET q == [co_sdo_req_clear(ssdo) EXCEPT !.gencrc = HasCrc(m), !.idx = m.idx,
                                          !.blksize = m.arg.blksize]
      s == co_ssdo_up_ind(q)
  IN  CASE Sc(m) # SC_INI_BLK -> co_ssdo_abort_res(ssdo, "NO_CS")
        [] Sc(m) = SC_INI_BLK /\ q.blksize \notin 1..CO_SSDO_MAX_SEQNO ->
             co_ssdo_abort_res(q, "BLK_SIZE")
        [] Sc(m) = SC_INI_BLK /\ q.blksize \in 1..CO_SSDO_MAX_SEQNO /\ m.idx \notin Objects ->
             co_ssdo_abort_res(q, "NO_OBJ")
        [] OTHER ->
             IF m.arg.num > 0 /\ s.size <= m.arg.num
             THEN IF s.size <= 4 THEN UpExpedited(s) ELSE UpSegmented(s)
             ELSE Reply(ArmServer([s EXCEPT !.state = "blk_up_sub"]),
                        <<Frame(BlkIniByte(SCS_BLK_UP, TRUE) - (IF s.gencrc THEN 0 ELSE 4),
                                s.idx, Num(s.size), <<>>)>>)

(* Drop the acknowledged segments from the buffer, fill it up to a block    *)
(* and send it, or send the end request when nothing is left.               *)
co_ssdo_blk_up_sub_on_recv(m) ==
  LET start == ssdo.off = 0 /\ ssdo.nbyte = 0
      acked == Lesser(m.arg.num * SegBytes, Len(ssdo.buf))
      f     == IF Sc(m) = SC_BLK_RES
               THEN [ssdo EXCEPT !.buf = SubSeq(@, acked + 1, Len(@)), !.blksize = m.arg.blksize]
               ELSE ssdo
      room  == f.blksize * SegBytes - Len(f.buf)
      g     == co_ssdo_up_buf(f, room)
      s     == IF room > 0
               THEN [g EXCEPT !.blksize = (Len(g.buf) + SegBytes - 1) \div SegBytes]
               ELSE f
  IN  Accepted(m, CCS_BLK_UP,
        CASE \/ Sc(m) \notin {SC_BLK_RES, SC_START_UP}
             \/ start # (Sc(m) = SC_START_UP) -> co_ssdo_abort_res(ssdo, "NO_CS")
          [] /\ Sc(m) = SC_BLK_RES /\ ~start
             /\ f.blksize \notin 1..CO_SSDO_MAX_SEQNO -> co_ssdo_abort_res(f, "BLK_SIZE")
          [] OTHER ->
               IF s.blksize > 0
               THEN Reply(ArmServer(s), BlockOf(s.buf, 0, s.blksize, UpDone(s)))
               ELSE Reply(ArmServer([s EXCEPT !.state = "blk_up_end"]),
                          <<Frame(BlkEndByte(SCS_BLK_UP, LastBytes(s.size)), NoIdx, [NoArg EXCEPT !.crc = s.crc], <<>>)>>))

co_ssdo_blk_up_end_on_recv(m) ==
  Accepted(m, CCS_BLK_UP,
    IF Sc(m) # SC_END_BLK THEN co_ssdo_abort_res(ssdo, "NO_CS")
                          ELSE Reply(co_ssdo_abort_ind(ssdo), <<>>))

co_ssdo_wait_on_recv(m) ==
  CASE Cs(m) = CCS_DN_INI -> co_ssdo_dn_ini_on_recv(m)
    [] Cs(m) = CCS_UP_INI -> co_ssdo_up_ini_on_recv(m)
    [] Cs(m) = CCS_BLK_DN -> co_ssdo_blk_dn_ini_on_recv(m)
    [] Cs(m) = CCS_BLK_UP -> co_ssdo_blk_up_ini_on_recv(m)
    [] Cs(m) = CS_ABORT   -> Reply(ssdo, <<>>)
    [] OTHER              -> co_ssdo_abort_res(ssdo, "NO_CS")

(* co_ssdo_recv: a frame goes to the handler of the current state; without  *)
(* a receiver (stopped) it is not delivered.                                *)
co_ssdo_recv ==
  /\ c2s # <<>>
  /\ c2s' = Tail(c2s)
  /\ LET m == Head(c2s)
     IN  CASE ssdo.state = "stopped"    -> Reply(ssdo, <<>>)
           [] ssdo.state = "wait"       -> co_ssdo_wait_on_recv(m)
           [] ssdo.state = "dn_seg"     -> co_ssdo_dn_seg_on_recv(m)
           [] ssdo.state = "up_seg"     -> co_ssdo_up_seg_on_recv(m)
           [] ssdo.state = "blk_dn_sub" -> co_ssdo_blk_dn_sub_on_recv(m)
           [] ssdo.state = "blk_dn_end" -> co_ssdo_blk_dn_end_on_recv(m)
           [] ssdo.state = "blk_up_sub" -> co_ssdo_blk_up_sub_on_recv(m)
           [] ssdo.state = "blk_up_end" -> co_ssdo_blk_up_end_on_recv(m)

(***************************************************************************)
(* Timer and lifecycle                                                     *)
(***************************************************************************)
co_ssdo_timer ==
  /\ ssdo.timer
  /\ co_ssdo_abort_res(ssdo, "TIMEOUT")

(* Fault: a timer that is running goes on.                                  *)
SetTimeoutKeepsTimer(on) == ssdo' = [ssdo EXCEPT !.timeout = on]

(* Switching the timeout off also stops a timer that is running.            *)
co_ssdo_set_timeout(on) ==
  ssdo' = [ssdo EXCEPT !.timeout = on, !.timer = @ /\ on]

co_ssdo_stop ==
  /\ ssdo.state # "stopped"
  /\ ssdo' = [co_ssdo_abort_ind(ssdo) EXCEPT !.state = "stopped", !.timer = FALSE]
  /\ s2c' = IF ssdo.state = "wait" THEN s2c ELSE Append(s2c, AbortFrame(ssdo.idx, "NO_SDO"))

co_ssdo_start ==
  /\ ssdo.state = "stopped"
  /\ ssdo' = [ssdo EXCEPT !.state = "wait"]
=============================================================================

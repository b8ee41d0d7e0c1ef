-------------------------- MODULE SdoTransferProofs --------------------------
(***************************************************************************)
(* Proofs about SdoTransfer for every dictionary, every size of the values *)
(* and every block size: the timer of either end runs only where it is     *)
(* handled, and a request that nothing disturbs succeeds in every transfer *)
(* mode.                                                                   *)
(*                                                                         *)
(* The invariant has two parts. The types hold whatever happens on the     *)
(* bus: they say what a frame may ask for, so that a frame of an abandoned *)
(* transfer does not put an empty value in the dictionary or a client out  *)
(* of its data. The agreement holds while nothing has disturbed the        *)
(* pending request: it lists the joint states of client, server and the    *)
(* frames under way between two steps of a transfer.                       *)
(***************************************************************************)
EXTENDS SdoTransfer, SequenceTheorems, TLAPS

-----------------------------------------------------------------------------
(* Types                                                                   *)

AbortCodes == {"NONE", "OK", "JUNK", "TIMEOUT", "NO_SDO", "NO_CS", "ERROR", "TOGGLE", "TYPE_LEN_HI",
               "TYPE_LEN_LO", "BLK_SEQ", "BLK_SIZE", "BLK_CRC", "NO_OBJ", "NO_WRITE"}

Arg == [num : Nat, blksize : Nat, crc : Seq(Byte), ac : AbortCodes]

AnyFrame == [cs : Nat, idx : Indices, arg : Arg, data : Seq(Byte)]

\* A request to write an object carries its value or announces its size.
Announces(f) == Cs(f) = CCS_BLK_DN \/ (Cs(f) = CCS_DN_INI /\ ~IsExpedited(f)) => f.arg.num > 0
ClientFrame == {f \in AnyFrame : f.idx \in Objects => Announces(f)}

Idling     == {"wait", "stopped"}
DnStates   == {"dn_ini", "dn_seg", "blk_dn_ini", "blk_dn_sub", "blk_dn_end"}
UpStates   == {"up_ini", "up_seg", "blk_up_ini", "blk_up_sub", "blk_up_end"}
StoreStates == {"dn_seg", "blk_dn_sub", "blk_dn_end"}
FetchStates == {"up_seg", "blk_up_sub", "blk_up_end"}

ValueItem == {item \in Item : item.data # <<>>}

ClientRecord ==
  [state : Idling \cup DnStates \cup UpStates, pending : BOOLEAN, up : BOOLEAN, idx : Indices,
   data : Seq(Byte), pos : Nat, rx : Seq(Byte), size : Nat, toggle : {0, 1}, blksize : Nat,
   pst : Nat, ackseq : Nat, crc : BOOLEAN, dcf : Seq(ValueItem), timer : BOOLEAN]

\* A request is pending in the states of a transfer, and its timer runs.
ClientOk(c) ==
  /\ c \in ClientRecord
  /\ (c.pending <=> c.state \notin Idling) /\ (c.timer <=> c.pending)
  /\ ~c.pending \/ c.state \in UpStates => c.dcf = <<>>
  /\ c.state \in DnStates => ~c.up /\ c.size = Len(c.data) /\ c.size > 0 /\ c.pos <= c.size
  /\ c.state = "blk_dn_sub" => c.blksize <= (c.pos + SegBytes - 1) \div SegBytes

ServerRecord ==
  [state : Idling \cup StoreStates \cup FetchStates, idx : Indices, toggle : {0, 1}, blksize : Nat,
   ackseq : Nat, gencrc : BOOLEAN, crc : Seq(Byte), size : Nat, off : Nat, seg : Seq(Byte),
   membuf : Seq(Byte), buf : Seq(Byte), nbyte : Nat, timer : BOOLEAN, timeout : BOOLEAN]

\* The server keeps nothing between two transfers.
Clean(s) ==
  /\ s.toggle = 0 /\ s.ackseq = 0 /\ s.crc = <<>> /\ s.size = 0 /\ s.off = 0
  /\ s.seg = <<>> /\ s.membuf = <<>> /\ s.buf = <<>> /\ s.nbyte = 0
ServerOk(s) ==
  /\ s \in ServerRecord
  /\ s.timer => s.timeout /\ s.state \notin Idling
  /\ s.state \in Idling => Clean(s)
  /\ s.state \in StoreStates => s.size > 0
  /\ s.state \in FetchStates => s.nbyte <= Len(s.seg)

Dictionary == [Objects -> Seq(Byte) \ {<<>>}]
Confirmation == [ac : AbortCodes, data : Seq(Byte)]

SdoTypes ==
  /\ ClientOk(csdo) /\ con \in Confirmation
  /\ ServerOk(ssdo) /\ od \in Dictionary
  /\ c2s \in Seq(ClientFrame) /\ s2c \in Seq(AnyFrame)
  /\ nreq \in Nat /\ harm \in BOOLEAN
  /\ csdo.pending <=> req # NoReq

-----------------------------------------------------------------------------
(* The agreement of client c and server s with the frames cq and sq under  *)
(* way                                                                     *)

Fresh(s) == s.state = "wait"

Refused(c, s, cq, sq) ==
  /\ c.state \in {"dn_ini", "up_ini", "blk_dn_ini", "blk_up_ini"} /\ Fresh(s) /\ cq = <<>>
  /\ \E ac \in AccessErrors : sq = <<AbortFrame(c.idx, ac)>>

\* The server has the first p bytes of a segmented download.
Stored(s, c, p) ==
  /\ s.state = "dn_seg" /\ s.idx \in Writable /\ s.size = c.size
  /\ s.off + Len(s.seg) = p /\ Len(s.membuf) = p

DnIni(c) == c.state = "dn_ini" /\ c.toggle = 0 /\ c.pos = IF c.size \in 1..4 THEN c.size ELSE 0

DnSegment(c, t, p) ==
  LET n == Lesser(c.size - p, SegBytes)
  IN  Frame(SegByte(CCS_DN_SEG, t, n, c.size - p <= SegBytes), NoIdx, NoArg, Segment(c.data, p, n))

Downloading(c, s, cq, sq) ==
  \/ /\ DnIni(c) /\ Fresh(s) /\ sq = <<>>
     /\ cq = <<DnReqFrame([idx |-> c.idx, data |-> c.data])>>
  \/ /\ DnIni(c) /\ cq = <<>> /\ sq = <<Frame(32 * SCS_DN_INI, c.idx, NoArg, <<>>)>>
     /\ IF c.size \in 1..4 THEN Fresh(s) ELSE Stored(s, c, 0) /\ s.toggle = 0
  \/ /\ c.state = "dn_seg" /\ sq = <<>>
     /\ \E p \in 0..(c.size - 1) :
          /\ Stored(s, c, p) /\ c.pos = p + Lesser(c.size - p, SegBytes)
          /\ c.toggle = 1 - s.toggle /\ cq = <<DnSegment(c, s.toggle, p)>>
  \/ /\ c.state = "dn_seg" /\ cq = <<>>
     /\ sq = <<Frame(32 * SCS_DN_SEG + 16 * (1 - c.toggle), NoIdx, NoArg, <<>>)>>
     /\ IF c.pos = c.size THEN Fresh(s) ELSE Stored(s, c, c.pos) /\ s.toggle = c.toggle

\* The server has sent the first p bytes of its copy.
Fetched(s, p) == s.state = "up_seg" /\ s.size = Len(s.seg) /\ s.size > 0 /\ s.nbyte = p

UpIni(c) == c.state \in {"up_ini", "blk_up_ini"} /\ c.toggle = 0 /\ c.rx = <<>>

Uploading(c, s, cq, sq) ==
  \/ /\ UpIni(c) /\ c.state = "up_ini" /\ Fresh(s) /\ sq = <<>>
     /\ cq = <<Frame(32 * CCS_UP_INI, c.idx, NoArg, <<>>)>>
  \/ /\ UpIni(c) /\ Fresh(s) /\ cq = <<>>
     /\ \E n \in 1..4, d \in Seq(Byte) : sq = <<Frame(ExpByte(SCS_UP_INI, n), c.idx, NoArg, d)>>
  \/ /\ UpIni(c) /\ cq = <<>> /\ Fetched(s, 0) /\ s.toggle = 0
     /\ sq = <<Frame(SizeByte(SCS_UP_INI), c.idx, Num(s.size), <<>>)>>
  \/ /\ c.state = "up_seg" /\ sq = <<>>
     /\ c.size = s.size /\ Fetched(s, Len(c.rx)) /\ Len(c.rx) < c.size
     /\ c.toggle = 1 - s.toggle
     /\ cq = <<Frame(32 * CCS_UP_SEG + 16 * s.toggle, NoIdx, NoArg, <<>>)>>
  \/ /\ c.state = "up_seg" /\ cq = <<>>
     /\ \E d \in Seq(Byte) :
          LET p == Len(c.rx) + Len(d)
          IN  /\ Len(d) <= SegBytes /\ p <= c.size
              /\ sq = <<Frame(SegByte(SCS_UP_SEG, 1 - c.toggle, Len(d), p = c.size), NoIdx, NoArg, d)>>
              /\ IF p = c.size THEN Fresh(s)
                 ELSE Fetched(s, p) /\ s.toggle = c.toggle /\ s.size = c.size

\* Segment i of a block that begins at pos.
BlockSegment(bytes, pos, i, end) ==
  LET from == pos + (i - 1) * SegBytes
      left == Len(bytes) - from
  IN  Frame(SeqByte(i, end /\ left <= SegBytes), NoIdx, NoArg,
            Segment(bytes, from, Lesser(left, SegBytes)))

\* The segments after the first a of a block of k are under way.
Remain(q, bytes, pos, a, k, end) ==
  /\ a \in 0..(k - 1) /\ Len(q) = k - a
  /\ \A i \in 1..(k - a) : q[i] = BlockSegment(bytes, pos, a + i, end)

\* The number of segments that n bytes take.
Segments(n) == (n + SegBytes - 1) \div SegBytes

\* The server has the first p bytes of a block download; all of them.
StoredBlk(s, c, p) ==
  /\ s.state = "blk_dn_sub" /\ s.idx \in Writable /\ s.size = c.size /\ s.gencrc
  /\ s.off + Len(s.seg) = p /\ Len(s.membuf) = p /\ s.crc = SubSeq(c.data, 1, p)
  /\ s.blksize = CO_SSDO_MAX_SEQNO
StoredAll(s, c) ==
  /\ s.state = "blk_dn_end" /\ s.idx \in Writable /\ s.size = c.size /\ s.gencrc
  /\ s.off + Len(s.seg) = c.size /\ s.off <= Len(s.membuf) /\ s.crc \o s.seg = c.data

BlkDownloading(c, s, cq, sq) ==
  \/ /\ c.state = "blk_dn_ini" /\ c.pos = 0 /\ Fresh(s) /\ sq = <<>>
     /\ cq = <<Frame(BlkIniByte(CCS_BLK_DN, TRUE), c.idx, Num(c.size), <<>>)>>
  \/ /\ c.state = "blk_dn_ini" /\ c.pos = 0 /\ cq = <<>> /\ StoredBlk(s, c, 0) /\ s.ackseq = 0
     /\ sq = <<Frame(BlkIniByte(SCS_BLK_DN, FALSE), c.idx, Blk(0, CO_SSDO_MAX_SEQNO), <<>>)>>
  \/ /\ c.state = "blk_dn_sub" /\ c.crc /\ sq = <<>>
     /\ \E p \in 0..(c.size - 1) :
          /\ c.blksize = Lesser(Segments(c.size - p), CO_SSDO_MAX_SEQNO)
          /\ c.pos = Lesser(p + c.blksize * SegBytes, c.size)
          /\ StoredBlk(s, c, p + s.ackseq * SegBytes)
          /\ Remain(cq, c.data, p, s.ackseq, c.blksize, TRUE)
  \/ /\ c.state = "blk_dn_sub" /\ c.crc /\ cq = <<>>
     /\ sq = <<Frame(32 * SCS_BLK_DN + SC_BLK_RES, NoIdx, Blk(c.blksize, CO_SSDO_MAX_SEQNO), <<>>)>>
     /\ IF c.pos = c.size THEN StoredAll(s, c) ELSE StoredBlk(s, c, c.pos) /\ s.ackseq = 0
  \/ /\ c.state = "blk_dn_end" /\ sq = <<>> /\ StoredAll(s, c)
     /\ cq = <<Frame(BlkEndByte(CCS_BLK_DN, LastBytes(c.size)), NoIdx, [NoArg EXCEPT !.crc = c.data], <<>>)>>
  \/ /\ c.state = "blk_dn_end" /\ cq = <<>> /\ Fresh(s)
     /\ sq = <<Frame(32 * SCS_BLK_DN + SC_END_BLK, NoIdx, NoArg, <<>>)>>

\* A block upload, and the same before the first block.
FetchedBlk(s, c) ==
  /\ s.state = "blk_up_sub" /\ s.size = Len(s.seg) /\ s.size > 0 /\ s.gencrc
  /\ s.crc = SubSeq(s.seg, 1, s.nbyte) /\ c.blksize \in 1..CO_SSDO_MAX_SEQNO
FetchedNone(s, c) ==
  FetchedBlk(s, c) /\ s.nbyte = 0 /\ s.off = 0 /\ s.buf = <<>> /\ s.blksize = c.blksize

BlkUpIni(c) == UpIni(c) /\ c.state = "blk_up_ini" /\ c.blksize \in 1..CO_SDO_MAX_SEQNO

BlkUploading(c, s, cq, sq) ==
  \/ BlkUpIni(c) /\ Fresh(s) /\ sq = <<>> /\ cq = <<BlkUpIniReq(c)>>
  \/ BlkUpIni(c) /\ c.blksize > 1 /\ Fresh(s) /\ cq = <<>> /\ sq = <<AbortFrame(c.idx, "BLK_SIZE")>>
  \/ /\ BlkUpIni(c) /\ cq = <<>> /\ FetchedNone(s, c)
     /\ sq = <<Frame(BlkIniByte(SCS_BLK_UP, TRUE), c.idx, Num(s.size), <<>>)>>
  \/ /\ c.state = "blk_up_sub" /\ c.crc /\ c.size = s.size /\ c.ackseq = 0 /\ c.rx = <<>>
     /\ sq = <<>> /\ FetchedNone(s, c)
     /\ cq = <<Frame(32 * CCS_BLK_UP + SC_START_UP, NoIdx, NoArg, <<>>)>>
  \/ /\ c.state = "blk_up_sub" /\ c.crc /\ c.size = s.size /\ cq = <<>> /\ FetchedBlk(s, c)
     /\ s.blksize = Segments(Len(s.buf)) /\ s.blksize <= c.blksize
     /\ UpDone(s) \/ (s.blksize = c.blksize /\ Len(s.buf) = SegBytes * s.blksize)
     /\ \E p \in 0..s.nbyte :
          /\ s.buf = SubSeq(s.seg, p + 1, s.nbyte)
          /\ c.rx = SubSeq(s.seg, 1, p + c.ackseq * SegBytes)
     /\ Remain(sq, s.buf, 0, c.ackseq, s.blksize, UpDone(s))
  \/ /\ c.state = IF UpDone(s) THEN "blk_up_end" ELSE "blk_up_sub"
     /\ c.crc /\ c.size = s.size /\ c.ackseq = 0 /\ sq = <<>> /\ FetchedBlk(s, c)
     /\ Len(s.buf) <= SegBytes * s.blksize /\ s.nbyte > 0 /\ c.rx = SubSeq(s.seg, 1, s.nbyte)
     /\ cq = <<Frame(32 * CCS_BLK_UP + SC_BLK_RES, NoIdx, Blk(s.blksize, c.blksize), <<>>)>>
  \/ /\ c.state = "blk_up_end" /\ c.crc /\ cq = <<>> /\ s.state = "blk_up_end"
     /\ c.size = Len(c.rx) /\ c.size > 0
     /\ sq = <<Frame(BlkEndByte(SCS_BLK_UP, LastBytes(c.size)), NoIdx, [NoArg EXCEPT !.crc = c.rx], <<>>)>>

\* Between two requests, perhaps with the end of a block upload under way.
Rests(c, s, cq, sq) ==
  /\ c.state = "wait" /\ sq = <<>>
  /\ \/ cq = <<>> /\ Fresh(s)
     \/ /\ s.state = "blk_up_end"
        /\ cq = <<Frame(32 * CCS_BLK_UP + SC_END_BLK, NoIdx, NoArg, <<>>)>>

Agree(c, s, cq, sq) ==
  \/ Rests(c, s, cq, sq) \/ Refused(c, s, cq, sq)
  \/ Downloading(c, s, cq, sq) \/ Uploading(c, s, cq, sq)
  \/ BlkDownloading(c, s, cq, sq) \/ BlkUploading(c, s, cq, sq)

Undisturbed ==
  ~harm => /\ Agree(csdo, ssdo, c2s, s2c)
           /\ req = NoReq => con.ac \in {"NONE", "OK"} \cup AccessErrors

ChannelInv == SdoTypes /\ Undisturbed

-----------------------------------------------------------------------------
(* Frames                                                                  *)

LEMMA ArgTypes ==
  /\ NoArg \in Arg
  /\ \A n \in Nat : Num(n) \in Arg
  /\ \A n, b \in Nat : Blk(n, b) \in Arg
  /\ \A ac \in AbortCodes : [NoArg EXCEPT !.ac = ac] \in Arg
  /\ \A crc \in Seq(Byte) : [NoArg EXCEPT !.crc = crc] \in Arg
<1>1. NoArg \in Arg
  BY EmptySeq DEF NoArg, Arg, AbortCodes
<1> QED
  BY <1>1 DEF NoArg, Num, Blk, Arg

LEMMA FrameType ==
  ASSUME NEW cs \in Nat, NEW idx \in Indices, NEW arg \in Arg, NEW data \in Seq(Byte)
  PROVE  Frame(cs, idx, arg, data) \in AnyFrame
BY DEF Frame, AnyFrame

\* What SdoAssumption says of the numbers of segments the client and the server accept.
LEMMA BlockSizes ==
  /\ CO_SDO_MAX_SEQNO \in Nat /\ CO_SSDO_MAX_SEQNO \in Nat
  /\ CO_SDO_MAX_SEQNO >= 1 /\ CO_SDO_MAX_SEQNO <= 127
  /\ CO_SSDO_MAX_SEQNO >= 1 /\ CO_SSDO_MAX_SEQNO <= CO_SDO_MAX_SEQNO
<1>1. CO_SDO_MAX_SEQNO \in 1..127 /\ CO_SSDO_MAX_SEQNO \in 1..CO_SDO_MAX_SEQNO
  BY SdoAssumption, Zenon
<1> QED
  BY <1>1

LEMMA NoIdxType == NoIdx \in Indices /\ NoIdx \notin Objects /\ Objects \subseteq Indices
BY SdoAssumption DEF Indices

\* A frame without a multiplexer is no request to write.
LEMMA PlainFrameType ==
  ASSUME NEW cs \in Nat, NEW arg \in Arg, NEW data \in Seq(Byte)
  PROVE  Frame(cs, NoIdx, arg, data) \in ClientFrame
<1>1. Frame(cs, NoIdx, arg, data) \in AnyFrame
  BY FrameType, NoIdxType
<1> QED
  BY <1>1, NoIdxType DEF ClientFrame, Frame

LEMMA AbortFrameType ==
  ASSUME NEW idx \in Indices, NEW ac \in AbortCodes
  PROVE  AbortFrame(idx, ac) \in AnyFrame /\ AbortFrame(idx, ac) \in ClientFrame
<1>1. AbortFrame(idx, ac) \in AnyFrame
  <2>1. 32 * CS_ABORT \in Nat /\ [NoArg EXCEPT !.ac = ac] \in Arg /\ <<>> \in Seq(Byte)
    BY ArgTypes, EmptySeq DEF CS_ABORT
  <2> QED
    BY <2>1, FrameType DEF AbortFrame
<1>2. Cs(AbortFrame(idx, ac)) = 4
  BY DEF Cs, AbortFrame, CS_ABORT, Frame
<1> QED
  BY <1>1, <1>2 DEF ClientFrame, Announces, CCS_BLK_DN, CCS_DN_INI

LEMMA PaddedType ==
  ASSUME NEW bytes \in Seq(Byte), NEW n \in Int
  PROVE  /\ Padded(bytes, n) \in Seq(Byte)
         /\ Len(Padded(bytes, n)) = IF n > 0 THEN n ELSE 0
<1> DEFINE k == IF n > 0 THEN n ELSE 0
<1>1. k \in Nat /\ 1..n = 1..k
  OBVIOUS
<1>2. \A i \in 1..k : (IF i <= Len(bytes) THEN bytes[i] ELSE ZeroByte) \in Byte
  BY DEF Byte, ZeroByte
<1>3. Padded(bytes, n) = [i \in 1..k |-> IF i <= Len(bytes) THEN bytes[i] ELSE ZeroByte]
  BY <1>1 DEF Padded
<1> HIDE DEF k
<1>4. Padded(bytes, n) \in [1..k -> Byte]
  BY <1>2, <1>3
<1>5. Padded(bytes, n) \in Seq(Byte)
  BY <1>1, <1>4, SeqDef
<1>6. Len(Padded(bytes, n)) = k
  BY <1>1, <1>4, <1>5, LenProperties
<1> QED
  BY <1>5, <1>6 DEF k

\* A value no longer than the announced size is kept whole.
LEMMA PaddedSame ==
  ASSUME NEW bytes \in Seq(Byte)
  PROVE  Padded(bytes, Len(bytes)) = bytes
BY LenProperties, SMTT(30) DEF Padded

LEMMA SegmentType ==
  ASSUME NEW bytes \in Seq(Byte), NEW pos \in Nat, NEW n \in Nat, pos + n <= Len(bytes)
  PROVE  /\ Segment(bytes, pos, n) \in Seq(Byte) /\ Len(Segment(bytes, pos, n)) = n
         /\ \A i \in 1..n : Segment(bytes, pos, n)[i] = bytes[pos + i]
BY LenProperties, SubSeqProperties DEF Segment


-----------------------------------------------------------------------------
(* The client                                                              *)

ClientTyped == ClientOk(csdo) /\ con \in Confirmation /\ c2s \in Seq(ClientFrame)

LEMMA ContinueTyped ==
  ASSUME NEW c, NEW out \in Seq(ClientFrame), ClientOk(c), ClientTyped, Continue(c, out)
  PROVE  ClientTyped' /\ csdo' = c
BY ConcatProperties DEF Continue, ClientTyped

LEMMA SingletonSeq ==
  ASSUME NEW S, NEW e \in S
  PROVE  <<e>> \in Seq(S) /\ <<>> \in Seq(S)
BY EmptySeq

LEMMA ExpByteValue ==
  ASSUME NEW n \in 1..4
  PROVE  ExpByte(CCS_DN_INI, n) = 51 - 4 * n /\ ExpByte(SCS_UP_INI, n) = 83 - 4 * n
<1>1. 4 * (4 - n) + 3 \in 0..15
  OBVIOUS
<1>2. \A x \in 0..15 : x % 16 = x
  OBVIOUS
<1> QED
  BY <1>1, <1>2 DEF ExpByte, CCS_DN_INI, SCS_UP_INI

LEMMA DnReqFrameType ==
  ASSUME NEW item \in ValueItem
  PROVE  DnReqFrame(item) \in ClientFrame
<1> DEFINE n == Len(item.data)
<1>1. item.data \in Seq(Byte) /\ item.idx \in Indices /\ n \in Nat \ {0}
  BY EmptySeq DEF ValueItem, Item
<1>2. CASE n \in 1..4
  <2>1. PICK cs \in Nat : cs = ExpByte(CCS_DN_INI, n)
    <3> HIDE DEF n
    <3>1. ExpByte(CCS_DN_INI, n) = 51 - 4 * n
      BY <1>2, ExpByteValue
    <3> QED
      BY <1>2, <3>1
  <2>2. cs \div 32 = 1 /\ (cs \div 2) % 2 = 1
    <3> HIDE DEF n
    <3>1. cs = 51 - 4 * n
      BY <1>2, <2>1, ExpByteValue
    <3>2. cs \in {47, 43, 39, 35}
      BY <1>2, <3>1
    <3> QED
      BY <3>2
  <2>3. Expedited(item.data) \in Seq(Byte)
    BY <1>1, PaddedType DEF Expedited
  <2>4. DnReqFrame(item) = Frame(cs, item.idx, NoArg, Expedited(item.data))
    BY <1>2, <2>1 DEF DnReqFrame
  <2>5. DnReqFrame(item) \in AnyFrame
    BY <1>1, <2>3, <2>4, FrameType, ArgTypes
  <2> QED
    BY <2>2, <2>4, <2>5 DEF ClientFrame, Announces, Frame, Cs, IsExpedited, CCS_BLK_DN
<1>3. CASE n \notin 1..4
  <2>1. DnReqFrame(item) = Frame(33, item.idx, Num(n), <<>>)
    BY <1>3 DEF DnReqFrame, SizeByte, CCS_DN_INI
  <2>2. DnReqFrame(item) \in AnyFrame
    <3>1. Num(n) \in Arg /\ <<>> \in Seq(Byte)
      BY <1>1, ArgTypes, EmptySeq
    <3> QED
      BY <1>1, <2>1, <3>1, FrameType
  <2>3. DnReqFrame(item).arg.num = n
    BY <2>1 DEF Frame, Num, NoArg
  <2> QED
    BY <1>1, <2>2, <2>3 DEF ClientFrame, Announces
<1> QED
  BY <1>2, <1>3

LEMMA DnReqStateOk ==
  ASSUME NEW c \in ClientRecord, NEW item \in ValueItem
  PROVE  ClientOk(DnReqState(c, item)) /\ DnReqState(c, item).pending
<1>1. item.data \in Seq(Byte) /\ item.idx \in Indices /\ Len(item.data) \in Nat \ {0}
  BY EmptySeq DEF ValueItem, Item
<1> DEFINE d == DnReqState(c, item)
<1>2. d \in ClientRecord
  BY <1>1, ZenonT(60) DEF DnReqState, co_csdo_dn_ind, Arm, ClientRecord, Idling, DnStates, UpStates
<1>3. /\ d.state = "dn_ini" /\ d.pending /\ d.timer /\ ~d.up
      /\ d.data = item.data /\ d.size = Len(item.data) /\ d.pos <= d.size
  BY <1>1 DEF DnReqState, co_csdo_dn_ind, Arm, ClientRecord
<1> HIDE DEF d
<1>4. ClientOk(d) /\ d.pending
  BY <1>1, <1>2, <1>3 DEF ClientOk, Idling, DnStates, UpStates
<1> QED
  BY <1>4 DEF d

LEMMA AbortIndTyped ==
  ASSUME NEW c \in ClientRecord, NEW ac \in AbortCodes, NEW out \in Seq(ClientFrame),
         ClientTyped, co_csdo_abort_ind(c, ac, out)
  PROVE  ClientTyped' /\ (csdo'.pending => c.dcf # <<>>)
<1> DEFINE w == [c EXCEPT !.state = "wait", !.timer = FALSE]
<1>1. CASE ac = "OK" /\ c.dcf # <<>>
  <2>1. Head(c.dcf) \in ValueItem /\ Tail(c.dcf) \in Seq(ValueItem)
    BY <1>1, HeadTailProperties DEF ClientRecord
  <2>2. [w EXCEPT !.dcf = Tail(@)] \in ClientRecord
    BY <2>1 DEF ClientRecord, Idling
  <2>3. /\ csdo' = DnReqState([w EXCEPT !.dcf = Tail(@)], Head(c.dcf))
        /\ c2s' = c2s \o out \o <<DnReqFrame(Head(c.dcf))>> /\ con' = con
    BY <1>1 DEF co_csdo_abort_ind
  <2>4. ClientOk(csdo')
    BY <2>1, <2>2, <2>3, DnReqStateOk
  <2>5. c2s' \in Seq(ClientFrame)
    BY <2>1, <2>3, DnReqFrameType, ConcatProperties DEF ClientTyped
  <2> QED
    BY <1>1, <2>3, <2>4, <2>5 DEF ClientTyped
<1>2. CASE ~(ac = "OK" /\ c.dcf # <<>>)
  <2>1. /\ csdo' = [w EXCEPT !.pending = FALSE, !.dcf = <<>>]
        /\ c2s' = c2s \o out
        /\ con' = con \/ \E d \in Seq(Byte) : con' = [ac |-> ac, data |-> d]
    BY <1>2, EmptySeq DEF co_csdo_abort_ind, ClientRecord
  <2>2. ClientOk(csdo') /\ ~csdo'.pending
    BY <2>1, EmptySeq DEF ClientOk, ClientRecord, Idling, DnStates, UpStates
  <2>3. con' \in Confirmation
    BY <2>1 DEF Confirmation, ClientTyped
  <2>4. c2s' \in Seq(ClientFrame)
    BY <2>1, ConcatProperties DEF ClientTyped
  <2> QED
    BY <2>2, <2>3, <2>4 DEF ClientTyped
<1> QED
  BY <1>1, <1>2

LEMMA AbortResTyped ==
  ASSUME NEW c \in ClientRecord, NEW ac \in AbortCodes, ClientTyped, co_csdo_abort_res(c, ac)
  PROVE  ClientTyped' /\ (csdo'.pending => c.dcf # <<>>)
<1>1. <<AbortFrame(c.idx, ac)>> \in Seq(ClientFrame)
  BY AbortFrameType, SingletonSeq DEF ClientRecord
<1> QED
  BY <1>1, AbortIndTyped DEF co_csdo_abort_res

\* A handler keeps the types, and no handler makes a request of its own.
ClientStep == ClientTyped' /\ (csdo'.pending => csdo.pending)

\* What a handler does with a frame that it did not expect.
Aborts(m) ==
  \/ co_csdo_abort_ind(csdo, AbortCode(m), <<>>)
  \/ \E ac \in AbortCodes : co_csdo_abort_res(csdo, ac)

LEMMA ClientFacts ==
  ASSUME ClientTyped
  PROVE  csdo \in ClientRecord /\ (csdo.dcf # <<>> => csdo.pending)
BY DEF ClientTyped, ClientOk

LEMMA AbortsStep ==
  ASSUME NEW m \in AnyFrame, ClientTyped, Aborts(m)
  PROVE  ClientStep
<1>1. AbortCode(m) \in AbortCodes /\ <<>> \in Seq(ClientFrame)
  BY EmptySeq DEF AbortCode, AnyFrame, Arg, AbortCodes
<1> QED
  BY <1>1, ClientFacts, AbortIndTyped, AbortResTyped DEF Aborts, ClientStep

LEMMA ContinueStep ==
  ASSUME NEW c, NEW out \in Seq(ClientFrame), ClientOk(c), c.pending => csdo.pending,
         ClientTyped, Continue(c, out)
  PROVE  ClientStep
BY ContinueTyped DEF ClientStep

LEMMA AbortIndStep ==
  ASSUME NEW c \in ClientRecord, NEW ac \in AbortCodes, NEW out \in Seq(ClientFrame),
         ClientTyped, c.dcf = csdo.dcf, co_csdo_abort_ind(c, ac, out)
  PROVE  ClientStep
BY ClientFacts, AbortIndTyped DEF ClientStep

LEMMA AbortResStep ==
  ASSUME NEW c \in ClientRecord, NEW ac \in AbortCodes,
         ClientTyped, c.dcf = csdo.dcf, co_csdo_abort_res(c, ac)
  PROVE  ClientStep
BY ClientFacts, AbortResTyped DEF ClientStep

LEMMA Codes == {"OK", "JUNK", "TIMEOUT", "NO_SDO", "NO_CS", "ERROR", "TOGGLE", "TYPE_LEN_HI",
                "TYPE_LEN_LO", "BLK_SEQ", "BLK_SIZE", "BLK_CRC", "NO_OBJ", "NO_WRITE"} \subseteq AbortCodes
BY DEF AbortCodes

LEMMA WaitRecvStep ==
  ASSUME NEW m \in AnyFrame, ClientTyped, co_csdo_wait_on_recv(m)
  PROVE  ClientStep
<1>1. CASE Cs(m) = CS_ABORT
  BY <1>1, AbortsStep DEF co_csdo_wait_on_recv, Aborts
<1>2. CASE Cs(m) # CS_ABORT
  <2>1. Continue(csdo, <<>>) /\ ClientOk(csdo) /\ <<>> \in Seq(ClientFrame)
    BY <1>2, EmptySeq DEF co_csdo_wait_on_recv, ClientTyped
  <2> QED
    BY <2>1, ContinueStep
<1> QED
  BY <1>1, <1>2

\* The next segment of a download.
LEMMA DnSegEnterStep ==
  ASSUME ClientTyped, csdo.state \in {"dn_ini", "dn_seg"}, co_csdo_dn_seg_on_enter(csdo)
  PROVE  ClientStep
<1> DEFINE left == csdo.size - csdo.pos
           n    == Lesser(left, SegBytes)
           d    == Arm([csdo EXCEPT !.state = "dn_seg", !.pos = @ + n, !.toggle = 1 - @])
           f    == Frame(SegByte(CCS_DN_SEG, csdo.toggle, n, left <= SegBytes), NoIdx, NoArg,
                         Segment(csdo.data, csdo.pos, n))
<1>1. /\ csdo \in ClientRecord /\ csdo.pending /\ ~csdo.up /\ csdo.size \in Nat \ {0} /\ csdo.pos \in Nat
      /\ csdo.size = Len(csdo.data) /\ csdo.pos <= csdo.size /\ csdo.data \in Seq(Byte)
      /\ csdo.toggle \in {0, 1}
  BY DEF ClientTyped, ClientOk, ClientRecord, Idling, DnStates
<1>2. CASE left > 0
  <2>1. n \in 1..7 /\ n <= left
    BY <1>1, <1>2 DEF Lesser, SegBytes
  <2>2. d \in ClientRecord
    <3>1. csdo.pos + n \in Nat /\ 1 - csdo.toggle \in {0, 1}
      BY <1>1, <2>1
    <3> HIDE DEF n
    <3> QED
      BY <1>1, <3>1 DEF Arm, ClientRecord, Idling, DnStates, UpStates
  <2>3. /\ d.state = "dn_seg" /\ d.pending /\ d.timer /\ ~d.up /\ d.data = csdo.data
        /\ d.size = csdo.size /\ d.pos = csdo.pos + n
    <3> HIDE DEF n
    <3> QED
      BY <1>1 DEF Arm, ClientRecord
  <2>4. ClientOk(d) /\ d.pending
    <3> HIDE DEF d, n
    <3> QED
      BY <1>1, <2>1, <2>2, <2>3 DEF ClientOk, Idling, DnStates, UpStates
  <2>5. f \in ClientFrame
    <3>1. SegByte(CCS_DN_SEG, csdo.toggle, n, left <= SegBytes) \in Nat
      <4> HIDE DEF n
      <4> QED
        BY <1>1, <2>1 DEF SegByte, CCS_DN_SEG
    <3>2. Segment(csdo.data, csdo.pos, n) \in Seq(Byte)
      <4> HIDE DEF n
      <4> QED
        BY <1>1, <2>1, SegmentType
    <3> QED
      BY <3>1, <3>2, ArgTypes, PlainFrameType
  <2>6. Continue(d, <<f>>)
    BY <1>1, <1>2 DEF co_csdo_dn_seg_on_enter
  <2> HIDE DEF d, f
  <2> QED
    BY <1>1, <2>4, <2>5, <2>6, ContinueStep, SingletonSeq
<1>3. CASE ~(left > 0)
  <2>1. co_csdo_abort_ind(csdo, "OK", <<>>)
    BY <1>1, <1>3 DEF co_csdo_dn_seg_on_enter
  <2> QED
    BY <1>1, <2>1, AbortIndStep, Codes, EmptySeq
<1> QED
  BY <1>2, <1>3

LEMMA DnRecvStep ==
  ASSUME NEW m \in AnyFrame, ClientTyped,
         \/ csdo.state = "dn_ini" /\ co_csdo_dn_ini_on_recv(m)
         \/ csdo.state = "dn_seg" /\ co_csdo_dn_seg_on_recv(m)
  PROVE  ClientStep
<1>1. Aborts(m) \/ (csdo.state \in {"dn_ini", "dn_seg"} /\ co_csdo_dn_seg_on_enter(csdo))
  BY Codes, Zenon DEF co_csdo_dn_ini_on_recv, co_csdo_dn_seg_on_recv, Checked, Aborts
<1> QED
  BY <1>1, AbortsStep, DnSegEnterStep

-----------------------------------------------------------------------------
(* The client's uploads                                                    *)

LEMMA ClientOkUp ==
  ASSUME NEW c \in ClientRecord, c.state \in UpStates, c.pending, c.timer, c.dcf = <<>>
  PROVE  ClientOk(c)
BY DEF ClientOk, UpStates, DnStates, Idling

LEMMA UpFacts ==
  ASSUME ClientTyped, csdo.state \in UpStates
  PROVE  /\ csdo \in ClientRecord /\ csdo.pending /\ csdo.timer /\ csdo.dcf = <<>>
         /\ csdo.rx \in Seq(Byte) /\ csdo.size \in Nat /\ csdo.toggle \in {0, 1}
         /\ csdo.ackseq \in Nat /\ csdo.blksize \in Nat /\ csdo.idx \in Indices /\ csdo.pst \in Nat
BY DEF ClientTyped, ClientOk, ClientRecord, UpStates, Idling

LEMMA FrameFields ==
  ASSUME NEW m \in AnyFrame
  PROVE  /\ m.cs \in Nat /\ m.idx \in Indices /\ m.data \in Seq(Byte)
         /\ m.arg \in Arg /\ m.arg.num \in Nat /\ m.arg.blksize \in Nat /\ m.arg.crc \in Seq(Byte)
         /\ HasCrc(m) \in BOOLEAN /\ ExpSize(m) \in 1..4
<1>1. /\ m.cs \in Nat /\ m.idx \in Indices /\ m.data \in Seq(Byte)
      /\ m.arg \in Arg /\ m.arg.num \in Nat /\ m.arg.blksize \in Nat /\ m.arg.crc \in Seq(Byte)
  BY DEF AnyFrame, Arg
<1>2. HasCrc(m) \in BOOLEAN
  BY DEF HasCrc
<1>3. ExpSize(m) \in 1..4
  <2>1. \A x \in Nat : 4 - ((x % 16) \div 4) \in 1..4
    OBVIOUS
  <2> QED
    BY <1>1, <2>1 DEF ExpSize
<1> QED
  BY <1>1, <1>2, <1>3

LEMMA UpSegReqType ==
  ASSUME NEW c, c.toggle \in {0, 1}
  PROVE  UpSegReq(c) \in ClientFrame
<1>1. 32 * CCS_UP_SEG + 16 * c.toggle \in Nat /\ <<>> \in Seq(Byte)
  BY EmptySeq DEF CCS_UP_SEG
<1> QED
  BY <1>1, ArgTypes, PlainFrameType DEF UpSegReq

LEMMA UpIniRecvStep ==
  ASSUME NEW m \in AnyFrame, ClientTyped, csdo.state \in {"up_ini", "blk_up_ini"},
         co_csdo_up_ini_on_recv(m)
  PROVE  ClientStep
<1> DEFINE e == [csdo EXCEPT !.size = ExpSize(m), !.rx = @ \o Padded(m.data, ExpSize(m))]
           d == Arm([csdo EXCEPT !.state = "up_seg", !.size = m.arg.num, !.toggle = 1 - @])
<1>1. \/ Aborts(m)
      \/ co_csdo_abort_ind(e, "OK", <<>>)
      \/ Continue(d, <<UpSegReq(csdo)>>)
  BY Codes, Zenon DEF co_csdo_up_ini_on_recv, Checked, Aborts
<1>2. csdo.state \in UpStates
  BY DEF UpStates
<1>3. e \in ClientRecord /\ e.dcf = csdo.dcf
  <2>1. csdo.rx \o Padded(m.data, ExpSize(m)) \in Seq(Byte)
    <3>1. ExpSize(m) \in Int /\ m.data \in Seq(Byte)
      BY FrameFields
    <3>2. Padded(m.data, ExpSize(m)) \in Seq(Byte)
      BY <3>1, PaddedType
    <3> QED
      BY <1>2, <3>2, UpFacts, ConcatProperties
  <2>2. ExpSize(m) \in Nat
    BY FrameFields
  <2> QED
    BY <1>2, <2>1, <2>2, UpFacts DEF ClientRecord
<1>4. ClientOk(d)
  <2>1. 1 - csdo.toggle \in {0, 1} /\ m.arg.num \in Nat
    BY <1>2, UpFacts, FrameFields
  <2>2. d \in ClientRecord
    BY <1>2, <2>1, UpFacts DEF ClientRecord, Arm, UpStates
  <2>3. d.state = "up_seg" /\ d.pending /\ d.timer /\ d.dcf = <<>>
    BY <1>2, UpFacts DEF ClientRecord, Arm
  <2> HIDE DEF d
  <2> QED
    BY <2>2, <2>3, ClientOkUp DEF UpStates
<1>5. UpSegReq(csdo) \in ClientFrame /\ csdo.pending
  BY <1>2, UpFacts, UpSegReqType
<1> HIDE DEF d, e
<1>6. CASE co_csdo_abort_ind(e, "OK", <<>>)
  BY <1>3, <1>6, AbortIndStep, Codes, EmptySeq
<1>7. CASE Continue(d, <<UpSegReq(csdo)>>)
  BY <1>4, <1>5, <1>7, ContinueStep, SingletonSeq
<1> QED
  BY <1>1, <1>6, <1>7, AbortsStep

LEMMA UpSegRecvStep ==
  ASSUME NEW m \in AnyFrame, ClientTyped, csdo.state = "up_seg", co_csdo_up_seg_on_recv(m)
  PROVE  ClientStep
<1> DEFINE c == [csdo EXCEPT !.rx = @ \o m.data]
           d == Arm([c EXCEPT !.toggle = 1 - @])
<1>1. \/ Aborts(m)
      \/ Continue(csdo, <<>>)
      \/ co_csdo_abort_res(c, "TYPE_LEN_LO")
      \/ co_csdo_abort_ind(c, "OK", <<>>)
      \/ Continue(d, <<UpSegReq(c)>>)
  BY Codes, Zenon DEF co_csdo_up_seg_on_recv, Checked, Aborts
<1>2. csdo.state \in UpStates
  BY DEF UpStates
<1>3. c \in ClientRecord /\ c.dcf = csdo.dcf /\ c.toggle = csdo.toggle
  <2>1. csdo.rx \o m.data \in Seq(Byte)
    BY <1>2, UpFacts, FrameFields, ConcatProperties
  <2> QED
    BY <1>2, <2>1, UpFacts DEF ClientRecord
<1>4. ClientOk(d)
  <2>1. 1 - csdo.toggle \in {0, 1}
    BY <1>2, UpFacts
  <2>2. /\ d \in ClientRecord /\ d.state = "up_seg" /\ d.pending /\ d.timer /\ d.dcf = <<>>
    BY <1>2, <1>3, <2>1, UpFacts, ZenonT(60) DEF ClientRecord, Arm
  <2> HIDE DEF d
  <2> QED
    BY <2>2, ClientOkUp DEF UpStates
<1>5. UpSegReq(c) \in ClientFrame /\ csdo.pending /\ ClientOk(csdo)
  <2> HIDE DEF c
  <2> QED
    BY <1>2, <1>3, UpFacts, UpSegReqType DEF ClientTyped
<1> HIDE DEF d, c
<1>6. CASE co_csdo_abort_ind(c, "OK", <<>>)
  BY <1>3, <1>6, AbortIndStep, Codes, EmptySeq
<1>7. CASE co_csdo_abort_res(c, "TYPE_LEN_LO")
  BY <1>3, <1>7, AbortResStep, Codes
<1>8. CASE Continue(d, <<UpSegReq(c)>>)
  BY <1>4, <1>5, <1>8, ContinueStep, SingletonSeq
<1>9. CASE Continue(csdo, <<>>)
  BY <1>5, <1>9, ContinueStep, EmptySeq
<1> QED
  BY <1>1, <1>6, <1>7, <1>8, <1>9, AbortsStep

LEMMA BlkUpIniReqType ==
  ASSUME NEW c, c.idx \in Indices, c.pst \in Nat, c.blksize \in Nat
  PROVE  BlkUpIniReq(c) \in ClientFrame
<1>1. BlkUpIniReq(c) = Frame(164, c.idx, Blk(c.pst, c.blksize), <<>>)
  BY DEF BlkUpIniReq, BlkIniByte, CCS_BLK_UP, SC_INI_BLK
<1>2. BlkUpIniReq(c) \in AnyFrame
  <2>1. Blk(c.pst, c.blksize) \in Arg /\ <<>> \in Seq(Byte)
    BY ArgTypes, EmptySeq
  <2> QED
    BY <1>1, <2>1, FrameType, ZenonT(60)
<1>3. Cs(BlkUpIniReq(c)) = 5
  BY <1>1 DEF Cs, Frame
<1> QED
  BY <1>2, <1>3 DEF ClientFrame, Announces, CCS_BLK_DN, CCS_DN_INI

LEMMA BlkUpIniRecvStep ==
  ASSUME NEW m \in AnyFrame, ClientTyped, csdo.state = "blk_up_ini", co_csdo_blk_up_ini_on_recv(m)
  PROVE  ClientStep
<1> DEFINE c == [csdo EXCEPT !.blksize = (@ + 1) \div 2]
           d == Arm([csdo EXCEPT !.state = "blk_up_sub", !.crc = HasCrc(m),
                                 !.size = m.arg.num, !.ackseq = 0])
           f == Frame(32 * CCS_BLK_UP + SC_START_UP, NoIdx, NoArg, <<>>)
<1>1. \/ Aborts(m)
      \/ co_csdo_up_ini_on_recv(m)
      \/ Continue(Arm(c), <<BlkUpIniReq(c)>>)
      \/ Continue(d, <<f>>)
  BY Codes, Zenon DEF co_csdo_blk_up_ini_on_recv, Checked, Aborts
<1>2. csdo.state \in UpStates
  BY DEF UpStates
<1>3. (csdo.blksize + 1) \div 2 \in Nat
  BY <1>2, UpFacts
<1>4. /\ c \in ClientRecord /\ c.idx = csdo.idx /\ c.pst = csdo.pst /\ c.blksize \in Nat
      /\ c.state = csdo.state /\ c.pending = csdo.pending /\ c.dcf = csdo.dcf
  BY <1>2, <1>3, UpFacts DEF ClientRecord
<1>5. ClientOk(Arm(c)) /\ BlkUpIniReq(c) \in ClientFrame /\ csdo.pending
  <2> HIDE DEF c
  <2>1. /\ Arm(c) \in ClientRecord /\ Arm(c).state = c.state /\ Arm(c).pending = c.pending
        /\ Arm(c).timer /\ Arm(c).dcf = c.dcf
    BY <1>4 DEF Arm, ClientRecord
  <2> QED
    BY <1>2, <1>4, <2>1, ClientOkUp, UpFacts, BlkUpIniReqType
<1>6. ClientOk(d)
  <2>1. /\ d \in ClientRecord /\ d.state = "blk_up_sub" /\ d.pending /\ d.timer /\ d.dcf = <<>>
    BY <1>2, UpFacts, FrameFields DEF ClientRecord, Arm, UpStates
  <2> HIDE DEF d
  <2> QED
    BY <2>1, ClientOkUp DEF UpStates
<1>7. f \in ClientFrame
  <2>1. 32 * CCS_BLK_UP + SC_START_UP \in Nat /\ <<>> \in Seq(Byte)
    BY EmptySeq DEF CCS_BLK_UP, SC_START_UP
  <2> QED
    BY <2>1, ArgTypes, PlainFrameType
<1> HIDE DEF d, c, f
<1>8. CASE Continue(Arm(c), <<BlkUpIniReq(c)>>)
  BY <1>5, <1>8, ContinueStep, SingletonSeq
<1>9. CASE Continue(d, <<f>>)
  BY <1>5, <1>6, <1>7, <1>9, ContinueStep, SingletonSeq
<1> QED
  BY <1>1, <1>8, <1>9, AbortsStep, UpIniRecvStep

LEMMA BlkUpSubRecvStep ==
  ASSUME NEW m \in AnyFrame, ClientTyped, csdo.state = "blk_up_sub", co_csdo_blk_up_sub_on_recv(m)
  PROVE  ClientStep
<1> DEFINE next == SeqNo(m) = csdo.ackseq + 1
           n    == Lesser(csdo.size - Len(csdo.rx), SegBytes)
           c    == IF next THEN [csdo EXCEPT !.ackseq = @ + 1, !.rx = @ \o Padded(m.data, n)]
                           ELSE csdo
           eob  == EndOfBlock(m, csdo.blksize)
           d    == Arm([c EXCEPT !.ackseq = IF eob  THEN 0 ELSE @,
                                 !.state = IF IsLastSeq(m) THEN "blk_up_end" ELSE @])
           f    == Frame(32 * CCS_BLK_UP + SC_BLK_RES, NoIdx, Blk(c.ackseq, c.blksize), <<>>)
<1>1. \/ Aborts(m)
      \/ Continue(d, IF eob  THEN <<f>> ELSE <<>>)
  BY Codes, Zenon DEF co_csdo_blk_up_sub_on_recv, Aborts
<1>2. csdo.state \in UpStates
  BY DEF UpStates
<1>3. /\ c \in ClientRecord /\ c.pending /\ c.dcf = <<>> /\ c.state = "blk_up_sub"
      /\ c.ackseq \in Nat /\ c.blksize \in Nat
  <2>1. csdo.rx \o Padded(m.data, n) \in Seq(Byte) /\ csdo.ackseq + 1 \in Nat
    <3>1. n \in Int
      BY <1>2, UpFacts, LenProperties DEF Lesser, SegBytes
    <3> HIDE DEF n
    <3> QED
      <4>1. Padded(m.data, n) \in Seq(Byte)
        BY <3>1, FrameFields, PaddedType
      <4> QED
        BY <1>2, <4>1, UpFacts, ConcatProperties
  <2> HIDE DEF n, next
  <2> QED
    BY <1>2, <2>1, UpFacts DEF ClientRecord
<1> HIDE DEF c
<1>4. ClientOk(d) /\ csdo.pending
  <2> HIDE DEF eob
  <2>1. /\ d \in ClientRecord /\ d.state \in {"blk_up_sub", "blk_up_end"} /\ d.pending /\ d.timer
        /\ d.dcf = <<>>
    BY <1>3, ZenonT(60) DEF ClientRecord, Arm, UpStates
  <2> HIDE DEF d
  <2> QED
    BY <1>2, <2>1, ClientOkUp, UpFacts DEF UpStates
<1>5. f \in ClientFrame
  <2>1. 32 * CCS_BLK_UP + SC_BLK_RES \in Nat /\ <<>> \in Seq(Byte)
    BY EmptySeq DEF CCS_BLK_UP, SC_BLK_RES
  <2> QED
    BY <1>3, <2>1, ArgTypes, PlainFrameType
<1> HIDE DEF d, f, eob
<1>6. (IF eob  THEN <<f>> ELSE <<>>) \in Seq(ClientFrame)
  BY <1>5, SingletonSeq
<1> QED
  BY <1>1, <1>4, <1>6, ContinueStep, AbortsStep

LEMMA BlkUpEndRecvStep ==
  ASSUME NEW m \in AnyFrame, ClientTyped, csdo.state = "blk_up_end", co_csdo_blk_up_end_on_recv(m)
  PROVE  ClientStep
<1> DEFINE f == Frame(32 * CCS_BLK_UP + SC_END_BLK, NoIdx, NoArg, <<>>)
<1>1. Aborts(m) \/ co_csdo_abort_ind(csdo, "OK", <<f>>)
  BY Codes, Zenon DEF co_csdo_blk_up_end_on_recv, Checked, Aborts
<1>2. f \in ClientFrame
  <2>1. 32 * CCS_BLK_UP + SC_END_BLK \in Nat /\ <<>> \in Seq(Byte)
    BY EmptySeq DEF CCS_BLK_UP, SC_END_BLK
  <2> QED
    BY <2>1, ArgTypes, PlainFrameType
<1> HIDE DEF f
<1>3. CASE co_csdo_abort_ind(csdo, "OK", <<f>>)
  BY <1>2, <1>3, ClientFacts, AbortIndStep, Codes, SingletonSeq
<1> QED
  BY <1>1, <1>3, AbortsStep

-----------------------------------------------------------------------------
(* The client's block downloads                                            *)

LEMMA SegmentsBounds ==
  ASSUME NEW n \in Nat
  PROVE  /\ Segments(n) \in Nat /\ 7 * Segments(n) >= n /\ 7 * Segments(n) <= n + 6
         /\ n > 0 => Segments(n) > 0
BY DEF Segments, SegBytes

LEMMA SegmentsMonotonic ==
  ASSUME NEW n \in Nat, NEW k \in Nat, n <= k
  PROVE  Segments(n) <= Segments(k)
BY SegmentsBounds

LEMMA LastBytesType ==
  ASSUME NEW n \in Nat \ {0}
  PROVE  LastBytes(n) \in 1..7
BY DEF LastBytes, SegBytes

\* What a download needs of the client's record.
DnData(c) ==
  /\ c \in ClientRecord /\ c.pending /\ ~c.up
  /\ c.size = Len(c.data) /\ c.size > 0 /\ c.pos <= c.size

LEMMA DnFields ==
  ASSUME NEW c, DnData(c)
  PROVE  /\ c.data \in Seq(Byte) /\ c.size \in Nat \ {0} /\ c.pos \in 0..c.size /\ c.blksize \in Nat
         /\ c.size = Len(c.data) /\ c.toggle \in {0, 1} /\ c.idx \in Indices
BY DEF DnData, ClientRecord

LEMMA ClientOkDn ==
  ASSUME NEW c, DnData(c), c.timer, c.state \in DnStates,
         c.state = "blk_dn_sub" => c.blksize <= Segments(c.pos)
  PROVE  ClientOk(c)
BY DEF ClientOk, DnData, DnStates, UpStates, Idling, Segments

LEMMA DnFacts ==
  ASSUME ClientTyped, csdo.state \in DnStates
  PROVE  DnData(csdo) /\ (csdo.state = "blk_dn_sub" => csdo.blksize <= Segments(csdo.pos))
BY DEF ClientTyped, ClientOk, DnData, DnStates, Idling, Segments

\* The frames of a block.
LEMMA BlockOfType ==
  ASSUME NEW bytes \in Seq(Byte), NEW pos \in 0..Len(bytes), NEW end \in BOOLEAN,
         NEW k \in 0..Segments(Len(bytes) - pos)
  PROVE  /\ BlockOf(bytes, pos, k, end) \in Seq(ClientFrame)
         /\ Len(BlockOf(bytes, pos, k, end)) = k
         /\ \A i \in 1..k : BlockOf(bytes, pos, k, end)[i] = BlockSegment(bytes, pos, i, end)
<1> DEFINE q == BlockOf(bytes, pos, k, end)
<1>0. Len(bytes) \in Nat /\ k \in Nat /\ 7 * k <= Len(bytes) - pos + 6
  <2>1. Len(bytes) \in Nat /\ Len(bytes) - pos \in Nat
    BY LenProperties
  <2>2. /\ Segments(Len(bytes) - pos) \in Nat
        /\ 7 * Segments(Len(bytes) - pos) <= Len(bytes) - pos + 6
    BY <2>1, SegmentsBounds
  <2> QED
    BY <2>1, <2>2
<1>1. q = [i \in 1..k |-> BlockSegment(bytes, pos, i, end)]
  BY DEF BlockOf, BlockSegment
<1>2. ASSUME NEW i \in 1..k
      PROVE  BlockSegment(bytes, pos, i, end) \in ClientFrame
  <2> DEFINE from == pos + (i - 1) * 7
             left == Len(bytes) - from
             n    == Lesser(left, SegBytes)
  <2>1. left > 0 /\ from \in Nat /\ left \in Nat
    BY <1>0
  <2>2. n \in Nat /\ from + n <= Len(bytes)
    <3> HIDE DEF from
    <3> QED
      BY <1>0, <2>1 DEF Lesser, SegBytes
  <2>3. SeqByte(i, end /\ left <= SegBytes) \in Nat
    BY DEF SeqByte
  <2>4. Segment(bytes, from, n) \in Seq(Byte)
    <3> HIDE DEF from, n
    <3> QED
      BY <2>1, <2>2, SegmentType
  <2>5. BlockSegment(bytes, pos, i, end)
          = Frame(SeqByte(i, end /\ left <= SegBytes), NoIdx, NoArg, Segment(bytes, from, n))
    BY DEF BlockSegment, SegBytes
  <2> HIDE DEF from, left, n
  <2> QED
    BY <2>3, <2>4, <2>5, ArgTypes, PlainFrameType
<1>3. q \in [1..k -> ClientFrame]
  BY <1>1, <1>2
<1>4. q \in Seq(ClientFrame)
  BY <1>0, <1>3, SeqDef
<1>5. Len(q) = k
  BY <1>0, <1>3, <1>4, LenProperties
<1> QED
  BY <1>1, <1>4, <1>5

\* What the client does to enter the next sub-block.
LEMMA BlkDnSubEnter ==
  ASSUME NEW c, DnData(c), co_csdo_blk_dn_sub_on_enter(c)
  PROVE  LET left == c.size - c.pos
             k    == Lesser(Segments(left), c.blksize)
         IN  \/ co_csdo_abort_res(c, "BLK_SIZE") /\ (c.blksize > CO_SDO_MAX_SEQNO \/ c.blksize = 0)
             \/ /\ left > 0 /\ c.blksize \in 1..CO_SDO_MAX_SEQNO
                /\ Continue(Arm([c EXCEPT !.state = "blk_dn_sub", !.blksize = k,
                                          !.pos = Lesser(@ + k * SegBytes, c.size)]),
                            BlockOf(c.data, c.pos, k, TRUE))
             \/ /\ left = 0
                /\ Continue(Arm([c EXCEPT !.state = "blk_dn_end", !.blksize = k]),
                            <<Frame(BlkEndByte(CCS_BLK_DN, LastBytes(c.size)), NoIdx,
                                    [NoArg EXCEPT !.crc = IF c.crc THEN co_crc(<<>>, c.data) ELSE @],
                                    <<>>)>>)
<1> DEFINE left == c.size - c.pos
           k    == Lesser((left + SegBytes - 1) \div SegBytes, c.blksize)
           A    == Continue(Arm([c EXCEPT !.state = "blk_dn_sub", !.blksize = k,
                                          !.pos = Lesser(@ + k * SegBytes, c.size)]),
                            BlockOf(c.data, c.pos, k, TRUE))
           B    == Continue(Arm([c EXCEPT !.state = "blk_dn_end", !.blksize = k]),
                            <<Frame(BlkEndByte(CCS_BLK_DN, LastBytes(c.size)), NoIdx,
                                    [NoArg EXCEPT !.crc = IF c.crc THEN co_crc(<<>>, c.data) ELSE @],
                                    <<>>)>>)
<1>1. IF (left > 0 /\ c.blksize = 0) \/ c.blksize > CO_SDO_MAX_SEQNO
      THEN co_csdo_abort_res(c, "BLK_SIZE")
      ELSE IF left > 0 THEN A ELSE B
  BY Zenon DEF co_csdo_blk_dn_sub_on_enter
<1>2. left \in Nat /\ c.blksize \in Nat /\ CO_SDO_MAX_SEQNO \in Nat
  BY DnFields, BlockSizes
<1>3. k = Lesser(Segments(left), c.blksize)
  BY Zenon DEF Segments
<1>4. \/ co_csdo_abort_res(c, "BLK_SIZE") /\ (c.blksize > CO_SDO_MAX_SEQNO \/ c.blksize = 0)
      \/ left > 0 /\ c.blksize \in 1..CO_SDO_MAX_SEQNO /\ A
      \/ left = 0 /\ B
  <2> HIDE DEF left, k, A, B
  <2> QED
    BY <1>1, <1>2
<1> QED
  BY <1>3, <1>4, Zenon

LEMMA BlkDnSubEnterStep ==
  ASSUME NEW c, ClientTyped, DnData(c), c.dcf = csdo.dcf, csdo.pending, co_csdo_blk_dn_sub_on_enter(c)
  PROVE  ClientStep
<1> DEFINE left == c.size - c.pos
           k    == Lesser(Segments(left), c.blksize)
           pos  == Lesser(c.pos + k * SegBytes, c.size)
           d    == Arm([c EXCEPT !.state = "blk_dn_sub", !.blksize = k,
                                 !.pos = Lesser(@ + k * SegBytes, c.size)])
           e    == Arm([c EXCEPT !.state = "blk_dn_end", !.blksize = k])
           crc  == [NoArg EXCEPT !.crc = IF c.crc THEN co_crc(<<>>, c.data) ELSE @]
           f    == Frame(BlkEndByte(CCS_BLK_DN, LastBytes(c.size)), NoIdx, crc, <<>>)
<1>1. \/ co_csdo_abort_res(c, "BLK_SIZE")
      \/ Continue(d, BlockOf(c.data, c.pos, k, TRUE))
      \/ Continue(e, <<f>>)
  BY BlkDnSubEnter, Zenon
<1>2. left \in Nat /\ c.size \in Nat \ {0} /\ c.pos \in 0..c.size /\ c \in ClientRecord /\ c.blksize \in Nat
  BY DnFields DEF DnData
<1>3. k \in Nat /\ k <= Segments(left) /\ Segments(left) \in Nat
  <2> HIDE DEF left
  <2> QED
    BY <1>2, SegmentsBounds DEF Lesser
<1>4. pos \in 0..c.size
  <2> HIDE DEF k
  <2> QED
    BY <1>2, <1>3 DEF Lesser, SegBytes
<1>5. k <= Segments(pos)
  <2> HIDE DEF k
  <2>1. CASE pos = c.size
    <3>1. Segments(left) <= Segments(c.size)
      BY <1>2, SegmentsMonotonic
    <3> QED
      BY <1>2, <1>3, <2>1, <3>1, SegmentsBounds
  <2>2. CASE pos = c.pos + k * 7
    BY <1>2, <1>3, <2>2, SegmentsBounds, SMTT(60)
  <2> QED
    BY <2>1, <2>2 DEF Lesser, SegBytes
<1>6. ClientOk(d)
  <2> HIDE DEF k
  <2>1. /\ d \in ClientRecord /\ d.state = "blk_dn_sub" /\ d.pending /\ ~d.up /\ d.timer
        /\ d.size = c.size /\ d.data = c.data /\ d.pos = pos /\ d.blksize = k
    <3>1. d = Arm([c EXCEPT !.state = "blk_dn_sub", !.blksize = k, !.pos = pos])
      BY <1>2 DEF ClientRecord
    <3>2. pos \in Nat
      BY <1>2, <1>4
    <3> HIDE DEF pos, d
    <3> QED
      BY <1>2, <1>3, <3>1, <3>2 DEF ClientRecord, Arm, DnStates, DnData
  <2> HIDE DEF d, pos
  <2>2. DnData(d)
    BY <1>2, <1>4, <2>1 DEF DnData
  <2> QED
    BY <1>5, <2>1, <2>2, ClientOkDn DEF DnStates
<1>7. BlockOf(c.data, c.pos, k, TRUE) \in Seq(ClientFrame)
  <2> HIDE DEF k
  <2> QED
    <3>1. c.data \in Seq(Byte) /\ c.pos \in 0..Len(c.data) /\ k \in 0..Segments(Len(c.data) - c.pos)
      BY <1>2, <1>3, DnFields
    <3> QED
      BY <3>1, BlockOfType
<1>8. ClientOk(e)
  <2> HIDE DEF k
  <2>1. /\ e \in ClientRecord /\ e.state = "blk_dn_end" /\ e.pending /\ ~e.up /\ e.timer
        /\ e.size = c.size /\ e.data = c.data /\ e.pos = c.pos
    BY <1>2, <1>3 DEF ClientRecord, Arm, DnStates, DnData
  <2> HIDE DEF e
  <2>2. DnData(e)
    BY <2>1 DEF DnData
  <2> QED
    BY <2>1, <2>2, ClientOkDn DEF DnStates
<1>9. f \in ClientFrame
  <2>1. BlkEndByte(CCS_BLK_DN, LastBytes(c.size)) \in Nat
    BY <1>2, LastBytesType DEF BlkEndByte, CCS_BLK_DN, SC_END_BLK
  <2>2. crc \in Arg
    <3>1. (IF c.crc THEN co_crc(<<>>, c.data) ELSE NoArg.crc) \in Seq(Byte)
      BY DnFields, ConcatProperties, EmptySeq DEF co_crc, NoArg
    <3> QED
      BY <3>1, ArgTypes
  <2> HIDE DEF crc
  <2> QED
    BY <2>1, <2>2, PlainFrameType, EmptySeq
<1> HIDE DEF k, d, e, f
<1>10. CASE co_csdo_abort_res(c, "BLK_SIZE")
  BY <1>2, <1>10, AbortResStep, Codes
<1>11. CASE Continue(d, BlockOf(c.data, c.pos, k, TRUE))
  BY <1>6, <1>7, <1>11, ContinueStep
<1>12. CASE Continue(e, <<f>>)
  BY <1>8, <1>9, <1>12, ContinueStep, SingletonSeq
<1> QED
  BY <1>1, <1>10, <1>11, <1>12

LEMMA BlkDnIniRecvStep ==
  ASSUME NEW m \in AnyFrame, ClientTyped, csdo.state = "blk_dn_ini", co_csdo_blk_dn_ini_on_recv(m)
  PROVE  ClientStep
<1> DEFINE c == [csdo EXCEPT !.crc = HasCrc(m), !.blksize = m.arg.blksize]
<1>1. Aborts(m) \/ co_csdo_blk_dn_sub_on_enter(c)
  BY Codes, Zenon DEF co_csdo_blk_dn_ini_on_recv, Checked, Aborts
<1>2. DnData(csdo) /\ csdo.pending
  BY DnFacts DEF DnStates, DnData
<1>3. DnData(c) /\ c.dcf = csdo.dcf
  BY <1>2, FrameFields DEF DnData, ClientRecord
<1> HIDE DEF c
<1> QED
  BY <1>1, <1>2, <1>3, AbortsStep, BlkDnSubEnterStep

LEMMA BlkDnSubRecvStep ==
  ASSUME NEW m \in AnyFrame, ClientTyped, csdo.state = "blk_dn_sub", co_csdo_blk_dn_sub_on_recv(m)
  PROVE  ClientStep
<1> DEFINE sent   == (csdo.pos + SegBytes - 1) \div SegBytes
           missed == csdo.blksize - m.arg.num
           pos    == IF missed > 0 THEN (sent - missed) * SegBytes ELSE csdo.pos
           c      == [csdo EXCEPT !.pos = IF missed > 0 THEN (sent - missed) * SegBytes ELSE @,
                                  !.blksize = m.arg.blksize]
<1>1. Aborts(m) \/ co_csdo_blk_dn_sub_on_enter(c)
  BY Codes, Zenon DEF co_csdo_blk_dn_sub_on_recv, Checked, Aborts
<1>2. DnData(csdo) /\ csdo.pending /\ csdo.blksize <= Segments(csdo.pos)
  BY DnFacts DEF DnStates, DnData
<1>3. pos \in 0..csdo.pos
  <2>1. sent = Segments(csdo.pos)
    BY DEF Segments
  <2>2. csdo.pos \in Nat /\ csdo.blksize \in Nat /\ m.arg.num \in Nat
    BY <1>2, DnFields, FrameFields
  <2>3. sent \in Nat /\ 7 * sent <= csdo.pos + 6
    BY <2>1, <2>2, SegmentsBounds
  <2> HIDE DEF sent
  <2> QED
    BY <1>2, <2>1, <2>2, <2>3 DEF SegBytes
<1>4. DnData(c) /\ c.dcf = csdo.dcf
  <2>1. c = [csdo EXCEPT !.pos = pos, !.blksize = m.arg.blksize]
    BY <1>2 DEF DnData, ClientRecord
  <2> HIDE DEF c, pos
  <2> QED
    <3>1. pos \in Nat /\ pos <= csdo.size /\ m.arg.blksize \in Nat
      BY <1>2, <1>3, FrameFields, DnFields
    <3> QED
      BY <1>2, <2>1, <3>1 DEF DnData, ClientRecord
<1> HIDE DEF c
<1> QED
  BY <1>1, <1>2, <1>4, AbortsStep, BlkDnSubEnterStep

LEMMA BlkDnEndRecvStep ==
  ASSUME NEW m \in AnyFrame, ClientTyped, csdo.state = "blk_dn_end", co_csdo_blk_dn_end_on_recv(m)
  PROVE  ClientStep
<1>1. Aborts(m) \/ co_csdo_abort_ind(csdo, "OK", <<>>)
  BY Codes, Zenon DEF co_csdo_blk_dn_end_on_recv, Checked, Aborts
<1>2. CASE co_csdo_abort_ind(csdo, "OK", <<>>)
  BY <1>2, ClientFacts, AbortIndStep, Codes, EmptySeq
<1> QED
  BY <1>1, <1>2, AbortsStep

LEMMA ClientRecvStep ==
  ASSUME ClientTyped, s2c \in Seq(AnyFrame), co_csdo_recv
  PROVE  ClientStep /\ s2c' \in Seq(AnyFrame)
<1> DEFINE m == Head(s2c)
<1>1. m \in AnyFrame /\ s2c' \in Seq(AnyFrame)
  BY HeadTailProperties DEF co_csdo_recv
<1>2. \/ UNCHANGED <<csdo, con, c2s>>
      \/ co_csdo_wait_on_recv(m)
      \/ csdo.state = "dn_ini" /\ co_csdo_dn_ini_on_recv(m)
      \/ csdo.state = "dn_seg" /\ co_csdo_dn_seg_on_recv(m)
      \/ csdo.state = "up_ini" /\ co_csdo_up_ini_on_recv(m)
      \/ csdo.state = "up_seg" /\ co_csdo_up_seg_on_recv(m)
      \/ csdo.state = "blk_dn_ini" /\ co_csdo_blk_dn_ini_on_recv(m)
      \/ csdo.state = "blk_dn_sub" /\ co_csdo_blk_dn_sub_on_recv(m)
      \/ csdo.state = "blk_dn_end" /\ co_csdo_blk_dn_end_on_recv(m)
      \/ csdo.state = "blk_up_ini" /\ co_csdo_blk_up_ini_on_recv(m)
      \/ csdo.state = "blk_up_sub" /\ co_csdo_blk_up_sub_on_recv(m)
      \/ csdo.state = "blk_up_end" /\ co_csdo_blk_up_end_on_recv(m)
  <2>1. csdo.state \in Idling \cup DnStates \cup UpStates
    BY ClientFacts DEF ClientRecord
  <2> QED
    BY <2>1, ZenonT(60) DEF co_csdo_recv, Idling, DnStates, UpStates
<1> HIDE DEF m
<1>3. CASE UNCHANGED <<csdo, con, c2s>>
  <2>1. csdo' = csdo /\ con' = con /\ c2s' = c2s
    BY <1>3
  <2> QED
    BY <1>1, <2>1 DEF ClientStep, ClientTyped
<1> QED
  BY <1>1, <1>2, <1>3, WaitRecvStep, DnRecvStep, UpIniRecvStep, UpSegRecvStep, BlkDnIniRecvStep,
     BlkDnSubRecvStep, BlkDnEndRecvStep, BlkUpIniRecvStep, BlkUpSubRecvStep, BlkUpEndRecvStep

LEMMA ClientTimerStep ==
  ASSUME ClientTyped, co_csdo_timer \/ co_csdo_abort_req("NO_SDO")
  PROVE  ClientStep
BY ClientFacts, AbortResStep, Codes DEF co_csdo_timer, co_csdo_abort_req

LEMMA ClientStopStep ==
  ASSUME ClientTyped, co_csdo_stop
  PROVE  ClientStep /\ ~csdo'.pending
<1>1. csdo' = [csdo EXCEPT !.state = "stopped", !.pending = FALSE, !.dcf = <<>>, !.timer = FALSE]
  BY DEF co_csdo_stop
<1>2. ClientOk(csdo') /\ ~csdo'.pending
  BY <1>1, ClientFacts, EmptySeq DEF ClientOk, ClientRecord, Idling, DnStates, UpStates
<1>3. c2s' \in Seq(ClientFrame) /\ con' \in Confirmation
  <2>1. CASE csdo.state = "wait"
    BY <2>1 DEF co_csdo_stop, ClientTyped
  <2>2. CASE csdo.state # "wait"
    <3>1. /\ c2s' = Append(c2s, AbortFrame(csdo.idx, "NO_SDO"))
          /\ con' = [ac |-> "NO_SDO", data |-> <<>>]
      BY <2>2 DEF co_csdo_stop
    <3>2. AbortFrame(csdo.idx, "NO_SDO") \in ClientFrame
      BY ClientFacts, AbortFrameType, Codes DEF ClientRecord
    <3>3. c2s' \in Seq(ClientFrame)
      BY <3>1, <3>2, AppendProperties DEF ClientTyped
    <3> QED
      BY <3>1, <3>3, EmptySeq, Codes DEF Confirmation
  <2> QED
    BY <2>1, <2>2
<1> QED
  BY <1>2, <1>3 DEF ClientStep, ClientTyped

LEMMA ClientStartStep ==
  ASSUME ClientTyped, co_csdo_start
  PROVE  ClientStep /\ ~csdo'.pending
<1> DEFINE c == [csdo EXCEPT !.state = "wait"]
<1>1. Continue(c, <<>>) /\ csdo.state = "stopped"
  BY DEF co_csdo_start
<1>2. ClientOk(c) /\ ~c.pending
  BY <1>1 DEF ClientTyped, ClientOk, ClientRecord, Idling, DnStates, UpStates
<1> HIDE DEF c
<1> QED
  BY <1>1, <1>2, ContinueStep, ContinueTyped, EmptySeq

-----------------------------------------------------------------------------
(* Requests                                                                *)

LEMMA BytesType ==
  ASSUME NEW tag \in Nat, NEW n \in Nat
  PROVE  Bytes(tag, n) \in Seq(Byte) /\ Len(Bytes(tag, n)) = n
<1>1. Bytes(tag, n) \in [1..n -> Byte]
  BY DEF Bytes, Byte
<1>2. Bytes(tag, n) \in Seq(Byte)
  BY <1>1, SeqDef
<1> QED
  BY <1>1, <1>2, LenProperties

LEMMA ValueItemType ==
  ASSUME NEW idx \in Indices, NEW tag \in Nat, NEW n \in Nat \ {0}
  PROVE  [idx |-> idx, data |-> Bytes(tag, n)] \in ValueItem
BY BytesType, EmptySeq DEF ValueItem, Item

LEMMA ItemsType ==
  ASSUME NEW r \in Requests, nreq \in Nat
  PROVE  /\ ~IsUp(r) => ItemsOf(r) \in Seq(ValueItem) /\ ItemsOf(r) # <<>>
         /\ r.kind \in {"up", "blk_up", "dn", "blk_dn", "dcf"}
         /\ r.kind = "blk_up" => r.pst \in Nat
         /\ r.kind # "dcf" => /\ r.idx \in Indices /\ ItemsOf(r)[1].idx = r.idx
                              /\ DOMAIN ItemsOf(r) = {1}
         /\ ItemsOf(r)[1].idx \in Indices
<1>1. \/ r.kind \in {"up", "blk_up"} /\ r.pst \in Nat
      \/ r.kind \in {"dn", "blk_dn"} /\ r.size \in Nat \ {0}
      \/ /\ r.kind = "dcf" /\ Len(r.items) \in Nat \ {0}
         /\ \A k \in 1..Len(r.items) : r.items[k].size \in Nat \ {0}
  BY SdoAssumption, Zenon
<1>2. r.kind # "dcf" => r.idx \in Indices
  BY DEF Indices, Requested
<1>3. ASSUME r.kind # "dcf"
      PROVE  /\ ItemsOf(r) = <<[idx |-> r.idx, data |-> Bytes(10 * (nreq + 1), r.size)]>>
             /\ ItemsOf(r)[1].idx = r.idx /\ DOMAIN ItemsOf(r) = {1}
  BY <1>3 DEF ItemsOf
<1>4. CASE r.kind \in {"up", "blk_up"} /\ r.pst \in Nat
  BY <1>2, <1>3, <1>4 DEF IsUp
<1>5. CASE r.kind \in {"dn", "blk_dn"} /\ r.size \in Nat \ {0}
  <2>1. [idx |-> r.idx, data |-> Bytes(10 * (nreq + 1), r.size)] \in ValueItem
    BY <1>2, <1>5, ValueItemType
  <2>2. ItemsOf(r) \in Seq(ValueItem) /\ ItemsOf(r) # <<>>
    <3>1. PICK item \in ValueItem : ItemsOf(r) = <<item>>
      BY <1>3, <1>5, <2>1
    <3> QED
      BY <3>1
  <2> QED
    BY <1>2, <1>3, <1>5, <2>2 DEF IsUp
<1>6. CASE /\ r.kind = "dcf" /\ Len(r.items) \in Nat \ {0}
           /\ \A k \in 1..Len(r.items) : r.items[k].size \in Nat \ {0}
  <2> DEFINE n == Len(r.items)
             item(k) == [idx |-> r.items[k].idx, data |-> Bytes(10 * (nreq + 1) + k, r.items[k].size)]
  <2>1. ItemsOf(r) = [k \in 1..n |-> item(k)]
    BY <1>6 DEF ItemsOf
  <2>2. ASSUME NEW k \in 1..n
        PROVE  item(k) \in ValueItem
    <3>1. r.items[k].idx \in Indices
      BY <1>6 DEF Indices, Requested
    <3>2. 10 * (nreq + 1) + k \in Nat /\ r.items[k].size \in Nat \ {0}
      BY <1>6
    <3> QED
      BY <3>1, <3>2, ValueItemType
  <2> HIDE DEF n, item
  <2>3. ItemsOf(r) \in [1..n -> ValueItem]
    BY <2>1, <2>2
  <2>4. n \in Nat \ {0}
    BY <1>6 DEF n
  <2>5. ItemsOf(r) \in Seq(ValueItem)
    BY <2>3, <2>4, SeqDef
  <2>6. ItemsOf(r)[1] \in ValueItem /\ ItemsOf(r) # <<>>
    BY <2>3, <2>4, <2>5, LenProperties, EmptySeq
  <2> QED
    BY <1>6, <2>5, <2>6 DEF ValueItem, Item, IsUp
<1> QED
  BY <1>1, <1>4, <1>5, <1>6

LEMMA DnReqStep ==
  ASSUME ClientTyped, NEW items \in Seq(ValueItem), items # <<>>,
         \/ co_csdo_dn_req(items[1])
         \/ co_csdo_dn_dcf_req(items)
         \/ co_csdo_blk_dn_req(items[1])
  PROVE  ClientTyped' /\ csdo'.pending
<1> DEFINE item == items[1]
           c == [csdo EXCEPT !.dcf = Tail(items)]
           b == Arm([co_csdo_dn_ind(csdo, item) EXCEPT !.state = "blk_dn_ini"])
           f == Frame(BlkIniByte(CCS_BLK_DN, TRUE), item.idx, Num(Len(item.data)), <<>>)
<1>1. /\ item \in ValueItem /\ Tail(items) \in Seq(ValueItem) /\ Head(items) = item
      /\ item.idx \in Indices /\ item.data \in Seq(Byte) /\ Len(item.data) \in Nat \ {0}
  BY HeadTailProperties, LenProperties, EmptySeq DEF ValueItem, Item
<1>2. DnReqFrame(item) \in ClientFrame /\ csdo \in ClientRecord
  BY <1>1, DnReqFrameType, ClientFacts
<1>3. c \in ClientRecord
  BY <1>1, <1>2 DEF ClientRecord
<1>4. ASSUME NEW d \in ClientRecord, Continue(DnReqState(d, item), <<DnReqFrame(item)>>)
      PROVE  ClientTyped' /\ csdo'.pending
  <2> HIDE DEF item
  <2>1. ClientOk(DnReqState(d, item)) /\ DnReqState(d, item).pending
    BY <1>1, DnReqStateOk
  <2>2. <<DnReqFrame(item)>> \in Seq(ClientFrame)
    BY <1>2
  <2> QED
    BY <1>4, <2>1, <2>2, ContinueTyped
<1>5. CASE co_csdo_blk_dn_req(item)
  <2>1. Continue(b, <<f>>)
    BY <1>5 DEF co_csdo_blk_dn_req
  <2>2. /\ b \in ClientRecord /\ b.state = "blk_dn_ini" /\ b.pending /\ ~b.up /\ b.timer
        /\ b.size = Len(item.data) /\ b.data = item.data /\ b.pos = 0
    <3> HIDE DEF item
    <3> QED
      BY <1>1, <1>2, ZenonT(60) DEF ClientRecord, Arm, co_csdo_dn_ind, DnStates
  <2>3. ClientOk(b) /\ b.pending
    <3> HIDE DEF b
    <3>1. DnData(b)
      BY <1>1, <2>2 DEF DnData
    <3> QED
      BY <2>2, <3>1, ClientOkDn DEF DnStates
  <2>4. f \in ClientFrame
    <3>1. f = Frame(198, item.idx, Num(Len(item.data)), <<>>)
      BY DEF BlkIniByte, CCS_BLK_DN, SC_INI_BLK
    <3>2. Num(Len(item.data)) \in Arg /\ <<>> \in Seq(Byte)
      BY <1>1, ArgTypes, EmptySeq
    <3>3. f \in AnyFrame
      <4> HIDE DEF item, f
      <4>1. 198 \in Nat
        OBVIOUS
      <4> QED
        BY <1>1, <3>1, <3>2, <4>1, FrameType, ZenonT(60)
    <3>4. f.arg.num = Len(item.data)
      BY DEF Frame, Num, NoArg
    <3> HIDE DEF item, f
    <3> QED
      BY <1>1, <3>3, <3>4 DEF ClientFrame, Announces
  <2> HIDE DEF b, f
  <2> QED
    BY <2>1, <2>3, <2>4, ContinueTyped, SingletonSeq
<1>6. CASE co_csdo_dn_req(item)
  BY <1>2, <1>4, <1>6 DEF co_csdo_dn_req
<1>7. CASE co_csdo_dn_dcf_req(items)
  BY <1>1, <1>3, <1>4, <1>7 DEF co_csdo_dn_dcf_req
<1> QED
  BY <1>5, <1>6, <1>7

LEMMA UpReqStep ==
  ASSUME ClientTyped, NEW idx \in Indices, NEW pst,
         co_csdo_up_req(idx) \/ (pst \in Nat /\ co_csdo_blk_up_req(idx, pst))
  PROVE  ClientTyped' /\ csdo'.pending
<1> DEFINE u == Arm([co_csdo_up_ind(csdo, idx) EXCEPT !.state = "up_ini"])
           b == [co_csdo_up_ind(csdo, idx) EXCEPT !.state = "blk_up_ini", !.pst = pst,
                                                  !.blksize = CO_SDO_MAX_SEQNO]
           f == Frame(32 * CCS_UP_INI, idx, NoArg, <<>>)
<1>1. csdo \in ClientRecord /\ csdo.state = "wait" /\ csdo.dcf = <<>>
  BY DEF ClientTyped, ClientOk, Idling, co_csdo_up_req, co_csdo_blk_up_req, co_csdo_is_idle
<1>2. CASE co_csdo_up_req(idx)
  <2>1. Continue(u, <<f>>)
    BY <1>2 DEF co_csdo_up_req
  <2>2. /\ u \in ClientRecord /\ u.state = "up_ini" /\ u.pending /\ u.timer /\ u.dcf = <<>>
    BY <1>1, EmptySeq DEF ClientRecord, Arm, co_csdo_up_ind, UpStates
  <2>3. f \in ClientFrame
    <3>1. f \in AnyFrame
      <4>1. 32 * CCS_UP_INI \in Nat /\ <<>> \in Seq(Byte)
        BY EmptySeq DEF CCS_UP_INI
      <4> QED
        BY <4>1, ArgTypes, FrameType
    <3>2. Cs(f) = 2
      BY DEF Cs, Frame, CCS_UP_INI
    <3> HIDE DEF f
    <3> QED
      BY <3>1, <3>2 DEF ClientFrame, Announces, CCS_BLK_DN, CCS_DN_INI
  <2> HIDE DEF u, f
  <2>4. ClientOk(u)
    BY <2>2, ClientOkUp DEF UpStates
  <2> QED
    BY <2>1, <2>2, <2>3, <2>4, ContinueTyped, SingletonSeq
<1>3. CASE pst \in Nat /\ co_csdo_blk_up_req(idx, pst)
  <2>1. Continue(Arm(b), <<BlkUpIniReq(b)>>)
    BY <1>3, Zenon DEF co_csdo_blk_up_req
  <2>2. CO_SDO_MAX_SEQNO \in Nat
    BY BlockSizes
  <2>3. /\ b \in ClientRecord /\ b.state = "blk_up_ini" /\ b.pending /\ b.dcf = <<>>
        /\ b.idx = idx /\ b.pst = pst /\ b.blksize = CO_SDO_MAX_SEQNO
    BY <1>1, <1>3, <2>2, EmptySeq DEF ClientRecord, co_csdo_up_ind, UpStates
  <2> HIDE DEF b
  <2>4. /\ Arm(b) \in ClientRecord /\ Arm(b).state = "blk_up_ini" /\ Arm(b).pending
        /\ Arm(b).dcf = <<>> /\ Arm(b).timer
    BY <2>3 DEF ClientRecord, Arm
  <2>5. ClientOk(Arm(b))
    BY <2>4, ClientOkUp DEF UpStates
  <2>6. BlkUpIniReq(b) \in ClientFrame
    BY <1>3, <2>2, <2>3, BlkUpIniReqType
  <2> QED
    BY <2>1, <2>4, <2>5, <2>6, ContinueTyped, SingletonSeq
<1> QED
  BY <1>2, <1>3

LEMMA SubmitStep ==
  ASSUME ClientTyped, nreq \in Nat, NEW r \in Requests, Submit(r)
  PROVE  ClientTyped' /\ csdo'.pending /\ req' # NoReq
<1> DEFINE items == ItemsOf(r)
           dn    == IF IsUp(r) THEN {} ELSE {items[k] : k \in DOMAIN items}
<1>1. \/ r.kind = "dn" /\ co_csdo_dn_req(items[1])
      \/ r.kind = "up" /\ co_csdo_up_req(r.idx)
      \/ r.kind = "blk_dn" /\ co_csdo_blk_dn_req(items[1])
      \/ r.kind = "blk_up" /\ co_csdo_blk_up_req(r.idx, r.pst)
      \/ r.kind = "dcf" /\ co_csdo_dn_dcf_req(items)
  BY ItemsType DEF Submit
<1>2. ClientTyped' /\ csdo'.pending
  <2> HIDE DEF items
  <2>1. ~IsUp(r) => items \in Seq(ValueItem) /\ items # <<>>
    BY ItemsType DEF items
  <2>2. IsUp(r) => r.idx \in Indices /\ (r.kind = "blk_up" => r.pst \in Nat)
    BY ItemsType DEF IsUp
  <2>3. CASE r.kind = "dn" /\ co_csdo_dn_req(items[1])
    BY <2>1, <2>3, DnReqStep DEF IsUp
  <2>4. CASE r.kind = "blk_dn" /\ co_csdo_blk_dn_req(items[1])
    BY <2>1, <2>4, DnReqStep DEF IsUp
  <2>5. CASE r.kind = "dcf" /\ co_csdo_dn_dcf_req(items)
    BY <2>1, <2>5, DnReqStep DEF IsUp
  <2>6. CASE r.kind = "up" /\ co_csdo_up_req(r.idx)
    BY <2>2, <2>6, UpReqStep DEF IsUp
  <2>7. CASE r.kind = "blk_up" /\ co_csdo_blk_up_req(r.idx, r.pst)
    BY <2>2, <2>7, UpReqStep DEF IsUp
  <2> QED
    BY <1>1, <2>3, <2>4, <2>5, <2>6, <2>7
<1>3. req' = [up |-> IsUp(r), items |-> dn, idx |-> items[1].idx, quiet |-> Quiet]
  BY Zenon DEF Submit
<1>4. items[1].idx \in Indices
  BY ItemsType
<1>5. dn \in SUBSET Item
  <2>1. CASE ~IsUp(r)
    <3>1. items \in Seq(ValueItem)
      BY <2>1, ItemsType
    <3> HIDE DEF items
    <3>2. \A k \in DOMAIN items : items[k] \in Item
      BY <3>1, LenProperties DEF ValueItem
    <3> QED
      BY <3>2
  <2> QED
    BY <2>1
<1>6. IsUp(r) \in BOOLEAN /\ Quiet \in BOOLEAN
  BY DEF IsUp, Quiet
<1> HIDE DEF items, dn
<1>7. req' \in [up : BOOLEAN, items : SUBSET Item, idx : Indices, quiet : BOOLEAN]
  BY <1>3, <1>4, <1>5, <1>6
<1> QED
  BY <1>2, <1>7, SdoAssumption

-----------------------------------------------------------------------------
(* The server                                                              *)

ServerTyped == ServerOk(ssdo) /\ od \in Dictionary /\ s2c \in Seq(AnyFrame)

ServerData(s) == s \in ServerRecord /\ (s.timer => s.timeout)

LEMMA ServerFields ==
  ASSUME NEW s, ServerData(s)
  PROVE  /\ s.idx \in Indices /\ s.toggle \in {0, 1} /\ s.blksize \in Nat /\ s.ackseq \in Nat
         /\ s.gencrc \in BOOLEAN /\ s.crc \in Seq(Byte) /\ s.size \in Nat /\ s.off \in Nat
         /\ s.seg \in Seq(Byte) /\ s.membuf \in Seq(Byte) /\ s.buf \in Seq(Byte) /\ s.nbyte \in Nat
         /\ s.timer \in BOOLEAN /\ s.timeout \in BOOLEAN
         /\ Len(s.seg) \in Nat /\ Len(s.membuf) \in Nat /\ Len(s.buf) \in Nat
<1>1. /\ s.idx \in Indices /\ s.toggle \in {0, 1} /\ s.blksize \in Nat /\ s.ackseq \in Nat
      /\ s.gencrc \in BOOLEAN /\ s.crc \in Seq(Byte) /\ s.size \in Nat /\ s.off \in Nat
      /\ s.seg \in Seq(Byte) /\ s.membuf \in Seq(Byte) /\ s.buf \in Seq(Byte) /\ s.nbyte \in Nat
      /\ s.timer \in BOOLEAN /\ s.timeout \in BOOLEAN
  BY DEF ServerData, ServerRecord
<1> QED
  BY <1>1, LenProperties

LEMMA ServerFacts ==
  ASSUME ServerTyped
  PROVE  ServerData(ssdo) /\ od \in Dictionary /\ s2c \in Seq(AnyFrame)
BY DEF ServerTyped, ServerData, ServerOk

LEMMA AbortIndServer ==
  ASSUME NEW s, ServerData(s)
  PROVE  ServerOk(co_ssdo_abort_ind(s)) /\ co_ssdo_abort_ind(s).state = "wait"
<1> DEFINE w == co_ssdo_abort_ind(s)
<1>1. (s.timer /\ ~s.timeout) = FALSE /\ s.timeout \in BOOLEAN
  BY DEF ServerData, ServerRecord
<1>2. w = [SsdoInit EXCEPT !.timeout = s.timeout, !.timer = FALSE]
  BY <1>1, Zenon DEF co_ssdo_abort_ind
<1> HIDE DEF w
<1>3. w \in ServerRecord /\ w.state = "wait" /\ w.timer = FALSE /\ Clean(w)
  BY <1>1, <1>2, EmptySeq, NoIdxType DEF SsdoInit, ServerRecord, Idling, Clean
<1>4. ServerOk(w) /\ w.state = "wait"
  BY <1>3 DEF ServerOk, Idling, StoreStates, FetchStates
<1> QED
  BY <1>4 DEF w

LEMMA ReplyTyped ==
  ASSUME NEW s, NEW out \in Seq(AnyFrame), ServerOk(s), ServerTyped, Reply(s, out)
  PROVE  ServerTyped'
BY ConcatProperties DEF Reply, ServerTyped

LEMMA AbortResServer ==
  ASSUME NEW s, NEW ac \in AbortCodes, ServerData(s), ServerTyped, co_ssdo_abort_res(s, ac)
  PROVE  ServerTyped'
<1>1. <<AbortFrame(s.idx, ac)>> \in Seq(AnyFrame)
  BY AbortFrameType, SingletonSeq, ServerFields
<1> QED
  BY <1>1, AbortIndServer, ReplyTyped DEF co_ssdo_abort_res

LEMMA AbortIndReply ==
  ASSUME NEW s, NEW out \in Seq(AnyFrame), ServerData(s), ServerTyped, Reply(co_ssdo_abort_ind(s), out)
  PROVE  ServerTyped'
BY AbortIndServer, ReplyTyped

LEMMA ArmServerOk ==
  ASSUME NEW s, ServerData(s), s.state \in StoreStates \cup FetchStates,
         s.state \in StoreStates => s.size > 0,
         s.state \in FetchStates => s.nbyte <= Len(s.seg)
  PROVE  ServerOk(ArmServer(s))
<1> DEFINE a == ArmServer(s)
<1>1. /\ a \in ServerRecord /\ (a.timer => a.timeout) /\ a.state = s.state /\ a.size = s.size
      /\ a.nbyte = s.nbyte /\ a.seg = s.seg
  BY DEF ArmServer, ServerData, ServerRecord
<1> HIDE DEF a
<1>2. ServerOk(a)
  BY <1>1 DEF ServerOk, Idling, StoreStates, FetchStates
<1> QED
  BY <1>2 DEF a

\* The bytes the object has been given.
LEMMA DnBufType ==
  ASSUME NEW s, ServerData(s), s.off <= Len(s.membuf)
  PROVE  DnBuf(s) \in Seq(Byte) /\ Len(DnBuf(s)) = s.off + Len(s.seg)
<1>1. SubSeq(s.membuf, 1, s.off) \in Seq(Byte) /\ Len(SubSeq(s.membuf, 1, s.off)) = s.off
  BY ServerFields, LenProperties, SubSeqProperties
<1> QED
  BY <1>1, ServerFields, ConcatProperties DEF DnBuf

LEMMA DnAcOk ==
  ASSUME NEW s, ServerData(s)
  PROVE  /\ DnAc(s) \in AbortCodes
         /\ DnAc(s) = "OK" <=> s.idx \in Writable /\ s.off <= Len(s.membuf)
<1>1. s.off \in Nat /\ Len(s.membuf) \in Nat /\ Writable \subseteq Objects
  BY ServerFields, SdoAssumption
<1> QED
  BY <1>1 DEF DnAc, AbortCodes

\* A write leaves no object without a value.
LEMMA DnIndTyped ==
  ASSUME NEW s, NEW next, NEW out \in Seq(AnyFrame), ServerData(s), ServerTyped,
         s.idx \in Objects => s.size > 0,
         DnAc(s) = "OK" => ServerOk(next),
         co_ssdo_dn_ind(s, next, out)
  PROVE  ServerTyped'
<1>1. CASE DnAc(s) # "OK"
  BY <1>1, DnAcOk, AbortResServer DEF co_ssdo_dn_ind
<1>2. CASE DnAc(s) = "OK"
  <2>1. ssdo' = next /\ od' = DnOd(s) /\ s2c' = s2c \o out
    BY <1>2 DEF co_ssdo_dn_ind
  <2>2. s.idx \in Objects /\ s.off <= Len(s.membuf)
    BY <1>2, DnAcOk, SdoAssumption
  <2>3. od' \in Dictionary
    <3>1. CASE s.off + Len(s.seg) >= s.size
      <4>1. DnBuf(s) \in Seq(Byte) /\ Len(DnBuf(s)) > 0
        BY <2>2, <3>1, DnBufType, ServerFields
      <4>2. DnBuf(s) # <<>>
        BY <4>1, EmptySeq
      <4>3. od' = [od EXCEPT ![s.idx] = DnBuf(s)]
        BY <2>1, <3>1 DEF DnOd
      <4> QED
        BY <2>2, <4>1, <4>2, <4>3, ServerFacts DEF Dictionary
    <3>2. CASE ~(s.off + Len(s.seg) >= s.size)
      BY <2>1, <3>2, ServerFacts DEF DnOd
    <3> QED
      BY <3>1, <3>2
  <2>4. s2c' \in Seq(AnyFrame)
    BY <2>1, ServerFacts, ConcatProperties
  <2> QED
    BY <1>2, <2>1, <2>3, <2>4 DEF ServerTyped
<1> QED
  BY <1>1, <1>2

LEMMA UpBufType ==
  ASSUME NEW s, NEW n \in Nat, ServerData(s), s.nbyte <= Len(s.seg)
  PROVE  LET k     == Lesser(n, Len(s.seg) - s.nbyte)
             bytes == Segment(s.seg, s.nbyte, k)
             u     == co_ssdo_up_buf(s, n)
         IN  /\ ServerData(u) /\ k \in 0..n /\ bytes \in Seq(Byte) /\ Len(bytes) = k
             /\ u.nbyte = s.nbyte + k /\ u.nbyte <= Len(s.seg) /\ u.buf = s.buf \o bytes
             /\ u.crc = IF s.gencrc THEN s.crc \o bytes ELSE s.crc
             /\ u.seg = s.seg /\ u.state = s.state /\ u.size = s.size /\ u.off = s.off
             /\ u.toggle = s.toggle /\ u.blksize = s.blksize /\ u.gencrc = s.gencrc
             /\ u.timer = s.timer /\ u.timeout = s.timeout /\ u.idx = s.idx /\ u.ackseq = s.ackseq
<1> DEFINE k     == Lesser(n, Len(s.seg) - s.nbyte)
           bytes == Segment(s.seg, s.nbyte, k)
           u     == co_ssdo_up_buf(s, n)
           crc   == IF s.gencrc THEN s.crc \o bytes ELSE s.crc
<1>1. k \in 0..n /\ k \in Nat /\ s.nbyte + k <= Len(s.seg)
  BY ServerFields DEF Lesser
<1>2. bytes \in Seq(Byte) /\ Len(bytes) = k
  <2> HIDE DEF k
  <2> QED
    BY <1>1, ServerFields, SegmentType
<1>3. s.buf \o bytes \in Seq(Byte) /\ crc \in Seq(Byte)
  <2> HIDE DEF bytes
  <2> QED
    BY <1>2, ServerFields, ConcatProperties
<1>4. u = [s EXCEPT !.buf = @ \o bytes, !.nbyte = @ + k, !.crc = IF s.gencrc THEN @ \o bytes ELSE @]
  BY Zenon DEF co_ssdo_up_buf, co_crc
<1>5. u = [s EXCEPT !.buf = s.buf \o bytes, !.nbyte = s.nbyte + k, !.crc = crc]
  <2> HIDE DEF k, bytes, u
  <2> QED
    BY <1>4 DEF ServerData, ServerRecord
<1>6. s.nbyte + k \in Nat
  BY <1>1, ServerFields
<1> HIDE DEF k, bytes, u, crc
<1>7. ServerData(u)
  BY <1>3, <1>5, <1>6 DEF ServerData, ServerRecord
<1>8. /\ u.nbyte = s.nbyte + k /\ u.buf = s.buf \o bytes /\ u.crc = crc
      /\ u.seg = s.seg /\ u.state = s.state /\ u.size = s.size /\ u.off = s.off
      /\ u.toggle = s.toggle /\ u.blksize = s.blksize /\ u.gencrc = s.gencrc
      /\ u.timer = s.timer /\ u.timeout = s.timeout /\ u.idx = s.idx /\ u.ackseq = s.ackseq
  BY <1>5 DEF ServerData, ServerRecord
<1> QED
  BY <1>1, <1>2, <1>7, <1>8 DEF k, bytes, u, crc

\* What a handler does with a frame that it did not expect.
ServerAborts ==
  \/ Reply(co_ssdo_abort_ind(ssdo), <<>>)
  \/ \E ac \in AbortCodes : co_ssdo_abort_res(ssdo, ac)

LEMMA ServerAbortsTyped ==
  ASSUME ServerTyped, ServerAborts
  PROVE  ServerTyped'
<1>1. ServerData(ssdo) /\ <<>> \in Seq(AnyFrame)
  BY ServerFacts, EmptySeq
<1> QED
  BY <1>1, AbortResServer, AbortIndReply DEF ServerAborts

LEMMA ClientFrameFields ==
  ASSUME NEW m \in ClientFrame
  PROVE  m \in AnyFrame
BY DEF ClientFrame

-----------------------------------------------------------------------------
(* The server's downloads                                                  *)

LEMMA EmptyFrame ==
  ASSUME NEW cs \in Nat, NEW idx \in Indices, NEW arg \in Arg
  PROVE  <<Frame(cs, idx, arg, <<>>)>> \in Seq(AnyFrame)
<1>1. Frame(cs, idx, arg, <<>>) \in AnyFrame
  BY FrameType, EmptySeq
<1> QED
  BY <1>1, SingletonSeq

LEMMA DnIniServer ==
  ASSUME NEW m \in ClientFrame, ServerTyped, Cs(m) = CCS_DN_INI, co_ssdo_dn_ini_on_recv(m)
  PROVE  ServerTyped'
<1> DEFINE exp  == IsExpedited(m)
           size == IF exp THEN ExpSize(m) ELSE m.arg.num
           seg  == IF exp THEN Padded(m.data, ExpSize(m)) ELSE <<>>
           s    == [co_sdo_req_clear(ssdo) EXCEPT !.idx = m.idx, !.size = size, !.seg = seg]
           a    == [s EXCEPT !.state = "dn_seg"]
           next == IF exp THEN co_ssdo_abort_ind(s) ELSE ArmServer(a)
<1>1. co_ssdo_dn_ind(s, next, <<DnIniRes(s)>>)
  BY Zenon DEF co_ssdo_dn_ini_on_recv
<1>2. m \in AnyFrame /\ m.idx \in Indices /\ m.arg.num \in Nat /\ ExpSize(m) \in 1..4
  BY FrameFields, ClientFrameFields
<1>3. size \in Nat /\ seg \in Seq(Byte) /\ (m.idx \in Objects => size > 0)
  <2>1. size \in Nat /\ (m.idx \in Objects => size > 0)
    BY <1>2 DEF ClientFrame, Announces
  <2>2. ExpSize(m) \in Int /\ m.data \in Seq(Byte)
    BY <1>2, FrameFields
  <2>3. Padded(m.data, ExpSize(m)) \in Seq(Byte)
    BY <2>2, PaddedType
  <2> QED
    BY <2>1, <2>3, EmptySeq
<1> HIDE DEF size, seg
<1>4. ServerData(s) /\ s.idx = m.idx /\ s.size = size
  BY <1>2, <1>3, ServerFacts, EmptySeq DEF co_sdo_req_clear, ServerData, ServerRecord
<1>5. DnAc(s) = "OK" => ServerOk(next)
  <2>1. CASE exp
    BY <1>4, <2>1, AbortIndServer
  <2>2. CASE ~exp
    <3> HIDE DEF s
    <3>1. ServerData(a) /\ a.state = "dn_seg" /\ a.size = size
      BY <1>4 DEF ServerData, ServerRecord, StoreStates
    <3>2. DnAc(s) = "OK" => size > 0
      BY <1>3, <1>4, DnAcOk, SdoAssumption
    <3> HIDE DEF a
    <3> QED
      BY <2>2, <3>1, <3>2, ArmServerOk DEF StoreStates, FetchStates
  <2> QED
    BY <2>1, <2>2
<1>6. <<DnIniRes(s)>> \in Seq(AnyFrame)
  <2> HIDE DEF s
  <2>1. 32 * SCS_DN_INI \in Nat /\ s.idx \in Indices
    BY <1>2, <1>4 DEF SCS_DN_INI
  <2> QED
    BY <2>1, ArgTypes, EmptyFrame DEF DnIniRes
<1> HIDE DEF s, next
<1> QED
  BY <1>1, <1>3, <1>4, <1>5, <1>6, DnIndTyped

LEMMA DnSegServer ==
  ASSUME NEW m \in ClientFrame, ServerTyped, ssdo.state = "dn_seg", co_ssdo_dn_seg_on_recv(m)
  PROVE  ServerTyped'
<1> DEFINE s    == [ssdo EXCEPT !.seg = m.data, !.off = @ + Len(ssdo.seg)]
           b    == [s EXCEPT !.membuf = DnBuf(s), !.toggle = 1 - @]
           last == IsLastSeg(m)
           next == IF last THEN co_ssdo_abort_ind(s) ELSE ArmServer(b)
           f    == Frame(32 * SCS_DN_SEG + 16 * s.toggle, NoIdx, NoArg, <<>>)
<1>1. \/ ServerAborts
      \/ Reply(ssdo, <<>>)
      \/ co_ssdo_abort_res(s, "TYPE_LEN_LO")
      \/ co_ssdo_dn_ind(s, next, <<f>>)
  BY Codes, Zenon DEF co_ssdo_dn_seg_on_recv, Accepted, ServerAborts
<1>2. ServerData(ssdo) /\ ssdo.size > 0 /\ m.data \in Seq(Byte) /\ ServerOk(ssdo)
  BY FrameFields, ClientFrameFields DEF ServerTyped, ServerOk, ServerData, StoreStates
<1>3. /\ ServerData(s) /\ s.size = ssdo.size /\ s.toggle = ssdo.toggle /\ s.state = ssdo.state
      /\ s.toggle \in {0, 1}
  <2>1. ssdo.off + Len(ssdo.seg) \in Nat
    BY <1>2, ServerFields
  <2> QED
    BY <1>2, <2>1 DEF ServerData, ServerRecord
<1> HIDE DEF s
<1>4. DnAc(s) = "OK" => ServerOk(next)
  <2>1. CASE last
    BY <1>3, <2>1, AbortIndServer
  <2>2. CASE ~last /\ DnAc(s) = "OK"
    <3>1. DnBuf(s) \in Seq(Byte) /\ 1 - s.toggle \in {0, 1}
      BY <1>3, <2>2, DnAcOk, DnBufType
    <3>2. ServerData(b) /\ b.state = "dn_seg" /\ b.size = ssdo.size
      BY <1>3, <3>1 DEF ServerData, ServerRecord
    <3> HIDE DEF b
    <3> QED
      BY <1>2, <2>2, <3>2, ArmServerOk DEF StoreStates, FetchStates
  <2> QED
    BY <2>1, <2>2
<1>5. <<f>> \in Seq(AnyFrame)
  <2>1. 32 * SCS_DN_SEG + 16 * s.toggle \in Nat
    BY <1>3 DEF SCS_DN_SEG
  <2> QED
    BY <2>1, ArgTypes, NoIdxType, EmptyFrame
<1> HIDE DEF next, f
<1>6. CASE Reply(ssdo, <<>>)
  BY <1>2, <1>6, ReplyTyped, EmptySeq
<1>7. CASE co_ssdo_abort_res(s, "TYPE_LEN_LO")
  BY <1>3, <1>7, AbortResServer, Codes
<1>8. CASE co_ssdo_dn_ind(s, next, <<f>>)
  BY <1>2, <1>3, <1>4, <1>5, <1>8, DnIndTyped
<1> QED
  BY <1>1, <1>6, <1>7, <1>8, ServerAbortsTyped

LEMMA BlkDnIniServer ==
  ASSUME NEW m \in ClientFrame, ServerTyped, Cs(m) = CCS_BLK_DN, co_ssdo_blk_dn_ini_on_recv(m)
  PROVE  ServerTyped'
<1> DEFINE s == [co_sdo_req_clear(ssdo) EXCEPT
                   !.gencrc = HasCrc(m), !.idx = m.idx, !.size = m.arg.num,
                   !.blksize = CO_SSDO_MAX_SEQNO, !.ackseq = 0]
           a == [s EXCEPT !.state = "blk_dn_sub"]
           f == Frame(BlkIniByte(SCS_BLK_DN, FALSE) - (IF s.gencrc THEN 0 ELSE 4),
                      s.idx, Blk(0, s.blksize), <<>>)
<1>1. ServerAborts \/ co_ssdo_dn_ind(s, ArmServer(a), <<f>>)
  BY Codes, Zenon DEF co_ssdo_blk_dn_ini_on_recv, ServerAborts
<1>2. /\ m \in AnyFrame /\ m.idx \in Indices /\ m.arg.num \in Nat /\ HasCrc(m) \in BOOLEAN
      /\ CO_SSDO_MAX_SEQNO \in Nat
  BY FrameFields, ClientFrameFields, SdoAssumption
<1>3. m.idx \in Objects => m.arg.num > 0
  BY DEF ClientFrame, Announces
<1>4. ServerData(s) /\ s.idx = m.idx /\ s.size = m.arg.num /\ s.blksize = CO_SSDO_MAX_SEQNO
  BY <1>2, ServerFacts, EmptySeq DEF co_sdo_req_clear, ServerData, ServerRecord
<1> HIDE DEF s
<1>5. DnAc(s) = "OK" => ServerOk(ArmServer(a))
  <2>1. ServerData(a) /\ a.state = "blk_dn_sub" /\ a.size = m.arg.num
    BY <1>4 DEF ServerData, ServerRecord, StoreStates
  <2>2. DnAc(s) = "OK" => m.arg.num > 0
    BY <1>3, <1>4, DnAcOk, SdoAssumption
  <2> HIDE DEF a
  <2> QED
    BY <2>1, <2>2, ArmServerOk DEF StoreStates, FetchStates
<1>6. <<f>> \in Seq(AnyFrame)
  <2>1. BlkIniByte(SCS_BLK_DN, FALSE) - (IF s.gencrc THEN 0 ELSE 4) \in Nat
    BY DEF BlkIniByte, SCS_BLK_DN, SC_INI_BLK
  <2>2. Blk(0, s.blksize) \in Arg
    BY <1>2, <1>4, ArgTypes
  <2> QED
    BY <1>2, <1>4, <2>1, <2>2, EmptyFrame
<1> HIDE DEF a, f
<1> QED
  BY <1>1, <1>3, <1>4, <1>5, <1>6, DnIndTyped, ServerAbortsTyped

LEMMA BlkDnSubServer ==
  ASSUME NEW m \in ClientFrame, ServerTyped, ssdo.state = "blk_dn_sub", co_ssdo_blk_dn_sub_on_recv(m)
  PROVE  ServerTyped'
<1> DEFINE last  == IsLastSeq(m)
           next  == SeqNo(m) = ssdo.ackseq + 1
           eob   == EndOfBlock(m, ssdo.blksize)
           at    == ssdo.off + Len(ssdo.seg)
           n     == Lesser(ssdo.size - at, SegBytes)
           s     == IF next THEN [ssdo EXCEPT !.ackseq = @ + 1, !.off = at,
                                              !.seg = Padded(m.data, n)]
                            ELSE ssdo
           t     == IF next /\ ~last
                    THEN [s EXCEPT !.crc = IF s.gencrc THEN co_crc(@, s.seg) ELSE @,
                                   !.membuf = DnBuf(s)]
                    ELSE s
           f     == Frame(32 * SCS_BLK_DN + SC_BLK_RES, NoIdx, Blk(s.ackseq, s.blksize), <<>>)
           ack   == IF eob THEN <<f>> ELSE <<>>
           v     == [t EXCEPT !.ackseq = IF eob THEN 0 ELSE @,
                              !.state = IF last THEN "blk_dn_end" ELSE @]
           u     == ArmServer(v)
<1>1. \/ ServerAborts
      \/ ~last /\ (next \/ eob) /\ co_ssdo_dn_ind(s, u, ack)
      \/ ~(~last /\ (next \/ eob)) /\ Reply(u, ack)
  BY Codes, Zenon DEF co_ssdo_blk_dn_sub_on_recv, ServerAborts
<1>2. /\ ServerData(ssdo) /\ ssdo.size > 0 /\ m.data \in Seq(Byte)
      /\ at \in Nat /\ n \in Int /\ ssdo.ackseq + 1 \in Nat
  <2>1. ServerData(ssdo) /\ ssdo.size > 0 /\ m.data \in Seq(Byte)
    BY FrameFields, ClientFrameFields DEF ServerTyped, ServerOk, ServerData, StoreStates
  <2>2. at \in Nat /\ ssdo.size \in Nat /\ ssdo.ackseq \in Nat
    BY <2>1, ServerFields
  <2> HIDE DEF at
  <2> QED
    BY <2>1, <2>2 DEF Lesser, SegBytes
<1>3. ServerData(s) /\ s.size = ssdo.size /\ s.state = "blk_dn_sub"
  <2>1. Padded(m.data, n) \in Seq(Byte)
    <3> HIDE DEF n
    <3> QED
      BY <1>2, PaddedType
  <2> HIDE DEF at, n, next
  <2> QED
    BY <1>2, <2>1 DEF ServerData, ServerRecord
<1> HIDE DEF s, next, last, eob
<1>4. ASSUME (next /\ ~last) => s.off <= Len(s.membuf)
      PROVE  ServerOk(u)
  <2>1. ServerData(t) /\ t.size = ssdo.size /\ t.state = "blk_dn_sub"
    <3>1. CASE next /\ ~last
      <4> DEFINE crc == IF s.gencrc THEN co_crc(s.crc, s.seg) ELSE s.crc
      <4>1. DnBuf(s) \in Seq(Byte)
        BY <1>3, <1>4, <3>1, DnBufType
      <4>2. crc \in Seq(Byte)
        BY <1>3, ServerFields, ConcatProperties DEF co_crc
      <4>3. t = [s EXCEPT !.crc = crc, !.membuf = DnBuf(s)]
        BY <1>3, <3>1 DEF ServerData, ServerRecord
      <4> HIDE DEF crc, t
      <4> QED
        BY <1>3, <4>1, <4>2, <4>3 DEF ServerData, ServerRecord
    <3>2. CASE ~(next /\ ~last)
      BY <1>3, <3>2
    <3> QED
      BY <3>1, <3>2
  <2> HIDE DEF t
  <2>2. ServerData(v) /\ v.size = ssdo.size /\ v.state \in {"blk_dn_sub", "blk_dn_end"}
    BY <2>1 DEF ServerData, ServerRecord, StoreStates
  <2> HIDE DEF v
  <2> QED
    BY <1>2, <2>2, ArmServerOk DEF StoreStates, FetchStates
<1>5. ack \in Seq(AnyFrame)
  <2>1. 32 * SCS_BLK_DN + SC_BLK_RES \in Nat
    BY DEF SCS_BLK_DN, SC_BLK_RES
  <2>2. Blk(s.ackseq, s.blksize) \in Arg
    BY <1>3, ServerFields, ArgTypes
  <2>3. <<f>> \in Seq(AnyFrame)
    BY <2>1, <2>2, NoIdxType, EmptyFrame
  <2> HIDE DEF f
  <2> QED
    BY <2>3, EmptySeq
<1> HIDE DEF u, ack
<1>6. CASE ~last /\ (next \/ eob) /\ co_ssdo_dn_ind(s, u, ack)
  <2>1. DnAc(s) = "OK" => ServerOk(u)
    BY <1>3, <1>4, DnAcOk
  <2> QED
    BY <1>2, <1>3, <1>5, <1>6, <2>1, DnIndTyped
<1>7. CASE ~(~last /\ (next \/ eob)) /\ Reply(u, ack)
  BY <1>4, <1>5, <1>7, ReplyTyped
<1> QED
  BY <1>1, <1>6, <1>7, ServerAbortsTyped

LEMMA BlkDnEndServer ==
  ASSUME NEW m \in ClientFrame, ServerTyped, ssdo.state = "blk_dn_end", co_ssdo_blk_dn_end_on_recv(m)
  PROVE  ServerTyped'
<1> DEFINE f == Frame(32 * SCS_BLK_DN + SC_END_BLK, NoIdx, NoArg, <<>>)
<1>1. ServerAborts \/ co_ssdo_dn_ind(ssdo, co_ssdo_abort_ind(ssdo), <<f>>)
  BY Codes, Zenon DEF co_ssdo_blk_dn_end_on_recv, Accepted, ServerAborts
<1>2. <<f>> \in Seq(AnyFrame)
  <2>1. 32 * SCS_BLK_DN + SC_END_BLK \in Nat
    BY DEF SCS_BLK_DN, SC_END_BLK
  <2> QED
    BY <2>1, ArgTypes, NoIdxType, EmptyFrame
<1>3. ServerData(ssdo) /\ ssdo.size > 0 /\ ServerOk(co_ssdo_abort_ind(ssdo))
  BY ServerFacts, AbortIndServer DEF ServerTyped, ServerOk, StoreStates
<1> HIDE DEF f
<1> QED
  BY <1>1, <1>2, <1>3, DnIndTyped, ServerAbortsTyped

-----------------------------------------------------------------------------
(* The server's uploads                                                    *)

LEMMA SegByteType ==
  ASSUME NEW cs \in Nat, NEW toggle \in {0, 1}, NEW n \in 0..7, NEW last \in BOOLEAN
  PROVE  SegByte(cs, toggle, n, last) \in Nat
BY DEF SegByte

\* A request for an object of the dictionary.
LEMMA UpIndType ==
  ASSUME NEW q, ServerData(q), ServerTyped, q.idx \in Objects
  PROVE  LET s == co_ssdo_up_ind(q)
         IN  /\ ServerData(s) /\ s.seg = od[q.idx] /\ s.seg \in Seq(Byte) /\ s.seg # <<>>
             /\ s.size = Len(s.seg) /\ s.size > 0 /\ s.nbyte = 0 /\ s.off = 0
             /\ s.idx = q.idx /\ s.state = q.state /\ s.toggle = q.toggle /\ s.blksize = q.blksize
             /\ s.gencrc = q.gencrc /\ s.crc = q.crc /\ s.buf = q.buf /\ s.timeout = q.timeout
<1> DEFINE s == co_ssdo_up_ind(q)
           v == od[q.idx]
<1>1. v \in Seq(Byte) /\ v # <<>> /\ Len(v) \in Nat \ {0}
  BY ServerFacts, EmptySeq DEF Dictionary
<1>2. s = [q EXCEPT !.size = Len(v), !.off = 0, !.seg = v, !.nbyte = 0]
  BY DEF co_ssdo_up_ind
<1> HIDE DEF s, v
<1>3. /\ ServerData(s) /\ s.seg = v /\ s.size = Len(v) /\ s.nbyte = 0 /\ s.off = 0
      /\ s.idx = q.idx /\ s.state = q.state /\ s.toggle = q.toggle /\ s.blksize = q.blksize
      /\ s.gencrc = q.gencrc /\ s.crc = q.crc /\ s.buf = q.buf /\ s.timeout = q.timeout
  BY <1>1, <1>2 DEF ServerData, ServerRecord
<1> QED
  BY <1>1, <1>3 DEF s, v

LEMMA UpAnswerTyped ==
  ASSUME NEW s, ServerData(s), ServerTyped, s.nbyte <= Len(s.seg),
         (s.size <= 4 /\ UpExpedited(s)) \/ UpSegmented(s)
  PROVE  ServerTyped'
<1>0. s.size \in Nat /\ s.seg \in Seq(Byte) /\ s.idx \in Indices
  BY ServerFields
<1>1. CASE s.size <= 4 /\ UpExpedited(s)
  <2>1. ExpByte(SCS_UP_INI, s.size) \in Nat
    <3>1. 4 * (4 - s.size) + 3 \in Nat
      BY <1>0, <1>1
    <3>2. \A x \in Nat : 64 + (x % 16) \in Nat
      OBVIOUS
    <3> QED
      BY <3>1, <3>2 DEF ExpByte, SCS_UP_INI
  <2>2. Expedited(s.seg) \in Seq(Byte)
    BY <1>0, PaddedType DEF Expedited
  <2>3. <<Frame(ExpByte(SCS_UP_INI, s.size), s.idx, NoArg, Expedited(s.seg))>> \in Seq(AnyFrame)
    BY <1>0, <2>1, <2>2, ArgTypes, FrameType, SingletonSeq
  <2> QED
    BY <1>1, <2>3, AbortIndReply DEF UpExpedited
<1>2. CASE UpSegmented(s)
  <2> DEFINE a == [s EXCEPT !.state = "up_seg"]
  <2>1. ServerData(a) /\ a.state = "up_seg" /\ a.nbyte <= Len(a.seg)
    BY DEF ServerData, ServerRecord, FetchStates
  <2>2. Reply(ArmServer(a), <<Frame(SizeByte(SCS_UP_INI), s.idx, Num(s.size), <<>>)>>)
    BY <1>2 DEF UpSegmented
  <2> HIDE DEF a
  <2>3. ServerOk(ArmServer(a))
    BY <2>1, ArmServerOk DEF StoreStates, FetchStates
  <2>4. <<Frame(SizeByte(SCS_UP_INI), s.idx, Num(s.size), <<>>)>> \in Seq(AnyFrame)
    <3>1. SizeByte(SCS_UP_INI) \in Nat /\ Num(s.size) \in Arg
      BY <1>0, ArgTypes DEF SizeByte, SCS_UP_INI
    <3> QED
      BY <1>0, <3>1, EmptyFrame
  <2> QED
    BY <2>2, <2>3, <2>4, ReplyTyped
<1> QED
  BY <1>1, <1>2

LEMMA UpIniServer ==
  ASSUME NEW m \in ClientFrame, ServerTyped, co_ssdo_up_ini_on_recv(m)
  PROVE  ServerTyped'
<1> DEFINE q == [co_sdo_req_clear(ssdo) EXCEPT !.idx = m.idx]
           s == co_ssdo_up_ind(q)
<1>1. \/ co_ssdo_abort_res(q, "NO_OBJ")
      \/ m.idx \in Objects /\ ((s.size \in 1..4 /\ UpExpedited(s)) \/ UpSegmented(s))
  BY Zenon DEF co_ssdo_up_ini_on_recv
<1>2. ServerData(q) /\ q.idx = m.idx
  BY FrameFields, ClientFrameFields, ServerFacts, EmptySeq DEF co_sdo_req_clear, ServerData, ServerRecord
<1> HIDE DEF q
<1>3. CASE co_ssdo_abort_res(q, "NO_OBJ")
  BY <1>2, <1>3, AbortResServer, Codes
<1>4. CASE m.idx \in Objects /\ ((s.size \in 1..4 /\ UpExpedited(s)) \/ UpSegmented(s))
  <2>1. ServerData(s) /\ s.nbyte <= Len(s.seg)
    BY <1>2, <1>4, UpIndType
  <2> HIDE DEF s
  <2> QED
    BY <1>4, <2>1, UpAnswerTyped
<1> QED
  BY <1>1, <1>3, <1>4

LEMMA UpSegServer ==
  ASSUME NEW m \in ClientFrame, ServerTyped, ssdo.state = "up_seg", co_ssdo_up_seg_on_recv(m)
  PROVE  ServerTyped'
<1> DEFINE e    == [ssdo EXCEPT !.buf = <<>>]
           s    == co_ssdo_up_buf(e, SegBytes)
           last == UpDone(s)
           a    == [s EXCEPT !.toggle = 1 - @]
           next == IF last THEN co_ssdo_abort_ind(s) ELSE ArmServer(a)
           f    == Frame(SegByte(SCS_UP_SEG, s.toggle, Len(s.buf), last), NoIdx, NoArg, s.buf)
<1>1. ServerAborts \/ Reply(next, <<f>>)
  BY Codes, Zenon DEF co_ssdo_up_seg_on_recv, Accepted, ServerAborts
<1>2. ServerData(ssdo) /\ ssdo.nbyte <= Len(ssdo.seg)
  BY DEF ServerTyped, ServerOk, ServerData, FetchStates
<1>3. ServerData(e) /\ e.nbyte <= Len(e.seg) /\ e.state = "up_seg" /\ e.buf = <<>>
  BY <1>2, EmptySeq DEF ServerData, ServerRecord
<1> HIDE DEF e
<1>4. /\ ServerData(s) /\ s.nbyte <= Len(s.seg) /\ s.state = "up_seg" /\ s.toggle \in {0, 1}
      /\ s.buf \in Seq(Byte) /\ Len(s.buf) \in 0..7
  <2> DEFINE k     == Lesser(SegBytes, Len(e.seg) - e.nbyte)
             bytes == Segment(e.seg, e.nbyte, k)
  <2>1. /\ ServerData(s) /\ s.nbyte <= Len(s.seg) /\ s.state = "up_seg"
        /\ s.buf = e.buf \o bytes /\ bytes \in Seq(Byte) /\ Len(bytes) \in 0..7
    <3>1. SegBytes \in Nat /\ SegBytes = 7
      BY DEF SegBytes
    <3>2. /\ ServerData(s) /\ s.nbyte = e.nbyte + k /\ s.nbyte <= Len(e.seg) /\ s.seg = e.seg
          /\ s.state = e.state /\ s.buf = e.buf \o bytes /\ bytes \in Seq(Byte) /\ Len(bytes) = k
          /\ k \in 0..SegBytes
      BY <1>3, <3>1, UpBufType, ZenonT(60)
    <3> HIDE DEF s, bytes, k
    <3> QED
      BY <1>3, <3>1, <3>2
  <2> HIDE DEF s, bytes
  <2>2. s.buf = bytes
    BY <1>3, <2>1, ConcatEmptySeq
  <2> QED
    BY <2>1, <2>2, ServerFields
<1> HIDE DEF s
<1>5. ServerOk(next)
  <2>1. CASE last
    BY <1>4, <2>1, AbortIndServer
  <2>2. CASE ~last
    <3>1. 1 - s.toggle \in {0, 1}
      BY <1>4
    <3>2. ServerData(a) /\ a.state = "up_seg" /\ a.nbyte <= Len(a.seg)
      BY <1>4, <3>1 DEF ServerData, ServerRecord
    <3> HIDE DEF a
    <3> QED
      BY <2>2, <3>2, ArmServerOk DEF StoreStates, FetchStates
  <2> QED
    BY <2>1, <2>2
<1>6. <<f>> \in Seq(AnyFrame)
  <2>1. SegByte(SCS_UP_SEG, s.toggle, Len(s.buf), last) \in Nat
    <3>1. last \in BOOLEAN /\ SCS_UP_SEG \in Nat
      BY DEF UpDone, SCS_UP_SEG
    <3> QED
      BY <1>4, <3>1, SegByteType
  <2> QED
    BY <1>4, <2>1, ArgTypes, NoIdxType, FrameType, SingletonSeq
<1> HIDE DEF next, f
<1> QED
  BY <1>1, <1>5, <1>6, ReplyTyped, ServerAbortsTyped

LEMMA BlkUpIniServer ==
  ASSUME NEW m \in ClientFrame, ServerTyped, co_ssdo_blk_up_ini_on_recv(m)
  PROVE  ServerTyped'
<1> DEFINE q == [co_sdo_req_clear(ssdo) EXCEPT !.gencrc = HasCrc(m), !.idx = m.idx,
                                               !.blksize = m.arg.blksize]
           s == co_ssdo_up_ind(q)
           a == [s EXCEPT !.state = "blk_up_sub"]
           f == Frame(BlkIniByte(SCS_BLK_UP, TRUE) - (IF s.gencrc THEN 0 ELSE 4),
                      s.idx, Num(s.size), <<>>)
<1>1. \/ ServerAborts
      \/ \E ac \in AbortCodes : co_ssdo_abort_res(q, ac)
      \/ m.idx \in Objects /\ ((s.size <= 4 /\ UpExpedited(s)) \/ UpSegmented(s))
      \/ m.idx \in Objects /\ Reply(ArmServer(a), <<f>>)
  BY Codes, Zenon DEF co_ssdo_blk_up_ini_on_recv, ServerAborts
<1>2. ServerData(q) /\ q.idx = m.idx /\ m.idx \in Indices
  BY FrameFields, ClientFrameFields, ServerFacts, EmptySeq DEF co_sdo_req_clear, ServerData, ServerRecord
<1> HIDE DEF q
<1>3. CASE \E ac \in AbortCodes : co_ssdo_abort_res(q, ac)
  BY <1>2, <1>3, AbortResServer
<1>4. ASSUME m.idx \in Objects
      PROVE  ServerData(s) /\ s.nbyte <= Len(s.seg) /\ s.idx = m.idx
  BY <1>2, <1>4, UpIndType
<1> HIDE DEF s
<1>5. CASE m.idx \in Objects /\ ((s.size <= 4 /\ UpExpedited(s)) \/ UpSegmented(s))
  BY <1>4, <1>5, UpAnswerTyped
<1>6. CASE m.idx \in Objects /\ Reply(ArmServer(a), <<f>>)
  <2>1. ServerData(a) /\ a.state = "blk_up_sub" /\ a.nbyte <= Len(a.seg)
    BY <1>4, <1>6 DEF ServerData, ServerRecord, FetchStates
  <2> HIDE DEF a
  <2>2. ServerOk(ArmServer(a))
    BY <2>1, ArmServerOk DEF StoreStates, FetchStates
  <2>3. <<f>> \in Seq(AnyFrame)
    <3>1. BlkIniByte(SCS_BLK_UP, TRUE) - (IF s.gencrc THEN 0 ELSE 4) \in Nat
      BY DEF BlkIniByte, SCS_BLK_UP, SC_INI_BLK
    <3>2. Num(s.size) \in Arg
      BY <1>4, <1>6, ServerFields, ArgTypes
    <3> QED
      BY <1>2, <1>4, <1>6, <3>1, <3>2, EmptyFrame
  <2> HIDE DEF f
  <2> QED
    BY <1>6, <2>2, <2>3, ReplyTyped
<1> QED
  BY <1>1, <1>3, <1>5, <1>6, ServerAbortsTyped

LEMMA BlkUpSubServer ==
  ASSUME NEW m \in ClientFrame, ServerTyped, ssdo.state = "blk_up_sub", co_ssdo_blk_up_sub_on_recv(m)
  PROVE  ServerTyped'
<1> DEFINE acked == Lesser(m.arg.num * SegBytes, Len(ssdo.buf))
           rest  == SubSeq(ssdo.buf, acked + 1, Len(ssdo.buf))
           f     == IF Sc(m) = SC_BLK_RES
                    THEN [ssdo EXCEPT !.buf = SubSeq(@, acked + 1, Len(@)), !.blksize = m.arg.blksize]
                    ELSE ssdo
           room  == f.blksize * SegBytes - Len(f.buf)
           g     == co_ssdo_up_buf(f, room)
           s     == IF room > 0
                    THEN [g EXCEPT !.blksize = (Len(g.buf) + SegBytes - 1) \div SegBytes]
                    ELSE f
           e     == [s EXCEPT !.state = "blk_up_end"]
           h     == Frame(BlkEndByte(SCS_BLK_UP, LastBytes(s.size)), NoIdx, [NoArg EXCEPT !.crc = s.crc], <<>>)
<1>1. \/ ServerAborts
      \/ co_ssdo_abort_res(f, "BLK_SIZE")
      \/ Reply(ArmServer(s), BlockOf(s.buf, 0, s.blksize, UpDone(s)))
      \/ Reply(ArmServer(e), <<h>>)
  BY Codes, Zenon DEF co_ssdo_blk_up_sub_on_recv, Accepted, ServerAborts
<1>2. ServerData(ssdo) /\ ssdo.nbyte <= Len(ssdo.seg)
  BY DEF ServerTyped, ServerOk, ServerData, FetchStates
<1>3. rest \in Seq(Byte) /\ m.arg.blksize \in Nat
  <2>1. m.arg.num \in Nat /\ m.arg.blksize \in Nat /\ ssdo.buf \in Seq(Byte) /\ Len(ssdo.buf) \in Nat
    BY <1>2, FrameFields, ClientFrameFields, ServerFields
  <2>2. acked \in 0..Len(ssdo.buf)
    BY <2>1 DEF Lesser, SegBytes
  <2> HIDE DEF acked
  <2> QED
    BY <2>1, <2>2, LenProperties, SubSeqProperties
<1>4. ServerData(f) /\ f.state = "blk_up_sub" /\ f.nbyte <= Len(f.seg)
  <2>1. CASE Sc(m) = SC_BLK_RES
    <3>1. f = [ssdo EXCEPT !.buf = rest, !.blksize = m.arg.blksize]
      BY <1>2, <2>1 DEF ServerData, ServerRecord
    <3> HIDE DEF f, rest
    <3> QED
      BY <1>2, <1>3, <3>1 DEF ServerData, ServerRecord
  <2>2. CASE Sc(m) # SC_BLK_RES
    BY <1>2, <2>2
  <2> QED
    BY <2>1, <2>2
<1> HIDE DEF f
<1>5. room \in Int /\ f.blksize \in Nat /\ f.buf \in Seq(Byte) /\ Len(f.buf) \in Nat
  BY <1>4, ServerFields DEF SegBytes
<1>6. /\ ServerData(s) /\ s.state = "blk_up_sub" /\ s.nbyte <= Len(s.seg)
      /\ s.blksize <= Segments(Len(s.buf))
  <2>1. CASE room > 0
    <3>1. ServerData(g) /\ g.state = "blk_up_sub" /\ g.nbyte <= Len(g.seg)
      <4> HIDE DEF room
      <4>1. room \in Nat
        BY <1>5, <2>1
      <4> QED
        BY <1>4, <4>1, UpBufType
    <3> HIDE DEF g, room
    <3>2. s = [g EXCEPT !.blksize = Segments(Len(g.buf))]
      BY <2>1 DEF Segments
    <3>3. Segments(Len(g.buf)) \in Nat
      BY <3>1, ServerFields, SegmentsBounds
    <3> HIDE DEF s
    <3>4. /\ ServerData(s) /\ s.state = g.state /\ s.nbyte = g.nbyte /\ s.seg = g.seg
          /\ s.buf = g.buf /\ s.blksize = Segments(Len(g.buf))
      BY <3>1, <3>2, <3>3 DEF ServerData, ServerRecord
    <3> QED
      BY <3>1, <3>3, <3>4
  <2>2. CASE ~(room > 0)
    <3>1. s = f
      BY <2>2
    <3>2. f.blksize * 7 <= Len(f.buf)
      BY <1>5, <2>2 DEF SegBytes
    <3>3. f.blksize <= Segments(Len(f.buf))
      <4>1. PICK n \in Nat : n = Len(f.buf)
        BY <1>5
      <4>2. f.blksize * 7 <= n
        BY <3>2, <4>1
      <4>3. f.blksize <= Segments(n)
        <5>1. Segments(n) \in Nat /\ 7 * Segments(n) >= n
          BY SegmentsBounds
        <5> QED
          BY <1>5, <4>2, <5>1
      <4> QED
        BY <4>1, <4>3, Zenon
    <3> HIDE DEF s, room
    <3> QED
      BY <1>4, <3>1, <3>3
  <2> QED
    BY <2>1, <2>2
<1> HIDE DEF s, room, g
<1>7. CASE co_ssdo_abort_res(f, "BLK_SIZE")
  BY <1>4, <1>7, AbortResServer, Codes
<1>8. CASE Reply(ArmServer(s), BlockOf(s.buf, 0, s.blksize, UpDone(s)))
  <2>1. ServerOk(ArmServer(s))
    BY <1>6, ArmServerOk DEF StoreStates, FetchStates
  <2>2. /\ s.buf \in Seq(Byte) /\ 0 \in 0..Len(s.buf) /\ UpDone(s) \in BOOLEAN
        /\ s.blksize \in 0..Segments(Len(s.buf) - 0)
    <3>1. s.buf \in Seq(Byte) /\ Len(s.buf) \in Nat /\ s.blksize \in Nat
      BY <1>6, ServerFields
    <3>2. Segments(Len(s.buf)) \in Nat /\ Len(s.buf) - 0 = Len(s.buf)
      <4>1. PICK n \in Nat : n = Len(s.buf)
        BY <3>1
      <4>2. Segments(n) \in Nat /\ n - 0 = n
        BY SegmentsBounds
      <4> QED
        BY <4>1, <4>2, Zenon
    <3> QED
      BY <1>6, <3>1, <3>2 DEF UpDone
  <2>3. BlockOf(s.buf, 0, s.blksize, UpDone(s)) \in Seq(ClientFrame)
    BY <2>2, BlockOfType
  <2>4. BlockOf(s.buf, 0, s.blksize, UpDone(s)) \in Seq(AnyFrame)
    BY <2>3, SeqMonotonic DEF ClientFrame
  <2> QED
    BY <1>8, <2>1, <2>4, ReplyTyped
<1>9. CASE Reply(ArmServer(e), <<h>>)
  <2>1. ServerData(e) /\ e.state = "blk_up_end" /\ e.nbyte <= Len(e.seg)
    BY <1>6 DEF ServerData, ServerRecord, FetchStates
  <2> HIDE DEF e
  <2>2. ServerOk(ArmServer(e))
    BY <2>1, ArmServerOk DEF StoreStates, FetchStates
  <2>3. <<h>> \in Seq(AnyFrame)
    <3>1. s.size \in Nat /\ s.crc \in Seq(Byte)
      BY <1>6, ServerFields
    <3>2. BlkEndByte(SCS_BLK_UP, LastBytes(s.size)) \in Nat
      <4>1. LastBytes(s.size) \in 0..7
        BY <3>1, LastBytesType DEF LastBytes
      <4> QED
        BY <4>1 DEF BlkEndByte, SCS_BLK_UP, SC_END_BLK
    <3>3. [NoArg EXCEPT !.crc = s.crc] \in Arg
      BY <3>1, ArgTypes
    <3> QED
      BY <3>2, <3>3, NoIdxType, EmptyFrame
  <2> HIDE DEF h
  <2> QED
    BY <1>9, <2>2, <2>3, ReplyTyped
<1> QED
  BY <1>1, <1>7, <1>8, <1>9, ServerAbortsTyped

LEMMA BlkUpEndServer ==
  ASSUME NEW m, ServerTyped, co_ssdo_blk_up_end_on_recv(m)
  PROVE  ServerTyped'
<1>1. ServerAborts
  BY Codes, Zenon DEF co_ssdo_blk_up_end_on_recv, Accepted, ServerAborts
<1> QED
  BY <1>1, ServerAbortsTyped

LEMMA ServerRecvTyped ==
  ASSUME ServerTyped, c2s \in Seq(ClientFrame), co_ssdo_recv
  PROVE  ServerTyped' /\ c2s' \in Seq(ClientFrame)
<1> DEFINE m == Head(c2s)
<1>1. m \in ClientFrame /\ c2s' \in Seq(ClientFrame)
  BY HeadTailProperties DEF co_ssdo_recv
<1>2. \/ Reply(ssdo, <<>>)
      \/ co_ssdo_wait_on_recv(m)
      \/ ssdo.state = "dn_seg" /\ co_ssdo_dn_seg_on_recv(m)
      \/ ssdo.state = "up_seg" /\ co_ssdo_up_seg_on_recv(m)
      \/ ssdo.state = "blk_dn_sub" /\ co_ssdo_blk_dn_sub_on_recv(m)
      \/ ssdo.state = "blk_dn_end" /\ co_ssdo_blk_dn_end_on_recv(m)
      \/ ssdo.state = "blk_up_sub" /\ co_ssdo_blk_up_sub_on_recv(m)
      \/ ssdo.state = "blk_up_end" /\ co_ssdo_blk_up_end_on_recv(m)
  <2>1. ssdo.state \in Idling \cup StoreStates \cup FetchStates
    BY ServerFacts DEF ServerData, ServerRecord
  <2> QED
    BY <2>1 DEF co_ssdo_recv, Idling, StoreStates, FetchStates
<1> HIDE DEF m
<1>3. CASE Reply(ssdo, <<>>)
  BY <1>1, <1>3, ReplyTyped, EmptySeq DEF ServerTyped
<1>4. CASE co_ssdo_wait_on_recv(m)
  <2>1. \/ Cs(m) = CCS_DN_INI /\ co_ssdo_dn_ini_on_recv(m)
        \/ co_ssdo_up_ini_on_recv(m)
        \/ Cs(m) = CCS_BLK_DN /\ co_ssdo_blk_dn_ini_on_recv(m)
        \/ co_ssdo_blk_up_ini_on_recv(m)
        \/ Reply(ssdo, <<>>)
        \/ co_ssdo_abort_res(ssdo, "NO_CS")
    BY <1>4, Zenon DEF co_ssdo_wait_on_recv
  <2>2. CASE co_ssdo_abort_res(ssdo, "NO_CS")
    BY <1>1, <2>2, AbortResServer, ServerFacts, Codes
  <2> QED
    BY <1>1, <1>3, <2>1, <2>2, DnIniServer, UpIniServer, BlkDnIniServer, BlkUpIniServer
<1> QED
  BY <1>1, <1>2, <1>3, <1>4, DnSegServer, UpSegServer, BlkDnSubServer, BlkDnEndServer,
     BlkUpSubServer, BlkUpEndServer

LEMMA ServerLifecycle ==
  ASSUME ServerTyped, UNCHANGED od,
         \/ co_ssdo_stop
         \/ co_ssdo_start /\ UNCHANGED s2c
         \/ co_ssdo_set_timeout(FALSE) /\ UNCHANGED s2c
  PROVE  ServerTyped'
<1>1. CASE co_ssdo_stop
  <2> DEFINE w == co_ssdo_abort_ind(ssdo)
  <2>1. ServerOk(w) /\ w.state = "wait"
    BY ServerFacts, AbortIndServer
  <2>2. ssdo' = [w EXCEPT !.state = "stopped", !.timer = FALSE]
    BY <1>1 DEF co_ssdo_stop
  <2> HIDE DEF w
  <2>3. ServerOk(ssdo')
    BY <2>1, <2>2 DEF ServerOk, ServerRecord, Idling, StoreStates, FetchStates, Clean
  <2>4. s2c' \in Seq(AnyFrame)
    <3>1. AbortFrame(ssdo.idx, "NO_SDO") \in AnyFrame
      BY ServerFacts, ServerFields, AbortFrameType, Codes
    <3> QED
      BY <1>1, <3>1, ServerFacts, AppendProperties DEF co_ssdo_stop
  <2> QED
    BY <2>3, <2>4 DEF ServerTyped
<1>2. CASE co_ssdo_start /\ UNCHANGED s2c
  <2>1. ssdo' = [ssdo EXCEPT !.state = "wait"] /\ ssdo.state = "stopped"
    BY <1>2 DEF co_ssdo_start
  <2>2. ServerOk(ssdo')
    BY <2>1 DEF ServerTyped, ServerOk, ServerRecord, Idling, StoreStates, FetchStates, Clean
  <2> QED
    BY <1>2, <2>2 DEF ServerTyped
<1>3. CASE co_ssdo_set_timeout(FALSE) /\ UNCHANGED s2c
  <2>1. ssdo' = [ssdo EXCEPT !.timeout = FALSE, !.timer = FALSE]
    <3>1. (ssdo.timer /\ FALSE) = FALSE
      OBVIOUS
    <3>2. ssdo' = [ssdo EXCEPT !.timeout = FALSE, !.timer = ssdo.timer /\ FALSE]
      BY <1>3, Zenon DEF co_ssdo_set_timeout
    <3> QED
      BY <3>1, <3>2, Zenon
  <2>2. ServerOk(ssdo')
    BY <2>1 DEF ServerTyped, ServerOk, ServerRecord, Idling, StoreStates, FetchStates, Clean
  <2> QED
    BY <1>3, <2>2 DEF ServerTyped
<1> QED
  BY <1>1, <1>2, <1>3

-----------------------------------------------------------------------------
(* The types hold, whatever is lost, delayed, stopped or aborted           *)

LEMMA DropType ==
  ASSUME NEW S, NEW q \in Seq(S), NEW i \in 1..Len(q)
  PROVE  Drop(q, i) \in Seq(S)
<1>1. Len(q) \in Nat /\ \A j \in 1..Len(q) : q[j] \in S
  BY LenProperties
<1>2. SubSeq(q, 1, i - 1) \in Seq(S)
  BY <1>1, SubSeqProperties
<1>3. SubSeq(q, i + 1, Len(q)) \in Seq(S)
  BY <1>1, SubSeqProperties
<1> QED
  BY <1>2, <1>3, ConcatProperties DEF Drop

LEMMA TypesInit == Init => SdoTypes
<1> SUFFICES ASSUME Init PROVE SdoTypes
  OBVIOUS
<1>1. ClientOk(csdo) /\ ~csdo.pending
  <2>1. csdo = CsdoInit
    BY DEF Init
  <2>2. csdo \in ClientRecord
    BY <2>1, EmptySeq, NoIdxType DEF CsdoInit, ClientRecord, Idling
  <2> QED
    BY <2>1, <2>2 DEF CsdoInit, ClientOk, Idling, DnStates, UpStates
<1>2. con \in Confirmation
  BY EmptySeq DEF Init, NoCon, Confirmation, AbortCodes
<1>3. ServerOk(ssdo)
  <2>1. PICK x \in BOOLEAN : ssdo = [SsdoInit EXCEPT !.timeout = x]
    BY DEF Init
  <2>2. ssdo \in ServerRecord /\ ssdo.state = "wait" /\ ssdo.timer = FALSE /\ Clean(ssdo)
    BY <2>1, EmptySeq, NoIdxType DEF SsdoInit, ServerRecord, Idling, Clean
  <2> QED
    BY <2>2 DEF ServerOk, Idling, StoreStates, FetchStates
<1>4. od \in Dictionary
  <2>1. od = [o \in Objects |-> Bytes(1, InitialSize[o])]
    BY DEF Init
  <2>2. ASSUME NEW o \in Objects
        PROVE  Bytes(1, InitialSize[o]) \in Seq(Byte) \ {<<>>}
    <3>1. InitialSize[o] \in Nat \ {0} /\ 1 \in Nat
      BY SdoAssumption
    <3>2. Bytes(1, InitialSize[o]) \in Seq(Byte) /\ Len(Bytes(1, InitialSize[o])) = InitialSize[o]
      BY <3>1, BytesType
    <3> QED
      BY <3>1, <3>2, EmptySeq
  <2> QED
    BY <2>1, <2>2 DEF Dictionary
<1>5. c2s \in Seq(ClientFrame) /\ s2c \in Seq(AnyFrame)
  BY EmptySeq DEF Init
<1>6. nreq \in Nat /\ harm \in BOOLEAN /\ req = NoReq
  BY DEF Init
<1> QED
  BY <1>1, <1>2, <1>3, <1>4, <1>5, <1>6 DEF SdoTypes

LEMMA ServerUnchanged ==
  ASSUME ServerTyped, ssdo' = ssdo, od' = od, s2c' \in Seq(AnyFrame)
  PROVE  ServerTyped'
BY DEF ServerTyped

LEMMA ClientUnchanged ==
  ASSUME ClientTyped, csdo' = csdo, con' = con, c2s' \in Seq(ClientFrame)
  PROVE  ClientTyped'
BY DEF ClientTyped

LEMMA EndRequestPending ==
  ASSUME EndRequest, csdo.pending <=> req # NoReq, csdo'.pending => csdo.pending
  PROVE  csdo'.pending <=> req' # NoReq
BY DEF EndRequest

LEMMA TypesNext == SdoTypes /\ [Next]_vars => SdoTypes'
<1> SUFFICES ASSUME ClientTyped, ServerTyped, nreq \in Nat, harm \in BOOLEAN,
                    csdo.pending <=> req # NoReq, [Next]_vars
             PROVE  /\ ClientTyped' /\ ServerTyped' /\ nreq' \in Nat /\ harm' \in BOOLEAN
                    /\ csdo'.pending <=> req' # NoReq
  BY DEF SdoTypes, ClientTyped, ServerTyped
<1>0. c2s \in Seq(ClientFrame) /\ s2c \in Seq(AnyFrame) /\ od \in Dictionary
  BY DEF ClientTyped, ServerTyped
<1>1. ASSUME NEW r \in Requests, Submit(r)
      PROVE  /\ ClientTyped' /\ ServerTyped' /\ nreq' \in Nat /\ harm' \in BOOLEAN
             /\ csdo'.pending <=> req' # NoReq
  <2>1. ClientTyped' /\ csdo'.pending /\ req' # NoReq
    BY <1>1, SubmitStep
  <2>2. ssdo' = ssdo /\ od' = od /\ s2c' = s2c /\ nreq' = nreq + 1 /\ harm' \in BOOLEAN
    BY <1>1 DEF Submit
  <2> QED
    BY <1>0, <2>1, <2>2, ServerUnchanged
<1>2. CASE ClientRecv
  <2>1. ClientStep /\ s2c' \in Seq(AnyFrame)
    BY <1>0, <1>2, ClientRecvStep DEF ClientRecv
  <2>2. ssdo' = ssdo /\ od' = od /\ nreq' = nreq /\ harm' = harm /\ EndRequest
    BY <1>2 DEF ClientRecv, budget
  <2> QED
    BY <2>1, <2>2, ServerUnchanged, EndRequestPending DEF ClientStep
<1>3. CASE ServerRecv
  <2>1. ServerTyped' /\ c2s' \in Seq(ClientFrame)
    BY <1>0, <1>3, ServerRecvTyped DEF ServerRecv
  <2>2. csdo' = csdo /\ con' = con /\ nreq' = nreq /\ harm' = harm /\ req' = req
    BY <1>3 DEF ServerRecv, budget
  <2> QED
    BY <2>1, <2>2, ClientUnchanged
<1>4. CASE ClientTimeout
  <2>1. ClientStep
    BY <1>4, ClientTimerStep DEF ClientTimeout
  <2>2. ssdo' = ssdo /\ od' = od /\ s2c' = s2c /\ nreq' = nreq /\ harm' = TRUE /\ EndRequest
    BY <1>4 DEF ClientTimeout, budget
  <2> QED
    BY <1>0, <2>1, <2>2, ServerUnchanged, EndRequestPending DEF ClientStep
<1>5. CASE ServerTimeout
  <2>1. ServerTyped'
    BY <1>5, AbortResServer, ServerFacts, Codes DEF ServerTimeout, co_ssdo_timer
  <2>2. csdo' = csdo /\ con' = con /\ c2s' = c2s /\ nreq' = nreq /\ harm' = TRUE /\ req' = req
    BY <1>5 DEF ServerTimeout, budget
  <2> QED
    BY <1>0, <2>1, <2>2, ClientUnchanged
<1>6. CASE LoseRequest
  <2>1. c2s' \in Seq(ClientFrame)
    BY <1>0, <1>6, DropType DEF LoseRequest
  <2>2. /\ csdo' = csdo /\ con' = con /\ ssdo' = ssdo /\ od' = od /\ s2c' = s2c
        /\ nreq' = nreq /\ harm' = TRUE /\ req' = req
    BY <1>6 DEF LoseRequest
  <2> QED
    BY <1>0, <2>1, <2>2, ClientUnchanged, ServerUnchanged
<1>7. CASE LoseResponse
  <2>1. s2c' \in Seq(AnyFrame)
    BY <1>0, <1>7, DropType DEF LoseResponse
  <2>2. /\ csdo' = csdo /\ con' = con /\ ssdo' = ssdo /\ od' = od /\ c2s' = c2s
        /\ nreq' = nreq /\ harm' = TRUE /\ req' = req
    BY <1>7 DEF LoseResponse
  <2> QED
    BY <1>0, <2>1, <2>2, ClientUnchanged, ServerUnchanged
<1>8. CASE ClientAbort
  <2>1. ClientStep
    BY <1>8, ClientTimerStep DEF ClientAbort
  <2>2. ssdo' = ssdo /\ od' = od /\ s2c' = s2c /\ nreq' = nreq /\ harm' = TRUE /\ EndRequest
    BY <1>8 DEF ClientAbort
  <2> QED
    BY <1>0, <2>1, <2>2, ServerUnchanged, EndRequestPending DEF ClientStep
<1>9. CASE ClientStop
  <2>1. ClientStep
    BY <1>9, ClientStopStep DEF ClientStop
  <2>2. ssdo' = ssdo /\ od' = od /\ s2c' = s2c /\ nreq' = nreq /\ harm' = TRUE /\ EndRequest
    BY <1>9 DEF ClientStop
  <2> QED
    BY <1>0, <2>1, <2>2, ServerUnchanged, EndRequestPending DEF ClientStep
<1>10. CASE ClientStart
  <2>1. ClientStep /\ ~csdo'.pending
    BY <1>10, ClientStartStep DEF ClientStart
  <2>2. ssdo' = ssdo /\ od' = od /\ s2c' = s2c /\ nreq' = nreq /\ harm' = harm /\ req' = req
    BY <1>10 DEF ClientStart, hist, budget
  <2>3. ~csdo.pending
    BY <1>10 DEF ClientStart, co_csdo_start, ClientTyped, ClientOk, Idling
  <2> QED
    BY <1>0, <2>1, <2>2, <2>3, ServerUnchanged DEF ClientStep
<1>11. CASE ServerStop
  <2>1. ServerTyped'
    BY <1>11, ServerLifecycle DEF ServerStop
  <2>2. csdo' = csdo /\ con' = con /\ c2s' = c2s /\ nreq' = nreq /\ harm' = TRUE /\ req' = req
    BY <1>11 DEF ServerStop
  <2> QED
    BY <1>0, <2>1, <2>2, ClientUnchanged
<1>12. CASE ServerStart \/ ServerTimeoutOff
  <2>1. ServerTyped'
    BY <1>12, ServerLifecycle DEF ServerStart, ServerTimeoutOff
  <2>2. csdo' = csdo /\ con' = con /\ c2s' = c2s /\ nreq' = nreq /\ harm' = harm /\ req' = req
    BY <1>12 DEF ServerStart, ServerTimeoutOff, hist, budget
  <2> QED
    BY <1>0, <2>1, <2>2, ClientUnchanged
<1>13. CASE LocalWrite
  <2>1. od' \in Dictionary
    <3>1. LocalValue \in Seq(Byte) /\ LocalValue # <<>>
      <4>1. LocalValue \in Seq(Byte) /\ Len(LocalValue) = 4
        BY BytesType DEF LocalValue
      <4> QED
        BY <4>1, EmptySeq
    <3>2. PICK o \in Writable : od' = [od EXCEPT ![o] = LocalValue]
      BY <1>13 DEF LocalWrite
    <3> QED
      BY <1>0, <3>1, <3>2 DEF Dictionary
  <2>2. /\ csdo' = csdo /\ con' = con /\ ssdo' = ssdo /\ c2s' = c2s /\ s2c' = s2c
        /\ nreq' = nreq /\ harm' = harm /\ req' = req
    BY <1>13 DEF LocalWrite
  <2>3. ServerTyped'
    BY <2>1, <2>2 DEF ServerTyped
  <2> QED
    BY <1>0, <2>2, <2>3, ClientUnchanged
<1>14. CASE UNCHANGED vars
  <2>1. /\ csdo' = csdo /\ con' = con /\ ssdo' = ssdo /\ od' = od /\ c2s' = c2s /\ s2c' = s2c
        /\ nreq' = nreq /\ harm' = harm /\ req' = req
    BY <1>14 DEF vars, hist, budget
  <2> QED
    BY <1>0, <2>1, ClientUnchanged, ServerUnchanged
<1> QED
  BY <1>1, <1>2, <1>3, <1>4, <1>5, <1>6, <1>7, <1>8, <1>9, <1>10, <1>11, <1>12, <1>13, <1>14 DEF Next

(* Whatever happens on the bus and to either end, a request is pending      *)
(* exactly in the states of a transfer and its timer runs until it is       *)
(* confirmed; the client stays within its data; every frame of the client   *)
(* that could write an object brings or announces a value, so no object     *)
(* ever ends up without one; and the server keeps nothing between two       *)
(* transfers (csdo.c, ssdo.c: every state's on_recv, on_time and on_enter). *)
THEOREM SdoTypesHold == Spec => []SdoTypes
<1>1. Init => SdoTypes
  BY TypesInit
<1>2. SdoTypes /\ [Next]_vars => SdoTypes'
  BY TypesNext
<1> QED
  BY <1>1, <1>2, PTL DEF Spec

(* The timer of either end runs only in a state with a timer handler, so    *)
(* that co_csdo_timer and co_ssdo_timer never call a null pointer, for      *)
(* every dictionary, every set of requests and any number of faults.        *)
THEOREM TimerHasHandlerHolds == Spec => []TimerHasHandler
<1>1. SdoTypes => TimerHasHandler
  BY DEF SdoTypes, ClientOk, ServerOk, Idling, TimerHasHandler
<1> QED
  BY <1>1, SdoTypesHold, PTL

-----------------------------------------------------------------------------
(* What the other end reads from a frame                                   *)

LEMMA FrameParts ==
  ASSUME NEW cs, NEW idx, NEW arg, NEW data
  PROVE  /\ Frame(cs, idx, arg, data).cs = cs /\ Frame(cs, idx, arg, data).idx = idx
         /\ Frame(cs, idx, arg, data).arg = arg /\ Frame(cs, idx, arg, data).data = data
BY DEF Frame

LEMMA ArgParts ==
  /\ \A n : Num(n).num = n
  /\ \A n, b : Blk(n, b).num = n /\ Blk(n, b).blksize = b
  /\ \A crc : [NoArg EXCEPT !.crc = crc].crc = crc
BY DEF Num, Blk, NoArg

LEMMA AbortParts ==
  ASSUME NEW idx, NEW ac
  PROVE  /\ Cs(AbortFrame(idx, ac)) = CS_ABORT /\ IsAbortByte(AbortFrame(idx, ac))
         /\ AbortCode(AbortFrame(idx, ac)) = ac
<1>1. AbortFrame(idx, ac).cs = 128 /\ AbortFrame(idx, ac).arg.ac = ac
  BY DEF AbortFrame, Frame, CS_ABORT, NoArg
<1> QED
  BY <1>1 DEF Cs, CS_ABORT, IsAbortByte, AbortCode

\* The frames that consist of a command byte, with whatever else they carry.
LEMMA CommandParts ==
  ASSUME NEW m
  PROVE  /\ m.cs = 64 => Cs(m) = CCS_UP_INI
         /\ m.cs = 96 => Cs(m) = SCS_DN_INI
         /\ m.cs = 33 => Cs(m) = CCS_DN_INI /\ ~IsExpedited(m)
         /\ m.cs = 65 => Cs(m) = SCS_UP_INI /\ ~IsExpedited(m)
         /\ m.cs = 198 => Cs(m) = CCS_BLK_DN /\ m.cs % 2 = SC_INI_BLK /\ HasCrc(m)
         /\ m.cs = 164 => Cs(m) = SCS_BLK_DN /\ Sc(m) = SC_INI_BLK /\ HasCrc(m)
         /\ m.cs = 162 => Cs(m) = SCS_BLK_DN /\ Sc(m) = SC_BLK_RES
         /\ m.cs = 161 => Cs(m) = SCS_BLK_DN /\ Sc(m) = SC_END_BLK
         /\ m.cs = 163 => Cs(m) = CCS_BLK_UP /\ Sc(m) = SC_START_UP
         /\ m.cs = 198 => Cs(m) = SCS_BLK_UP /\ m.cs % 2 = SC_INI_BLK /\ HasCrc(m)
BY DEF Cs, Sc, IsExpedited, HasCrc, CCS_UP_INI, SCS_DN_INI, CCS_DN_INI, SCS_UP_INI, CCS_BLK_DN,
       SCS_BLK_DN, CCS_BLK_UP, SCS_BLK_UP, SC_INI_BLK, SC_BLK_RES, SC_END_BLK, SC_START_UP

LEMMA ExpParts ==
  ASSUME NEW m, NEW n \in 1..4
  PROVE  /\ m.cs = ExpByte(CCS_DN_INI, n) => Cs(m) = CCS_DN_INI /\ IsExpedited(m) /\ ExpSize(m) = n
         /\ m.cs = ExpByte(SCS_UP_INI, n) => Cs(m) = SCS_UP_INI /\ IsExpedited(m) /\ ExpSize(m) = n
<1>1. ExpByte(CCS_DN_INI, n) = 51 - 4 * n /\ ExpByte(SCS_UP_INI, n) = 83 - 4 * n
  BY ExpByteValue
<1>2. n = 1 \/ n = 2 \/ n = 3 \/ n = 4
  OBVIOUS
<1>3. CASE n = 1
  BY <1>1, <1>3 DEF Cs, IsExpedited, ExpSize, CCS_DN_INI, SCS_UP_INI
<1>4. CASE n = 2
  BY <1>1, <1>4 DEF Cs, IsExpedited, ExpSize, CCS_DN_INI, SCS_UP_INI
<1>5. CASE n = 3
  BY <1>1, <1>5 DEF Cs, IsExpedited, ExpSize, CCS_DN_INI, SCS_UP_INI
<1>6. CASE n = 4
  BY <1>1, <1>6 DEF Cs, IsExpedited, ExpSize, CCS_DN_INI, SCS_UP_INI
<1> QED
  BY <1>2, <1>3, <1>4, <1>5, <1>6

LEMMA SegParts ==
  ASSUME NEW m, NEW t \in {0, 1}, NEW n \in 0..7, NEW last \in BOOLEAN, m.cs = SegByte(0, t, n, last)
  PROVE  Cs(m) = 0 /\ Toggle(m) = t /\ (IsLastSeg(m) <=> last)
<1> DEFINE b == IF last THEN 1 ELSE 0
<1>1. m.cs = 16 * t + (2 * (7 - n) + b) /\ b \in {0, 1} /\ m.cs \in 0..31
  BY DEF SegByte
<1>2. Cs(m) = 0
  BY <1>1 DEF Cs
<1>3. Toggle(m) = t
  <2>1. \A x \in 0..15 : x \div 16 = 0 /\ (16 + x) \div 16 = 1
    OBVIOUS
  <2>2. 2 * (7 - n) + b \in 0..15
    BY <1>1
  <2>3. m.cs \div 16 = t
    BY <1>1, <2>1, <2>2
  <2> QED
    BY <2>3 DEF Toggle
<1>4. IsLastSeg(m) <=> last
  <2>1. m.cs = 2 * (8 * t + 7 - n) + b /\ 8 * t + 7 - n \in Nat
    BY <1>1
  <2>2. \A x \in Nat : (2 * x + 1) % 2 = 1 /\ (2 * x + 0) % 2 = 0
    OBVIOUS
  <2> QED
    BY <2>1, <2>2 DEF IsLastSeg
<1> QED
  BY <1>2, <1>3, <1>4

LEMMA ToggleParts ==
  ASSUME NEW m, NEW t \in {0, 1}
  PROVE  /\ m.cs = 32 * SCS_DN_SEG + 16 * t => Cs(m) = SCS_DN_SEG /\ Toggle(m) = t
         /\ m.cs = 32 * CCS_UP_SEG + 16 * t => Cs(m) = CCS_UP_SEG /\ Toggle(m) = t
<1>1. CASE t = 0
  BY <1>1 DEF Cs, Toggle, SCS_DN_SEG, CCS_UP_SEG
<1>2. CASE t = 1
  BY <1>2 DEF Cs, Toggle, SCS_DN_SEG, CCS_UP_SEG
<1> QED
  BY <1>1, <1>2

LEMMA EndParts ==
  ASSUME NEW m, NEW n \in 1..7, m.cs = BlkEndByte(6, n)
  PROVE  Cs(m) = CCS_BLK_DN /\ Cs(m) = SCS_BLK_UP /\ Sc(m) = SC_END_BLK /\ BlkSizeGet(m) = n
<1>1. m.cs = 221 - 4 * n /\ n \in {1, 2, 3, 4, 5, 6, 7}
  BY DEF BlkEndByte, SC_END_BLK
<1>2. m.cs \in {217, 213, 209, 205, 201, 197, 193} /\ n = (221 - m.cs) \div 4
  BY <1>1
<1> QED
  BY <1>2 DEF Cs, Sc, BlkSizeGet, CCS_BLK_DN, SCS_BLK_UP, SC_END_BLK

LEMMA SeqParts ==
  ASSUME NEW m, NEW i \in 1..127, NEW last \in BOOLEAN, m.cs = SeqByte(i, last)
  PROVE  SeqNo(m) = i /\ (IsLastSeq(m) <=> last) /\ ~IsAbortByte(m)
<1>1. m.cs = i + (IF last THEN 128 ELSE 0)
  BY DEF SeqByte
<1> QED
  BY <1>1 DEF SeqNo, IsLastSeq, IsAbortByte, CS_ABORT

-----------------------------------------------------------------------------
(* A step of the client in an undisturbed transfer                         *)

\* What the step must lead to.
ClientAgrees ==
  /\ Agree(csdo', ssdo, c2s', s2c')
  /\ ~csdo'.pending => con'.ac \in {"OK"} \cup AccessErrors

LEMMA OneFrame ==
  ASSUME NEW q, NEW m, q = <<m>>
  PROVE  q # <<>> /\ Head(q) = m /\ Tail(q) = <<>>
BY HeadTailProperties, EmptySeq

LEMMA SentFirst ==
  ASSUME NEW out \in Seq(AnyFrame)
  PROVE  <<>> \o out = out
BY ConcatEmptySeq

LEMMA ToAny ==
  ASSUME NEW q \in Seq(ClientFrame)
  PROVE  q \in Seq(AnyFrame)
BY SeqMonotonic DEF ClientFrame

LEMMA ContinueFirst ==
  ASSUME NEW c, NEW out \in Seq(AnyFrame), c2s = <<>>, Continue(c, out)
  PROVE  csdo' = c /\ c2s' = out /\ con' = con
BY SentFirst DEF Continue

LEMMA OneSent ==
  ASSUME NEW c, NEW f \in ClientFrame, c2s = <<>>, Continue(c, <<f>>)
  PROVE  csdo' = c /\ c2s' = <<f>> /\ con' = con
<1>1. <<f>> \in Seq(ClientFrame)
  BY SingletonSeq
<1> QED
  BY <1>1, ToAny, ContinueFirst

\* The request is refused, or its last answer has come.
LEMMA FinishStep ==
  ASSUME NEW c \in ClientRecord, NEW ac \in AbortCodes, NEW out \in Seq(AnyFrame),
         ac # "OK" \/ c.dcf = <<>>, c.pending, c2s = <<>>, co_csdo_abort_ind(c, ac, out)
  PROVE  csdo'.state = "wait" /\ ~csdo'.pending /\ c2s' = out /\ con'.ac = ac
<1>1. /\ csdo' = [c EXCEPT !.state = "wait", !.timer = FALSE, !.pending = FALSE, !.dcf = <<>>]
      /\ c2s' = c2s \o out
      /\ con' = [ac |-> ac, data |-> IF c.up /\ ac = "OK" THEN c.rx ELSE <<>>]
  BY DEF co_csdo_abort_ind
<1> QED
  BY <1>1, SentFirst DEF ClientRecord

\* An entry of a DCF is finished: the next one is requested.
LEMMA NextEntry ==
  ASSUME NEW c \in ClientRecord, c.dcf # <<>>, c2s = <<>>, co_csdo_abort_ind(c, "OK", <<>>)
  PROVE  /\ DnIni(csdo') /\ csdo'.pending
         /\ c2s' = <<DnReqFrame([idx |-> csdo'.idx, data |-> csdo'.data])>>
<1> DEFINE item == Head(c.dcf)
           w    == [c EXCEPT !.state = "wait", !.timer = FALSE, !.dcf = Tail(@)]
<1>1. item \in ValueItem /\ Tail(c.dcf) \in Seq(ValueItem)
  BY HeadTailProperties DEF ClientRecord
<1>2. item.data \in Seq(Byte) /\ item.idx \in Indices /\ Len(item.data) \in Nat \ {0}
  BY <1>1, EmptySeq DEF ValueItem, Item
<1>3. w \in ClientRecord
  BY <1>1 DEF ClientRecord, Idling
<1>4. csdo' = DnReqState(w, item) /\ c2s' = c2s \o <<>> \o <<DnReqFrame(item)>>
  BY DEF co_csdo_abort_ind, ClientRecord
<1> HIDE DEF item, w
<1>5. /\ csdo'.state = "dn_ini" /\ csdo'.toggle = 0 /\ csdo'.pending /\ csdo'.idx = item.idx
      /\ csdo'.data = item.data /\ csdo'.size = Len(item.data)
      /\ csdo'.pos = IF Len(item.data) \in 1..4 THEN Len(item.data) ELSE 0
  BY <1>3, <1>4 DEF DnReqState, Arm, co_csdo_dn_ind, ClientRecord
<1>6. c2s' = <<DnReqFrame(item)>>
  <2>1. <<DnReqFrame(item)>> \in Seq(AnyFrame)
    BY <1>1, DnReqFrameType, SingletonSeq, ToAny
  <2>2. <<>> \o <<>> = <<>>
    BY ConcatEmptySeq, EmptySeq
  <2> QED
    BY <1>4, <2>1, <2>2, SentFirst
<1>7. DnReqFrame(item) = DnReqFrame([idx |-> csdo'.idx, data |-> csdo'.data])
  BY <1>5 DEF DnReqFrame
<1> QED
  BY <1>5, <1>6, <1>7 DEF DnIni

LEMMA RefusedClient ==
  ASSUME ClientTyped, Refused(csdo, ssdo, c2s, s2c), co_csdo_recv
  PROVE  ClientAgrees
<1>1. PICK ac \in AccessErrors : s2c = <<AbortFrame(csdo.idx, ac)>>
  BY DEF Refused
<1> DEFINE m == AbortFrame(csdo.idx, ac)
<1>2. Head(s2c) = m /\ s2c' = <<>>
  BY <1>1, OneFrame DEF co_csdo_recv
<1>3. Cs(m) = CS_ABORT /\ AbortCode(m) = ac
  BY AbortParts
<1>4. csdo.state \in {"dn_ini", "up_ini", "blk_dn_ini", "blk_up_ini"} /\ Fresh(ssdo) /\ c2s = <<>>
  BY DEF Refused
<1>5. ac # "OK" /\ ac # "BLK_SIZE" /\ ac \in AbortCodes
  BY DEF AccessErrors, AbortCodes
<1>6. co_csdo_abort_ind(csdo, ac, <<>>)
  <2>1. \/ co_csdo_dn_ini_on_recv(m) \/ co_csdo_up_ini_on_recv(m)
        \/ co_csdo_blk_dn_ini_on_recv(m) \/ co_csdo_blk_up_ini_on_recv(m)
    BY <1>2, <1>4 DEF co_csdo_recv
  <2> HIDE DEF m
  <2>2. CS_ABORT # SCS_DN_INI /\ CS_ABORT # SCS_UP_INI /\ CS_ABORT # SCS_BLK_DN /\ CS_ABORT # SCS_BLK_UP
    BY DEF CS_ABORT, SCS_DN_INI, SCS_UP_INI, SCS_BLK_DN, SCS_BLK_UP
  <2>3. CASE co_csdo_dn_ini_on_recv(m)
    BY <1>3, <2>2, <2>3 DEF co_csdo_dn_ini_on_recv, Checked
  <2>4. CASE co_csdo_up_ini_on_recv(m)
    BY <1>3, <2>2, <2>4 DEF co_csdo_up_ini_on_recv, Checked
  <2>5. CASE co_csdo_blk_dn_ini_on_recv(m)
    BY <1>3, <2>2, <2>5 DEF co_csdo_blk_dn_ini_on_recv, Checked
  <2>6. CASE co_csdo_blk_up_ini_on_recv(m)
    BY <1>3, <1>5, <2>2, <2>6 DEF co_csdo_blk_up_ini_on_recv, Checked
  <2> QED
    BY <2>1, <2>3, <2>4, <2>5, <2>6
<1>7. csdo \in ClientRecord /\ csdo.pending /\ <<>> \in Seq(AnyFrame)
  BY <1>4, EmptySeq DEF ClientTyped, ClientOk, Idling
<1>8. csdo'.state = "wait" /\ ~csdo'.pending /\ c2s' = <<>> /\ con'.ac = ac
  BY <1>4, <1>5, <1>6, <1>7, FinishStep
<1> QED
  BY <1>2, <1>4, <1>8 DEF ClientAgrees, Agree, Rests

-----------------------------------------------------------------------------
(* Downloads                                                               *)

\* The download is finished on both ends.
LEMMA DnFinish ==
  ASSUME ClientTyped, csdo.state \in DnStates, c2s = <<>>, s2c' = <<>>, Fresh(ssdo),
         co_csdo_abort_ind(csdo, "OK", <<>>)
  PROVE  ClientAgrees
<1>1. csdo \in ClientRecord /\ csdo.pending /\ <<>> \in Seq(AnyFrame)
  BY EmptySeq DEF ClientTyped, ClientOk, Idling, DnStates
<1>2. CASE csdo.dcf = <<>>
  <2>1. csdo'.state = "wait" /\ ~csdo'.pending /\ c2s' = <<>> /\ con'.ac = "OK"
    BY <1>1, <1>2, FinishStep, Codes
  <2> QED
    BY <2>1 DEF ClientAgrees, Agree, Rests
<1>3. CASE csdo.dcf # <<>>
  <2>1. /\ DnIni(csdo') /\ csdo'.pending
        /\ c2s' = <<DnReqFrame([idx |-> csdo'.idx, data |-> csdo'.data])>>
    BY <1>1, <1>3, NextEntry
  <2> QED
    BY <2>1 DEF ClientAgrees, Agree, Downloading
<1> QED
  BY <1>2, <1>3

\* The server has every byte before pos, or all of them and is done.
LEMMA DnNextSegment ==
  ASSUME ClientTyped, csdo.state \in {"dn_ini", "dn_seg"}, c2s = <<>>, s2c' = <<>>,
         IF csdo.pos = csdo.size THEN Fresh(ssdo)
         ELSE Stored(ssdo, csdo, csdo.pos) /\ ssdo.toggle = csdo.toggle,
         co_csdo_dn_seg_on_enter(csdo)
  PROVE  ClientAgrees
<1> DEFINE left == csdo.size - csdo.pos
           n    == Lesser(left, SegBytes)
           d    == Arm([csdo EXCEPT !.state = "dn_seg", !.pos = @ + n, !.toggle = 1 - @])
           f    == Frame(SegByte(CCS_DN_SEG, csdo.toggle, n, left <= SegBytes), NoIdx, NoArg,
                         Segment(csdo.data, csdo.pos, n))
<1>0. DnData(csdo)
  BY DnFacts DEF DnStates
<1>1. csdo.size \in Nat \ {0} /\ csdo.pos \in 0..csdo.size /\ csdo.toggle \in {0, 1}
  BY <1>0, DnFields
<1>2. CASE csdo.pos = csdo.size
  <2>1. co_csdo_abort_ind(csdo, "OK", <<>>)
    BY <1>1, <1>2 DEF co_csdo_dn_seg_on_enter
  <2> QED
    BY <1>2, <2>1, DnFinish DEF DnStates
<1>3. CASE csdo.pos # csdo.size
  <2>1. Continue(d, <<f>>)
    BY <1>1, <1>3 DEF co_csdo_dn_seg_on_enter
  <2>2. /\ d.state = "dn_seg" /\ d.pos = csdo.pos + n /\ d.toggle = 1 - csdo.toggle
        /\ d.size = csdo.size /\ d.data = csdo.data /\ d.pending
    <3> HIDE DEF n
    <3> QED
      BY <1>0 DEF DnData, ClientRecord, Arm
  <2>3. f = DnSegment(d, csdo.toggle, csdo.pos)
    <3> HIDE DEF d
    <3> QED
      BY <2>2 DEF DnSegment
  <2>4. csdo' = d /\ c2s' = <<f>>
    <3>1. f \in AnyFrame
      <4>1. n \in 0..7 /\ n \in Nat /\ csdo.pos + n <= Len(csdo.data) /\ csdo.data \in Seq(Byte)
        <5>1. left \in Nat /\ csdo.size = Len(csdo.data) /\ csdo.data \in Seq(Byte)
          BY <1>0, <1>1, DnFields
        <5>2. n \in 0..7 /\ n <= left
          <6> HIDE DEF left
          <6> QED
            BY <5>1 DEF Lesser, SegBytes
        <5> HIDE DEF n
        <5> QED
          BY <1>1, <5>1, <5>2
      <4>2. SegByte(CCS_DN_SEG, csdo.toggle, n, left <= SegBytes) \in Nat
        <5>1. (left <= SegBytes) \in BOOLEAN /\ CCS_DN_SEG \in Nat
          BY DEF CCS_DN_SEG
        <5> HIDE DEF n
        <5> QED
          BY <1>1, <4>1, <5>1, SegByteType
      <4> HIDE DEF n
      <4>3. Segment(csdo.data, csdo.pos, n) \in Seq(Byte)
        BY <1>1, <4>1, SegmentType
      <4> QED
        BY <4>2, <4>3, ArgTypes, NoIdxType, FrameType
    <3> HIDE DEF d, f
    <3> QED
      BY <2>1, <3>1, ContinueFirst, SingletonSeq
  <2> HIDE DEF d, f, n
  <2>5. Stored(ssdo, d, csdo.pos) /\ csdo.pos \in 0..(d.size - 1)
    BY <1>1, <1>3, <2>2 DEF Stored
  <2>6. Downloading(d, ssdo, <<f>>, <<>>)
    <3>1. d.pos = csdo.pos + Lesser(d.size - csdo.pos, SegBytes) /\ d.toggle = 1 - ssdo.toggle
      BY <1>3, <2>2 DEF n
    <3>2. ssdo.toggle = csdo.toggle
      BY <1>3
    <3> QED
      BY <2>2, <2>3, <2>5, <3>1, <3>2 DEF Downloading
  <2> QED
    BY <2>2, <2>4, <2>6 DEF ClientAgrees, Agree
<1> QED
  BY <1>2, <1>3

LEMMA DownloadingClient ==
  ASSUME ClientTyped, ServerTyped, Downloading(csdo, ssdo, c2s, s2c), co_csdo_recv
  PROVE  ClientAgrees
<1> DEFINE i == Frame(32 * SCS_DN_INI, csdo.idx, NoArg, <<>>)
           g == Frame(32 * SCS_DN_SEG + 16 * (1 - csdo.toggle), NoIdx, NoArg, <<>>)
<1>1. s2c # <<>>
  BY DEF co_csdo_recv
<1>2. CASE /\ DnIni(csdo) /\ c2s = <<>> /\ s2c = <<i>>
           /\ IF csdo.size \in 1..4 THEN Fresh(ssdo) ELSE Stored(ssdo, csdo, 0) /\ ssdo.toggle = 0
  <2>1. Head(s2c) = i /\ s2c' = <<>>
    BY <1>2, OneFrame DEF co_csdo_recv
  <2>2. i.cs = 96 /\ i.idx = csdo.idx
    BY FrameParts DEF SCS_DN_INI
  <2> HIDE DEF i
  <2>3. co_csdo_dn_ini_on_recv(i) /\ csdo.state = "dn_ini"
    BY <1>2, <2>1 DEF co_csdo_recv, DnIni
  <2>4. Cs(i) = SCS_DN_INI /\ Cs(i) # CS_ABORT
    BY <2>2, CommandParts DEF SCS_DN_INI, CS_ABORT
  <2>5. co_csdo_dn_seg_on_enter(csdo)
    BY <2>2, <2>3, <2>4 DEF co_csdo_dn_ini_on_recv, Checked
  <2>6. IF csdo.pos = csdo.size THEN Fresh(ssdo)
        ELSE Stored(ssdo, csdo, csdo.pos) /\ ssdo.toggle = csdo.toggle
    <3>1. DnData(csdo)
      BY <2>3, DnFacts DEF DnStates
    <3>2. csdo.size \in Nat \ {0}
      BY <3>1, DnFields
    <3> QED
      BY <1>2, <3>2 DEF DnIni
  <2> QED
    BY <1>2, <2>1, <2>3, <2>5, <2>6, DnNextSegment
<1>3. CASE /\ csdo.state = "dn_seg" /\ c2s = <<>> /\ s2c = <<g>>
           /\ IF csdo.pos = csdo.size THEN Fresh(ssdo)
              ELSE Stored(ssdo, csdo, csdo.pos) /\ ssdo.toggle = csdo.toggle
  <2>1. Head(s2c) = g /\ s2c' = <<>>
    BY <1>3, OneFrame DEF co_csdo_recv
  <2>2. csdo.toggle \in {0, 1} /\ 1 - csdo.toggle \in {0, 1} /\ 1 - csdo.toggle # csdo.toggle
    BY ClientFacts DEF ClientRecord
  <2>3. g.cs = 32 * SCS_DN_SEG + 16 * (1 - csdo.toggle)
    BY FrameParts
  <2> HIDE DEF g
  <2>4. co_csdo_dn_seg_on_recv(g)
    BY <1>3, <2>1 DEF co_csdo_recv
  <2>5. Cs(g) = SCS_DN_SEG /\ Cs(g) # CS_ABORT /\ Toggle(g) # csdo.toggle
    <3>1. Cs(g) = SCS_DN_SEG /\ Toggle(g) = 1 - csdo.toggle
      BY <2>2, <2>3, ToggleParts
    <3> QED
      BY <2>2, <3>1 DEF SCS_DN_SEG, CS_ABORT
  <2>6. co_csdo_dn_seg_on_enter(csdo)
    BY <2>4, <2>5 DEF co_csdo_dn_seg_on_recv, Checked
  <2> QED
    BY <1>3, <2>1, <2>6, DnNextSegment
<1> QED
  BY <1>1, <1>2, <1>3 DEF Downloading

-----------------------------------------------------------------------------
(* Uploads                                                                 *)

\* The answer to either initiate request, once the server has accepted it.
LEMMA UpIniReads ==
  ASSUME ClientTyped, UpIni(csdo), NEW m, s2c = <<m>>, Cs(m) = SCS_UP_INI, co_csdo_recv
  PROVE  co_csdo_up_ini_on_recv(m) /\ s2c' = <<>>
<1>1. Head(s2c) = m /\ s2c' = <<>>
  BY OneFrame DEF co_csdo_recv
<1>2. csdo.state \in {"up_ini", "blk_up_ini"}
  BY DEF UpIni
<1>3. CASE csdo.state = "up_ini"
  BY <1>1, <1>3 DEF co_csdo_recv
<1>4. CASE csdo.state = "blk_up_ini"
  <2>1. co_csdo_blk_up_ini_on_recv(m)
    BY <1>1, <1>4 DEF co_csdo_recv
  <2>2. Cs(m) # CS_ABORT
    BY DEF SCS_UP_INI, CS_ABORT
  <2> QED
    BY <1>1, <2>1, <2>2 DEF co_csdo_blk_up_ini_on_recv
<1> QED
  BY <1>2, <1>3, <1>4

\* The upload is finished on both ends.
LEMMA UpFinish ==
  ASSUME NEW c \in ClientRecord, c.pending, c.dcf = <<>>, c2s = <<>>, s2c' = <<>>, Fresh(ssdo),
         co_csdo_abort_ind(c, "OK", <<>>)
  PROVE  ClientAgrees
<1>1. csdo'.state = "wait" /\ ~csdo'.pending /\ c2s' = <<>> /\ con'.ac = "OK"
  BY FinishStep, Codes, EmptySeq
<1> QED
  BY <1>1 DEF ClientAgrees, Agree, Rests

LEMMA UploadingClient ==
  ASSUME ClientTyped, ServerTyped, Uploading(csdo, ssdo, c2s, s2c), co_csdo_recv
  PROVE  ClientAgrees
<1>1. s2c # <<>>
  BY DEF co_csdo_recv
<1>2. ASSUME UpIni(csdo), Fresh(ssdo), c2s = <<>>, NEW n \in 1..4, NEW d \in Seq(Byte),
             s2c = <<Frame(ExpByte(SCS_UP_INI, n), csdo.idx, NoArg, d)>>
      PROVE  ClientAgrees
  <2> DEFINE m == Frame(ExpByte(SCS_UP_INI, n), csdo.idx, NoArg, d)
             e == [csdo EXCEPT !.size = ExpSize(m), !.rx = @ \o Padded(m.data, ExpSize(m))]
  <2>1. m.cs = ExpByte(SCS_UP_INI, n) /\ m.idx = csdo.idx /\ m.data = d
    BY FrameParts
  <2>2. s2c = <<m>>
    BY <1>2
  <2> HIDE DEF m
  <2>3. Cs(m) = SCS_UP_INI /\ IsExpedited(m) /\ ExpSize(m) = n /\ Cs(m) # CS_ABORT
    <3>1. Cs(m) = SCS_UP_INI /\ IsExpedited(m) /\ ExpSize(m) = n
      BY <2>1, ExpParts
    <3> QED
      BY <3>1 DEF SCS_UP_INI, CS_ABORT
  <2>4. co_csdo_up_ini_on_recv(m) /\ s2c' = <<>>
    BY <1>2, <2>2, <2>3, UpIniReads
  <2>5. co_csdo_abort_ind(e, "OK", <<>>)
    BY <2>1, <2>3, <2>4 DEF co_csdo_up_ini_on_recv, Checked
  <2>6. csdo.state \in UpStates
    BY <1>2 DEF UpIni, UpStates
  <2>7. e \in ClientRecord /\ e.pending /\ e.dcf = <<>>
    <3>1. n \in Int /\ n \in Nat
      OBVIOUS
    <3>2. Padded(m.data, n) \in Seq(Byte)
      BY <2>1, <3>1, PaddedType
    <3>3. csdo.rx \o Padded(m.data, ExpSize(m)) \in Seq(Byte)
      BY <2>3, <2>6, <3>2, UpFacts, ConcatProperties
    <3>4. ExpSize(m) \in Nat
      BY <2>3, <3>1
    <3> QED
      BY <2>6, <3>3, <3>4, UpFacts DEF ClientRecord
  <2> HIDE DEF e
  <2> QED
    BY <1>2, <2>4, <2>5, <2>7, UpFinish
<1>3. ASSUME UpIni(csdo), c2s = <<>>, Fetched(ssdo, 0), ssdo.toggle = 0,
             s2c = <<Frame(SizeByte(SCS_UP_INI), csdo.idx, Num(ssdo.size), <<>>)>>
      PROVE  ClientAgrees
  <2> DEFINE m == Frame(SizeByte(SCS_UP_INI), csdo.idx, Num(ssdo.size), <<>>)
             d == Arm([csdo EXCEPT !.state = "up_seg", !.size = m.arg.num, !.toggle = 1 - @])
  <2>1. m.cs = 65 /\ m.idx = csdo.idx /\ m.arg.num = ssdo.size
    BY FrameParts, ArgParts DEF SizeByte, SCS_UP_INI
  <2>2. s2c = <<m>>
    BY <1>3
  <2> HIDE DEF m
  <2>3. Cs(m) = SCS_UP_INI /\ ~IsExpedited(m) /\ Cs(m) # CS_ABORT
    <3>1. Cs(m) = SCS_UP_INI /\ ~IsExpedited(m)
      BY <2>1, CommandParts
    <3> QED
      BY <3>1 DEF SCS_UP_INI, CS_ABORT
  <2>4. co_csdo_up_ini_on_recv(m) /\ s2c' = <<>>
    BY <1>3, <2>2, <2>3, UpIniReads
  <2>5. Continue(d, <<UpSegReq(csdo)>>)
    BY <2>1, <2>3, <2>4 DEF co_csdo_up_ini_on_recv, Checked
  <2>6. csdo.state \in UpStates
    BY <1>3 DEF UpIni, UpStates
  <2>7. csdo.toggle = 0 /\ csdo.rx = <<>>
    BY <1>3 DEF UpIni
  <2>8. d.state = "up_seg" /\ d.size = ssdo.size /\ d.toggle = 1 /\ d.rx = <<>> /\ d.pending
    BY <2>1, <2>6, <2>7, UpFacts DEF Arm, ClientRecord
  <2> HIDE DEF d
  <2>9. csdo' = d /\ c2s' = <<UpSegReq(csdo)>>
    <3>1. UpSegReq(csdo) \in ClientFrame
      BY <2>7, UpSegReqType
    <3> QED
      BY <1>3, <2>5, <3>1, OneSent
  <2>10. Uploading(d, ssdo, <<UpSegReq(csdo)>>, <<>>)
    <3>1. Len(d.rx) = 0 /\ ssdo.size > 0
      BY <1>3, <2>8, EmptySeq DEF Fetched
    <3>2. UpSegReq(csdo) = Frame(32 * CCS_UP_SEG + 16 * ssdo.toggle, NoIdx, NoArg, <<>>)
      BY <1>3, <2>7 DEF UpSegReq
    <3>3. d.toggle = 1 - ssdo.toggle /\ Len(d.rx) < d.size /\ Fetched(ssdo, Len(d.rx))
      BY <1>3, <2>8, <3>1
    <3> QED
      BY <2>8, <3>2, <3>3 DEF Uploading
  <2> QED
    BY <2>4, <2>8, <2>9, <2>10 DEF ClientAgrees, Agree
<1>4. ASSUME csdo.state = "up_seg", c2s = <<>>, NEW d \in Seq(Byte), NEW p, p = Len(csdo.rx) + Len(d),
             Len(d) <= SegBytes, p <= csdo.size,
             s2c = <<Frame(SegByte(SCS_UP_SEG, 1 - csdo.toggle, Len(d), p = csdo.size), NoIdx, NoArg, d)>>,
             IF p = csdo.size THEN Fresh(ssdo)
             ELSE Fetched(ssdo, p) /\ ssdo.toggle = csdo.toggle /\ ssdo.size = csdo.size
      PROVE  ClientAgrees
  <2> DEFINE m == Frame(SegByte(SCS_UP_SEG, 1 - csdo.toggle, Len(d), p = csdo.size), NoIdx, NoArg, d)
             c == [csdo EXCEPT !.rx = @ \o m.data]
             e == Arm([c EXCEPT !.toggle = 1 - @])
  <2>0. csdo.state \in UpStates
    BY <1>4 DEF UpStates
  <2>1. /\ csdo.toggle \in {0, 1} /\ 1 - csdo.toggle \in {0, 1} /\ 1 - csdo.toggle # csdo.toggle
        /\ Len(d) \in 0..7 /\ csdo.rx \in Seq(Byte) /\ Len(csdo.rx) \in Nat /\ csdo.size \in Nat
    <3>1. csdo.toggle \in {0, 1} /\ csdo.rx \in Seq(Byte) /\ csdo.size \in Nat
      BY <2>0, UpFacts
    <3>2. Len(d) \in Nat /\ Len(csdo.rx) \in Nat /\ Len(d) <= 7
      BY <1>4, <3>1, LenProperties DEF SegBytes
    <3>3. \A t \in {0, 1} : 1 - t \in {0, 1} /\ 1 - t # t
      OBVIOUS
    <3>4. Len(d) \in 0..7
      <4>1. \A x \in Nat : x <= 7 => x \in 0..7
        OBVIOUS
      <4> QED
        BY <3>2, <4>1, Zenon
    <3> QED
      BY <3>1, <3>2, <3>3, <3>4
  <2>2. /\ m.cs = SegByte(0, 1 - csdo.toggle, Len(d), p = csdo.size) /\ m.data = d
    BY FrameParts DEF SCS_UP_SEG
  <2>3. Head(s2c) = m /\ s2c' = <<>>
    BY <1>4, OneFrame DEF co_csdo_recv
  <2> HIDE DEF m
  <2>4. co_csdo_up_seg_on_recv(m)
    BY <1>4, <2>3 DEF co_csdo_recv
  <2>5. /\ Cs(m) = SCS_UP_SEG /\ Cs(m) # CS_ABORT /\ Toggle(m) # csdo.toggle
        /\ IsLastSeg(m) <=> p = csdo.size
    <3>1. Cs(m) = 0 /\ Toggle(m) = 1 - csdo.toggle /\ (IsLastSeg(m) <=> p = csdo.size)
      <4>1. (p = csdo.size) \in BOOLEAN
        OBVIOUS
      <4> QED
        BY <2>1, <2>2, <4>1, SegParts
    <3> QED
      BY <2>1, <3>1 DEF SCS_UP_SEG, CS_ABORT
  <2>6. csdo.rx \o d \in Seq(Byte) /\ Len(csdo.rx \o d) = p
    BY <1>4, <2>1, ConcatProperties
  <2>7. /\ c \in ClientRecord /\ c.rx = csdo.rx \o d /\ c.pending /\ c.dcf = <<>> /\ c.size = csdo.size
        /\ c.state = "up_seg" /\ c.toggle = csdo.toggle
    BY <1>4, <2>0, <2>2, <2>6, UpFacts DEF ClientRecord
  <2>8. Len(c.rx) = p /\ p \in Nat
    BY <2>6, <2>7, LenProperties
  <2> DEFINE lo == co_csdo_abort_res(c, "TYPE_LEN_LO")
             ok == co_csdo_abort_ind(c, "OK", <<>>)
             go == Continue(e, <<UpSegReq(c)>>)
  <2>11. (CASE Toggle(m) = csdo.toggle -> Continue(csdo, <<>>)
           [] Toggle(m) # csdo.toggle /\ Len(c.rx) > csdo.size ->
                co_csdo_abort_res(csdo, "TYPE_LEN_HI")
           [] Toggle(m) # csdo.toggle /\ Len(c.rx) <= csdo.size /\ IsLastSeg(m) ->
                IF csdo.size > 0 /\ Len(c.rx) # csdo.size THEN lo ELSE ok
           [] OTHER -> go)
    BY <2>4, <2>5, Zenon DEF co_csdo_up_seg_on_recv, Checked
  <2> HIDE DEF c, e, lo, ok, go
  <2>12. IF p = csdo.size THEN ok ELSE go
    BY <1>4, <2>1, <2>5, <2>8, <2>11
  <2>9. CASE p = csdo.size
    <3>1. co_csdo_abort_ind(c, "OK", <<>>)
      BY <2>9, <2>12 DEF ok
    <3> QED
      BY <1>4, <2>3, <2>7, <2>9, <3>1, UpFinish
  <2>10. CASE p # csdo.size
    <3>1. Continue(e, <<UpSegReq(c)>>)
      BY <2>10, <2>12 DEF go
    <3>2. e.state = "up_seg" /\ e.size = csdo.size /\ e.toggle = 1 - csdo.toggle /\ e.rx = c.rx /\ e.pending
      BY <2>7 DEF Arm, ClientRecord, e
    <3>3. csdo' = e /\ c2s' = <<UpSegReq(c)>>
      <4>1. UpSegReq(c) \in ClientFrame
        BY <2>1, <2>7, UpSegReqType
      <4> QED
        BY <1>4, <3>1, <4>1, OneSent
    <3>4. Uploading(e, ssdo, <<UpSegReq(c)>>, <<>>)
      <4>1. UpSegReq(c) = Frame(32 * CCS_UP_SEG + 16 * ssdo.toggle, NoIdx, NoArg, <<>>)
        BY <1>4, <2>7, <2>10 DEF UpSegReq
      <4>2. e.toggle = 1 - ssdo.toggle /\ Len(e.rx) < e.size /\ Fetched(ssdo, Len(e.rx)) /\ e.size = ssdo.size
        <5>1. p \in Nat
          BY <1>4, <2>1
        <5> QED
          BY <1>4, <2>1, <2>8, <2>10, <3>2, <5>1
      <4> QED
        BY <3>2, <4>1, <4>2 DEF Uploading
    <3> QED
      BY <2>3, <3>2, <3>3, <3>4 DEF ClientAgrees, Agree
  <2> QED
    BY <2>9, <2>10
<1>5. CASE \E d \in Seq(Byte) :
             LET p == Len(csdo.rx) + Len(d)
             IN  /\ csdo.state = "up_seg" /\ c2s = <<>> /\ Len(d) <= SegBytes /\ p <= csdo.size
                 /\ s2c = <<Frame(SegByte(SCS_UP_SEG, 1 - csdo.toggle, Len(d), p = csdo.size), NoIdx, NoArg, d)>>
                 /\ IF p = csdo.size THEN Fresh(ssdo)
                    ELSE Fetched(ssdo, p) /\ ssdo.toggle = csdo.toggle /\ ssdo.size = csdo.size
  BY <1>4, <1>5, Zenon
<1> QED
  BY <1>1, <1>2, <1>3, <1>5, Zenon DEF Uploading

-----------------------------------------------------------------------------
(* Block downloads                                                         *)

\* The server has every byte before pos: the next block or the end follows.
LEMMA BlkDnNextBlock ==
  ASSUME NEW c, DnData(c), c.crc, c.blksize = CO_SSDO_MAX_SEQNO, c2s = <<>>, s2c' = <<>>,
         IF c.pos = c.size THEN StoredAll(ssdo, c)
         ELSE StoredBlk(ssdo, c, c.pos) /\ ssdo.ackseq = 0,
         co_csdo_blk_dn_sub_on_enter(c)
  PROVE  ClientAgrees
<1> DEFINE left == c.size - c.pos
           k    == Lesser(Segments(left), c.blksize)
           q    == BlockOf(c.data, c.pos, k, TRUE)
           d    == Arm([c EXCEPT !.state = "blk_dn_sub", !.blksize = k,
                                 !.pos = Lesser(@ + k * SegBytes, c.size)])
           e    == Arm([c EXCEPT !.state = "blk_dn_end", !.blksize = k])
           crc  == [NoArg EXCEPT !.crc = IF c.crc THEN co_crc(<<>>, c.data) ELSE @]
           f    == Frame(BlkEndByte(CCS_BLK_DN, LastBytes(c.size)), NoIdx, crc, <<>>)
<1>1. \/ co_csdo_abort_res(c, "BLK_SIZE") /\ (c.blksize > CO_SDO_MAX_SEQNO \/ c.blksize = 0)
      \/ left > 0 /\ Continue(d, q)
      \/ left = 0 /\ Continue(e, <<f>>)
  BY BlkDnSubEnter, Zenon
<1>2. /\ left \in Nat /\ c.size \in Nat \ {0} /\ c.pos \in 0..c.size /\ c \in ClientRecord
      /\ c.data \in Seq(Byte) /\ c.size = Len(c.data)
  BY DnFields DEF DnData
<1>3. c.blksize \in Nat \ {0} /\ c.blksize <= CO_SDO_MAX_SEQNO /\ CO_SDO_MAX_SEQNO \in Nat
  BY BlockSizes
<1>4. CASE left > 0 /\ Continue(d, q)
  <2>1. k \in Nat \ {0} /\ k <= Segments(left) /\ Segments(left) \in Nat
    <3>1. Segments(left) \in Nat \ {0}
      <4> HIDE DEF left
      <4> QED
        BY <1>2, <1>4, SegmentsBounds
    <3> HIDE DEF left
    <3> QED
      BY <1>3, <3>1 DEF Lesser
  <2>2. /\ d.state = "blk_dn_sub" /\ d.blksize = k /\ d.pos = Lesser(c.pos + k * SegBytes, c.size)
        /\ d.size = c.size /\ d.data = c.data /\ d.crc /\ d.pending
    <3> HIDE DEF k
    <3> QED
      BY <1>2 DEF Arm, ClientRecord, DnData
  <2>3. /\ q \in Seq(ClientFrame) /\ Len(q) = k
        /\ \A i \in 1..k : q[i] = BlockSegment(c.data, c.pos, i, TRUE)
    <3> HIDE DEF k
    <3>1. c.pos \in 0..Len(c.data) /\ k \in 0..Segments(Len(c.data) - c.pos)
      BY <1>2, <2>1
    <3>2. TRUE \in BOOLEAN /\ c.data \in Seq(Byte)
      BY <1>2
    <3>3. PICK x \in Seq(Byte), z \in BOOLEAN : x = c.data /\ z = TRUE
      BY <3>2, Zenon
    <3>4. PICK at, y : at = c.pos /\ y = k
      OBVIOUS
    <3>5. at \in 0..Len(x) /\ y \in 0..Segments(Len(x) - at)
      BY <3>1, <3>3, <3>4, Zenon
    <3>6. /\ BlockOf(x, at, y, z) \in Seq(ClientFrame) /\ Len(BlockOf(x, at, y, z)) = y
          /\ \A i \in 1..y : BlockOf(x, at, y, z)[i] = BlockSegment(x, at, i, z)
      BY <3>5, BlockOfType
    <3> QED
      BY <3>3, <3>4, <3>6, Zenon
  <2>4. csdo' = d /\ c2s' = q
    <3> HIDE DEF d, q
    <3> QED
      BY <1>4, <2>3, ToAny, ContinueFirst
  <2> HIDE DEF d, q
  <2>5. Remain(q, d.data, c.pos, 0, d.blksize, TRUE)
    <3> HIDE DEF k
    <3>1. 0 \in 0..(k - 1) /\ k - 0 = k
      BY <2>1
    <3>2. \A i \in 1..k : q[i] = BlockSegment(c.data, c.pos, 0 + i, TRUE)
      <4>1. \A i \in 1..k : 0 + i = i
        OBVIOUS
      <4> QED
        BY <2>3, <4>1
    <3> QED
      BY <2>2, <2>3, <3>1, <3>2 DEF Remain
  <2>6. c.pos \in 0..(d.size - 1) /\ c.pos # c.size
    BY <1>2, <1>4, <2>2
  <2>7. StoredBlk(ssdo, d, c.pos + ssdo.ackseq * SegBytes)
    <3>1. c.pos + ssdo.ackseq * SegBytes = c.pos
      BY <1>2, <2>6 DEF SegBytes
    <3> QED
      BY <2>2, <2>6, <3>1 DEF StoredBlk
  <2>8. d.blksize = Lesser(Segments(d.size - c.pos), CO_SSDO_MAX_SEQNO)
    BY <2>2
  <2>9. BlkDownloading(d, ssdo, q, <<>>)
    <3>1. /\ d.pos = Lesser(c.pos + d.blksize * SegBytes, d.size)
          /\ Remain(q, d.data, c.pos, ssdo.ackseq, d.blksize, TRUE)
      BY <2>2, <2>5, <2>6
    <3> QED
      BY <2>2, <2>6, <2>7, <2>8, <3>1, Zenon DEF BlkDownloading
  <2> QED
    BY <2>2, <2>4, <2>9 DEF ClientAgrees, Agree
<1>5. CASE left = 0 /\ Continue(e, <<f>>)
  <2>1. c.pos = c.size
    BY <1>2, <1>5
  <2>2. e.state = "blk_dn_end" /\ e.size = c.size /\ e.data = c.data /\ e.pending
    <3> HIDE DEF k
    <3> QED
      BY <1>2 DEF Arm, ClientRecord, DnData
  <2>3. crc = [NoArg EXCEPT !.crc = c.data] /\ crc \in Arg
    <3>1. co_crc(<<>>, c.data) = c.data
      BY <1>2, ConcatEmptySeq DEF co_crc
    <3> QED
      BY <1>2, <3>1, ArgTypes
  <2>4. f \in ClientFrame
    <3>1. BlkEndByte(CCS_BLK_DN, LastBytes(c.size)) \in Nat
      BY <1>2, LastBytesType, SMTT(60) DEF BlkEndByte, CCS_BLK_DN, SC_END_BLK
    <3> HIDE DEF crc
    <3> QED
      BY <2>3, <3>1, PlainFrameType, EmptySeq
  <2>5. csdo' = e /\ c2s' = <<f>>
    <3> HIDE DEF e, f
    <3> QED
      BY <1>5, <2>4, OneSent
  <2>6. f = Frame(BlkEndByte(CCS_BLK_DN, LastBytes(e.size)), NoIdx, [NoArg EXCEPT !.crc = e.data], <<>>)
    <3> HIDE DEF e, crc
    <3> QED
      BY <2>2, <2>3
  <2> HIDE DEF e, f
  <2>7. StoredAll(ssdo, e)
    BY <2>1, <2>2 DEF StoredAll
  <2>8. BlkDownloading(e, ssdo, <<f>>, <<>>)
    BY <2>2, <2>6, <2>7, Zenon DEF BlkDownloading
  <2> QED
    BY <2>2, <2>5, <2>8 DEF ClientAgrees, Agree
<1> HIDE DEF left, d, e, f, q
<1> QED
  BY <1>1, <1>3, <1>4, <1>5

LEMMA BlkDownloadingClient ==
  ASSUME ClientTyped, ServerTyped, BlkDownloading(csdo, ssdo, c2s, s2c), co_csdo_recv
  PROVE  ClientAgrees
<1>1. s2c # <<>>
  BY DEF co_csdo_recv
<1>2. ASSUME csdo.state = "blk_dn_ini", csdo.pos = 0, c2s = <<>>, StoredBlk(ssdo, csdo, 0), ssdo.ackseq = 0,
             s2c = <<Frame(BlkIniByte(SCS_BLK_DN, FALSE), csdo.idx, Blk(0, CO_SSDO_MAX_SEQNO), <<>>)>>
      PROVE  ClientAgrees
  <2> DEFINE m == Frame(BlkIniByte(SCS_BLK_DN, FALSE), csdo.idx, Blk(0, CO_SSDO_MAX_SEQNO), <<>>)
             c == [csdo EXCEPT !.crc = HasCrc(m), !.blksize = m.arg.blksize]
  <2>1. m.cs = 164 /\ m.idx = csdo.idx /\ m.arg.blksize = CO_SSDO_MAX_SEQNO
    BY FrameParts, ArgParts DEF BlkIniByte, SCS_BLK_DN, SC_INI_BLK
  <2>2. Head(s2c) = m /\ s2c' = <<>>
    BY <1>2, OneFrame DEF co_csdo_recv
  <2> HIDE DEF m
  <2>3. co_csdo_blk_dn_ini_on_recv(m)
    BY <1>2, <2>2 DEF co_csdo_recv
  <2>4. Cs(m) = SCS_BLK_DN /\ Sc(m) = SC_INI_BLK /\ HasCrc(m) /\ Cs(m) # CS_ABORT
    <3>1. Cs(m) = SCS_BLK_DN /\ Sc(m) = SC_INI_BLK /\ HasCrc(m)
      BY <2>1, CommandParts
    <3> QED
      BY <3>1 DEF SCS_BLK_DN, CS_ABORT
  <2>5. co_csdo_blk_dn_sub_on_enter(c)
    BY <2>1, <2>3, <2>4, Zenon DEF co_csdo_blk_dn_ini_on_recv, Checked
  <2>6. DnData(csdo)
    BY <1>2, DnFacts DEF DnStates
  <2>7. /\ c \in ClientRecord /\ c.crc /\ c.blksize = CO_SSDO_MAX_SEQNO /\ c.pos = 0
        /\ c.pending /\ ~c.up /\ c.size = csdo.size /\ c.data = csdo.data
    <3>1. CO_SSDO_MAX_SEQNO \in Nat /\ HasCrc(m) \in BOOLEAN
      BY BlockSizes DEF HasCrc
    <3> QED
      BY <1>2, <2>1, <2>4, <2>6, <3>1 DEF DnData, ClientRecord
  <2> HIDE DEF c
  <2>8. DnData(c) /\ c.pos # c.size
    BY <1>2, <2>6, <2>7 DEF DnData
  <2>9. StoredBlk(ssdo, c, c.pos) /\ ssdo.ackseq = 0
    BY <1>2, <2>7 DEF StoredBlk
  <2> QED
    BY <1>2, <2>2, <2>5, <2>7, <2>8, <2>9, BlkDnNextBlock
<1>3. ASSUME csdo.state = "blk_dn_sub", csdo.crc, c2s = <<>>,
             s2c = <<Frame(32 * SCS_BLK_DN + SC_BLK_RES, NoIdx, Blk(csdo.blksize, CO_SSDO_MAX_SEQNO), <<>>)>>,
             IF csdo.pos = csdo.size THEN StoredAll(ssdo, csdo)
             ELSE StoredBlk(ssdo, csdo, csdo.pos) /\ ssdo.ackseq = 0
      PROVE  ClientAgrees
  <2> DEFINE m == Frame(32 * SCS_BLK_DN + SC_BLK_RES, NoIdx, Blk(csdo.blksize, CO_SSDO_MAX_SEQNO), <<>>)
             sent == (csdo.pos + SegBytes - 1) \div SegBytes
             missed == csdo.blksize - m.arg.num
             c == [csdo EXCEPT !.pos = IF missed > 0 THEN (sent - missed) * SegBytes ELSE @,
                               !.blksize = m.arg.blksize]
  <2>1. m.cs = 162 /\ m.arg.num = csdo.blksize /\ m.arg.blksize = CO_SSDO_MAX_SEQNO
    BY FrameParts, ArgParts DEF SCS_BLK_DN, SC_BLK_RES
  <2>2. Head(s2c) = m /\ s2c' = <<>>
    BY <1>3, OneFrame DEF co_csdo_recv
  <2> HIDE DEF m
  <2>3. co_csdo_blk_dn_sub_on_recv(m)
    BY <1>3, <2>2 DEF co_csdo_recv
  <2>4. Cs(m) = SCS_BLK_DN /\ Sc(m) = SC_BLK_RES /\ Cs(m) # CS_ABORT
    <3>1. Cs(m) = SCS_BLK_DN /\ Sc(m) = SC_BLK_RES
      BY <2>1, CommandParts
    <3> QED
      BY <3>1 DEF SCS_BLK_DN, CS_ABORT
  <2>5. co_csdo_blk_dn_sub_on_enter(c)
    BY <2>3, <2>4, Zenon DEF co_csdo_blk_dn_sub_on_recv, Checked
  <2>6. DnData(csdo) /\ csdo.blksize \in Nat
    BY <1>3, DnFacts, DnFields DEF DnStates
  <2>7. ~(missed > 0)
    BY <2>1, <2>6
  <2>8. /\ c \in ClientRecord /\ c.crc /\ c.blksize = CO_SSDO_MAX_SEQNO /\ c.pos = csdo.pos
        /\ c.pending /\ ~c.up /\ c.size = csdo.size /\ c.data = csdo.data
    <3>1. CO_SSDO_MAX_SEQNO \in Nat
      BY BlockSizes
    <3> HIDE DEF missed, sent
    <3> QED
      BY <1>3, <2>1, <2>6, <2>7, <3>1 DEF DnData, ClientRecord
  <2> HIDE DEF c
  <2>9. DnData(c)
    BY <2>6, <2>8 DEF DnData
  <2>10. IF c.pos = c.size THEN StoredAll(ssdo, c)
         ELSE StoredBlk(ssdo, c, c.pos) /\ ssdo.ackseq = 0
    BY <1>3, <2>8 DEF StoredBlk, StoredAll
  <2> QED
    BY <1>3, <2>2, <2>5, <2>8, <2>9, <2>10, BlkDnNextBlock
<1>4. ASSUME csdo.state = "blk_dn_end", c2s = <<>>, Fresh(ssdo),
             s2c = <<Frame(32 * SCS_BLK_DN + SC_END_BLK, NoIdx, NoArg, <<>>)>>
      PROVE  ClientAgrees
  <2> DEFINE m == Frame(32 * SCS_BLK_DN + SC_END_BLK, NoIdx, NoArg, <<>>)
  <2>1. m.cs = 161
    BY FrameParts DEF SCS_BLK_DN, SC_END_BLK
  <2>2. Head(s2c) = m /\ s2c' = <<>>
    BY <1>4, OneFrame DEF co_csdo_recv
  <2> HIDE DEF m
  <2>3. co_csdo_blk_dn_end_on_recv(m)
    BY <1>4, <2>2 DEF co_csdo_recv
  <2>4. Cs(m) = SCS_BLK_DN /\ Sc(m) = SC_END_BLK /\ Cs(m) # CS_ABORT
    <3>1. Cs(m) = SCS_BLK_DN /\ Sc(m) = SC_END_BLK
      BY <2>1, CommandParts
    <3> QED
      BY <3>1 DEF SCS_BLK_DN, CS_ABORT
  <2>5. co_csdo_abort_ind(csdo, "OK", <<>>)
    BY <2>3, <2>4 DEF co_csdo_blk_dn_end_on_recv, Checked
  <2> QED
    BY <1>4, <2>2, <2>5, DnFinish DEF DnStates
<1> QED
  BY <1>1, <1>2, <1>3, <1>4, Zenon DEF BlkDownloading

-----------------------------------------------------------------------------
(* Parts of a value, and the frames that carry them                        *)

LEMMA PrefixType ==
  ASSUME NEW x \in Seq(Byte), NEW i \in 0..Len(x)
  PROVE  SubSeq(x, 1, i) \in Seq(Byte) /\ Len(SubSeq(x, 1, i)) = i
BY LenProperties, SubSeqProperties

LEMMA PrefixGrows ==
  ASSUME NEW x \in Seq(Byte), NEW i \in Nat, NEW n \in Nat, i + n <= Len(x)
  PROVE  SubSeq(x, 1, i) \o SubSeq(x, i + 1, i + n) = SubSeq(x, 1, i + n)
<1>1. Len(x) \in Nat
  BY LenProperties
<1>2. 1 \in 1..(Len(x) + 1) /\ i \in (1 - 1)..Len(x) /\ i + n \in i..Len(x)
  BY <1>1
<1> QED
  BY <1>2, ConcatAdjacentSubSeq

LEMMA PartOfPart ==
  ASSUME NEW x \in Seq(Byte), NEW p \in Nat, NEW e \in Nat, NEW j \in Nat, NEW n \in Nat,
         p + j + n <= e, e <= Len(x)
  PROVE  SubSeq(SubSeq(x, p + 1, e), j + 1, j + n) = SubSeq(x, p + j + 1, p + j + n)
<1>1. Len(x) \in Nat
  BY LenProperties
<1>2. CASE n = 0
  <2>1. j + n < j + 1 /\ p + j + n < p + j + 1
    BY <1>2
  <2> QED
    BY <2>1, SubSeqEmpty
<1>3. CASE n > 0
  <2>1. /\ p + 1 \in 1..Len(x) /\ e \in 1..Len(x)
        /\ j + 1 \in 1..(e - (p + 1) + 1) /\ j + n \in 1..(e - (p + 1) + 1)
    BY <1>1, <1>3
  <2>2. SubSeq(SubSeq(x, p + 1, e), j + 1, j + n)
          = SubSeq(x, (p + 1) + (j + 1) - 1, (p + 1) + (j + n) - 1)
    BY <2>1, SubSeqOfSubSeq
  <2>3. (p + 1) + (j + 1) - 1 = p + j + 1 /\ (p + 1) + (j + n) - 1 = p + j + n
    OBVIOUS
  <2> QED
    BY <2>2, <2>3
<1> QED
  BY <1>2, <1>3

\* Segment a + 1 of a block, as the receiver reads it.
SegmentRead(m, bytes, pos, a, end) ==
  LET from == pos + a * 7
      left == Len(bytes) - from
  IN  /\ left \in Nat \ {0} /\ from \in Nat
      /\ SeqNo(m) = a + 1 /\ (IsLastSeq(m) <=> end /\ left <= 7) /\ ~IsAbortByte(m)
      /\ m.data = SubSeq(bytes, from + 1, from + Lesser(left, 7))
      /\ m.data \in Seq(Byte) /\ Len(m.data) = Lesser(left, 7)

LEMMA SegmentReads ==
  ASSUME NEW bytes \in Seq(Byte), NEW pos \in Nat, NEW k \in 1..127, NEW a \in 0..(k - 1),
         7 * k <= Len(bytes) - pos + 6, NEW end \in BOOLEAN,
         NEW m, m = BlockSegment(bytes, pos, a + 1, end)
  PROVE  SegmentRead(m, bytes, pos, a, end)
<1> DEFINE from == pos + a * 7
           left == Len(bytes) - from
           n    == Lesser(left, 7)
           last == end /\ left <= 7
<1>1. left \in Nat \ {0} /\ from \in Nat /\ Len(bytes) \in Nat
  BY LenProperties
<1>2. n \in Nat /\ n <= left
  <2> HIDE DEF left
  <2> QED
    BY <1>1 DEF Lesser
<1>3. from + n <= Len(bytes)
  <2> HIDE DEF from, n
  <2> QED
    BY <1>1, <1>2
<1>4. m = Frame(SeqByte(a + 1, last), NoIdx, NoArg, Segment(bytes, from, n))
  <2>1. (a + 1) - 1 = a
    OBVIOUS
  <2> QED
    BY <2>1 DEF BlockSegment, SegBytes
<1> HIDE DEF from, left, n
<1>5. m.cs = SeqByte(a + 1, last) /\ m.data = Segment(bytes, from, n)
  BY <1>4, FrameParts
<1>6. a + 1 \in 1..127 /\ last \in BOOLEAN
  OBVIOUS
<1> HIDE DEF last
<1>7. SeqNo(m) = a + 1 /\ (IsLastSeq(m) <=> last) /\ ~IsAbortByte(m)
  BY <1>5, <1>6, SeqParts
<1>8. m.data \in Seq(Byte) /\ Len(m.data) = n
  BY <1>1, <1>2, <1>3, <1>5, SegmentType
<1>9. m.data = SubSeq(bytes, from + 1, from + n)
  BY <1>5 DEF Segment
<1> QED
  BY <1>1, <1>7, <1>8, <1>9, Zenon DEF last, left, from, n, SegmentRead

LEMMA RemainReads ==
  ASSUME NEW S, NEW q \in Seq(S), NEW bytes, NEW pos, NEW a \in Nat, NEW k \in Nat, NEW end,
         Remain(q, bytes, pos, a, k, end)
  PROVE  /\ q # <<>> /\ Head(q) = BlockSegment(bytes, pos, a + 1, end)
         /\ a + 1 <= k
         /\ a + 1 < k => Remain(Tail(q), bytes, pos, a + 1, k, end)
         /\ a + 1 = k => Tail(q) = <<>>
<1>1. /\ a <= k - 1 /\ Len(q) = k - a
      /\ \A i \in 1..(k - a) : q[i] = BlockSegment(bytes, pos, a + i, end)
  BY DEF Remain
<1>2. q # <<>> /\ Head(q) = q[1] /\ 1 \in 1..(k - a)
  BY <1>1, EmptySeq
<1>3. Tail(q) \in Seq(S) /\ Len(Tail(q)) = k - a - 1 /\ \A i \in 1..(k - a - 1) : Tail(q)[i] = q[i + 1]
  BY <1>1, <1>2, HeadTailProperties
<1>4. a + 1 = k => Tail(q) = <<>>
  BY <1>3, EmptySeq
<1>5. ASSUME a + 1 < k
      PROVE  Remain(Tail(q), bytes, pos, a + 1, k, end)
  <2>1. a + 1 \in 0..(k - 1) /\ k - a - 1 = k - (a + 1)
    BY <1>5
  <2>2. ASSUME NEW i \in 1..(k - (a + 1))
        PROVE  Tail(q)[i] = BlockSegment(bytes, pos, (a + 1) + i, end)
    <3>1. i \in 1..(k - a - 1) /\ i + 1 \in 1..(k - a) /\ a + (i + 1) = (a + 1) + i
      OBVIOUS
    <3> QED
      BY <1>1, <1>3, <3>1
  <2> QED
    BY <1>3, <2>1, <2>2 DEF Remain
<1> QED
  BY <1>1, <1>2, <1>4, <1>5

-----------------------------------------------------------------------------
(* Block uploads                                                           *)

\* The arithmetic of segment a + 1 of a block of k that holds bytes p + 1 to nb.
UpNumbers(a, k, z, size, nb, p) ==
  LET left == z - a * 7
      n    == Lesser(size - (p + a * 7), 7)
  IN  /\ left \in Nat \ {0} /\ p + a * 7 \in Nat /\ p + a * 7 <= nb /\ p + a * 7 <= size
      /\ n = Lesser(left, 7) /\ n \in 1..7 /\ n <= left /\ (n < 7 => nb = size /\ left < 7)
      /\ p + a * 7 + n <= nb /\ p + a * 7 + n <= size /\ nb > 0
      /\ k \in 1..127 /\ a \in 0..(k - 1)
      /\ a + 1 < k => left > 7 /\ n = 7 /\ p + a * 7 + n = p + (a + 1) * 7
      /\ a + 1 = k => left <= 7 /\ p + a * 7 + n = nb

LEMMA UpBlockArith ==
  ASSUME NEW a \in Nat, NEW k \in Nat, NEW z \in Nat, NEW size \in Nat, NEW nb \in Nat, NEW p \in 0..nb,
         NEW b \in 1..127, nb <= size, z = nb - p, a + 1 <= k, k <= b,
         7 * k >= z, 7 * k <= z + 6, nb = size \/ (k = b /\ z = 7 * k)
  PROVE  UpNumbers(a, k, z, size, nb, p)
<1> DEFINE left == z - a * 7
           n    == Lesser(size - (p + a * 7), 7)
<1>1. left \in Nat \ {0} /\ p + a * 7 \in Nat /\ p + a * 7 <= nb /\ p + a * 7 <= size /\ nb > 0
  OBVIOUS
<1>2. size - (p + a * 7) = (size - nb) + left
  OBVIOUS
<1>3. nb # size => left >= 7
  OBVIOUS
<1>4. (a + 1 < k => left > 7) /\ (a + 1 = k => left <= 7)
  OBVIOUS
<1>5. n = IF (size - nb) + left < 7 THEN (size - nb) + left ELSE 7
  BY <1>2 DEF Lesser
<1>6. p + a * 7 + left = nb
  OBVIOUS
<1> HIDE DEF left, n
<1>7. n = (IF left < 7 THEN left ELSE 7) /\ (n < 7 => nb = size /\ left < 7)
  BY <1>1, <1>3, <1>5
<1>8. n = Lesser(left, 7) /\ n \in 1..7 /\ n <= left
  BY <1>1, <1>7 DEF Lesser
<1>9. p + a * 7 + n <= nb /\ p + a * 7 + n <= size
  BY <1>1, <1>6, <1>8
<1>10. a + 1 < k => n = 7 /\ p + a * 7 + n = p + (a + 1) * 7
  BY <1>1, <1>4, <1>7
<1>11. a + 1 = k => p + a * 7 + n = nb
  BY <1>1, <1>4, <1>6, <1>7
<1> QED
  BY <1>1, <1>4, <1>7, <1>8, <1>9, <1>10, <1>11 DEF left, n, UpNumbers

LEMMA SeqnoBounds == \A x \in 1..CO_SSDO_MAX_SEQNO : x \in 1..127 /\ x \in 1..CO_SDO_MAX_SEQNO /\ x \in Nat
<1>1. CO_SSDO_MAX_SEQNO \in Nat /\ CO_SDO_MAX_SEQNO \in Nat
      /\ CO_SSDO_MAX_SEQNO <= CO_SDO_MAX_SEQNO /\ CO_SDO_MAX_SEQNO <= 127
  BY BlockSizes
<1> QED
  BY <1>1

\* A block that holds the bytes after the first p is under way.
UpBlock(p) ==
  /\ csdo.state = "blk_up_sub" /\ csdo.crc /\ csdo.size = ssdo.size /\ c2s = <<>>
  /\ FetchedBlk(ssdo, csdo)
  /\ ssdo.blksize = Segments(Len(ssdo.buf)) /\ ssdo.blksize <= csdo.blksize
  /\ UpDone(ssdo) \/ (ssdo.blksize = csdo.blksize /\ Len(ssdo.buf) = SegBytes * ssdo.blksize)
  /\ p \in 0..ssdo.nbyte
  /\ ssdo.buf = SubSeq(ssdo.seg, p + 1, ssdo.nbyte)
  /\ csdo.rx = SubSeq(ssdo.seg, 1, p + csdo.ackseq * SegBytes)
  /\ Remain(s2c, ssdo.buf, 0, csdo.ackseq, ssdo.blksize, UpDone(ssdo))

\* Its next segment comes in.
LEMMA BlkUpSegment ==
  ASSUME ClientTyped, ServerTyped, NEW p, UpBlock(p), co_csdo_recv
  PROVE  ClientAgrees
<1> DEFINE m    == Head(s2c)
           a    == csdo.ackseq
           k    == ssdo.blksize
           end  == UpDone(ssdo)
           left == Len(ssdo.buf) - a * 7
           n    == Lesser(csdo.size - Len(csdo.rx), SegBytes)
           rx   == csdo.rx \o Padded(m.data, n)
           eob  == EndOfBlock(m, csdo.blksize)
           last == IsLastSeq(m)
           c    == [csdo EXCEPT !.ackseq = @ + 1, !.rx = @ \o Padded(m.data, n)]
           d    == Arm([c EXCEPT !.ackseq = IF eob THEN 0 ELSE @,
                                 !.state = IF last THEN "blk_up_end" ELSE @])
           f    == Frame(32 * CCS_BLK_UP + SC_BLK_RES, NoIdx, Blk(c.ackseq, c.blksize), <<>>)
<1>0. /\ csdo.state = "blk_up_sub" /\ csdo.crc /\ csdo.size = ssdo.size /\ c2s = <<>>
      /\ FetchedBlk(ssdo, csdo) /\ s2c \in Seq(AnyFrame)
  BY DEF UpBlock, ServerTyped
<1>30. /\ k = Segments(Len(ssdo.buf)) /\ k <= csdo.blksize /\ p \in 0..ssdo.nbyte
       /\ end \/ (k = csdo.blksize /\ Len(ssdo.buf) = 7 * k)
  BY Zenon DEF UpBlock, SegBytes
<1>31. ssdo.buf = SubSeq(ssdo.seg, p + 1, ssdo.nbyte) /\ csdo.rx = SubSeq(ssdo.seg, 1, p + a * 7)
  BY Zenon DEF UpBlock, SegBytes
<1>32. Remain(s2c, ssdo.buf, 0, a, k, end)
  BY Zenon DEF UpBlock
<1>1. /\ a \in Nat /\ csdo \in ClientRecord /\ csdo.pending /\ csdo.dcf = <<>> /\ csdo.rx \in Seq(Byte)
      /\ csdo.size \in Nat /\ csdo.blksize \in Nat
  BY <1>0, UpFacts DEF UpStates
<1>2. /\ ssdo.seg \in Seq(Byte) /\ ssdo.buf \in Seq(Byte) /\ ssdo.nbyte \in Nat /\ ssdo.nbyte <= Len(ssdo.seg)
      /\ k \in Nat /\ Len(ssdo.seg) \in Nat /\ Len(ssdo.buf) \in Nat
  <2>1. ssdo \in ServerRecord /\ ssdo.nbyte <= Len(ssdo.seg)
    BY <1>0 DEF ServerTyped, ServerOk, FetchedBlk, FetchStates
  <2> QED
    BY <2>1, LenProperties DEF ServerRecord
<1>3. csdo.size = Len(ssdo.seg) /\ csdo.blksize \in 1..127 /\ end \in BOOLEAN
  <2>1. csdo.size = Len(ssdo.seg) /\ csdo.blksize \in 1..CO_SSDO_MAX_SEQNO
    BY <1>0 DEF FetchedBlk
  <2> QED
    BY <2>1, SeqnoBounds, Zenon DEF UpDone
<1>4. Len(ssdo.buf) = ssdo.nbyte - p
  BY <1>2, <1>30, <1>31, LenProperties, SubSeqProperties
<1>5. 7 * k >= Len(ssdo.buf) /\ 7 * k <= Len(ssdo.buf) + 6
  <2>1. PICK z \in Nat : z = Len(ssdo.buf)
    BY <1>2
  <2>2. 7 * Segments(z) >= z /\ 7 * Segments(z) <= z + 6
    BY SegmentsBounds
  <2> QED
    BY <1>30, <2>1, <2>2
<1>6. /\ m = BlockSegment(ssdo.buf, 0, a + 1, end) /\ a + 1 <= k /\ s2c' = Tail(s2c)
      /\ a + 1 < k => Remain(s2c', ssdo.buf, 0, a + 1, k, end)
      /\ a + 1 = k => s2c' = <<>>
  <2>1. s2c' = Tail(s2c)
    BY Zenon DEF co_csdo_recv
  <2> HIDE DEF a, k, end
  <2>2. /\ s2c # <<>> /\ Head(s2c) = BlockSegment(ssdo.buf, 0, a + 1, end)
        /\ a + 1 <= k
        /\ a + 1 < k => Remain(Tail(s2c), ssdo.buf, 0, a + 1, k, end)
        /\ a + 1 = k => Tail(s2c) = <<>>
    BY <1>0, <1>1, <1>2, <1>32, RemainReads, Zenon
  <2> QED
    BY <2>1, <2>2, Zenon
<1>8. (end <=> ssdo.nbyte = Len(ssdo.seg)) /\ (~end => k = csdo.blksize /\ Len(ssdo.buf) = 7 * k)
  BY <1>30 DEF UpDone
<1>20. /\ left \in Nat \ {0} /\ p + a * 7 \in Nat /\ p + a * 7 <= ssdo.nbyte /\ p + a * 7 <= Len(ssdo.seg)
       /\ LET h == Lesser(Len(ssdo.seg) - (p + a * 7), 7)
          IN  /\ h = Lesser(left, 7) /\ h \in 1..7 /\ h <= left /\ (h < 7 => end /\ left < 7)
              /\ p + a * 7 + h <= ssdo.nbyte /\ p + a * 7 + h <= Len(ssdo.seg)
              /\ a + 1 < k => left > 7 /\ h = 7 /\ p + a * 7 + h = p + (a + 1) * 7
              /\ a + 1 = k => left <= 7 /\ p + a * 7 + h = ssdo.nbyte
       /\ ssdo.nbyte > 0 /\ k \in 1..127 /\ a \in 0..(k - 1)
  <2> HIDE DEF a, k, end
  <2>1. PICK i \in Nat, j \in Nat, z \in Nat, size \in Nat, nb \in Nat, b \in 1..127 :
          /\ i = a /\ j = k /\ z = Len(ssdo.buf) /\ size = Len(ssdo.seg) /\ nb = ssdo.nbyte
          /\ b = csdo.blksize
    BY <1>1, <1>2, <1>3, Zenon
  <2>2. /\ p \in 0..nb /\ nb <= size /\ z = nb - p /\ i + 1 <= j /\ j <= b
        /\ 7 * j >= z /\ 7 * j <= z + 6 /\ (nb = size \/ (j = b /\ z = 7 * j))
    BY <1>2, <1>4, <1>5, <1>6, <1>8, <1>30, <2>1, Zenon
  <2>3. UpNumbers(i, j, z, size, nb, p)
    BY <2>2, UpBlockArith
  <2> QED
    BY <1>8, <2>1, <2>3, Zenon DEF UpNumbers
<1>7. /\ left \in Nat \ {0} /\ SeqNo(m) = a + 1 /\ (last <=> end /\ left <= 7) /\ ~IsAbortByte(m)
      /\ m.data = SubSeq(ssdo.buf, a * 7 + 1, a * 7 + Lesser(left, 7))
      /\ m.data \in Seq(Byte) /\ Len(m.data) = Lesser(left, 7)
  <2> HIDE DEF m, a, k, end, last
  <2>1. \A x \in Nat : x - 0 = x /\ 0 + x * 7 = x * 7
    OBVIOUS
  <2>2. 0 + a * 7 = a * 7 /\ 7 * k <= Len(ssdo.buf) - 0 + 6 /\ 0 \in Nat
    BY <1>1, <1>2, <1>5, <2>1, Zenon
  <2>4. PICK i \in Nat, j \in 1..127, buf \in Seq(Byte), e \in BOOLEAN :
          i = a /\ j = k /\ buf = ssdo.buf /\ e = end
    BY <1>1, <1>2, <1>3, <1>20, ZenonT(60)
  <2>5. i \in 0..(j - 1) /\ 7 * j <= Len(buf) - 0 + 6 /\ m = BlockSegment(buf, 0, i + 1, e) /\ 0 \in Nat
    BY <1>6, <1>20, <2>2, <2>4, Zenon
  <2>6. SegmentRead(m, buf, 0, i, e)
    BY <2>5, SegmentReads
  <2>3. LET from == 0 + a * 7
            rest == Len(ssdo.buf) - from
        IN  /\ rest \in Nat \ {0} /\ from \in Nat
            /\ SeqNo(m) = a + 1 /\ (IsLastSeq(m) <=> end /\ rest <= 7) /\ ~IsAbortByte(m)
            /\ m.data = SubSeq(ssdo.buf, from + 1, from + Lesser(rest, 7))
            /\ m.data \in Seq(Byte) /\ Len(m.data) = Lesser(rest, 7)
    BY <2>4, <2>6, Zenon DEF SegmentRead
  <2> QED
    BY <2>2, <2>3, Zenon DEF last
<1> HIDE DEF m, end, last
<1>9. p + a * 7 \in Nat /\ p + a * 7 <= ssdo.nbyte /\ Len(csdo.rx) = p + a * 7
  <2>1. \A x, y \in Nat : x <= y => x \in 0..y
    OBVIOUS
  <2>2. p + a * 7 \in 0..Len(ssdo.seg)
    BY <1>2, <1>20, <2>1, Zenon
  <2> QED
    BY <1>2, <1>20, <1>31, <2>2, PrefixType, Zenon
<1>10. n = Lesser(left, 7) /\ n \in 1..7 /\ n <= left /\ (n < 7 => end /\ left < 7)
  <2>1. n = Lesser(Len(ssdo.seg) - (p + a * 7), 7)
    BY <1>0, <1>3, <1>9, Zenon DEF SegBytes
  <2> QED
    BY <1>20, <2>1, Zenon
<1>21. /\ p + a * 7 + n <= ssdo.nbyte /\ p + a * 7 + n <= Len(ssdo.seg)
       /\ a + 1 < k => left > 7 /\ n = 7 /\ p + a * 7 + n = p + (a + 1) * 7
       /\ a + 1 = k => left <= 7 /\ p + a * 7 + n = ssdo.nbyte
  <2>1. n = Lesser(Len(ssdo.seg) - (p + a * 7), 7)
    BY <1>0, <1>3, <1>9, Zenon DEF SegBytes
  <2> QED
    BY <1>20, <2>1, Zenon
<1>11. Padded(m.data, n) = m.data
  BY <1>7, <1>10, PaddedSame, Zenon
<1>12. rx = SubSeq(ssdo.seg, 1, p + a * 7 + n) /\ rx \in Seq(Byte)
  <2>1. m.data = SubSeq(ssdo.seg, p + a * 7 + 1, p + a * 7 + n)
    <3>1. \A x \in Nat : x * 7 \in Nat
      OBVIOUS
    <3>2. \A x \in 1..7 : x \in Nat
      OBVIOUS
    <3>3. \A x \in Nat : \A y \in 0..x : y \in Nat
      OBVIOUS
    <3>4. a * 7 \in Nat /\ n \in Nat /\ p \in Nat
      BY <1>1, <1>2, <1>10, <1>30, <3>1, <3>2, <3>3, Zenon
    <3>5. m.data = SubSeq(ssdo.buf, a * 7 + 1, a * 7 + n)
      BY <1>7, <1>10, Zenon
    <3> QED
      <4> HIDE DEF a, n
      <4>1. PICK seg \in Seq(Byte), i \in Nat, e \in Nat, j \in Nat, h \in Nat :
              seg = ssdo.seg /\ i = p /\ e = ssdo.nbyte /\ j = a * 7 /\ h = n
        BY <1>2, <3>4, Zenon
      <4>2. i + j + h <= e /\ e <= Len(seg)
        BY <1>2, <1>21, <4>1, Zenon
      <4>3. SubSeq(SubSeq(seg, i + 1, e), j + 1, j + h) = SubSeq(seg, i + j + 1, i + j + h)
        BY <4>2, PartOfPart
      <4> QED
        BY <1>31, <3>5, <4>1, <4>3, Zenon
  <2>3. n \in Nat
    <3>1. \A x \in 1..7 : x \in Nat
      OBVIOUS
    <3> QED
      BY <1>10, <3>1, Zenon
  <2>4. rx = csdo.rx \o m.data
    BY <1>11, Zenon
  <2>5. rx \in Seq(Byte)
    <3> HIDE DEF rx
    <3> QED
      BY <1>1, <1>7, <2>4, ConcatProperties
  <2> HIDE DEF n, a, rx
  <2> QED
    <3>1. SubSeq(ssdo.seg, 1, p + a * 7) \o SubSeq(ssdo.seg, p + a * 7 + 1, p + a * 7 + n)
            = SubSeq(ssdo.seg, 1, p + a * 7 + n)
      BY <1>2, <1>20, <1>21, <2>3, PrefixGrows, ZenonT(60)
    <3> QED
      BY <1>31, <2>1, <2>4, <2>5, <3>1, Zenon
<1>13. Continue(d, IF eob THEN <<f>> ELSE <<>>)
  <2> DEFINE next == SeqNo(m) = csdo.ackseq + 1
             c0   == IF next THEN [csdo EXCEPT !.ackseq = @ + 1, !.rx = @ \o Padded(m.data, n)] ELSE csdo
             A    == Continue(Arm([c0 EXCEPT !.ackseq = IF eob THEN 0 ELSE @,
                                             !.state = IF IsLastSeq(m) THEN "blk_up_end" ELSE @]),
                              IF eob
                              THEN <<Frame(32 * CCS_BLK_UP + SC_BLK_RES, NoIdx,
                                           Blk(c0.ackseq, c0.blksize), <<>>)>>
                              ELSE <<>>)
             B    == co_csdo_abort_ind(csdo, AbortCode(m), <<>>)
  <2>1. co_csdo_blk_up_sub_on_recv(m)
    BY <1>0 DEF co_csdo_recv, m
  <2>2. (CASE IsAbortByte(m) -> B
          [] ~IsAbortByte(m) /\ next /\ ~IsLastSeq(m) /\ n < SegBytes -> co_csdo_abort_res(csdo, "TYPE_LEN_HI")
          [] OTHER -> A)
    BY <2>1, Zenon DEF co_csdo_blk_up_sub_on_recv
  <2>3. ~(~IsLastSeq(m) /\ n < SegBytes)
    <3> HIDE DEF n, left
    <3> QED
      BY <1>7, <1>10 DEF SegBytes, last
  <2>4. c0 = c
    BY <1>7, Zenon
  <2>5. A
    <3> HIDE DEF A, B, next, n
    <3> QED
      BY <1>7, <2>2, <2>3
  <2> HIDE DEF c0, c, eob, n
  <2> QED
    BY <2>4, <2>5, Zenon DEF last
<1>14. /\ d.state = (IF last THEN "blk_up_end" ELSE "blk_up_sub") /\ d.ackseq = (IF eob THEN 0 ELSE a + 1)
       /\ d.rx = rx /\ d.crc /\ d.pending /\ d.size = csdo.size /\ d.blksize = csdo.blksize
       /\ c.ackseq = a + 1 /\ c.blksize = csdo.blksize
  <2>1. /\ c \in ClientRecord /\ c.state = "blk_up_sub" /\ c.ackseq = a + 1 /\ c.rx = rx /\ c.crc
        /\ c.pending /\ c.size = csdo.size /\ c.blksize = csdo.blksize
    <3>1. c = [csdo EXCEPT !.ackseq = a + 1, !.rx = rx] /\ a + 1 \in Nat
      BY <1>1 DEF ClientRecord
    <3> HIDE DEF rx, a, c
    <3> QED
      BY <1>0, <1>1, <1>12, <3>1 DEF ClientRecord
  <2> HIDE DEF c, eob, rx, a
  <2> QED
    BY <2>1 DEF Arm, ClientRecord
<1>15. eob <=> a + 1 = csdo.blksize \/ last
  BY <1>7 DEF EndOfBlock, last
<1>16. f = Frame(32 * CCS_BLK_UP + SC_BLK_RES, NoIdx, Blk(a + 1, csdo.blksize), <<>>) /\ f \in ClientFrame
  <2>1. f = Frame(32 * CCS_BLK_UP + SC_BLK_RES, NoIdx, Blk(a + 1, csdo.blksize), <<>>)
    <3> HIDE DEF c, a
    <3> QED
      BY <1>14
  <2>2. 32 * CCS_BLK_UP + SC_BLK_RES \in Nat /\ <<>> \in Seq(Byte) /\ a + 1 \in Nat
    BY <1>1, EmptySeq DEF CCS_BLK_UP, SC_BLK_RES
  <2> HIDE DEF f
  <2> QED
    BY <1>1, <2>1, <2>2, ArgTypes, PlainFrameType
<1>17. FetchedBlk(ssdo, d)
  <2> HIDE DEF d
  <2> QED
    BY <1>0, <1>14 DEF FetchedBlk
<1>18. CASE a + 1 < k
  <2>1. left > 7 /\ n = 7
    BY <1>18, <1>21, Zenon
  <2>2. ~last /\ ~eob
    <3>1. ~(left <= 7)
      <4> HIDE DEF left
      <4> QED
        BY <1>7, <2>1
    <3>2. a + 1 # csdo.blksize
      BY <1>1, <1>2, <1>18, <1>30
    <3> QED
      BY <1>7, <1>15, <3>1, <3>2, Zenon
  <2> HIDE DEF eob, d, f
  <2>3. csdo' = d /\ c2s' = <<>>
    BY <1>0, <1>13, <2>2, ContinueFirst, EmptySeq
  <2>4. d.state = "blk_up_sub" /\ d.ackseq = a + 1
    BY <1>14, <2>2
  <2>5. d.rx = SubSeq(ssdo.seg, 1, p + d.ackseq * SegBytes)
    <3>1. p + a * 7 + n = p + (a + 1) * 7
      BY <1>18, <1>21, Zenon
    <3> HIDE DEF n, a, rx
    <3> QED
      BY <1>12, <1>14, <2>4, <3>1 DEF SegBytes
  <2>6. Remain(s2c', ssdo.buf, 0, d.ackseq, ssdo.blksize, UpDone(ssdo))
    BY <1>6, <1>18, <2>4 DEF end
  <2>7. BlkUploading(d, ssdo, <<>>, s2c')
    <3>1. d.blksize = csdo.blksize /\ d.size = ssdo.size /\ d.crc
      BY <1>0, <1>14
    <3>2. ssdo.blksize <= d.blksize /\ (UpDone(ssdo) \/ (ssdo.blksize = d.blksize /\ Len(ssdo.buf) = SegBytes * ssdo.blksize))
      BY <1>30, <3>1 DEF end, SegBytes
    <3> QED
      BY <1>17, <1>30, <1>31, <2>4, <2>5, <2>6, <3>1, <3>2, Zenon DEF BlkUploading
  <2> QED
    BY <1>14, <2>3, <2>7 DEF ClientAgrees, Agree
<1>19. CASE a + 1 = k
  <2>1. left <= 7 /\ (last <=> end) /\ eob /\ n = left
    <3>1. left <= 7
      BY <1>19, <1>21, Zenon
    <3>2. (last <=> end) /\ eob
      BY <1>7, <1>8, <1>15, <1>19, <3>1
    <3>3. n = left
      <4> HIDE DEF n, left
      <4> QED
        BY <1>7, <1>10, <3>1 DEF Lesser
    <3> QED
      BY <3>1, <3>2, <3>3
  <2> HIDE DEF eob, d, f
  <2>2. csdo' = d /\ c2s' = <<f>>
    BY <1>0, <1>13, <1>16, <2>1, OneSent
  <2>3. d.state = (IF UpDone(ssdo) THEN "blk_up_end" ELSE "blk_up_sub") /\ d.ackseq = 0
    BY <1>14, <2>1 DEF end
  <2>4. d.rx = SubSeq(ssdo.seg, 1, ssdo.nbyte)
    <3>1. p + a * 7 + n = ssdo.nbyte
      BY <1>19, <1>21, Zenon
    <3> HIDE DEF n, a, rx
    <3> QED
      BY <1>12, <1>14, <3>1
  <2>5. Len(ssdo.buf) <= SegBytes * ssdo.blksize /\ ssdo.nbyte > 0
    BY <1>2, <1>5, <1>20 DEF SegBytes
  <2>6. f = Frame(32 * CCS_BLK_UP + SC_BLK_RES, NoIdx, Blk(ssdo.blksize, d.blksize), <<>>)
    BY <1>14, <1>16, <1>19
  <2>7. s2c' = <<>>
    BY <1>6, <1>19
  <2>8. BlkUploading(d, ssdo, <<f>>, <<>>)
    <3>1. d.size = ssdo.size /\ d.crc
      BY <1>0, <1>14
    <3> QED
      BY <1>17, <2>3, <2>4, <2>5, <2>6, <3>1, Zenon DEF BlkUploading
  <2> QED
    BY <1>14, <2>2, <2>7, <2>8 DEF ClientAgrees, Agree
<1> QED
  BY <1>1, <1>2, <1>6, <1>18, <1>19

LEMMA BlkUploadingClient ==
  ASSUME ClientTyped, ServerTyped, BlkUploading(csdo, ssdo, c2s, s2c), co_csdo_recv
  PROVE  ClientAgrees
<1>1. s2c # <<>>
  BY DEF co_csdo_recv
<1>2. ASSUME BlkUpIni(csdo), csdo.blksize > 1, Fresh(ssdo), c2s = <<>>,
             s2c = <<AbortFrame(csdo.idx, "BLK_SIZE")>>
      PROVE  ClientAgrees
  <2> DEFINE m == AbortFrame(csdo.idx, "BLK_SIZE")
             b == (csdo.blksize + 1) \div 2
             c == [csdo EXCEPT !.blksize = (@ + 1) \div 2]
             d == Arm(c)
  <2>1. Head(s2c) = m /\ s2c' = <<>>
    BY <1>2, OneFrame DEF co_csdo_recv
  <2>2. Cs(m) = CS_ABORT /\ AbortCode(m) = "BLK_SIZE"
    BY AbortParts
  <2> HIDE DEF m
  <2>3. csdo.state = "blk_up_ini" /\ csdo.toggle = 0 /\ csdo.rx = <<>> /\ csdo.blksize \in 1..CO_SDO_MAX_SEQNO
    BY <1>2 DEF BlkUpIni, UpIni
  <2>4. co_csdo_blk_up_ini_on_recv(m)
    BY <2>1, <2>3 DEF co_csdo_recv
  <2>5. Continue(d, <<BlkUpIniReq(c)>>)
    <3>1. Cs(m) # SCS_UP_INI
      BY <2>2 DEF CS_ABORT, SCS_UP_INI
    <3> QED
      BY <1>2, <2>2, <2>4, <3>1, Zenon DEF co_csdo_blk_up_ini_on_recv
  <2>6. b \in 1..CO_SDO_MAX_SEQNO /\ b \in Nat
    <3>1. \A x \in Nat : \A y \in 1..x : (y + 1) \div 2 \in 1..x /\ (y + 1) \div 2 \in Nat
      OBVIOUS
    <3>2. CO_SDO_MAX_SEQNO \in Nat
      BY BlockSizes
    <3> QED
      BY <2>3, <3>1, <3>2, Zenon
  <2>7. csdo.state \in UpStates
    BY <2>3 DEF UpStates
  <2>8. /\ c \in ClientRecord /\ c.state = "blk_up_ini" /\ c.toggle = 0 /\ c.rx = <<>> /\ c.blksize = b
        /\ c.pending /\ c.idx \in Indices /\ c.pst \in Nat
    <3>1. c = [csdo EXCEPT !.blksize = b]
      BY <2>7, UpFacts DEF ClientRecord
    <3> HIDE DEF b, c
    <3> QED
      BY <2>3, <2>6, <2>7, <3>1, UpFacts DEF ClientRecord
  <2> HIDE DEF c, b
  <2>9. /\ d.state = "blk_up_ini" /\ d.toggle = 0 /\ d.rx = <<>> /\ d.blksize = b /\ d.pending
        /\ d.idx = c.idx /\ d.pst = c.pst
    BY <2>8 DEF Arm, ClientRecord
  <2> HIDE DEF d
  <2>10. BlkUpIniReq(c) = BlkUpIniReq(d)
    BY <2>8, <2>9 DEF BlkUpIniReq
  <2>11. csdo' = d /\ c2s' = <<BlkUpIniReq(c)>>
    BY <1>2, <2>5, <2>6, <2>8, BlkUpIniReqType, OneSent
  <2>12. BlkUploading(d, ssdo, <<BlkUpIniReq(d)>>, <<>>)
    <3>1. BlkUpIni(d)
      BY <2>6, <2>9 DEF BlkUpIni, UpIni
    <3> QED
      BY <1>2, <3>1, Zenon DEF BlkUploading
  <2> QED
    BY <2>1, <2>9, <2>10, <2>11, <2>12 DEF ClientAgrees, Agree
<1>3. ASSUME BlkUpIni(csdo), c2s = <<>>, FetchedNone(ssdo, csdo),
             s2c = <<Frame(BlkIniByte(SCS_BLK_UP, TRUE), csdo.idx, Num(ssdo.size), <<>>)>>
      PROVE  ClientAgrees
  <2> DEFINE m == Frame(BlkIniByte(SCS_BLK_UP, TRUE), csdo.idx, Num(ssdo.size), <<>>)
             d == Arm([csdo EXCEPT !.state = "blk_up_sub", !.crc = HasCrc(m),
                                   !.size = m.arg.num, !.ackseq = 0])
             f == Frame(32 * CCS_BLK_UP + SC_START_UP, NoIdx, NoArg, <<>>)
  <2>1. m.cs = 198 /\ m.idx = csdo.idx /\ m.arg.num = ssdo.size
    BY FrameParts, ArgParts DEF BlkIniByte, SCS_BLK_UP, SC_INI_BLK
  <2>2. Head(s2c) = m /\ s2c' = <<>>
    BY <1>3, OneFrame DEF co_csdo_recv
  <2> HIDE DEF m
  <2>3. csdo.state = "blk_up_ini" /\ csdo.rx = <<>>
    BY <1>3 DEF BlkUpIni, UpIni
  <2>4. co_csdo_blk_up_ini_on_recv(m)
    BY <2>2, <2>3 DEF co_csdo_recv
  <2>5. Cs(m) = SCS_BLK_UP /\ m.cs % 2 = SC_INI_BLK /\ HasCrc(m) /\ Cs(m) # CS_ABORT /\ Cs(m) # SCS_UP_INI
    <3>1. Cs(m) = SCS_BLK_UP /\ m.cs % 2 = SC_INI_BLK /\ HasCrc(m)
      BY <2>1, CommandParts
    <3> QED
      BY <3>1 DEF SCS_BLK_UP, CS_ABORT, SCS_UP_INI
  <2>6. Continue(d, <<f>>)
    BY <2>1, <2>4, <2>5, Zenon DEF co_csdo_blk_up_ini_on_recv, Checked
  <2>7. csdo.state \in UpStates
    BY <2>3 DEF UpStates
  <2>8. /\ d.state = "blk_up_sub" /\ d.crc /\ d.size = ssdo.size /\ d.ackseq = 0 /\ d.rx = <<>>
        /\ d.blksize = csdo.blksize /\ d.pending
    <3>1. HasCrc(m) \in BOOLEAN
      BY DEF HasCrc
    <3> QED
      BY <2>1, <2>3, <2>5, <2>7, <3>1, UpFacts DEF Arm, ClientRecord
  <2> HIDE DEF d
  <2>9. f \in ClientFrame
    <3>1. 32 * CCS_BLK_UP + SC_START_UP \in Nat /\ <<>> \in Seq(Byte)
      BY EmptySeq DEF CCS_BLK_UP, SC_START_UP
    <3> QED
      BY <3>1, ArgTypes, PlainFrameType
  <2>10. FetchedNone(ssdo, d)
    BY <1>3, <2>8 DEF FetchedNone, FetchedBlk
  <2>11. csdo' = d /\ c2s' = <<f>>
    <3> HIDE DEF f
    <3> QED
      BY <1>3, <2>6, <2>9, OneSent
  <2>12. BlkUploading(d, ssdo, <<f>>, <<>>)
    BY <2>8, <2>10, Zenon DEF BlkUploading
  <2> HIDE DEF f
  <2> QED
    BY <2>2, <2>8, <2>11, <2>12 DEF ClientAgrees, Agree
<1>4. ASSUME NEW p \in 0..ssdo.nbyte, UpBlock(p)
      PROVE  ClientAgrees
  BY <1>4, BlkUpSegment
<1>5. ASSUME csdo.state = "blk_up_end", csdo.crc, c2s = <<>>, ssdo.state = "blk_up_end",
             csdo.size = Len(csdo.rx), csdo.size > 0,
             s2c = <<Frame(BlkEndByte(SCS_BLK_UP, LastBytes(csdo.size)), NoIdx,
                           [NoArg EXCEPT !.crc = csdo.rx], <<>>)>>
      PROVE  ClientAgrees
  <2> DEFINE m == Frame(BlkEndByte(SCS_BLK_UP, LastBytes(csdo.size)), NoIdx,
                        [NoArg EXCEPT !.crc = csdo.rx], <<>>)
             f == Frame(32 * CCS_BLK_UP + SC_END_BLK, NoIdx, NoArg, <<>>)
  <2>1. m.cs = BlkEndByte(6, LastBytes(csdo.size)) /\ m.arg.crc = csdo.rx
    <3>1. m.cs = BlkEndByte(SCS_BLK_UP, LastBytes(csdo.size)) /\ m.arg = [NoArg EXCEPT !.crc = csdo.rx]
      <4> DEFINE arg == [NoArg EXCEPT !.crc = csdo.rx]
      <4> HIDE DEF arg
      <4>1. m = Frame(BlkEndByte(SCS_BLK_UP, LastBytes(csdo.size)), NoIdx, arg, <<>>)
        BY DEF arg
      <4>2. m.cs = BlkEndByte(SCS_BLK_UP, LastBytes(csdo.size)) /\ m.arg = arg
        BY <4>1, FrameParts
      <4> QED
        BY <4>2 DEF arg
    <3>2. [NoArg EXCEPT !.crc = csdo.rx].crc = csdo.rx
      BY DEF NoArg
    <3> QED
      BY <3>1, <3>2, Zenon DEF SCS_BLK_UP
  <2>2. Head(s2c) = m /\ s2c' = <<>>
    BY <1>5, OneFrame DEF co_csdo_recv
  <2> HIDE DEF m
  <2>3. co_csdo_blk_up_end_on_recv(m)
    BY <1>5, <2>2 DEF co_csdo_recv
  <2>4. csdo \in ClientRecord /\ csdo.pending /\ csdo.dcf = <<>> /\ csdo.rx \in Seq(Byte) /\ csdo.size \in Nat \ {0}
    BY <1>5, UpFacts DEF UpStates
  <2>5. LastBytes(csdo.size) \in 1..7
    BY <2>4, LastBytesType
  <2>6. Cs(m) = SCS_BLK_UP /\ Sc(m) = SC_END_BLK /\ BlkSizeGet(m) = LastBytes(csdo.size) /\ Cs(m) # CS_ABORT
    <3>1. Cs(m) = SCS_BLK_UP /\ Sc(m) = SC_END_BLK /\ BlkSizeGet(m) = LastBytes(csdo.size)
      BY <2>1, <2>5, EndParts
    <3> QED
      BY <3>1 DEF SCS_BLK_UP, CS_ABORT
  <2>7. m.arg.crc = co_crc(<<>>, csdo.rx)
    BY <2>1, <2>4, ConcatEmptySeq DEF co_crc
  <2>8. co_csdo_abort_ind(csdo, "OK", <<f>>)
    BY <1>5, <2>3, <2>6, <2>7, Zenon DEF co_csdo_blk_up_end_on_recv, Checked
  <2>9. <<f>> \in Seq(AnyFrame)
    <3>1. 32 * CCS_BLK_UP + SC_END_BLK \in Nat /\ <<>> \in Seq(Byte)
      BY EmptySeq DEF CCS_BLK_UP, SC_END_BLK
    <3>2. f \in AnyFrame
      BY <3>1, ArgTypes, NoIdxType, FrameType
    <3> HIDE DEF f
    <3> QED
      BY <3>2, SingletonSeq
  <2>10. csdo'.state = "wait" /\ ~csdo'.pending /\ c2s' = <<f>> /\ con'.ac = "OK"
    <3> HIDE DEF f
    <3> QED
      BY <1>5, <2>4, <2>8, <2>9, FinishStep, Codes
  <2>11. Rests(csdo', ssdo, <<f>>, <<>>)
    BY <1>5, <2>10, Zenon DEF Rests
  <2> HIDE DEF f
  <2> QED
    BY <2>2, <2>10, <2>11 DEF ClientAgrees, Agree
<1>6. CASE \E p \in 0..ssdo.nbyte : UpBlock(p)
  BY <1>4, <1>6
<1> QED
  BY <1>1, <1>2, <1>3, <1>5, <1>6, Zenon DEF BlkUploading, UpBlock

-----------------------------------------------------------------------------
(* A step of the client                                                    *)

LEMMA ClientKeepsAgreement ==
  ASSUME ClientTyped, ServerTyped, Agree(csdo, ssdo, c2s, s2c), co_csdo_recv
  PROVE  ClientAgrees
<1>1. ~Rests(csdo, ssdo, c2s, s2c)
  BY DEF Rests, co_csdo_recv
<1> QED
  BY <1>1, RefusedClient, DownloadingClient, UploadingClient, BlkDownloadingClient, BlkUploadingClient DEF Agree

-----------------------------------------------------------------------------
(* A step of the server in an undisturbed transfer                         *)

\* What the step must lead to.
ServerAgrees == Agree(csdo, ssdo', c2s', s2c')

LEMMA ReplyFirst ==
  ASSUME NEW s, NEW out \in Seq(AnyFrame), s2c = <<>>, Reply(s, out)
  PROVE  ssdo' = s /\ s2c' = out
BY SentFirst DEF Reply

LEMMA OneReply ==
  ASSUME NEW s, NEW f \in AnyFrame, s2c = <<>>, Reply(s, <<f>>)
  PROVE  ssdo' = s /\ s2c' = <<f>>
<1>1. <<f>> \in Seq(AnyFrame)
  BY SingletonSeq
<1> QED
  BY <1>1, ReplyFirst

\* The object accepts the write.
LEMMA DnIndFirst ==
  ASSUME NEW s, NEW next, NEW f \in AnyFrame, s2c = <<>>, DnAc(s) = "OK", co_ssdo_dn_ind(s, next, <<f>>)
  PROVE  ssdo' = next /\ s2c' = <<f>>
<1>1. <<f>> \in Seq(AnyFrame)
  BY SingletonSeq
<1> QED
  BY <1>1, SentFirst DEF co_ssdo_dn_ind

LEMMA AbortIndFresh ==
  ASSUME NEW s, ServerData(s)
  PROVE  Fresh(co_ssdo_abort_ind(s))
BY AbortIndServer DEF Fresh

LEMMA EmptyAnyFrame ==
  ASSUME NEW cs \in Nat, NEW idx \in Indices, NEW arg \in Arg
  PROVE  Frame(cs, idx, arg, <<>>) \in AnyFrame
BY FrameType, EmptySeq

LEMMA ServerRefuses ==
  ASSUME ClientTyped, csdo.state \in {"dn_ini", "up_ini", "blk_dn_ini", "blk_up_ini"},
         NEW s, ServerData(s), s.idx = csdo.idx, NEW ac \in AccessErrors, s2c = <<>>, c2s' = <<>>,
         co_ssdo_abort_res(s, ac)
  PROVE  ServerAgrees
<1>1. AbortFrame(csdo.idx, ac) \in AnyFrame
  BY ClientFacts, AbortFrameType DEF AccessErrors, AbortCodes, ClientRecord
<1>2. ssdo' = co_ssdo_abort_ind(s) /\ s2c' = <<AbortFrame(csdo.idx, ac)>>
  BY <1>1, OneReply DEF co_ssdo_abort_res
<1> QED
  BY <1>2, AbortIndFresh DEF ServerAgrees, Agree, Refused

\* The first request of a download: the object refuses the write or accepts it.
LEMMA DnRefusal ==
  ASSUME NEW s, ServerData(s), s.off = 0
  PROVE  (DnAc(s) = "OK" /\ s.idx \in Writable) \/ DnAc(s) \in AccessErrors
<1>1. s.off <= Len(s.membuf)
  BY ServerFields
<1>2. Writable \subseteq Objects
  BY SdoAssumption
<1> QED
  BY <1>1, <1>2, DnAcOk DEF DnAc, AccessErrors

\* What a server that waits for a request makes of it.
LEMMA ClearedServer ==
  ASSUME ServerTyped, Fresh(ssdo)
  PROVE  LET s == co_sdo_req_clear(ssdo)
         IN  /\ ServerData(s) /\ s.state = "wait" /\ s.toggle = 0 /\ s.ackseq = 0 /\ s.crc = <<>>
             /\ s.size = 0 /\ s.off = 0 /\ s.seg = <<>> /\ s.membuf = <<>> /\ s.buf = <<>> /\ s.nbyte = 0
<1>1. ServerData(ssdo) /\ ssdo.state = "wait" /\ Clean(ssdo)
  BY ServerFacts DEF ServerTyped, ServerOk, Fresh, Idling
<1> QED
  BY <1>1, EmptySeq DEF co_sdo_req_clear, Clean, ServerData, ServerRecord

LEMMA DnIniAgrees ==
  ASSUME ClientTyped, ServerTyped, DnIni(csdo), Fresh(ssdo), s2c = <<>>, c2s' = <<>>,
         NEW m, m = DnReqFrame([idx |-> csdo.idx, data |-> csdo.data]), co_ssdo_wait_on_recv(m)
  PROVE  ServerAgrees
<1> DEFINE exp  == IsExpedited(m)
           size == IF exp THEN ExpSize(m) ELSE m.arg.num
           seg  == IF exp THEN Padded(m.data, ExpSize(m)) ELSE <<>>
           q    == co_sdo_req_clear(ssdo)
           s    == [q EXCEPT !.idx = m.idx, !.size = size, !.seg = seg]
           a    == [s EXCEPT !.state = "dn_seg"]
           next == IF exp THEN co_ssdo_abort_ind(s) ELSE ArmServer(a)
           f    == Frame(32 * SCS_DN_INI, csdo.idx, NoArg, <<>>)
<1>1. csdo.state = "dn_ini" /\ csdo.size \in Nat \ {0} /\ csdo.size = Len(csdo.data) /\ csdo.idx \in Indices
      /\ csdo.data \in Seq(Byte)
  <2>1. csdo.state = "dn_ini"
    BY DEF DnIni
  <2> QED
    BY <2>1, DnFacts, DnFields DEF DnStates
<1>2. /\ Cs(m) = CCS_DN_INI /\ m.idx = csdo.idx /\ (exp <=> csdo.size \in 1..4)
      /\ size = csdo.size /\ seg \in Seq(Byte) /\ (~exp => seg = <<>>)
  <2> DEFINE item == [idx |-> csdo.idx, data |-> csdo.data]
  <2>0. item.idx = csdo.idx /\ item.data = csdo.data
    OBVIOUS
  <2> HIDE DEF item
  <2>1. CASE csdo.size \in 1..4
    <3>1. m = Frame(ExpByte(CCS_DN_INI, csdo.size), csdo.idx, NoArg, Expedited(csdo.data))
      BY <1>1, <2>0, <2>1 DEF DnReqFrame, item
    <3>2. m.cs = ExpByte(CCS_DN_INI, csdo.size) /\ m.idx = csdo.idx /\ m.data = Expedited(csdo.data)
      BY <3>1, FrameParts
    <3>3. Cs(m) = CCS_DN_INI /\ IsExpedited(m) /\ ExpSize(m) = csdo.size
      BY <2>1, <3>2, ExpParts
    <3>4. Padded(m.data, ExpSize(m)) \in Seq(Byte)
      <4>1. Expedited(csdo.data) \in Seq(Byte) /\ csdo.size \in Int
        BY <1>1, PaddedType DEF Expedited
      <4> QED
        BY <3>2, <3>3, <4>1, PaddedType
    <3> QED
      BY <2>1, <3>2, <3>3, <3>4
  <2>2. CASE csdo.size \notin 1..4
    <3>1. m = Frame(SizeByte(CCS_DN_INI), csdo.idx, Num(csdo.size), <<>>)
      BY <1>1, <2>0, <2>2 DEF DnReqFrame, item
    <3>2. m.cs = 33 /\ m.idx = csdo.idx /\ m.arg.num = csdo.size
      BY <3>1, FrameParts, ArgParts DEF SizeByte, CCS_DN_INI
    <3>3. Cs(m) = CCS_DN_INI /\ ~IsExpedited(m)
      BY <3>2, CommandParts
    <3> QED
      BY <2>2, <3>2, <3>3, EmptySeq
  <2> QED
    BY <2>1, <2>2
<1>3. co_ssdo_dn_ind(s, next, <<DnIniRes(s)>>)
  <2>1. co_ssdo_dn_ini_on_recv(m)
    BY <1>2 DEF co_ssdo_wait_on_recv, CCS_DN_INI, CCS_UP_INI, CCS_BLK_DN, CCS_BLK_UP, CS_ABORT
  <2> QED
    BY <2>1, Zenon DEF co_ssdo_dn_ini_on_recv
<1> HIDE DEF size, seg, exp
<1>4. /\ ServerData(s) /\ s.idx = csdo.idx /\ s.size = csdo.size /\ s.seg = seg /\ s.off = 0
      /\ s.membuf = <<>> /\ s.toggle = 0
  <2>1. ServerData(q) /\ q.off = 0 /\ q.membuf = <<>> /\ q.toggle = 0
    BY ClearedServer
  <2> HIDE DEF q
  <2> QED
    BY <1>1, <1>2, <2>1 DEF ServerData, ServerRecord
<1> HIDE DEF s, q
<1>5. DnIniRes(s) = f /\ f \in AnyFrame
  <2>1. 32 * SCS_DN_INI \in Nat
    BY DEF SCS_DN_INI
  <2> QED
    BY <1>1, <1>4, <2>1, ArgTypes, EmptyAnyFrame DEF DnIniRes
<1>6. CASE DnAc(s) \in AccessErrors
  <2>1. co_ssdo_abort_res(s, DnAc(s))
    BY <1>3, <1>6 DEF co_ssdo_dn_ind, AccessErrors
  <2> QED
    BY <1>1, <1>4, <1>6, <2>1, ServerRefuses
<1>7. CASE DnAc(s) = "OK" /\ s.idx \in Writable
  <2> HIDE DEF next, f
  <2>1. ssdo' = next /\ s2c' = <<f>>
    BY <1>3, <1>5, <1>7, DnIndFirst
  <2>2. IF csdo.size \in 1..4 THEN Fresh(next) ELSE Stored(next, csdo, 0) /\ next.toggle = 0
    <3>1. CASE exp
      BY <1>2, <1>4, <3>1, AbortIndFresh DEF next
    <3>2. CASE ~exp
      <4>1. /\ next.state = "dn_seg" /\ next.idx = s.idx /\ next.size = csdo.size /\ next.seg = <<>>
            /\ next.off = 0 /\ next.membuf = <<>> /\ next.toggle = 0
        BY <1>2, <1>4, <3>2 DEF next, ArmServer, ServerData, ServerRecord
      <4>2. Len(next.seg) = 0 /\ Len(next.membuf) = 0 /\ next.off + Len(next.seg) = 0
        BY <4>1, EmptySeq
      <4> QED
        BY <1>2, <1>7, <3>2, <4>1, <4>2 DEF Stored
    <3> QED
      BY <3>1, <3>2
  <2>3. Downloading(csdo, next, <<>>, <<f>>)
    BY <2>2, Zenon DEF Downloading, f
  <2> QED
    BY <2>1, <2>3 DEF ServerAgrees, Agree
<1> QED
  BY <1>4, <1>6, <1>7, DnRefusal

LEMMA DnSegAgrees ==
  ASSUME ClientTyped, ServerTyped, csdo.state = "dn_seg", s2c = <<>>, c2s' = <<>>,
         NEW p \in 0..(csdo.size - 1), Stored(ssdo, csdo, p),
         csdo.pos = p + Lesser(csdo.size - p, SegBytes), csdo.toggle = 1 - ssdo.toggle,
         NEW m, m = DnSegment(csdo, ssdo.toggle, p), co_ssdo_dn_seg_on_recv(m)
  PROVE  ServerAgrees
<1> DEFINE n    == Lesser(csdo.size - p, SegBytes)
           at   == ssdo.off + Len(ssdo.seg)
           s    == [ssdo EXCEPT !.seg = m.data, !.off = at]
           b    == [s EXCEPT !.membuf = DnBuf(s), !.toggle = 1 - @]
           next == IF IsLastSeg(m) THEN co_ssdo_abort_ind(s) ELSE ArmServer(b)
           f    == Frame(32 * SCS_DN_SEG + 16 * ssdo.toggle, NoIdx, NoArg, <<>>)
<1>1. csdo.size \in Nat \ {0} /\ csdo.size = Len(csdo.data) /\ csdo.data \in Seq(Byte)
  BY DnFacts, DnFields DEF DnStates
<1>2. ServerData(ssdo) /\ ssdo.toggle \in {0, 1} /\ Len(ssdo.membuf) = p /\ at = p /\ ssdo.size = csdo.size
      /\ ssdo.idx \in Writable
  BY ServerFacts, ServerFields DEF Stored
<1>3. n \in 0..7 /\ n \in Nat /\ p \in Nat /\ p + n <= csdo.size /\ (csdo.size - p <= SegBytes <=> p + n = csdo.size)
  BY <1>1 DEF Lesser, SegBytes
<1>4. /\ m.cs = SegByte(0, ssdo.toggle, n, csdo.size - p <= SegBytes)
      /\ m.data = Segment(csdo.data, p, n)
  BY FrameParts DEF DnSegment, CCS_DN_SEG
<1>5. Cs(m) = 0 /\ Toggle(m) = ssdo.toggle /\ (IsLastSeg(m) <=> p + n = csdo.size)
  <2>1. (csdo.size - p <= SegBytes) \in BOOLEAN
    OBVIOUS
  <2> HIDE DEF n
  <2>2. Cs(m) = 0 /\ Toggle(m) = ssdo.toggle /\ (IsLastSeg(m) <=> csdo.size - p <= SegBytes)
    BY <1>2, <1>3, <1>4, <2>1, SegParts
  <2> QED
    BY <1>3, <2>2
<1>6. m.data \in Seq(Byte) /\ Len(m.data) = n
  <2> HIDE DEF n
  <2> QED
    BY <1>1, <1>3, <1>4, SegmentType
<1> HIDE DEF n
<1>7. /\ ServerData(s) /\ s.seg = m.data /\ s.off = p /\ s.size = csdo.size /\ s.toggle = ssdo.toggle
      /\ s.membuf = ssdo.membuf /\ s.idx = ssdo.idx /\ s.state = "dn_seg"
  <2>1. p \in Nat /\ ssdo.state = "dn_seg"
    BY <1>3 DEF Stored
  <2> HIDE DEF at
  <2> QED
    BY <1>2, <1>6, <2>1 DEF ServerData, ServerRecord
<1>8. co_ssdo_dn_ind(s, next, <<f>>)
  <2>1. s.off + Len(s.seg) <= s.size /\ (IsLastSeg(m) => s.off + Len(s.seg) = s.size)
    <3> HIDE DEF s
    <3> QED
      BY <1>3, <1>5, <1>6, <1>7
  <2>2. s = [ssdo EXCEPT !.seg = m.data, !.off = @ + Len(ssdo.seg)]
    BY Zenon
  <2>3. Cs(m) = CCS_DN_SEG /\ Cs(m) # CS_ABORT
    BY <1>5 DEF CCS_DN_SEG, CS_ABORT
  <2> HIDE DEF s
  <2>4. co_ssdo_dn_ind(s, next, <<Frame(32 * SCS_DN_SEG + 16 * s.toggle, NoIdx, NoArg, <<>>)>>)
    BY <1>5, <2>1, <2>2, <2>3, Zenon DEF co_ssdo_dn_seg_on_recv, Accepted
  <2> QED
    BY <1>7, <2>4
<1> HIDE DEF s
<1>9. DnAc(s) = "OK"
  BY <1>2, <1>3, <1>7, DnAcOk
<1>10. f \in AnyFrame
  <2>1. 32 * SCS_DN_SEG + 16 * ssdo.toggle \in Nat
    BY <1>2 DEF SCS_DN_SEG
  <2> QED
    BY <2>1, ArgTypes, NoIdxType, EmptyAnyFrame
<1>11. ssdo' = next /\ s2c' = <<f>>
  <2> HIDE DEF next, f
  <2> QED
    BY <1>8, <1>9, <1>10, DnIndFirst
<1>12. f = Frame(32 * SCS_DN_SEG + 16 * (1 - csdo.toggle), NoIdx, NoArg, <<>>)
  BY <1>2
<1> HIDE DEF f
<1>13. IF csdo.pos = csdo.size THEN Fresh(next) ELSE Stored(next, csdo, csdo.pos) /\ next.toggle = csdo.toggle
  <2>0. csdo.pos = p + n
    BY DEF n
  <2>1. CASE IsLastSeg(m)
    BY <1>5, <1>7, <2>0, <2>1, AbortIndFresh DEF next
  <2>2. CASE ~IsLastSeg(m)
    <3>1. DnBuf(s) \in Seq(Byte) /\ Len(DnBuf(s)) = p + n
      BY <1>2, <1>3, <1>6, <1>7, DnBufType
    <3>2. next = ArmServer(b)
      BY <2>2
    <3>3. /\ next.state = "dn_seg" /\ next.idx = ssdo.idx /\ next.size = csdo.size /\ next.seg = m.data
          /\ next.off = p /\ next.membuf = DnBuf(s) /\ next.toggle = 1 - ssdo.toggle
      <4> HIDE DEF next
      <4> QED
        BY <1>7, <3>2 DEF ArmServer, ServerData, ServerRecord
    <3> HIDE DEF next
    <3> QED
      BY <1>2, <1>5, <1>6, <2>0, <2>2, <3>1, <3>3 DEF Stored
  <2> QED
    BY <2>1, <2>2
<1> HIDE DEF next
<1>14. Downloading(csdo, next, <<>>, <<f>>)
  BY <1>12, <1>13, Zenon DEF Downloading
<1> QED
  BY <1>11, <1>14 DEF ServerAgrees, Agree

LEMMA DownloadingServer ==
  ASSUME ClientTyped, ServerTyped, Downloading(csdo, ssdo, c2s, s2c), co_ssdo_recv
  PROVE  ServerAgrees
<1>1. c2s # <<>>
  BY DEF co_ssdo_recv
<1>2. CASE /\ DnIni(csdo) /\ Fresh(ssdo) /\ s2c = <<>>
           /\ c2s = <<DnReqFrame([idx |-> csdo.idx, data |-> csdo.data])>>
  <2>1. PICK m : m = DnReqFrame([idx |-> csdo.idx, data |-> csdo.data])
    OBVIOUS
  <2>2. Head(c2s) = m /\ c2s' = <<>>
    BY <1>2, <2>1, OneFrame DEF co_ssdo_recv
  <2>3. co_ssdo_wait_on_recv(m)
    BY <1>2, <2>2 DEF co_ssdo_recv, Fresh
  <2> QED
    BY <1>2, <2>1, <2>2, <2>3, DnIniAgrees
<1>3. ASSUME csdo.state = "dn_seg", s2c = <<>>, NEW p \in 0..(csdo.size - 1),
             Stored(ssdo, csdo, p), csdo.pos = p + Lesser(csdo.size - p, SegBytes),
             csdo.toggle = 1 - ssdo.toggle, c2s = <<DnSegment(csdo, ssdo.toggle, p)>>
      PROVE  ServerAgrees
  <2>1. PICK m : m = DnSegment(csdo, ssdo.toggle, p)
    OBVIOUS
  <2>2. Head(c2s) = m /\ c2s' = <<>>
    BY <1>3, <2>1, OneFrame DEF co_ssdo_recv
  <2>3. co_ssdo_dn_seg_on_recv(m)
    BY <1>3, <2>2 DEF co_ssdo_recv, Stored
  <2> QED
    BY <1>3, <2>1, <2>2, <2>3, DnSegAgrees
<1> QED
  BY <1>1, <1>2, <1>3 DEF Downloading

\* The server accepts an upload, with the normal protocol.
LEMMA UpAnswers ==
  ASSUME ClientTyped, UpIni(csdo), s2c = <<>>, c2s' = <<>>,
         NEW s, ServerData(s), s.idx = csdo.idx, s.size = Len(s.seg), s.size > 0, s.nbyte = 0, s.toggle = 0,
         (s.size <= 4 /\ UpExpedited(s)) \/ UpSegmented(s)
  PROVE  ServerAgrees
<1>1. s.size \in Nat \ {0} /\ s.seg \in Seq(Byte) /\ csdo.idx \in Indices
  BY ServerFields
<1>2. CASE s.size <= 4 /\ UpExpedited(s)
  <2>0. s.size \in 1..4
    <3>1. \A z \in Nat \ {0} : z <= 4 => z \in 1..4
      OBVIOUS
    <3> QED
      BY <1>1, <1>2, <3>1, Zenon
  <2>1. PICK n \in 1..4 : n = s.size
    BY <2>0, Zenon
  <2>2. PICK d \in Seq(Byte) : d = Expedited(s.seg)
    BY <1>1, PaddedType DEF Expedited
  <2> DEFINE f == Frame(ExpByte(SCS_UP_INI, n), csdo.idx, NoArg, d)
  <2>3. f \in AnyFrame
    <3>1. ExpByte(SCS_UP_INI, n) \in Nat
      BY ExpByteValue
    <3> QED
      BY <1>1, <3>1, ArgTypes, FrameType
  <2>4. Reply(co_ssdo_abort_ind(s), <<f>>)
    BY <1>2, <2>1, <2>2 DEF UpExpedited
  <2>5. ssdo' = co_ssdo_abort_ind(s) /\ s2c' = <<f>>
    <3> HIDE DEF f
    <3> QED
      BY <2>3, <2>4, OneReply
  <2>6. Fresh(ssdo')
    BY <2>5, AbortIndFresh
  <2>7. Uploading(csdo, ssdo', <<>>, <<f>>)
    BY <2>6, Zenon DEF Uploading
  <2> QED
    BY <2>5, <2>7 DEF ServerAgrees, Agree
<1>3. CASE UpSegmented(s)
  <2> DEFINE a == ArmServer([s EXCEPT !.state = "up_seg"])
             f == Frame(SizeByte(SCS_UP_INI), csdo.idx, Num(s.size), <<>>)
  <2>1. Reply(a, <<f>>)
    BY <1>3 DEF UpSegmented
  <2>2. f \in AnyFrame
    <3>1. SizeByte(SCS_UP_INI) \in Nat /\ Num(s.size) \in Arg
      BY <1>1, ArgTypes DEF SizeByte, SCS_UP_INI
    <3> QED
      BY <1>1, <3>1, EmptyAnyFrame
  <2>3. /\ a.state = "up_seg" /\ a.size = s.size /\ a.seg = s.seg /\ a.nbyte = 0 /\ a.toggle = 0
    BY DEF ArmServer, ServerData, ServerRecord
  <2> HIDE DEF a
  <2>4. ssdo' = a /\ s2c' = <<f>>
    <3> HIDE DEF f
    <3> QED
      BY <2>1, <2>2, OneReply
  <2>5. Fetched(a, 0) /\ f = Frame(SizeByte(SCS_UP_INI), csdo.idx, Num(a.size), <<>>)
    BY <2>3 DEF Fetched
  <2> HIDE DEF f
  <2>6. Uploading(csdo, a, <<>>, <<f>>)
    BY <2>3, <2>5, Zenon DEF Uploading
  <2> QED
    BY <2>4, <2>6 DEF ServerAgrees, Agree
<1> QED
  BY <1>2, <1>3

LEMMA UpIniAgrees ==
  ASSUME ClientTyped, ServerTyped, UpIni(csdo), csdo.state = "up_ini", Fresh(ssdo), s2c = <<>>, c2s' = <<>>,
         NEW m, m = Frame(32 * CCS_UP_INI, csdo.idx, NoArg, <<>>), co_ssdo_wait_on_recv(m)
  PROVE  ServerAgrees
<1> DEFINE q == [co_sdo_req_clear(ssdo) EXCEPT !.idx = m.idx]
           s == co_ssdo_up_ind(q)
<1>1. m.cs = 64 /\ m.idx = csdo.idx /\ csdo.idx \in Indices
  <2>1. csdo.idx \in Indices
    BY ClientFacts DEF ClientRecord
  <2> QED
    BY <2>1, FrameParts DEF CCS_UP_INI
<1>2. co_ssdo_up_ini_on_recv(m)
  <2>1. Cs(m) = 2
    BY <1>1, CommandParts DEF CCS_UP_INI
  <2> QED
    BY <2>1 DEF co_ssdo_wait_on_recv, CCS_DN_INI, CCS_UP_INI, CCS_BLK_DN, CCS_BLK_UP, CS_ABORT
<1>3. \/ co_ssdo_abort_res(q, "NO_OBJ")
      \/ m.idx \in Objects /\ ((s.size \in 1..4 /\ UpExpedited(s)) \/ UpSegmented(s))
  BY <1>2, Zenon DEF co_ssdo_up_ini_on_recv
<1>4. ServerData(q) /\ q.idx = csdo.idx /\ q.toggle = 0
  <2> DEFINE e == co_sdo_req_clear(ssdo)
  <2>1. ServerData(e) /\ e.toggle = 0
    BY ClearedServer
  <2> HIDE DEF e
  <2>2. q = [e EXCEPT !.idx = csdo.idx]
    BY <1>1 DEF e
  <2> HIDE DEF q
  <2> QED
    BY <1>1, <2>1, <2>2 DEF ServerData, ServerRecord
<1> HIDE DEF q
<1>5. CASE co_ssdo_abort_res(q, "NO_OBJ")
  BY <1>4, <1>5, ServerRefuses DEF AccessErrors
<1>6. CASE m.idx \in Objects /\ ((s.size \in 1..4 /\ UpExpedited(s)) \/ UpSegmented(s))
  <2>1. /\ ServerData(s) /\ s.idx = csdo.idx /\ s.size = Len(s.seg) /\ s.size > 0 /\ s.nbyte = 0
        /\ s.toggle = 0
    BY <1>1, <1>4, <1>6, UpIndType
  <2> HIDE DEF s
  <2>2. (s.size <= 4 /\ UpExpedited(s)) \/ UpSegmented(s)
    BY <1>6
  <2> QED
    BY <2>1, <2>2, UpAnswers
<1> QED
  BY <1>3, <1>5, <1>6

LEMMA UpSegAgrees ==
  ASSUME ClientTyped, ServerTyped, csdo.state = "up_seg", s2c = <<>>, c2s' = <<>>,
         csdo.size = ssdo.size, Fetched(ssdo, Len(csdo.rx)), Len(csdo.rx) < csdo.size,
         csdo.toggle = 1 - ssdo.toggle,
         NEW m, m = Frame(32 * CCS_UP_SEG + 16 * ssdo.toggle, NoIdx, NoArg, <<>>), co_ssdo_up_seg_on_recv(m)
  PROVE  ServerAgrees
<1> DEFINE e    == [ssdo EXCEPT !.buf = <<>>]
           s    == co_ssdo_up_buf(e, SegBytes)
           a    == ArmServer([s EXCEPT !.toggle = 1 - @])
           next == IF UpDone(s) THEN co_ssdo_abort_ind(s) ELSE a
           f    == Frame(SegByte(SCS_UP_SEG, s.toggle, Len(s.buf), UpDone(s)), NoIdx, NoArg, s.buf)
<1>1. /\ ServerData(ssdo) /\ ssdo.nbyte <= Len(ssdo.seg) /\ ssdo.toggle \in {0, 1}
      /\ ssdo.nbyte = Len(csdo.rx) /\ Len(ssdo.seg) = csdo.size /\ ssdo.state = "up_seg"
  BY ServerFacts, ServerFields DEF ServerTyped, ServerOk, FetchStates, Fetched
<1>2. Cs(m) = CCS_UP_SEG /\ Toggle(m) = ssdo.toggle
  <2>1. m.cs = 32 * CCS_UP_SEG + 16 * ssdo.toggle
    BY FrameParts
  <2> QED
    BY <1>1, <2>1, ToggleParts
<1>3. Reply(next, <<f>>)
  <2>1. Cs(m) # CS_ABORT
    BY <1>2 DEF CCS_UP_SEG, CS_ABORT
  <2> QED
    BY <1>2, <2>1, Zenon DEF co_ssdo_up_seg_on_recv, Accepted
<1>4. /\ ServerData(e) /\ e.nbyte = ssdo.nbyte /\ e.seg = ssdo.seg /\ e.state = "up_seg" /\ e.buf = <<>>
      /\ e.toggle = ssdo.toggle /\ e.size = ssdo.size
  BY <1>1, EmptySeq DEF ServerData, ServerRecord
<1> HIDE DEF e
<1>5. /\ ServerData(s) /\ s.seg = ssdo.seg /\ s.state = "up_seg" /\ s.toggle = ssdo.toggle
      /\ s.buf \in Seq(Byte) /\ Len(s.buf) \in 0..7 /\ s.nbyte = ssdo.nbyte + Len(s.buf)
      /\ s.nbyte <= Len(ssdo.seg) /\ s.size = ssdo.size
  <2> DEFINE k     == Lesser(SegBytes, Len(e.seg) - e.nbyte)
             bytes == Segment(e.seg, e.nbyte, k)
  <2>1. SegBytes \in Nat /\ SegBytes = 7
    BY DEF SegBytes
  <2>2. e.nbyte <= Len(e.seg)
    BY <1>1, <1>4
  <2>3. /\ ServerData(s) /\ s.nbyte = e.nbyte + k /\ s.nbyte <= Len(e.seg) /\ s.seg = e.seg
        /\ s.state = e.state /\ s.buf = e.buf \o bytes /\ bytes \in Seq(Byte) /\ Len(bytes) = k
        /\ k \in 0..SegBytes /\ s.toggle = e.toggle /\ s.size = e.size
    BY <1>4, <2>1, <2>2, UpBufType, ZenonT(60)
  <2> HIDE DEF s, bytes, k
  <2>4. s.buf = bytes
    BY <1>4, <2>3, ConcatEmptySeq
  <2> QED
    BY <1>4, <2>1, <2>3, <2>4
<1> HIDE DEF s
<1>6. PICK d \in Seq(Byte), p \in Nat : d = s.buf /\ p = Len(csdo.rx) + Len(d)
  <2>1. csdo.rx \in Seq(Byte)
    BY UpFacts DEF UpStates
  <2> QED
    BY <1>5, <2>1, LenProperties
<1>7. Len(d) <= SegBytes /\ p <= csdo.size /\ (UpDone(s) <=> p = csdo.size) /\ s.nbyte = p
  <2>1. Len(s.seg) = csdo.size /\ Len(s.buf) = Len(d)
    BY <1>1, <1>5, <1>6, Zenon
  <2>2. s.nbyte = p /\ Len(d) \in 0..7 /\ s.nbyte <= csdo.size
    BY <1>1, <1>5, <1>6, <2>1
  <2>3. p <= csdo.size
    BY <2>2, Zenon
  <2>4. Len(d) <= SegBytes
    <3>1. \A x \in 0..7 : x <= 7
      OBVIOUS
    <3> QED
      BY <2>2, <3>1, Zenon DEF SegBytes
  <2> QED
    BY <2>1, <2>2, <2>3, <2>4, Zenon DEF UpDone
<1>8. f = Frame(SegByte(SCS_UP_SEG, 1 - csdo.toggle, Len(d), p = csdo.size), NoIdx, NoArg, d) /\ f \in AnyFrame
  <2>1. s.toggle = 1 - csdo.toggle /\ UpDone(s) = (p = csdo.size)
    <3>1. UpDone(s) \in BOOLEAN
      BY DEF UpDone
    <3> QED
      BY <1>1, <1>5, <1>7, <3>1
  <2>2. SegByte(SCS_UP_SEG, s.toggle, Len(s.buf), UpDone(s)) \in Nat
    <3>1. UpDone(s) \in BOOLEAN /\ SCS_UP_SEG \in Nat /\ s.toggle \in {0, 1}
      BY <1>1, <1>5 DEF UpDone, SCS_UP_SEG
    <3> QED
      BY <1>5, <3>1, SegByteType
  <2> QED
    BY <1>5, <1>6, <2>1, <2>2, ArgTypes, NoIdxType, FrameType
<1> HIDE DEF f
<1>9. IF p = csdo.size THEN Fresh(next)
      ELSE Fetched(next, p) /\ next.toggle = csdo.toggle /\ next.size = csdo.size
  <2>1. CASE UpDone(s)
    BY <1>5, <1>7, <2>1, AbortIndFresh DEF next
  <2>2. CASE ~UpDone(s)
    <3>1. /\ a.state = "up_seg" /\ a.size = s.size /\ a.seg = s.seg /\ a.nbyte = p /\ a.toggle = 1 - s.toggle
      BY <1>5, <1>7 DEF ArmServer, ServerData, ServerRecord
    <3> HIDE DEF a
    <3>2. Fetched(a, p) /\ a.toggle = csdo.toggle /\ a.size = csdo.size
      BY <1>1, <1>5, <3>1 DEF Fetched
    <3> QED
      BY <1>7, <2>2, <3>2 DEF next
  <2> QED
    BY <2>1, <2>2
<1> HIDE DEF next
<1>10. ssdo' = next /\ s2c' = <<f>>
  BY <1>3, <1>8, OneReply
<1>11. Uploading(csdo, next, <<>>, <<f>>)
  BY <1>6, <1>7, <1>8, <1>9, Zenon DEF Uploading
<1> QED
  BY <1>10, <1>11 DEF ServerAgrees, Agree

LEMMA UploadingServer ==
  ASSUME ClientTyped, ServerTyped, Uploading(csdo, ssdo, c2s, s2c), co_ssdo_recv
  PROVE  ServerAgrees
<1>1. c2s # <<>>
  BY DEF co_ssdo_recv
<1>2. CASE /\ UpIni(csdo) /\ csdo.state = "up_ini" /\ Fresh(ssdo) /\ s2c = <<>>
           /\ c2s = <<Frame(32 * CCS_UP_INI, csdo.idx, NoArg, <<>>)>>
  <2>1. PICK m : m = Frame(32 * CCS_UP_INI, csdo.idx, NoArg, <<>>)
    OBVIOUS
  <2>2. Head(c2s) = m /\ c2s' = <<>>
    BY <1>2, <2>1, OneFrame DEF co_ssdo_recv
  <2>3. co_ssdo_wait_on_recv(m)
    BY <1>2, <2>2 DEF co_ssdo_recv, Fresh
  <2> QED
    BY <1>2, <2>1, <2>2, <2>3, UpIniAgrees
<1>3. CASE /\ csdo.state = "up_seg" /\ s2c = <<>>
           /\ csdo.size = ssdo.size /\ Fetched(ssdo, Len(csdo.rx)) /\ Len(csdo.rx) < csdo.size
           /\ csdo.toggle = 1 - ssdo.toggle
           /\ c2s = <<Frame(32 * CCS_UP_SEG + 16 * ssdo.toggle, NoIdx, NoArg, <<>>)>>
  <2>1. PICK m : m = Frame(32 * CCS_UP_SEG + 16 * ssdo.toggle, NoIdx, NoArg, <<>>)
    OBVIOUS
  <2>2. Head(c2s) = m /\ c2s' = <<>>
    BY <1>3, <2>1, OneFrame DEF co_ssdo_recv
  <2>3. co_ssdo_up_seg_on_recv(m)
    BY <1>3, <2>2 DEF co_ssdo_recv, Fetched
  <2> QED
    BY <1>3, <2>1, <2>2, <2>3, UpSegAgrees
<1> QED
  BY <1>1, <1>2, <1>3, Zenon DEF Uploading

-----------------------------------------------------------------------------
(* A step of the server in a block download                                *)

LEMMA BlkWaiting ==
  ASSUME NEW m, co_ssdo_wait_on_recv(m)
  PROVE  /\ Cs(m) = CCS_BLK_DN => co_ssdo_blk_dn_ini_on_recv(m)
         /\ Cs(m) = CCS_BLK_UP => co_ssdo_blk_up_ini_on_recv(m)
<1>1. /\ CCS_BLK_DN \notin {CCS_DN_INI, CCS_UP_INI, CCS_BLK_UP, CS_ABORT}
      /\ CCS_BLK_UP \notin {CCS_DN_INI, CCS_UP_INI, CCS_BLK_DN, CS_ABORT}
  BY DEF CCS_DN_INI, CCS_UP_INI, CCS_BLK_DN, CCS_BLK_UP, CS_ABORT
<1> QED
  BY <1>1, Zenon DEF co_ssdo_wait_on_recv

LEMMA BlkDnIniAgrees ==
  ASSUME ClientTyped, ServerTyped, csdo.state = "blk_dn_ini", csdo.pos = 0, Fresh(ssdo), s2c = <<>>, c2s' = <<>>,
         NEW m, m = Frame(BlkIniByte(CCS_BLK_DN, TRUE), csdo.idx, Num(csdo.size), <<>>),
         co_ssdo_wait_on_recv(m)
  PROVE  ServerAgrees
<1> DEFINE q    == co_sdo_req_clear(ssdo)
           s    == [q EXCEPT !.gencrc = HasCrc(m), !.idx = m.idx, !.size = m.arg.num,
                             !.blksize = CO_SSDO_MAX_SEQNO, !.ackseq = 0]
           next == ArmServer([s EXCEPT !.state = "blk_dn_sub"])
           f    == Frame(BlkIniByte(SCS_BLK_DN, FALSE), csdo.idx, Blk(0, CO_SSDO_MAX_SEQNO), <<>>)
<1>1. csdo.size \in Nat \ {0} /\ csdo.size = Len(csdo.data) /\ csdo.idx \in Indices /\ csdo.data \in Seq(Byte)
  BY DnFacts, DnFields DEF DnStates
<1>2. m.cs = 198 /\ m.idx = csdo.idx /\ m.arg.num = csdo.size
  BY FrameParts, ArgParts DEF BlkIniByte, CCS_BLK_DN, SC_INI_BLK
<1>3. Cs(m) = CCS_BLK_DN /\ m.cs % 2 = SC_INI_BLK /\ HasCrc(m) /\ HasCrc(m) = TRUE
  <2>1. HasCrc(m) \in BOOLEAN
    BY DEF HasCrc
  <2> QED
    BY <1>2, <2>1, CommandParts
<1>4. co_ssdo_dn_ind(s, next, <<Frame(BlkIniByte(SCS_BLK_DN, FALSE) - (IF s.gencrc THEN 0 ELSE 4),
                                      s.idx, Blk(0, s.blksize), <<>>)>>)
  <2>1. co_ssdo_blk_dn_ini_on_recv(m)
    BY <1>3, BlkWaiting
  <2> QED
    BY <1>3, <2>1, Zenon DEF co_ssdo_blk_dn_ini_on_recv
<1>5. CO_SSDO_MAX_SEQNO \in Nat
  BY BlockSizes
<1>6. /\ ServerData(s) /\ s.idx = csdo.idx /\ s.size = csdo.size /\ s.seg = <<>> /\ s.off = 0
      /\ s.membuf = <<>> /\ s.crc = <<>> /\ s.gencrc /\ s.blksize = CO_SSDO_MAX_SEQNO /\ s.ackseq = 0
  <2>1. ServerData(q) /\ q.off = 0 /\ q.membuf = <<>> /\ q.crc = <<>> /\ q.seg = <<>>
    BY ClearedServer
  <2>2. s = [q EXCEPT !.gencrc = TRUE, !.idx = csdo.idx, !.size = csdo.size,
                      !.blksize = CO_SSDO_MAX_SEQNO, !.ackseq = 0]
    <3> HIDE DEF q
    <3> QED
      BY <1>2, <1>3
  <2> HIDE DEF q, s
  <2> QED
    BY <1>1, <1>5, <2>1, <2>2 DEF ServerData, ServerRecord
<1> HIDE DEF s, q
<1>7. co_ssdo_dn_ind(s, next, <<f>>) /\ f \in AnyFrame
  <2>1. BlkIniByte(SCS_BLK_DN, FALSE) - (IF s.gencrc THEN 0 ELSE 4) = BlkIniByte(SCS_BLK_DN, FALSE)
        /\ BlkIniByte(SCS_BLK_DN, FALSE) \in Nat
    BY <1>6 DEF BlkIniByte, SCS_BLK_DN, SC_INI_BLK
  <2>2. Blk(0, CO_SSDO_MAX_SEQNO) \in Arg
    <3>1. 0 \in Nat
      OBVIOUS
    <3> QED
      BY <1>5, <3>1, ArgTypes, Zenon
  <2>3. f \in AnyFrame
    BY <1>1, <2>1, <2>2, EmptyAnyFrame
  <2> HIDE DEF next
  <2> QED
    BY <1>4, <1>6, <2>1, <2>3, Zenon
<1>8. CASE DnAc(s) \in AccessErrors
  <2>1. co_ssdo_abort_res(s, DnAc(s))
    BY <1>7, <1>8 DEF co_ssdo_dn_ind, AccessErrors
  <2> QED
    BY <1>6, <1>8, <2>1, ServerRefuses
<1>9. CASE DnAc(s) = "OK" /\ s.idx \in Writable
  <2>1. /\ next.state = "blk_dn_sub" /\ next.idx = s.idx /\ next.size = csdo.size /\ next.seg = <<>>
        /\ next.off = 0 /\ next.membuf = <<>> /\ next.crc = <<>> /\ next.gencrc
        /\ next.blksize = CO_SSDO_MAX_SEQNO /\ next.ackseq = 0
    BY <1>6 DEF ArmServer, ServerData, ServerRecord
  <2> HIDE DEF next, f
  <2>2. ssdo' = next /\ s2c' = <<f>>
    BY <1>7, <1>9, DnIndFirst
  <2>3. StoredBlk(next, csdo, 0)
    <3>1. SubSeq(csdo.data, 1, 0) = <<>>
      BY SubSeqEmpty
    <3>2. Len(next.seg) = 0 /\ Len(next.membuf) = 0 /\ next.off + Len(next.seg) = 0
      BY <2>1, EmptySeq
    <3> QED
      BY <1>9, <2>1, <3>1, <3>2 DEF StoredBlk
  <2>4. BlkDownloading(csdo, next, <<>>, <<f>>)
    BY <2>1, <2>3, Zenon DEF BlkDownloading, f
  <2> QED
    BY <2>2, <2>4 DEF ServerAgrees, Agree
<1> QED
  BY <1>6, <1>8, <1>9, DnRefusal

LEMMA BlkDnEndAgrees ==
  ASSUME ClientTyped, ServerTyped, csdo.state = "blk_dn_end", StoredAll(ssdo, csdo), s2c = <<>>, c2s' = <<>>,
         NEW m,
         m = Frame(BlkEndByte(CCS_BLK_DN, LastBytes(csdo.size)), NoIdx, [NoArg EXCEPT !.crc = csdo.data], <<>>),
         co_ssdo_blk_dn_end_on_recv(m)
  PROVE  ServerAgrees
<1> DEFINE f == Frame(32 * SCS_BLK_DN + SC_END_BLK, NoIdx, NoArg, <<>>)
<1>1. csdo.size \in Nat \ {0} /\ LastBytes(csdo.size) \in 1..7
  BY DnFacts, DnFields, LastBytesType DEF DnStates
<1>2. m.cs = BlkEndByte(6, LastBytes(csdo.size)) /\ m.arg.crc = csdo.data
  <2> DEFINE arg == [NoArg EXCEPT !.crc = csdo.data]
  <2>1. arg.crc = csdo.data
    BY ArgParts
  <2> HIDE DEF arg
  <2>2. m = Frame(BlkEndByte(6, LastBytes(csdo.size)), NoIdx, arg, <<>>)
    BY DEF arg, CCS_BLK_DN
  <2> QED
    BY <2>1, <2>2, FrameParts
<1>3. Cs(m) = CCS_BLK_DN /\ Sc(m) = SC_END_BLK /\ BlkSizeGet(m) = LastBytes(csdo.size)
  BY <1>1, <1>2, EndParts
<1>4. /\ ssdo.size = csdo.size /\ ssdo.size = ssdo.off + Len(ssdo.seg) /\ ssdo.idx \in Writable
      /\ ssdo.off <= Len(ssdo.membuf) /\ co_crc(ssdo.crc, ssdo.seg) = csdo.data
  BY DEF StoredAll, co_crc
<1>5. co_ssdo_dn_ind(ssdo, co_ssdo_abort_ind(ssdo), <<f>>)
  <2>1. Cs(m) # CS_ABORT
    BY <1>3 DEF CCS_BLK_DN, CS_ABORT
  <2> QED
    BY <1>2, <1>3, <1>4, <2>1, Zenon DEF co_ssdo_blk_dn_end_on_recv, Accepted
<1>6. DnAc(ssdo) = "OK" /\ Fresh(co_ssdo_abort_ind(ssdo))
  BY <1>4, ServerFacts, DnAcOk, AbortIndFresh
<1>7. f \in AnyFrame
  <2>1. 32 * SCS_BLK_DN + SC_END_BLK \in Nat
    BY DEF SCS_BLK_DN, SC_END_BLK
  <2> QED
    BY <2>1, ArgTypes, NoIdxType, EmptyAnyFrame
<1>8. ssdo' = co_ssdo_abort_ind(ssdo) /\ s2c' = <<f>>
  <2> HIDE DEF f
  <2> QED
    BY <1>5, <1>6, <1>7, DnIndFirst
<1>9. BlkDownloading(csdo, ssdo', <<>>, <<f>>)
  BY <1>6, <1>8, Zenon DEF BlkDownloading
<1> QED
  BY <1>8, <1>9 DEF ServerAgrees, Agree

\* The arithmetic of segment a + 1 of a block of k that begins after the first p bytes.
DnNumbers(a, k, max, size, p, pos) ==
  LET at   == p + a * 7
      left == size - at
      n    == Lesser(left, 7)
  IN  /\ left \in Nat \ {0} /\ at \in Nat /\ n \in 1..7 /\ at + n <= size
      /\ left > 7 => n = 7
      /\ left <= 7 => n = left /\ at + n = size
      /\ k \in 1..127 /\ a \in 0..(k - 1) /\ 7 * k <= size - p + 6 /\ a + 1 \in 1..max
      /\ a + 1 < k => left > 7 /\ a + 1 # max /\ at + n = p + (a + 1) * 7
      /\ a + 1 = k => /\ left <= 7 => pos = size
                      /\ left > 7 => a + 1 = max /\ pos = at + n /\ pos # size

LEMMA DnBlockArith ==
  ASSUME NEW a \in Nat, NEW sg \in Nat, NEW max \in 1..127, NEW size \in Nat, NEW p \in 0..(size - 1),
         7 * sg >= size - p, 7 * sg <= size - p + 6, NEW k, k = Lesser(sg, max), a + 1 <= k,
         NEW pos, pos = Lesser(p + k * 7, size)
  PROVE  DnNumbers(a, k, max, size, p, pos)
<1> DEFINE at   == p + a * 7
           left == size - at
           n    == Lesser(left, 7)
<1>1. k \in Nat /\ k <= sg /\ k <= max /\ (k = sg \/ k = max)
  BY DEF Lesser
<1>2. at \in Nat /\ left \in Nat \ {0}
  BY <1>1
<1>3. 7 * k <= size - p + 6 /\ k \in 1..127 /\ a \in 0..(k - 1) /\ a + 1 \in 1..max
  BY <1>1
<1>4. a + 1 < k => left > 7 /\ a + 1 # max
  BY <1>1
<1>5. a + 1 = k /\ left > 7 => a + 1 = max /\ at + 7 = p + k * 7 /\ p + k * 7 < size
  BY <1>1
<1>6. a + 1 = k /\ left <= 7 => p + k * 7 >= size
  BY <1>1
<1>7. at + left = size /\ at + 7 = p + (a + 1) * 7
  OBVIOUS
<1>8. pos = IF p + k * 7 < size THEN p + k * 7 ELSE size
  BY DEF Lesser
<1> HIDE DEF at, left
<1>9. n = IF left < 7 THEN left ELSE 7
  BY DEF Lesser
<1> HIDE DEF n
<1>10. n \in 1..7 /\ at + n <= size /\ (left > 7 => n = 7) /\ (left <= 7 => n = left /\ at + n = size)
  BY <1>2, <1>7, <1>9
<1>11. a + 1 < k => at + n = p + (a + 1) * 7
  BY <1>4, <1>7, <1>10
<1>12. a + 1 = k => /\ left <= 7 => pos = size
                    /\ left > 7 => a + 1 = max /\ pos = at + n /\ pos # size
  BY <1>1, <1>2, <1>5, <1>6, <1>8, <1>10
<1> QED
  BY <1>2, <1>3, <1>4, <1>10, <1>11, <1>12, Zenon DEF at, left, n, DnNumbers

\* A block that begins after the first p bytes is under way.
DnBlock(p) ==
  /\ csdo.state = "blk_dn_sub" /\ csdo.crc /\ s2c = <<>> /\ p \in 0..(csdo.size - 1)
  /\ csdo.blksize = Lesser(Segments(csdo.size - p), CO_SSDO_MAX_SEQNO)
  /\ csdo.pos = Lesser(p + csdo.blksize * SegBytes, csdo.size)
  /\ StoredBlk(ssdo, csdo, p + ssdo.ackseq * SegBytes)
  /\ Remain(c2s, csdo.data, p, ssdo.ackseq, csdo.blksize, TRUE)

\* Its next segment comes in.
LEMMA BlkDnSegment ==
  ASSUME ClientTyped, ServerTyped, NEW p, DnBlock(p), co_ssdo_recv
  PROVE  ServerAgrees
<1> DEFINE m    == Head(c2s)
           a    == ssdo.ackseq
           k    == csdo.blksize
           size == csdo.size
           at   == p + a * 7
           left == size - at
           n    == Lesser(left, 7)
           last == IsLastSeq(m)
           eob  == EndOfBlock(m, ssdo.blksize)
           s    == [ssdo EXCEPT !.ackseq = a + 1, !.off = at, !.seg = m.data]
           t    == IF last THEN s ELSE [s EXCEPT !.crc = s.crc \o s.seg, !.membuf = DnBuf(s)]
           u    == ArmServer([t EXCEPT !.ackseq = IF eob THEN 0 ELSE @,
                                       !.state = IF last THEN "blk_dn_end" ELSE @])
           f    == Frame(32 * SCS_BLK_DN + SC_BLK_RES, NoIdx, Blk(k, CO_SSDO_MAX_SEQNO), <<>>)
           ack  == IF eob THEN <<Frame(32 * SCS_BLK_DN + SC_BLK_RES, NoIdx,
                                       Blk(s.ackseq, s.blksize), <<>>)>> ELSE <<>>
<1>0. /\ csdo.state = "blk_dn_sub" /\ csdo.crc /\ s2c = <<>> /\ p \in 0..(size - 1) /\ c2s \in Seq(ClientFrame)
      /\ StoredBlk(ssdo, csdo, at) /\ Remain(c2s, csdo.data, p, a, k, TRUE)
  BY Zenon DEF DnBlock, ClientTyped, SegBytes
<1>1. size \in Nat \ {0} /\ size = Len(csdo.data) /\ csdo.data \in Seq(Byte) /\ k \in Nat
  <2>1. DnData(csdo)
    BY <1>0, DnFacts DEF DnStates
  <2> QED
    BY <2>1, DnFields DEF DnData, ClientRecord
<1>2. /\ ServerData(ssdo) /\ a \in Nat /\ ssdo.state = "blk_dn_sub" /\ ssdo.idx \in Writable
      /\ ssdo.size = size /\ ssdo.gencrc /\ ssdo.off + Len(ssdo.seg) = at /\ Len(ssdo.membuf) = at
      /\ ssdo.crc = SubSeq(csdo.data, 1, at) /\ ssdo.blksize = CO_SSDO_MAX_SEQNO
  BY <1>0, ServerFacts, ServerFields DEF StoredBlk
<1>3. CO_SSDO_MAX_SEQNO \in 1..127
  <2>1. CO_SSDO_MAX_SEQNO \in 1..CO_SSDO_MAX_SEQNO
    BY BlockSizes
  <2> QED
    BY <2>1, SeqnoBounds, Zenon
<1>4. /\ m = BlockSegment(csdo.data, p, a + 1, TRUE) /\ a + 1 <= k /\ c2s' = Tail(c2s)
      /\ a + 1 < k => Remain(c2s', csdo.data, p, a + 1, k, TRUE)
      /\ a + 1 = k => c2s' = <<>>
  <2>1. c2s' = Tail(c2s)
    BY Zenon DEF co_ssdo_recv
  <2> HIDE DEF a, k
  <2>2. /\ c2s # <<>> /\ Head(c2s) = BlockSegment(csdo.data, p, a + 1, TRUE)
        /\ a + 1 <= k
        /\ a + 1 < k => Remain(Tail(c2s), csdo.data, p, a + 1, k, TRUE)
        /\ a + 1 = k => Tail(c2s) = <<>>
    BY <1>0, <1>1, <1>2, RemainReads, Zenon
  <2> QED
    BY <2>1, <2>2, Zenon
<1>5. DnNumbers(a, k, CO_SSDO_MAX_SEQNO, size, p, csdo.pos)
  <2>1. size - p \in Nat
    BY <1>0, <1>1
  <2>2. PICK left0 \in Nat : left0 = size - p
    BY <2>1, Zenon
  <2>3. PICK sg \in Nat : sg = Segments(left0) /\ 7 * sg >= left0 /\ 7 * sg <= left0 + 6
    BY SegmentsBounds
  <2>4. k = Lesser(sg, CO_SSDO_MAX_SEQNO) /\ csdo.pos = Lesser(p + k * 7, size)
    BY <2>2, <2>3, Zenon DEF DnBlock, SegBytes
  <2>5. 7 * sg >= size - p /\ 7 * sg <= size - p + 6
    BY <2>2, <2>3, Zenon
  <2>6. PICK z \in Nat, i \in Nat, max \in 1..127 : z = size /\ i = a /\ max = CO_SSDO_MAX_SEQNO
    BY <1>1, <1>2, <1>3
  <2>7. /\ p \in 0..(z - 1) /\ 7 * sg >= z - p /\ 7 * sg <= z - p + 6 /\ k = Lesser(sg, max) /\ i + 1 <= k
        /\ csdo.pos = Lesser(p + k * 7, z)
    BY <1>0, <1>4, <2>4, <2>5, <2>6, Zenon
  <2> HIDE DEF k
  <2>8. DnNumbers(i, k, max, z, p, csdo.pos)
    BY <2>7, DnBlockArith
  <2> QED
    BY <2>6, <2>8, Zenon
<1>6. /\ left \in Nat \ {0} /\ at \in Nat /\ n \in 1..7 /\ at + n <= size
      /\ (left > 7 => n = 7) /\ (left <= 7 => n = left /\ at + n = size)
      /\ k \in 1..127 /\ a \in 0..(k - 1) /\ 7 * k <= size - p + 6 /\ a + 1 \in 1..CO_SSDO_MAX_SEQNO
  BY <1>5, Zenon DEF DnNumbers
<1>7. a + 1 < k => left > 7 /\ a + 1 # CO_SSDO_MAX_SEQNO /\ at + n = p + (a + 1) * 7
  BY <1>5, Zenon DEF DnNumbers
<1>8. a + 1 = k => /\ left <= 7 => csdo.pos = size
                   /\ left > 7 => a + 1 = CO_SSDO_MAX_SEQNO /\ csdo.pos = at + n /\ csdo.pos # size
  BY <1>5, Zenon DEF DnNumbers
<1>9. /\ SeqNo(m) = a + 1 /\ (last <=> left <= 7) /\ ~IsAbortByte(m)
      /\ m.data = SubSeq(csdo.data, at + 1, at + n) /\ m.data \in Seq(Byte) /\ Len(m.data) = n
  <2> HIDE DEF m, last
  <2>1. PICK i \in Nat, j \in 1..127, pos \in Nat, bytes \in Seq(Byte) :
          i = a /\ j = k /\ pos = p /\ bytes = csdo.data
    <3>1. p \in Nat
      BY <1>0, <1>1
    <3> QED
      BY <1>1, <1>2, <1>6, <3>1, ZenonT(60)
  <2>2. i \in 0..(j - 1) /\ 7 * j <= Len(bytes) - pos + 6 /\ m = BlockSegment(bytes, pos, i + 1, TRUE)
    BY <1>1, <1>4, <1>6, <2>1, Zenon
  <2>3. SegmentRead(m, bytes, pos, i, TRUE)
    BY <2>2, SegmentReads
  <2> QED
    BY <1>1, <2>1, <2>3, Zenon DEF SegmentRead, last
<1> HIDE DEF last
<1>10. Padded(m.data, n) = m.data
  BY <1>9, PaddedSame, Zenon
<1>11. IF last THEN Reply(u, ack) ELSE co_ssdo_dn_ind(s, u, ack)
  <2> DEFINE next == SeqNo(m) = ssdo.ackseq + 1
             at0  == ssdo.off + Len(ssdo.seg)
             n0   == Lesser(ssdo.size - at0, SegBytes)
             s0   == IF next THEN [ssdo EXCEPT !.ackseq = @ + 1, !.off = at0,
                                               !.seg = Padded(m.data, n0)]
                             ELSE ssdo
             t0   == IF next /\ ~IsLastSeq(m)
                     THEN [s0 EXCEPT !.crc = IF s0.gencrc THEN co_crc(@, s0.seg) ELSE @,
                                     !.membuf = DnBuf(s0)]
                     ELSE s0
             ack0 == IF eob THEN <<Frame(32 * SCS_BLK_DN + SC_BLK_RES, NoIdx,
                                         Blk(s0.ackseq, s0.blksize), <<>>)>>
                            ELSE <<>>
             u0   == ArmServer([t0 EXCEPT !.ackseq = IF eob THEN 0 ELSE @,
                                          !.state = IF IsLastSeq(m) THEN "blk_dn_end" ELSE @])
             A    == co_ssdo_dn_ind(s0, u0, ack0)
             B    == Reply(u0, ack0)
             C    == Reply(co_ssdo_abort_ind(ssdo), <<>>)
  <2>1. co_ssdo_blk_dn_sub_on_recv(m)
    BY <1>2 DEF co_ssdo_recv, m
  <2>2. (CASE IsAbortByte(m) -> C
          [] ~IsAbortByte(m) /\ SeqNo(m) \notin 1..ssdo.blksize -> co_ssdo_abort_res(ssdo, "BLK_SEQ")
          [] ~IsAbortByte(m) /\ SeqNo(m) \in 1..ssdo.blksize /\ next /\ ~IsLastSeq(m) /\ n0 < SegBytes ->
               co_ssdo_abort_res(ssdo, "TYPE_LEN_HI")
          [] OTHER -> IF ~IsLastSeq(m) /\ (next \/ eob) THEN A ELSE B)
    BY <2>1, Zenon DEF co_ssdo_blk_dn_sub_on_recv
  <2>3. at0 = at /\ n0 = n /\ next
    BY <1>2, <1>9, Zenon DEF SegBytes
  <2>4. s0 = s
    BY <1>10, <2>3, Zenon
  <2>5. SeqNo(m) \in 1..ssdo.blksize /\ ~(~IsLastSeq(m) /\ n0 < SegBytes)
    <3>1. \A x, y \in Nat : ~(x <= 7) /\ (x > 7 => y = 7) => ~(y < 7)
      OBVIOUS
    <3>2. \A x \in 1..7 : x \in Nat
      OBVIOUS
    <3>3. \A x \in Nat \ {0} : x \in Nat
      OBVIOUS
    <3> HIDE DEF n, left
    <3> QED
      BY <1>2, <1>6, <1>9, <2>3, <3>1, <3>2, <3>3 DEF SegBytes, last
  <2>6. IF ~IsLastSeq(m) THEN A ELSE B
    <3> HIDE DEF A, B, C, n0, next
    <3> QED
      BY <1>9, <2>2, <2>3, <2>5
  <2>7. t0 = t
    <3>1. s.gencrc = TRUE
      BY <1>2 DEF ServerData, ServerRecord
    <3> HIDE DEF s, s0, next
    <3> QED
      BY <2>3, <2>4, <3>1, Zenon DEF last, co_crc
  <2> HIDE DEF s, s0, t, t0, eob, next
  <2>8. u0 = u /\ ack0 = ack
    BY <2>4, <2>7, Zenon DEF last
  <2> HIDE DEF u0, u, ack0, ack
  <2> QED
    BY <2>4, <2>6, <2>8, Zenon DEF last
<1>12. /\ ServerData(s) /\ s.ackseq = a + 1 /\ s.off = at /\ s.seg = m.data /\ s.size = size
       /\ s.idx = ssdo.idx /\ s.gencrc /\ s.crc = ssdo.crc /\ s.membuf = ssdo.membuf
       /\ s.blksize = CO_SSDO_MAX_SEQNO /\ s.state = "blk_dn_sub"
  <2>1. a + 1 \in Nat
    BY <1>2
  <2> HIDE DEF a, at, m
  <2> QED
    BY <1>2, <1>6, <1>9, <2>1 DEF ServerData, ServerRecord
<1>13. DnAc(s) = "OK" /\ s.off <= Len(s.membuf)
  <2> HIDE DEF s
  <2>1. s.off <= Len(s.membuf)
    BY <1>2, <1>6, <1>12
  <2> QED
    BY <1>2, <1>12, <2>1, DnAcOk
<1>14. eob <=> a + 1 = CO_SSDO_MAX_SEQNO \/ last
  BY <1>2, <1>9 DEF EndOfBlock, last
<1>15. f \in AnyFrame /\ (a + 1 = k /\ eob => ack = <<f>>)
  <2>1. 32 * SCS_BLK_DN + SC_BLK_RES \in Nat
    BY DEF SCS_BLK_DN, SC_BLK_RES
  <2>2. Blk(k, CO_SSDO_MAX_SEQNO) \in Arg
    <3>1. CO_SSDO_MAX_SEQNO \in Nat
      BY <1>3
    <3> QED
      BY <1>1, <3>1, ArgTypes, Zenon
  <2>3. f \in AnyFrame
    BY <2>1, <2>2, NoIdxType, EmptyAnyFrame
  <2> HIDE DEF s, eob
  <2>4. a + 1 = k /\ eob => ack = <<f>>
    BY <1>12, Zenon
  <2> QED
    BY <2>3, <2>4, Zenon
<1>16. /\ u.state = (IF last THEN "blk_dn_end" ELSE "blk_dn_sub") /\ u.ackseq = (IF eob THEN 0 ELSE a + 1)
       /\ u.idx = ssdo.idx /\ u.size = size /\ u.gencrc /\ u.blksize = CO_SSDO_MAX_SEQNO
       /\ u.off = at /\ u.seg = m.data
       /\ u.crc = (IF last THEN ssdo.crc ELSE ssdo.crc \o m.data)
       /\ u.membuf = (IF last THEN ssdo.membuf ELSE DnBuf(s))
  <2> HIDE DEF s, eob, a, at, m, size
  <2>1. /\ t \in ServerRecord /\ t.state = "blk_dn_sub" /\ t.ackseq = a + 1
        /\ t.idx = ssdo.idx /\ t.size = size /\ t.gencrc /\ t.blksize = CO_SSDO_MAX_SEQNO
        /\ t.off = at /\ t.seg = m.data
        /\ t.crc = (IF last THEN ssdo.crc ELSE ssdo.crc \o m.data)
        /\ t.membuf = (IF last THEN ssdo.membuf ELSE DnBuf(s))
    <3>1. CASE last
      BY <1>12, <3>1 DEF ServerData
    <3>2. CASE ~last
      <4> DEFINE crc == s.crc \o s.seg
                 mb  == DnBuf(s)
      <4>1. crc \in Seq(Byte) /\ mb \in Seq(Byte) /\ crc = ssdo.crc \o m.data
        BY <1>12, <1>13, ServerFields, ConcatProperties, DnBufType
      <4>2. t = [s EXCEPT !.crc = crc, !.membuf = mb]
        BY <3>2
      <4> HIDE DEF crc, mb, t
      <4>3. /\ t \in ServerRecord /\ t.state = "blk_dn_sub" /\ t.ackseq = a + 1
            /\ t.idx = ssdo.idx /\ t.size = size /\ t.gencrc /\ t.blksize = CO_SSDO_MAX_SEQNO
            /\ t.off = at /\ t.seg = m.data /\ t.crc = crc /\ t.membuf = mb
        BY <1>12, <4>1, <4>2 DEF ServerData, ServerRecord
      <4> QED
        BY <3>2, <4>1, <4>3, Zenon DEF mb
    <3> QED
      BY <3>1, <3>2
  <2> HIDE DEF t
  <2> QED
    BY <2>1 DEF ArmServer, ServerRecord
<1>17. ~last => /\ Len(u.membuf) = at + n /\ u.off + Len(u.seg) = at + n
                /\ u.crc = SubSeq(csdo.data, 1, at + n)
  <2>0. n \in Nat
    <3>1. \A x \in 1..7 : x \in Nat
      OBVIOUS
    <3> QED
      BY <1>6, <3>1, Zenon
  <2>1. SubSeq(csdo.data, 1, at) \o SubSeq(csdo.data, at + 1, at + n) = SubSeq(csdo.data, 1, at + n)
    <3> HIDE DEF at, n
    <3> QED
      BY <1>1, <1>6, <2>0, PrefixGrows, ZenonT(60)
  <2> HIDE DEF s, u, at, n
  <2>2. Len(DnBuf(s)) = at + n
    BY <1>9, <1>12, <1>13, DnBufType
  <2> QED
    BY <1>2, <1>9, <1>16, <2>1, <2>2
<1> HIDE DEF m, s, u, t, ack, f, eob
<1>18. CASE a + 1 < k
  <2>1. ~last /\ ~eob /\ at + n = p + (a + 1) * 7
    <3>1. ~(left <= 7)
      <4>1. \A x \in Nat \ {0} : x > 7 => ~(x <= 7)
        OBVIOUS
      <4> QED
        BY <1>6, <1>7, <1>18, <4>1, Zenon
    <3> QED
      BY <1>7, <1>9, <1>14, <1>18, <3>1, Zenon
  <2>2. ssdo' = u /\ s2c' = <<>>
    <3>1. ack = <<>> /\ <<>> \in Seq(AnyFrame)
      BY <2>1, EmptySeq DEF ack
    <3> QED
      BY <1>0, <1>11, <1>13, <2>1, <3>1, SentFirst DEF co_ssdo_dn_ind
  <2>3. u.ackseq = a + 1 /\ u.state = "blk_dn_sub"
    BY <1>16, <2>1, Zenon
  <2>4. StoredBlk(u, csdo, p + u.ackseq * SegBytes)
    <3>1. p + u.ackseq * SegBytes = at + n
      BY <2>1, <2>3, Zenon DEF SegBytes
    <3> QED
      BY <1>2, <1>16, <1>17, <2>1, <2>3, <3>1, Zenon DEF StoredBlk
  <2>5. Remain(c2s', csdo.data, p, u.ackseq, csdo.blksize, TRUE)
    BY <1>4, <1>18, <2>3, Zenon
  <2>6. BlkDownloading(csdo, u, c2s', <<>>)
    <3>1. /\ csdo.blksize = Lesser(Segments(csdo.size - p), CO_SSDO_MAX_SEQNO)
          /\ csdo.pos = Lesser(p + csdo.blksize * SegBytes, csdo.size)
      BY Zenon DEF DnBlock
    <3> QED
      BY <1>0, <2>4, <2>5, <3>1, Zenon DEF BlkDownloading
  <2> QED
    BY <2>2, <2>6 DEF ServerAgrees, Agree
<1>19. CASE a + 1 = k
  <2>0. last \/ left > 7
    <3>1. \A x \in Nat \ {0} : x > 7 \/ x <= 7
      OBVIOUS
    <3> QED
      BY <1>6, <1>9, <3>1, Zenon
  <2>1. eob /\ ack = <<f>> /\ c2s' = <<>>
    BY <1>4, <1>8, <1>14, <1>15, <1>19, <2>0, Zenon
  <2>2. ssdo' = u /\ s2c' = <<f>>
    <3>1. CASE last
      BY <1>0, <1>11, <1>15, <2>1, <3>1, OneReply
    <3>2. CASE ~last
      BY <1>0, <1>11, <1>13, <1>15, <2>1, <3>2, DnIndFirst
    <3> QED
      BY <3>1, <3>2
  <2>3. IF csdo.pos = csdo.size THEN StoredAll(u, csdo) ELSE StoredBlk(u, csdo, csdo.pos) /\ u.ackseq = 0
    <3>1. CASE last
      <4>1. csdo.pos = size /\ n = left /\ at + n = size
        BY <1>6, <1>8, <1>9, <1>19, <3>1, Zenon
      <4>2. u.crc \o u.seg = csdo.data
        <5>1. SubSeq(csdo.data, 1, at) \o SubSeq(csdo.data, at + 1, at + n) = SubSeq(csdo.data, 1, at + n)
          <6>1. n \in Nat
            <7>1. \A x \in 1..7 : x \in Nat
              OBVIOUS
            <7> QED
              BY <1>6, <7>1, Zenon
          <6> HIDE DEF at, n
          <6> QED
            BY <1>1, <1>6, <6>1, PrefixGrows
        <5>2. SubSeq(csdo.data, 1, Len(csdo.data)) = csdo.data
          BY <1>1, SubSeqFull
        <5> QED
          BY <1>1, <1>2, <1>9, <1>16, <3>1, <4>1, <5>1, <5>2, Zenon
      <4>3. u.off + Len(u.seg) = size /\ u.off <= Len(u.membuf) /\ u.state = "blk_dn_end"
        <5>1. at <= at
          <6> HIDE DEF at
          <6> QED
            BY <1>6
        <5> QED
          BY <1>2, <1>9, <1>16, <3>1, <4>1, <5>1, Zenon
      <4> QED
        BY <1>2, <1>16, <4>1, <4>2, <4>3, Zenon DEF StoredAll
    <3>2. CASE ~last
      <4>1. csdo.pos = at + n /\ csdo.pos # size
        BY <1>8, <1>19, <2>0, <3>2, Zenon
      <4>2. u.ackseq = 0 /\ u.state = "blk_dn_sub"
        BY <1>16, <2>1, <3>2, Zenon
      <4> QED
        BY <1>2, <1>16, <1>17, <3>2, <4>1, <4>2, Zenon DEF StoredBlk
    <3> QED
      BY <3>1, <3>2
  <2>4. BlkDownloading(csdo, u, <<>>, <<f>>)
    BY <1>0, <2>3, Zenon DEF BlkDownloading, f
  <2> QED
    BY <2>1, <2>2, <2>4 DEF ServerAgrees, Agree
<1> QED
  BY <1>1, <1>2, <1>4, <1>18, <1>19

LEMMA BlkDownloadingServer ==
  ASSUME ClientTyped, ServerTyped, BlkDownloading(csdo, ssdo, c2s, s2c), co_ssdo_recv
  PROVE  ServerAgrees
<1>1. c2s # <<>>
  BY DEF co_ssdo_recv
<1>2. CASE /\ csdo.state = "blk_dn_ini" /\ csdo.pos = 0 /\ Fresh(ssdo) /\ s2c = <<>>
           /\ c2s = <<Frame(BlkIniByte(CCS_BLK_DN, TRUE), csdo.idx, Num(csdo.size), <<>>)>>
  <2>1. PICK m : m = Frame(BlkIniByte(CCS_BLK_DN, TRUE), csdo.idx, Num(csdo.size), <<>>)
    OBVIOUS
  <2>2. Head(c2s) = m /\ c2s' = <<>>
    BY <1>2, <2>1, OneFrame DEF co_ssdo_recv
  <2>3. co_ssdo_wait_on_recv(m)
    BY <1>2, <2>2 DEF co_ssdo_recv, Fresh
  <2> QED
    BY <1>2, <2>1, <2>2, <2>3, BlkDnIniAgrees
<1>3. CASE /\ csdo.state = "blk_dn_sub" /\ csdo.crc /\ s2c = <<>>
           /\ \E p \in 0..(csdo.size - 1) :
                /\ csdo.blksize = Lesser(Segments(csdo.size - p), CO_SSDO_MAX_SEQNO)
                /\ csdo.pos = Lesser(p + csdo.blksize * SegBytes, csdo.size)
                /\ StoredBlk(ssdo, csdo, p + ssdo.ackseq * SegBytes)
                /\ Remain(c2s, csdo.data, p, ssdo.ackseq, csdo.blksize, TRUE)
  <2>1. PICK p : DnBlock(p)
    BY <1>3, Zenon DEF DnBlock
  <2> QED
    BY <2>1, BlkDnSegment
<1>4. CASE /\ csdo.state = "blk_dn_end" /\ s2c = <<>> /\ StoredAll(ssdo, csdo)
           /\ c2s = <<Frame(BlkEndByte(CCS_BLK_DN, LastBytes(csdo.size)), NoIdx,
                            [NoArg EXCEPT !.crc = csdo.data], <<>>)>>
  <2>1. PICK m : m = Frame(BlkEndByte(CCS_BLK_DN, LastBytes(csdo.size)), NoIdx,
                           [NoArg EXCEPT !.crc = csdo.data], <<>>)
    OBVIOUS
  <2>2. Head(c2s) = m /\ c2s' = <<>>
    BY <1>4, <2>1, OneFrame DEF co_ssdo_recv
  <2>3. co_ssdo_blk_dn_end_on_recv(m)
    BY <1>4, <2>2 DEF co_ssdo_recv, StoredAll
  <2> QED
    BY <1>4, <2>1, <2>2, <2>3, BlkDnEndAgrees
<1> QED
  BY <1>1, <1>2, <1>3, <1>4, Zenon DEF BlkDownloading

-----------------------------------------------------------------------------
(* A step of the server in a block upload                                  *)

LEMMA BlkUpIniAgrees ==
  ASSUME ClientTyped, ServerTyped, BlkUpIni(csdo), Fresh(ssdo), s2c = <<>>, c2s' = <<>>,
         NEW m, m = BlkUpIniReq(csdo), co_ssdo_wait_on_recv(m)
  PROVE  ServerAgrees
<1> DEFINE e == co_sdo_req_clear(ssdo)
           q == [e EXCEPT !.gencrc = HasCrc(m), !.idx = m.idx, !.blksize = m.arg.blksize]
           s == co_ssdo_up_ind(q)
           u == ArmServer([s EXCEPT !.state = "blk_up_sub"])
           f == Frame(BlkIniByte(SCS_BLK_UP, TRUE) - (IF s.gencrc THEN 0 ELSE 4), s.idx, Num(s.size), <<>>)
           h == Frame(BlkIniByte(SCS_BLK_UP, TRUE), csdo.idx, Num(s.size), <<>>)
<1>1. /\ UpIni(csdo) /\ csdo.state = "blk_up_ini" /\ csdo.blksize \in 1..CO_SDO_MAX_SEQNO /\ csdo.blksize \in Nat
      /\ csdo.idx \in Indices /\ csdo.pst \in Nat
  BY UpFacts DEF BlkUpIni, UpStates
<1>2. m.cs = 164 /\ m.idx = csdo.idx /\ m.arg.blksize = csdo.blksize /\ m.arg.num = csdo.pst
  BY FrameParts, ArgParts DEF BlkUpIniReq, BlkIniByte, CCS_BLK_UP, SC_INI_BLK
<1>3. Cs(m) = CCS_BLK_UP /\ Sc(m) = SC_INI_BLK /\ HasCrc(m) = TRUE
  <2>1. HasCrc(m) \in BOOLEAN
    BY DEF HasCrc
  <2>2. Cs(m) = SCS_BLK_DN /\ Sc(m) = SC_INI_BLK /\ HasCrc(m)
    BY <1>2, CommandParts
  <2> QED
    BY <2>1, <2>2 DEF SCS_BLK_DN, CCS_BLK_UP
<1>4. /\ ServerData(q) /\ q.idx = csdo.idx /\ q.blksize = csdo.blksize /\ q.gencrc /\ q.toggle = 0
      /\ q.crc = <<>> /\ q.buf = <<>>
  <2>1. ServerData(e) /\ e.toggle = 0 /\ e.crc = <<>> /\ e.buf = <<>>
    BY ClearedServer
  <2>2. q = [e EXCEPT !.gencrc = TRUE, !.idx = csdo.idx, !.blksize = csdo.blksize]
    <3> HIDE DEF e
    <3> QED
      BY <1>2, <1>3
  <2> HIDE DEF e, q
  <2> QED
    BY <1>1, <2>1, <2>2 DEF ServerData, ServerRecord
<1>5. \/ q.blksize \notin 1..CO_SSDO_MAX_SEQNO /\ co_ssdo_abort_res(q, "BLK_SIZE")
      \/ co_ssdo_abort_res(q, "NO_OBJ")
      \/ q.blksize \in 1..CO_SSDO_MAX_SEQNO /\ m.idx \in Objects /\ ((s.size <= 4 /\ UpExpedited(s)) \/ UpSegmented(s))
      \/ q.blksize \in 1..CO_SSDO_MAX_SEQNO /\ m.idx \in Objects /\ Reply(u, <<f>>)
  <2>1. co_ssdo_blk_up_ini_on_recv(m)
    BY <1>3, BlkWaiting
  <2> QED
    BY <1>3, <2>1, Zenon DEF co_ssdo_blk_up_ini_on_recv
<1> HIDE DEF q
<1>6. CASE q.blksize \notin 1..CO_SSDO_MAX_SEQNO /\ co_ssdo_abort_res(q, "BLK_SIZE")
  <2>1. csdo.blksize > 1
    BY <1>1, <1>4, <1>6, SdoAssumption
  <2>2. AbortFrame(csdo.idx, "BLK_SIZE") \in AnyFrame
    BY <1>1, AbortFrameType DEF AbortCodes
  <2>3. ssdo' = co_ssdo_abort_ind(q) /\ s2c' = <<AbortFrame(csdo.idx, "BLK_SIZE")>>
    BY <1>4, <1>6, <2>2, OneReply DEF co_ssdo_abort_res
  <2>4. Fresh(ssdo')
    BY <1>4, <2>3, AbortIndFresh
  <2>5. BlkUploading(csdo, ssdo', <<>>, <<AbortFrame(csdo.idx, "BLK_SIZE")>>)
    BY <2>1, <2>4, Zenon DEF BlkUploading
  <2> QED
    BY <2>3, <2>5 DEF ServerAgrees, Agree
<1>7. CASE co_ssdo_abort_res(q, "NO_OBJ")
  BY <1>1, <1>4, <1>7, ServerRefuses DEF AccessErrors
<1>8. ASSUME m.idx \in Objects
      PROVE  /\ ServerData(s) /\ s.idx = csdo.idx /\ s.size = Len(s.seg) /\ s.size > 0 /\ s.nbyte = 0 /\ s.off = 0
             /\ s.toggle = 0 /\ s.gencrc /\ s.crc = <<>> /\ s.buf = <<>> /\ s.blksize = csdo.blksize
  BY <1>2, <1>4, <1>8, UpIndType
<1> HIDE DEF s
<1>9. CASE m.idx \in Objects /\ ((s.size <= 4 /\ UpExpedited(s)) \/ UpSegmented(s))
  BY <1>1, <1>8, <1>9, UpAnswers
<1>10. CASE q.blksize \in 1..CO_SSDO_MAX_SEQNO /\ m.idx \in Objects /\ Reply(u, <<f>>)
  <2>1. f = h /\ h \in AnyFrame
    <3>1. BlkIniByte(SCS_BLK_UP, TRUE) - (IF s.gencrc THEN 0 ELSE 4) = BlkIniByte(SCS_BLK_UP, TRUE)
          /\ BlkIniByte(SCS_BLK_UP, TRUE) \in Nat
      BY <1>8, <1>10 DEF BlkIniByte, SCS_BLK_UP, SC_INI_BLK
    <3>2. s.size \in Nat
      BY <1>8, <1>10, ServerFields
    <3> QED
      BY <1>1, <1>8, <1>10, <3>1, <3>2, ArgTypes, EmptyAnyFrame
  <2>2. /\ u.state = "blk_up_sub" /\ u.size = s.size /\ u.seg = s.seg /\ u.nbyte = 0 /\ u.off = 0
        /\ u.gencrc /\ u.crc = <<>> /\ u.buf = <<>> /\ u.blksize = csdo.blksize
    BY <1>8, <1>10 DEF ArmServer, ServerData, ServerRecord
  <2> HIDE DEF u
  <2>3. ssdo' = u /\ s2c' = <<h>>
    <3> HIDE DEF f, h
    <3> QED
      BY <1>10, <2>1, OneReply
  <2>4. FetchedNone(u, csdo)
    <3>1. SubSeq(u.seg, 1, 0) = <<>>
      BY SubSeqEmpty
    <3>2. csdo.blksize \in 1..CO_SSDO_MAX_SEQNO
      BY <1>4, <1>10, Zenon
    <3> QED
      BY <1>8, <1>10, <2>2, <3>1, <3>2 DEF FetchedNone, FetchedBlk
  <2>5. h = Frame(BlkIniByte(SCS_BLK_UP, TRUE), csdo.idx, Num(u.size), <<>>)
    BY <2>2, Zenon
  <2> HIDE DEF h
  <2>6. BlkUploading(csdo, u, <<>>, <<h>>)
    BY <2>4, <2>5, Zenon DEF BlkUploading
  <2> QED
    BY <2>3, <2>6 DEF ServerAgrees, Agree
<1> QED
  BY <1>5, <1>6, <1>7, <1>9, <1>10

\* The server has dropped what was acknowledged and goes on as f.
Filling(f) ==
  /\ ServerData(f) /\ f.state = "blk_up_sub" /\ f.size = Len(f.seg) /\ f.size > 0 /\ f.gencrc
  /\ f.nbyte <= Len(f.seg) /\ f.crc = SubSeq(f.seg, 1, f.nbyte) /\ f.buf = <<>>
  /\ f.blksize = csdo.blksize /\ csdo.blksize \in 1..CO_SSDO_MAX_SEQNO
  /\ csdo.crc /\ csdo.size = f.size /\ csdo.ackseq = 0 /\ csdo.rx = SubSeq(f.seg, 1, f.nbyte)
  /\ csdo.state = IF UpDone(f) THEN "blk_up_end" ELSE "blk_up_sub"

\* It sends the next block, or the end request.
SendsOn(f) ==
  LET room == f.blksize * SegBytes - Len(f.buf)
      g    == co_ssdo_up_buf(f, room)
      s    == IF room > 0
              THEN [g EXCEPT !.blksize = (Len(g.buf) + SegBytes - 1) \div SegBytes]
              ELSE f
  IN  IF s.blksize > 0
      THEN Reply(ArmServer(s), BlockOf(s.buf, 0, s.blksize, UpDone(s)))
      ELSE Reply(ArmServer([s EXCEPT !.state = "blk_up_end"]),
                 <<Frame(BlkEndByte(SCS_BLK_UP, LastBytes(s.size)), NoIdx, [NoArg EXCEPT !.crc = s.crc], <<>>)>>)

\* The arithmetic of a block of up to b segments after the first nb of size bytes.
FillNumbers(b, size, nb) ==
  LET h  == Lesser(b * 7, size - nb)
      sg == Segments(h)
  IN  /\ h \in Nat /\ nb + h \in Nat /\ nb + h <= size /\ sg \in Nat /\ sg <= b
      /\ sg > 0 <=> nb # size
      /\ sg = 0 => h = 0
      /\ nb + h # size => h = 7 * b /\ sg = b

LEMMA FillArith ==
  ASSUME NEW b \in 1..127, NEW size \in Nat, NEW nb \in 0..size
  PROVE  FillNumbers(b, size, nb)
<1> DEFINE h == Lesser(b * 7, size - nb)
<1>1. h = IF b * 7 < size - nb THEN b * 7 ELSE size - nb
  BY DEF Lesser
<1> HIDE DEF h
<1>2. h \in Nat /\ nb + h \in Nat /\ nb + h <= size /\ h <= b * 7 /\ (h = 0 <=> nb = size)
      /\ (nb + h # size => h = b * 7)
  BY <1>1
<1>3. PICK sg \in Nat : sg = Segments(h) /\ 7 * sg >= h /\ 7 * sg <= h + 6
  BY <1>2, SegmentsBounds
<1>4. sg <= b /\ (sg > 0 <=> h # 0) /\ (sg = 0 => h = 0) /\ (h = b * 7 => sg = b)
  BY <1>2, <1>3
<1>5. \A x \in 1..127 : x * 7 = 7 * x
  OBVIOUS
<1> QED
  BY <1>2, <1>3, <1>4, <1>5, Zenon DEF FillNumbers, h

LEMMA UpFills ==
  ASSUME ClientTyped, NEW f, Filling(f), s2c = <<>>, c2s' = <<>>, SendsOn(f)
  PROVE  ServerAgrees
<1> DEFINE b     == csdo.blksize
           nb    == f.nbyte
           size  == Len(f.seg)
           k     == Lesser(b * 7, size - nb)
           bytes == Segment(f.seg, nb, k)
           g     == co_ssdo_up_buf(f, b * 7)
           sg    == Segments(k)
           s     == [g EXCEPT !.blksize = sg]
           u     == ArmServer(s)
           w     == ArmServer([s EXCEPT !.state = "blk_up_end"])
           block == BlockOf(s.buf, 0, s.blksize, UpDone(s))
           h     == Frame(BlkEndByte(SCS_BLK_UP, LastBytes(s.size)), NoIdx, [NoArg EXCEPT !.crc = s.crc], <<>>)
<1>1. /\ ServerData(f) /\ f.state = "blk_up_sub" /\ f.size = size /\ size \in Nat \ {0} /\ f.gencrc
      /\ nb \in 0..size /\ nb \in Nat /\ f.seg \in Seq(Byte)
      /\ f.crc = SubSeq(f.seg, 1, nb) /\ f.buf = <<>> /\ f.blksize = b
  <2>1. ServerData(f) /\ nb <= size /\ f.size = size /\ size > 0
    BY DEF Filling
  <2>2. nb \in Nat /\ size \in Nat /\ f.seg \in Seq(Byte)
    BY <2>1, ServerFields
  <2>3. nb \in 0..size
    <3> HIDE DEF nb, size
    <3> QED
      BY <2>1, <2>2
  <2> HIDE DEF nb, size
  <2> QED
    BY <2>1, <2>2, <2>3 DEF Filling, nb, size
<1>2. /\ b \in 1..CO_SSDO_MAX_SEQNO /\ b \in 1..127 /\ csdo.crc /\ csdo.size = size /\ csdo.ackseq = 0
      /\ csdo.rx = SubSeq(f.seg, 1, nb)
      /\ csdo.state = IF UpDone(f) THEN "blk_up_end" ELSE "blk_up_sub"
  <2>1. /\ b \in 1..CO_SSDO_MAX_SEQNO /\ csdo.crc /\ csdo.size = size /\ csdo.ackseq = 0
        /\ csdo.rx = SubSeq(f.seg, 1, nb)
        /\ csdo.state = IF UpDone(f) THEN "blk_up_end" ELSE "blk_up_sub"
    BY Zenon DEF Filling
  <2> QED
    BY <2>1, SeqnoBounds, Zenon
<1>3. FillNumbers(b, size, nb)
  <2>1. PICK i \in 1..127, z \in Nat, j \in Nat : i = b /\ z = size /\ j = nb
    BY <1>1, <1>2
  <2>2. j \in 0..z
    BY <1>1, <2>1, Zenon
  <2>3. FillNumbers(i, z, j)
    BY <2>2, FillArith
  <2> QED
    BY <2>1, <2>3, Zenon
<1>4. /\ k \in Nat /\ nb + k \in Nat /\ nb + k <= size /\ sg \in Nat /\ sg <= b
      /\ (sg > 0 <=> nb # size) /\ (sg = 0 => k = 0) /\ (nb + k # size => k = 7 * b /\ sg = b)
  BY <1>3, Zenon DEF FillNumbers
<1>5. /\ ServerData(g) /\ bytes \in Seq(Byte) /\ Len(bytes) = k /\ g.nbyte = nb + k /\ g.buf = bytes
      /\ g.crc = f.crc \o bytes /\ g.seg = f.seg /\ g.state = "blk_up_sub" /\ g.size = size /\ g.gencrc
  <2>1. b * 7 \in Nat /\ nb <= size
    BY <1>1, <1>2
  <2>2. /\ ServerData(g) /\ bytes \in Seq(Byte) /\ Len(bytes) = k /\ g.nbyte = nb + k
        /\ g.buf = f.buf \o bytes /\ g.crc = (IF f.gencrc THEN f.crc \o bytes ELSE f.crc)
        /\ g.seg = f.seg /\ g.state = f.state /\ g.size = f.size /\ g.gencrc = f.gencrc
    <3> DEFINE room == b * 7
    <3> HIDE DEF room
    <3>1. room \in Nat
      BY <2>1 DEF room
    <3>2. LET k0     == Lesser(room, Len(f.seg) - f.nbyte)
              bytes0 == Segment(f.seg, f.nbyte, k0)
              u0     == co_ssdo_up_buf(f, room)
          IN  /\ ServerData(u0) /\ bytes0 \in Seq(Byte) /\ Len(bytes0) = k0
              /\ u0.nbyte = f.nbyte + k0 /\ u0.buf = f.buf \o bytes0
              /\ u0.crc = (IF f.gencrc THEN f.crc \o bytes0 ELSE f.crc)
              /\ u0.seg = f.seg /\ u0.state = f.state /\ u0.size = f.size /\ u0.gencrc = f.gencrc
      <4>1. ServerData(f) /\ f.nbyte <= Len(f.seg)
        BY <1>1, <2>1
      <4> QED
        BY <3>1, <4>1, UpBufType
    <3> QED
      BY <3>2, Zenon DEF room
  <2> HIDE DEF g, bytes, k, nb, size
  <2>3. f.buf \o bytes = bytes
    BY <1>1, <2>2, ConcatEmptySeq
  <2> QED
    BY <1>1, <2>2, <2>3
<1>6. IF s.blksize > 0 THEN Reply(u, block) ELSE Reply(w, <<h>>)
  <2> DEFINE room == f.blksize * SegBytes - Len(f.buf)
             g0   == co_ssdo_up_buf(f, room)
             s0   == IF room > 0
                     THEN [g0 EXCEPT !.blksize = (Len(g0.buf) + SegBytes - 1) \div SegBytes]
                     ELSE f
  <2>1. room = b * 7 /\ room > 0
    <3>1. Len(f.buf) = 0
      BY <1>1, EmptySeq
    <3>2. \A x \in 1..127 : x * 7 - 0 = x * 7 /\ x * 7 > 0
      OBVIOUS
    <3> QED
      BY <1>1, <1>2, <3>1, <3>2, Zenon DEF SegBytes
  <2>2. g0 = g
    BY <2>1, Zenon
  <2>3. s0 = s
    <3>1. (Len(g.buf) + SegBytes - 1) \div SegBytes = sg
      BY <1>5, Zenon DEF Segments
    <3> HIDE DEF g, g0, room, sg
    <3> QED
      BY <2>1, <2>2, <3>1, Zenon
  <2>4. IF s0.blksize > 0
        THEN Reply(ArmServer(s0), BlockOf(s0.buf, 0, s0.blksize, UpDone(s0)))
        ELSE Reply(ArmServer([s0 EXCEPT !.state = "blk_up_end"]),
                   <<Frame(BlkEndByte(SCS_BLK_UP, LastBytes(s0.size)), NoIdx, [NoArg EXCEPT !.crc = s0.crc], <<>>)>>)
    BY Zenon DEF SendsOn
  <2> HIDE DEF s0, s
  <2> QED
    BY <2>3, <2>4, Zenon
<1> HIDE DEF sg
<1>7. /\ ServerData(s) /\ s.nbyte = nb + k /\ s.buf = bytes /\ s.crc = f.crc \o bytes /\ s.seg = f.seg
      /\ s.state = "blk_up_sub" /\ s.size = size /\ s.gencrc /\ s.blksize = sg
  <2> HIDE DEF g, bytes, k, nb, size
  <2> QED
    BY <1>4, <1>5 DEF ServerData, ServerRecord
<1>8. /\ bytes = SubSeq(f.seg, nb + 1, nb + k) /\ f.crc \o bytes = SubSeq(f.seg, 1, nb + k)
  <2>1. bytes = SubSeq(f.seg, nb + 1, nb + k)
    BY DEF Segment
  <2> HIDE DEF nb, k, size, bytes
  <2>2. nb + k <= Len(f.seg)
    BY <1>4 DEF size
  <2>3. SubSeq(f.seg, 1, nb) \o SubSeq(f.seg, nb + 1, nb + k) = SubSeq(f.seg, 1, nb + k)
    BY <1>1, <1>4, <2>2, PrefixGrows
  <2> QED
    BY <1>1, <2>1, <2>3
<1> HIDE DEF s, bytes, k
<1>9. CASE s.blksize > 0
  <2>1. csdo.state = "blk_up_sub"
    <3>1. nb # size
      BY <1>4, <1>7, <1>9
    <3> QED
      BY <1>2, <3>1 DEF UpDone
  <2>2. /\ block \in Seq(AnyFrame) /\ Len(block) = sg
        /\ \A i \in 1..sg : block[i] = BlockSegment(bytes, 0, i, UpDone(s))
    <3> DEFINE x == s.buf
               y == s.blksize
               z == UpDone(s)
    <3>1. x \in Seq(Byte) /\ x = bytes /\ y = sg /\ Len(x) = k /\ z \in BOOLEAN
      BY <1>5, <1>7 DEF UpDone
    <3> HIDE DEF x, y, z
    <3>2. PICK j \in Nat : j = Len(x)
      BY <1>4, <3>1
    <3>3. 0 \in 0..j /\ j - 0 = j
      OBVIOUS
    <3>4. y \in 0..Segments(j)
      <4>1. Segments(j) = sg /\ sg \in Nat
        BY <1>4, <3>1, <3>2 DEF sg
      <4> QED
        BY <3>1, <4>1
    <3>5. 0 \in 0..Len(x) /\ y \in 0..Segments(Len(x) - 0)
      BY <3>2, <3>3, <3>4, Zenon
    <3>6. /\ BlockOf(x, 0, y, z) \in Seq(ClientFrame) /\ Len(BlockOf(x, 0, y, z)) = y
          /\ \A i \in 1..y : BlockOf(x, 0, y, z)[i] = BlockSegment(x, 0, i, z)
      BY <3>1, <3>5, BlockOfType
    <3>7. BlockOf(x, 0, y, z) \in Seq(AnyFrame)
      BY <3>6, ToAny
    <3> QED
      BY <3>1, <3>6, <3>7, Zenon DEF x, y, z
  <2>3. Reply(u, block)
    BY <1>6, <1>9, Zenon
  <2>4. /\ u.state = "blk_up_sub" /\ u.nbyte = nb + k /\ u.buf = bytes /\ u.crc = SubSeq(f.seg, 1, nb + k)
        /\ u.seg = f.seg /\ u.size = size /\ u.gencrc /\ u.blksize = sg
    <3> HIDE DEF nb, size
    <3> QED
      BY <1>7, <1>8 DEF ArmServer, ServerData, ServerRecord
  <2> HIDE DEF block, u
  <2>5. ssdo' = u /\ s2c' = block
    BY <2>2, <2>3, ReplyFirst
  <2>6. UpDone(u) = UpDone(s) /\ (UpDone(u) <=> nb + k = size)
    BY <1>7, <2>4, Zenon DEF UpDone
  <2>7. FetchedBlk(u, csdo)
    <3>1. size > 0
      BY <1>1
    <3> QED
      BY <1>2, <2>4, <3>1, Zenon DEF FetchedBlk
  <2>8. Remain(block, u.buf, 0, csdo.ackseq, u.blksize, UpDone(u))
    <3>1. 0 \in 0..(sg - 1) /\ sg - 0 = sg /\ \A i \in 1..sg : 0 + i = i
      BY <1>4, <1>7, <1>9
    <3>2. Remain(block, bytes, 0, 0, sg, UpDone(s))
      BY <2>2, <3>1 DEF Remain
    <3> QED
      BY <1>2, <2>4, <2>6, <3>2, Zenon
  <2>9. /\ u.blksize = Segments(Len(u.buf)) /\ u.blksize <= csdo.blksize
        /\ UpDone(u) \/ (u.blksize = csdo.blksize /\ Len(u.buf) = SegBytes * u.blksize)
    BY <1>4, <1>5, <2>4, <2>6, Zenon DEF sg, SegBytes
  <2>10. \E p \in 0..u.nbyte :
           /\ u.buf = SubSeq(u.seg, p + 1, u.nbyte)
           /\ csdo.rx = SubSeq(u.seg, 1, p + csdo.ackseq * SegBytes)
    <3>1. nb \in 0..(nb + k) /\ nb + 0 * 7 = nb
      BY <1>1, <1>4
    <3>2. /\ nb \in 0..u.nbyte /\ u.buf = SubSeq(u.seg, nb + 1, u.nbyte)
          /\ csdo.rx = SubSeq(u.seg, 1, nb + csdo.ackseq * SegBytes)
      BY <1>2, <1>8, <2>4, <3>1, Zenon DEF SegBytes
    <3> QED
      BY <3>2, Zenon
  <2>11. BlkUploading(csdo, u, <<>>, block)
    <3>1. csdo.crc /\ csdo.size = u.size
      BY <1>2, <2>4, Zenon
    <3> QED
      BY <2>1, <2>7, <2>8, <2>9, <2>10, <3>1, Zenon DEF BlkUploading
  <2> QED
    BY <2>5, <2>11 DEF ServerAgrees, Agree
<1>10. CASE ~(s.blksize > 0)
  <2>1. nb = size /\ k = 0 /\ nb + k = size
    <3>1. sg = 0 /\ nb = size
      BY <1>4, <1>7, <1>10
    <3> HIDE DEF nb, size
    <3> QED
      BY <1>1, <1>4, <3>1
  <2>2. csdo.state = "blk_up_end" /\ csdo.rx = SubSeq(f.seg, 1, size) /\ csdo.rx = f.seg
    <3>1. UpDone(f)
      BY <2>1, Zenon DEF UpDone
    <3>2. SubSeq(f.seg, 1, Len(f.seg)) = f.seg
      BY <1>1, SubSeqFull
    <3> QED
      BY <1>2, <2>1, <3>1, <3>2, Zenon
  <2>3. s.crc = csdo.rx /\ s.size = csdo.size /\ csdo.size = Len(csdo.rx)
    BY <1>2, <1>7, <1>8, <2>1, <2>2, Zenon
  <2> DEFINE crc == [NoArg EXCEPT !.crc = csdo.rx]
             e   == Frame(BlkEndByte(SCS_BLK_UP, LastBytes(csdo.size)), NoIdx, crc, <<>>)
  <2>4. h = e
    BY <2>3, Zenon
  <2>5. e \in AnyFrame
    <3>1. csdo.size \in Nat \ {0}
      BY <1>1, <1>2
    <3>2. BlkEndByte(SCS_BLK_UP, LastBytes(csdo.size)) \in Nat
      BY <3>1, LastBytesType DEF BlkEndByte, SCS_BLK_UP, SC_END_BLK
    <3>3. crc \in Arg
      BY <1>1, <2>2, ArgTypes
    <3> HIDE DEF crc
    <3> QED
      BY <3>2, <3>3, NoIdxType, EmptyAnyFrame
  <2>6. w.state = "blk_up_end"
    BY <1>7 DEF ArmServer, ServerData, ServerRecord
  <2>7. Reply(w, <<e>>)
    BY <1>6, <1>10, <2>4, Zenon
  <2> HIDE DEF w, h
  <2>8. ssdo' = w /\ s2c' = <<e>>
    <3> HIDE DEF e
    <3> QED
      BY <2>5, <2>7, OneReply
  <2>9. BlkUploading(csdo, w, <<>>, <<e>>)
    <3>1. csdo.size > 0 /\ csdo.crc
      BY <1>1, <1>2
    <3> QED
      BY <2>2, <2>3, <2>6, <3>1, Zenon DEF BlkUploading
  <2> QED
    BY <2>8, <2>9 DEF ServerAgrees, Agree
<1> QED
  BY <1>9, <1>10

LEMMA UpSubSends ==
  ASSUME NEW m, NEW f, Cs(m) = CCS_BLK_UP, co_ssdo_blk_up_sub_on_recv(m),
         \/ Sc(m) = SC_START_UP /\ ssdo.off = 0 /\ ssdo.nbyte = 0 /\ f = ssdo
         \/ /\ Sc(m) = SC_BLK_RES /\ ~(ssdo.off = 0 /\ ssdo.nbyte = 0) /\ f.blksize \in 1..CO_SSDO_MAX_SEQNO
            /\ f = [ssdo EXCEPT !.buf = SubSeq(@, Lesser(m.arg.num * SegBytes, Len(ssdo.buf)) + 1, Len(@)),
                                !.blksize = m.arg.blksize]
  PROVE  SendsOn(f)
<1> DEFINE start == ssdo.off = 0 /\ ssdo.nbyte = 0
           f0    == IF Sc(m) = SC_BLK_RES
                    THEN [ssdo EXCEPT !.buf = SubSeq(@, Lesser(m.arg.num * SegBytes, Len(ssdo.buf)) + 1, Len(@)),
                                      !.blksize = m.arg.blksize]
                    ELSE ssdo
           A     == Reply(co_ssdo_abort_ind(ssdo), <<>>)
           B     == co_ssdo_abort_res(ssdo, "NO_CS")
           C     == co_ssdo_abort_res(f0, "BLK_SIZE")
<1>1. Cs(m) # CS_ABORT /\ SC_START_UP # SC_BLK_RES
  BY DEF CCS_BLK_UP, CS_ABORT, SC_START_UP, SC_BLK_RES
<1>2. (CASE \/ Sc(m) \notin {SC_BLK_RES, SC_START_UP}
            \/ start # (Sc(m) = SC_START_UP) -> B
         [] Sc(m) = SC_BLK_RES /\ ~start /\ f0.blksize \notin 1..CO_SSDO_MAX_SEQNO -> C
         [] OTHER -> SendsOn(f0))
  BY <1>1, Zenon DEF co_ssdo_blk_up_sub_on_recv, Accepted, SendsOn
<1>3. f0 = f
  BY <1>1, Zenon
<1>4. CASE Sc(m) = SC_START_UP /\ start /\ f = ssdo
  <2> HIDE DEF f0, B, C
  <2> QED
    BY <1>1, <1>2, <1>3, <1>4
<1>5. CASE Sc(m) = SC_BLK_RES /\ ~start /\ f.blksize \in 1..CO_SSDO_MAX_SEQNO
  <2>1. Sc(m) \in {SC_BLK_RES, SC_START_UP} /\ ~(start # (Sc(m) = SC_START_UP))
    <3>1. Sc(m) # SC_START_UP
      BY <1>1, <1>5
    <3> QED
      BY <1>5, <3>1
  <2>2. f0.blksize \in 1..CO_SSDO_MAX_SEQNO
    BY <1>3, <1>5, Zenon
  <2> HIDE DEF f0, B, C, start
  <2>3. SendsOn(f0)
    BY <1>2, <2>1, <2>2, Zenon
  <2> QED
    BY <1>3, <2>3, Zenon
<1> QED
  BY <1>4, <1>5

\* The client asks for the first block.
LEMMA BlkUpStartAgrees ==
  ASSUME ClientTyped, ServerTyped, csdo.state = "blk_up_sub", csdo.crc, csdo.size = ssdo.size,
         csdo.ackseq = 0, csdo.rx = <<>>, s2c = <<>>, c2s' = <<>>, FetchedNone(ssdo, csdo),
         NEW m, m = Frame(32 * CCS_BLK_UP + SC_START_UP, NoIdx, NoArg, <<>>), co_ssdo_blk_up_sub_on_recv(m)
  PROVE  ServerAgrees
<1>1. m.cs = 163
  BY FrameParts DEF CCS_BLK_UP, SC_START_UP
<1>2. Cs(m) = CCS_BLK_UP /\ Sc(m) = SC_START_UP
  BY <1>1, CommandParts
<1>3. SendsOn(ssdo)
  BY <1>2, UpSubSends DEF FetchedNone
<1>4. Filling(ssdo)
  <2>1. ServerData(ssdo) /\ ssdo.nbyte = 0 /\ Len(ssdo.seg) \in Nat /\ ssdo.size = Len(ssdo.seg) /\ ssdo.size > 0
    BY ServerFacts, ServerFields DEF FetchedNone, FetchedBlk
  <2>2. SubSeq(ssdo.seg, 1, 0) = <<>>
    BY SubSeqEmpty
  <2>3. ~UpDone(ssdo) /\ ssdo.nbyte <= Len(ssdo.seg)
    BY <2>1 DEF UpDone
  <2> QED
    BY <2>1, <2>2, <2>3 DEF FetchedNone, FetchedBlk, Filling
<1> QED
  BY <1>3, <1>4, UpFills

\* The client acknowledges a block.
LEMMA BlkUpResAgrees ==
  ASSUME ClientTyped, ServerTyped, csdo.state = IF UpDone(ssdo) THEN "blk_up_end" ELSE "blk_up_sub",
         csdo.crc, csdo.size = ssdo.size, csdo.ackseq = 0, s2c = <<>>, c2s' = <<>>, FetchedBlk(ssdo, csdo),
         Len(ssdo.buf) <= SegBytes * ssdo.blksize, ssdo.nbyte > 0, csdo.rx = SubSeq(ssdo.seg, 1, ssdo.nbyte),
         NEW m, m = Frame(32 * CCS_BLK_UP + SC_BLK_RES, NoIdx, Blk(ssdo.blksize, csdo.blksize), <<>>),
         co_ssdo_blk_up_sub_on_recv(m)
  PROVE  ServerAgrees
<1> DEFINE acked == Lesser(m.arg.num * SegBytes, Len(ssdo.buf))
           rest  == SubSeq(ssdo.buf, acked + 1, Len(ssdo.buf))
           f     == [ssdo EXCEPT !.buf = SubSeq(@, acked + 1, Len(@)), !.blksize = m.arg.blksize]
<1>1. m.cs = 162 /\ m.arg.num = ssdo.blksize /\ m.arg.blksize = csdo.blksize
  BY FrameParts, ArgParts DEF CCS_BLK_UP, SC_BLK_RES
<1>2. Cs(m) = CCS_BLK_UP /\ Sc(m) = SC_BLK_RES
  <2>1. Cs(m) = SCS_BLK_DN /\ Sc(m) = SC_BLK_RES
    BY <1>1, CommandParts
  <2> QED
    BY <2>1 DEF SCS_BLK_DN, CCS_BLK_UP
<1>3. /\ ServerData(ssdo) /\ ssdo.buf \in Seq(Byte) /\ Len(ssdo.buf) \in Nat /\ ssdo.blksize \in Nat
      /\ csdo.blksize \in 1..CO_SSDO_MAX_SEQNO /\ csdo.blksize \in Nat /\ ssdo.state = "blk_up_sub"
  <2>1. ServerData(ssdo) /\ csdo.blksize \in 1..CO_SSDO_MAX_SEQNO /\ ssdo.state = "blk_up_sub"
    BY ServerFacts DEF FetchedBlk
  <2> QED
    BY <2>1, ServerFields, SeqnoBounds, Zenon
<1>4. rest = <<>>
  <2>1. PICK z \in Nat, j \in Nat : z = Len(ssdo.buf) /\ j = ssdo.blksize
    BY <1>3
  <2>2. z <= 7 * j
    BY <2>1, Zenon DEF SegBytes
  <2>3. Lesser(j * 7, z) = z
    BY <2>2 DEF Lesser
  <2>4. acked = z
    BY <1>1, <2>1, <2>3, Zenon DEF SegBytes
  <2>5. SubSeq(ssdo.buf, z + 1, z) = <<>>
    BY SubSeqEmpty
  <2> QED
    BY <2>1, <2>4, <2>5, Zenon
<1>5. /\ ServerData(f) /\ f.state = "blk_up_sub" /\ f.buf = <<>> /\ f.blksize = csdo.blksize
      /\ f.size = ssdo.size /\ f.seg = ssdo.seg /\ f.nbyte = ssdo.nbyte /\ f.crc = ssdo.crc /\ f.gencrc = ssdo.gencrc
  <2>1. f = [ssdo EXCEPT !.buf = rest, !.blksize = csdo.blksize]
    <3> HIDE DEF acked
    <3> QED
      BY <1>1, <1>3 DEF ServerData, ServerRecord
  <2> HIDE DEF f, rest
  <2> QED
    BY <1>3, <1>4, <2>1, EmptySeq DEF ServerData, ServerRecord
<1>6. SendsOn(f)
  <2>1. ~(ssdo.off = 0 /\ ssdo.nbyte = 0)
    BY <1>3, ServerFields
  <2>2. f.blksize \in 1..CO_SSDO_MAX_SEQNO
    BY <1>3, <1>5, Zenon
  <2>3. PICK f0 : f0 = f
    OBVIOUS
  <2>4. /\ f0.blksize \in 1..CO_SSDO_MAX_SEQNO
        /\ f0 = [ssdo EXCEPT !.buf = SubSeq(@, Lesser(m.arg.num * SegBytes, Len(ssdo.buf)) + 1, Len(@)),
                             !.blksize = m.arg.blksize]
    BY <2>2, <2>3, Zenon
  <2>5. SendsOn(f0)
    BY <1>2, <2>1, <2>4, UpSubSends, Zenon
  <2> QED
    BY <2>3, <2>5, Zenon
<1> HIDE DEF f
<1>7. Filling(f)
  <2>1. ssdo.size = Len(ssdo.seg) /\ ssdo.size > 0 /\ ssdo.gencrc /\ ssdo.crc = SubSeq(ssdo.seg, 1, ssdo.nbyte)
    BY DEF FetchedBlk
  <2>2. ssdo.nbyte <= Len(ssdo.seg)
    BY <1>3 DEF ServerTyped, ServerOk, FetchStates
  <2>3. UpDone(f) = UpDone(ssdo)
    BY <1>5, Zenon DEF UpDone
  <2> QED
    BY <1>3, <1>5, <2>1, <2>2, <2>3, Zenon DEF Filling
<1> QED
  BY <1>6, <1>7, UpFills

LEMMA BlkUploadingServer ==
  ASSUME ClientTyped, ServerTyped, BlkUploading(csdo, ssdo, c2s, s2c), co_ssdo_recv
  PROVE  ServerAgrees
<1>1. c2s # <<>>
  BY DEF co_ssdo_recv
<1>2. CASE BlkUpIni(csdo) /\ Fresh(ssdo) /\ s2c = <<>> /\ c2s = <<BlkUpIniReq(csdo)>>
  <2>1. PICK m : m = BlkUpIniReq(csdo)
    OBVIOUS
  <2>2. Head(c2s) = m /\ c2s' = <<>>
    BY <1>2, <2>1, OneFrame DEF co_ssdo_recv
  <2>3. co_ssdo_wait_on_recv(m)
    BY <1>2, <2>2 DEF co_ssdo_recv, Fresh
  <2> QED
    BY <1>2, <2>1, <2>2, <2>3, BlkUpIniAgrees
<1>3. CASE /\ csdo.state = "blk_up_sub" /\ csdo.crc /\ csdo.size = ssdo.size /\ csdo.ackseq = 0 /\ csdo.rx = <<>>
           /\ s2c = <<>> /\ FetchedNone(ssdo, csdo)
           /\ c2s = <<Frame(32 * CCS_BLK_UP + SC_START_UP, NoIdx, NoArg, <<>>)>>
  <2>1. PICK m : m = Frame(32 * CCS_BLK_UP + SC_START_UP, NoIdx, NoArg, <<>>)
    OBVIOUS
  <2>2. Head(c2s) = m /\ c2s' = <<>>
    BY <1>3, <2>1, OneFrame DEF co_ssdo_recv
  <2>3. co_ssdo_blk_up_sub_on_recv(m)
    BY <1>3, <2>2 DEF co_ssdo_recv, FetchedNone, FetchedBlk
  <2> QED
    BY <1>3, <2>1, <2>2, <2>3, BlkUpStartAgrees
<1>4. CASE /\ csdo.state = IF UpDone(ssdo) THEN "blk_up_end" ELSE "blk_up_sub"
           /\ csdo.crc /\ csdo.size = ssdo.size /\ csdo.ackseq = 0 /\ s2c = <<>> /\ FetchedBlk(ssdo, csdo)
           /\ Len(ssdo.buf) <= SegBytes * ssdo.blksize /\ ssdo.nbyte > 0
           /\ csdo.rx = SubSeq(ssdo.seg, 1, ssdo.nbyte)
           /\ c2s = <<Frame(32 * CCS_BLK_UP + SC_BLK_RES, NoIdx, Blk(ssdo.blksize, csdo.blksize), <<>>)>>
  <2>1. PICK m : m = Frame(32 * CCS_BLK_UP + SC_BLK_RES, NoIdx, Blk(ssdo.blksize, csdo.blksize), <<>>)
    OBVIOUS
  <2>2. Head(c2s) = m /\ c2s' = <<>>
    BY <1>4, <2>1, OneFrame DEF co_ssdo_recv
  <2>3. co_ssdo_blk_up_sub_on_recv(m)
    BY <1>4, <2>2 DEF co_ssdo_recv, FetchedBlk
  <2> QED
    BY <1>4, <2>1, <2>2, <2>3, BlkUpResAgrees, Zenon
<1> QED
  BY <1>1, <1>2, <1>3, <1>4, Zenon DEF BlkUploading

\* The server sees the end of a block upload.
LEMMA RestsServer ==
  ASSUME ClientTyped, ServerTyped, Rests(csdo, ssdo, c2s, s2c), co_ssdo_recv
  PROVE  ServerAgrees
<1> DEFINE m == Frame(32 * CCS_BLK_UP + SC_END_BLK, NoIdx, NoArg, <<>>)
<1>1. csdo.state = "wait" /\ s2c = <<>> /\ ssdo.state = "blk_up_end" /\ c2s = <<m>>
  BY Zenon DEF Rests, co_ssdo_recv
<1>2. m.cs = 161
  BY FrameParts DEF CCS_BLK_UP, SC_END_BLK
<1>3. Head(c2s) = m /\ c2s' = <<>>
  BY <1>1, OneFrame DEF co_ssdo_recv
<1> HIDE DEF m
<1>4. co_ssdo_blk_up_end_on_recv(m)
  BY <1>1, <1>3 DEF co_ssdo_recv
<1>5. Cs(m) = CCS_BLK_UP /\ Sc(m) = SC_END_BLK /\ Cs(m) # CS_ABORT
  <2>1. Cs(m) = SCS_BLK_DN /\ Sc(m) = SC_END_BLK
    BY <1>2, CommandParts
  <2> QED
    BY <2>1 DEF SCS_BLK_DN, CCS_BLK_UP, CS_ABORT
<1>6. Reply(co_ssdo_abort_ind(ssdo), <<>>)
  BY <1>4, <1>5, Zenon DEF co_ssdo_blk_up_end_on_recv, Accepted
<1>7. ssdo' = co_ssdo_abort_ind(ssdo) /\ s2c' = <<>>
  BY <1>1, <1>6, ReplyFirst, EmptySeq
<1>8. Fresh(ssdo')
  BY <1>7, ServerFacts, AbortIndFresh
<1> QED
  BY <1>1, <1>3, <1>7, <1>8 DEF ServerAgrees, Agree, Rests

LEMMA ServerKeepsAgreement ==
  ASSUME ClientTyped, ServerTyped, Agree(csdo, ssdo, c2s, s2c), co_ssdo_recv
  PROVE  ServerAgrees
<1>1. ~Refused(csdo, ssdo, c2s, s2c)
  BY DEF Refused, co_ssdo_recv
<1> QED
  BY <1>1, RestsServer, DownloadingServer, UploadingServer, BlkDownloadingServer, BlkUploadingServer DEF Agree

-----------------------------------------------------------------------------
(* The other steps in an undisturbed transfer                              *)

\* The agreement is about the transfer and not about the server's timer.
SameTransfer(s, t) ==
  /\ t.state = s.state /\ t.idx = s.idx /\ t.toggle = s.toggle /\ t.blksize = s.blksize
  /\ t.ackseq = s.ackseq /\ t.gencrc = s.gencrc /\ t.crc = s.crc /\ t.size = s.size /\ t.off = s.off
  /\ t.seg = s.seg /\ t.membuf = s.membuf /\ t.buf = s.buf /\ t.nbyte = s.nbyte

LEMMA SameParts ==
  ASSUME NEW s, NEW t, SameTransfer(s, t), NEW c
  PROVE  /\ Fresh(s) => Fresh(t)
         /\ \A p : Stored(s, c, p) => Stored(t, c, p)
         /\ \A p : Fetched(s, p) => Fetched(t, p)
         /\ \A p : StoredBlk(s, c, p) => StoredBlk(t, c, p)
         /\ StoredAll(s, c) => StoredAll(t, c)
         /\ FetchedBlk(s, c) => FetchedBlk(t, c)
         /\ FetchedNone(s, c) => FetchedNone(t, c)
         /\ UpDone(s) = UpDone(t)
<1>1. Fresh(s) => Fresh(t)
  BY Zenon DEF SameTransfer, Fresh
<1>2. ASSUME NEW p, Stored(s, c, p) PROVE Stored(t, c, p)
  BY <1>2, Zenon DEF SameTransfer, Stored
<1>3. ASSUME NEW p, Fetched(s, p) PROVE Fetched(t, p)
  BY <1>3, Zenon DEF SameTransfer, Fetched
<1>4. ASSUME NEW p, StoredBlk(s, c, p) PROVE StoredBlk(t, c, p)
  BY <1>4, Zenon DEF SameTransfer, StoredBlk
<1>5. StoredAll(s, c) => StoredAll(t, c)
  BY Zenon DEF SameTransfer, StoredAll
<1>6. FetchedBlk(s, c) => FetchedBlk(t, c)
  BY Zenon DEF SameTransfer, FetchedBlk
<1>7. FetchedNone(s, c) => FetchedNone(t, c)
  BY <1>6, Zenon DEF SameTransfer, FetchedNone
<1>8. UpDone(s) = UpDone(t)
  BY Zenon DEF SameTransfer, UpDone
<1> QED
  BY <1>1, <1>2, <1>3, <1>4, <1>5, <1>6, <1>7, <1>8, Zenon

LEMMA SameAgrees ==
  ASSUME NEW s, NEW t, SameTransfer(s, t), NEW c, NEW cq, NEW sq, Agree(c, s, cq, sq)
  PROVE  Agree(c, t, cq, sq)
<1>1. /\ t.state = s.state /\ t.toggle = s.toggle /\ t.blksize = s.blksize /\ t.ackseq = s.ackseq
      /\ t.size = s.size /\ t.seg = s.seg /\ t.buf = s.buf /\ t.nbyte = s.nbyte
  BY Zenon DEF SameTransfer
<1>2. Rests(c, s, cq, sq) => Rests(c, t, cq, sq)
  BY <1>1, SameParts, Zenon DEF Rests
<1>3. Refused(c, s, cq, sq) => Refused(c, t, cq, sq)
  BY SameParts, Zenon DEF Refused
<1>4. Downloading(c, s, cq, sq) => Downloading(c, t, cq, sq)
  <2>1. Fresh(s) => Fresh(t)
    BY SameParts, Zenon
  <2>2. \A p : Stored(s, c, p) => Stored(t, c, p)
    BY SameParts, Zenon
  <2> QED
    BY <1>1, <2>1, <2>2 DEF Downloading
<1>5. Uploading(c, s, cq, sq) => Uploading(c, t, cq, sq)
  <2>1. Fresh(s) => Fresh(t)
    BY SameParts, Zenon
  <2>2. \A p : Fetched(s, p) => Fetched(t, p)
    BY SameParts, Zenon
  <2> QED
    BY <1>1, <2>1, <2>2 DEF Uploading
<1>6. BlkDownloading(c, s, cq, sq) => BlkDownloading(c, t, cq, sq)
  <2>1. (Fresh(s) => Fresh(t)) /\ (StoredAll(s, c) => StoredAll(t, c))
    BY SameParts, Zenon
  <2>2. \A p : StoredBlk(s, c, p) => StoredBlk(t, c, p)
    BY SameParts, Zenon
  <2> QED
    BY <1>1, <2>1, <2>2 DEF BlkDownloading
<1>7. BlkUploading(c, s, cq, sq) => BlkUploading(c, t, cq, sq)
  <2>1. (Fresh(s) => Fresh(t)) /\ (FetchedBlk(s, c) => FetchedBlk(t, c)) /\ (FetchedNone(s, c) => FetchedNone(t, c))
    BY SameParts, Zenon
  <2>2. UpDone(s) = UpDone(t)
    BY SameParts, Zenon
  <2> QED
    BY <1>1, <2>1, <2>2, ZenonT(60) DEF BlkUploading
<1> QED
  BY <1>2, <1>3, <1>4, <1>5, <1>6, <1>7, Zenon DEF Agree

\* Neither end is stopped, and while the client is busy a frame is under way.
LEMMA AgreeBusy ==
  ASSUME NEW c, NEW s, NEW cq, NEW sq, c.blksize \in Nat, s.blksize \in Nat, Agree(c, s, cq, sq)
  PROVE  /\ c.state # "stopped" /\ s.state # "stopped"
         /\ c.state # "wait" => cq # <<>> \/ sq # <<>>
<1>1. \A f : <<f>> # <<>>
  OBVIOUS
<1>2. CASE Rests(c, s, cq, sq)
  BY <1>2 DEF Rests, Fresh
<1>3. CASE Refused(c, s, cq, sq)
  BY <1>1, <1>3 DEF Refused, Fresh
<1>4. CASE Downloading(c, s, cq, sq)
  BY <1>1, <1>4 DEF Downloading, DnIni, Fresh, Stored
<1>5. CASE Uploading(c, s, cq, sq)
  BY <1>1, <1>5 DEF Uploading, UpIni, Fresh, Fetched
<1>6. ASSUME NEW q, NEW bytes, NEW pos, NEW a, NEW k, NEW end, Remain(q, bytes, pos, a, k, end), k \in Nat
      PROVE  q # <<>>
  BY <1>6, EmptySeq DEF Remain
<1>7. CASE BlkDownloading(c, s, cq, sq)
  <2>1. Fresh(s) \/ StoredAll(s, c) \/ (\E p : StoredBlk(s, c, p))
    BY <1>7, Zenon DEF BlkDownloading
  <2>2. s.state # "stopped"
    BY <2>1 DEF Fresh, StoredBlk, StoredAll
  <2>3. c.state # "stopped"
    BY <1>7 DEF BlkDownloading
  <2>4. (\E f : cq = <<f>>) \/ (\E f : sq = <<f>>) \/ (\E p : Remain(cq, c.data, p, s.ackseq, c.blksize, TRUE))
    BY <1>7, Zenon DEF BlkDownloading
  <2>5. cq # <<>> \/ sq # <<>>
    BY <1>1, <1>6, <2>4, Zenon
  <2> QED
    BY <2>2, <2>3, <2>5
<1>8. CASE BlkUploading(c, s, cq, sq)
  <2>1. Fresh(s) \/ FetchedBlk(s, c) \/ FetchedNone(s, c) \/ s.state = "blk_up_end"
    BY <1>8, Zenon DEF BlkUploading
  <2>2. s.state # "stopped"
    BY <2>1 DEF Fresh, FetchedNone, FetchedBlk
  <2>3. c.state # "stopped"
    BY <1>8 DEF BlkUploading, BlkUpIni
  <2>4. \/ (\E f : cq = <<f>>) \/ (\E f : sq = <<f>>)
        \/ Remain(sq, s.buf, 0, c.ackseq, s.blksize, UpDone(s))
    BY <1>8, Zenon DEF BlkUploading
  <2>5. cq # <<>> \/ sq # <<>>
    BY <1>1, <1>6, <2>4, Zenon
  <2> QED
    BY <2>2, <2>3, <2>5
<1> QED
  BY <1>2, <1>3, <1>4, <1>5, <1>7, <1>8, Zenon DEF Agree

\* A new request finds both ends at rest.
LEMMA DnReqAgrees ==
  ASSUME ClientTyped, Fresh(ssdo), c2s = <<>>, NEW items \in Seq(ValueItem), items # <<>>,
         \/ co_csdo_dn_req(items[1])
         \/ co_csdo_dn_dcf_req(items)
         \/ co_csdo_blk_dn_req(items[1])
  PROVE  Agree(csdo', ssdo, c2s', <<>>)
<1> DEFINE item == items[1]
           c == [csdo EXCEPT !.dcf = Tail(items)]
           b == Arm([co_csdo_dn_ind(csdo, item) EXCEPT !.state = "blk_dn_ini"])
           f == Frame(BlkIniByte(CCS_BLK_DN, TRUE), item.idx, Num(Len(item.data)), <<>>)
<1>1. /\ item \in ValueItem /\ Tail(items) \in Seq(ValueItem) /\ Head(items) = item
      /\ item.idx \in Indices /\ item.data \in Seq(Byte) /\ Len(item.data) \in Nat
  BY HeadTailProperties, LenProperties, EmptySeq DEF ValueItem, Item
<1>2. csdo \in ClientRecord
  BY ClientFacts
<1>3. c \in ClientRecord
  BY <1>1, <1>2 DEF ClientRecord
<1>4. ASSUME NEW d \in ClientRecord, Continue(DnReqState(d, item), <<DnReqFrame(item)>>)
      PROVE  Agree(csdo', ssdo, c2s', <<>>)
  <2> HIDE DEF item
  <2>1. DnReqFrame(item) \in ClientFrame
    BY <1>1, DnReqFrameType
  <2>2. csdo' = DnReqState(d, item) /\ c2s' = <<DnReqFrame(item)>>
    BY <1>4, <2>1, OneSent
  <2>3. /\ csdo'.state = "dn_ini" /\ csdo'.toggle = 0 /\ csdo'.idx = item.idx
        /\ csdo'.data = item.data /\ csdo'.size = Len(item.data)
        /\ csdo'.pos = IF Len(item.data) \in 1..4 THEN Len(item.data) ELSE 0
    BY <2>2 DEF DnReqState, Arm, co_csdo_dn_ind, ClientRecord
  <2>4. DnReqFrame(item) = DnReqFrame([idx |-> csdo'.idx, data |-> csdo'.data])
    BY <2>3 DEF DnReqFrame
  <2>5. DnIni(csdo')
    BY <2>3 DEF DnIni
  <2> QED
    BY <2>2, <2>4, <2>5, Zenon DEF Agree, Downloading
<1>5. CASE co_csdo_blk_dn_req(item)
  <2>1. Continue(b, <<f>>)
    BY <1>5 DEF co_csdo_blk_dn_req
  <2>2. b.state = "blk_dn_ini" /\ b.size = Len(item.data) /\ b.idx = item.idx /\ b.pos = 0
    <3> HIDE DEF item
    <3> QED
      BY <1>1, <1>2 DEF ClientRecord, Arm, co_csdo_dn_ind
  <2>3. <<f>> \in Seq(AnyFrame)
    <3>1. f = Frame(198, item.idx, Num(Len(item.data)), <<>>)
      BY DEF BlkIniByte, CCS_BLK_DN, SC_INI_BLK
    <3>2. Num(Len(item.data)) \in Arg /\ <<>> \in Seq(Byte) /\ 198 \in Nat
      BY <1>1, ArgTypes, EmptySeq
    <3> HIDE DEF item, f
    <3>3. f \in AnyFrame
      BY <1>1, <3>1, <3>2, FrameType, ZenonT(60)
    <3> QED
      BY <3>3
  <2> HIDE DEF b
  <2>4. csdo' = b /\ c2s' = <<f>>
    BY <2>1, <2>3, ContinueFirst
  <2> QED
    BY <2>2, <2>4, Zenon DEF Agree, BlkDownloading
<1>6. CASE co_csdo_dn_req(item)
  BY <1>2, <1>4, <1>6 DEF co_csdo_dn_req
<1>7. CASE co_csdo_dn_dcf_req(items)
  BY <1>1, <1>3, <1>4, <1>7 DEF co_csdo_dn_dcf_req
<1> QED
  BY <1>5, <1>6, <1>7

LEMMA UpReqAgrees ==
  ASSUME ClientTyped, Fresh(ssdo), c2s = <<>>, NEW idx \in Indices, NEW pst,
         co_csdo_up_req(idx) \/ (pst \in Nat /\ co_csdo_blk_up_req(idx, pst))
  PROVE  Agree(csdo', ssdo, c2s', <<>>)
<1> DEFINE u == Arm([co_csdo_up_ind(csdo, idx) EXCEPT !.state = "up_ini"])
           b == [co_csdo_up_ind(csdo, idx) EXCEPT !.state = "blk_up_ini", !.pst = pst,
                                                  !.blksize = CO_SDO_MAX_SEQNO]
           f == Frame(32 * CCS_UP_INI, idx, NoArg, <<>>)
<1>1. csdo \in ClientRecord
  BY ClientFacts
<1>2. CASE co_csdo_up_req(idx)
  <2>1. Continue(u, <<f>>)
    BY <1>2 DEF co_csdo_up_req
  <2>2. u.state = "up_ini" /\ u.toggle = 0 /\ u.rx = <<>> /\ u.idx = idx
    BY <1>1 DEF ClientRecord, Arm, co_csdo_up_ind
  <2>3. <<f>> \in Seq(AnyFrame)
    <3>1. 32 * CCS_UP_INI \in Nat /\ <<>> \in Seq(Byte)
      BY EmptySeq DEF CCS_UP_INI
    <3> HIDE DEF f
    <3>2. f \in AnyFrame
      BY <3>1, ArgTypes, FrameType DEF f
    <3> QED
      BY <3>2
  <2> HIDE DEF u
  <2>4. csdo' = u /\ c2s' = <<f>>
    BY <2>1, <2>3, ContinueFirst
  <2>5. UpIni(u)
    BY <2>2 DEF UpIni
  <2> QED
    BY <2>2, <2>4, <2>5, Zenon DEF Agree, Uploading
<1>3. CASE pst \in Nat /\ co_csdo_blk_up_req(idx, pst)
  <2>1. Continue(Arm(b), <<BlkUpIniReq(b)>>)
    BY <1>3, Zenon DEF co_csdo_blk_up_req
  <2>2. CO_SDO_MAX_SEQNO \in 1..CO_SDO_MAX_SEQNO /\ CO_SDO_MAX_SEQNO \in Nat
    BY BlockSizes
  <2>3. /\ b \in ClientRecord /\ b.state = "blk_up_ini" /\ b.idx = idx /\ b.pst = pst
        /\ b.blksize = CO_SDO_MAX_SEQNO /\ b.toggle = 0 /\ b.rx = <<>>
    BY <1>1, <1>3, <2>2, EmptySeq DEF ClientRecord, co_csdo_up_ind, UpStates
  <2> HIDE DEF b
  <2>4. /\ Arm(b).state = "blk_up_ini" /\ Arm(b).idx = b.idx /\ Arm(b).pst = b.pst
        /\ Arm(b).blksize = b.blksize /\ Arm(b).toggle = 0 /\ Arm(b).rx = <<>>
    BY <2>3 DEF ClientRecord, Arm
  <2>5. BlkUpIniReq(b) \in ClientFrame
    BY <1>3, <2>2, <2>3, BlkUpIniReqType
  <2>6. csdo' = Arm(b) /\ c2s' = <<BlkUpIniReq(b)>>
    BY <2>1, <2>5, OneSent
  <2>7. BlkUpIniReq(b) = BlkUpIniReq(Arm(b))
    BY <2>4, Zenon DEF BlkUpIniReq
  <2>8. BlkUpIni(Arm(b))
    BY <2>2, <2>3, <2>4 DEF BlkUpIni, UpIni
  <2> QED
    BY <2>6, <2>7, <2>8, Zenon DEF Agree, BlkUploading
<1> QED
  BY <1>2, <1>3

LEMMA SubmitAgrees ==
  ASSUME ClientTyped, nreq \in Nat, NEW r \in Requests, Submit(r), ~harm'
  PROVE  Agree(csdo', ssdo', c2s', s2c')
<1> DEFINE items == ItemsOf(r)
<1>1. \/ r.kind = "dn" /\ co_csdo_dn_req(items[1])
      \/ r.kind = "up" /\ co_csdo_up_req(r.idx)
      \/ r.kind = "blk_dn" /\ co_csdo_blk_dn_req(items[1])
      \/ r.kind = "blk_up" /\ co_csdo_blk_up_req(r.idx, r.pst)
      \/ r.kind = "dcf" /\ co_csdo_dn_dcf_req(items)
  BY ItemsType DEF Submit
<1>2. Fresh(ssdo) /\ c2s = <<>> /\ s2c = <<>> /\ ssdo' = ssdo /\ s2c' = s2c
  BY DEF Submit, Quiet, Fresh
<1>3. ~IsUp(r) => items \in Seq(ValueItem) /\ items # <<>>
  BY ItemsType
<1>4. IsUp(r) => r.idx \in Indices /\ (r.kind = "blk_up" => r.pst \in Nat)
  BY ItemsType DEF IsUp
<1> HIDE DEF items
<1>5. CASE r.kind \in {"dn", "blk_dn", "dcf"}
  <2>1. items \in Seq(ValueItem) /\ items # <<>>
    BY <1>3, <1>5 DEF IsUp
  <2>2. co_csdo_dn_req(items[1]) \/ co_csdo_dn_dcf_req(items) \/ co_csdo_blk_dn_req(items[1])
    BY <1>1, <1>5
  <2>3. Agree(csdo', ssdo, c2s', <<>>)
    BY <1>2, <2>1, <2>2, DnReqAgrees
  <2> QED
    BY <1>2, <2>3
<1>6. CASE r.kind \in {"up", "blk_up"}
  <2>1. r.idx \in Indices
    BY <1>4, <1>6 DEF IsUp
  <2>2. co_csdo_up_req(r.idx) \/ (r.pst \in Nat /\ co_csdo_blk_up_req(r.idx, r.pst))
    BY <1>1, <1>4, <1>6 DEF IsUp
  <2>3. Agree(csdo', ssdo, c2s', <<>>)
    BY <1>2, <2>1, <2>2, UpReqAgrees
  <2> QED
    BY <1>2, <2>3
<1> QED
  BY <1>1, <1>5, <1>6

-----------------------------------------------------------------------------
(* Undisturbed requests succeed                                            *)

LEMMA UndisturbedInit == Init => Undisturbed
<1> SUFFICES ASSUME Init PROVE Undisturbed
  OBVIOUS
<1>1. csdo.state = "wait" /\ c2s = <<>> /\ s2c = <<>> /\ con.ac = "NONE"
  BY DEF Init, CsdoInit, NoCon
<1>2. Fresh(ssdo)
  BY DEF Init, SsdoInit, Fresh
<1> QED
  BY <1>1, <1>2 DEF Undisturbed, Agree, Rests

LEMMA UndisturbedNext == ChannelInv /\ [Next]_vars => Undisturbed'
<1> SUFFICES ASSUME SdoTypes, Undisturbed, [Next]_vars, ~harm'
             PROVE  /\ Agree(csdo', ssdo', c2s', s2c')
                    /\ req' = NoReq => con'.ac \in {"NONE", "OK"} \cup AccessErrors
  BY Zenon DEF ChannelInv, Undisturbed
<1> DEFINE Kept == /\ Agree(csdo', ssdo', c2s', s2c')
                   /\ req' = NoReq => con'.ac \in {"NONE", "OK"} \cup AccessErrors
<1>1. ClientTyped /\ ServerTyped /\ nreq \in Nat /\ (csdo.pending <=> req # NoReq)
  BY DEF SdoTypes, ClientTyped, ServerTyped
<1>2. ~harm => /\ Agree(csdo, ssdo, c2s, s2c)
               /\ req = NoReq => con.ac \in {"NONE", "OK"} \cup AccessErrors
  BY DEF Undisturbed
<1>3. csdo.blksize \in Nat /\ ssdo.blksize \in Nat /\ ServerData(ssdo)
  BY <1>1, ClientFacts, ServerFacts, ServerFields DEF ClientRecord
<1>4. ~harm => csdo.state # "stopped" /\ ssdo.state # "stopped"
  BY <1>2, <1>3, AgreeBusy
<1>5. ASSUME NEW r \in Requests, Submit(r)
      PROVE  Kept
  BY <1>1, <1>5, SubmitAgrees, SubmitStep
<1>6. CASE ClientRecv
  <2>1. co_csdo_recv /\ EndRequest /\ ssdo' = ssdo /\ harm' = harm
    BY <1>6 DEF ClientRecv
  <2>2. ClientAgrees
    BY <1>1, <1>2, <2>1, ClientKeepsAgreement
  <2>3. req' = NoReq => ~csdo'.pending
    <3>1. ClientStep
      BY <1>1, <2>1, ClientRecvStep DEF ServerTyped
    <3> QED
      BY <1>1, <2>1, <3>1, EndRequestPending DEF ClientStep
  <2> QED
    BY <2>1, <2>2, <2>3 DEF ClientAgrees
<1>7. CASE ServerRecv
  <2>1. co_ssdo_recv /\ csdo' = csdo /\ con' = con /\ req' = req /\ harm' = harm
    BY <1>7 DEF ServerRecv
  <2>2. ServerAgrees
    BY <1>1, <1>2, <2>1, ServerKeepsAgreement
  <2> QED
    BY <1>2, <2>1, <2>2 DEF ServerAgrees
<1>8. CASE ClientStart \/ ServerStart
  <2>1. csdo.state = "stopped" \/ ssdo.state = "stopped"
    BY <1>8 DEF ClientStart, ServerStart, co_csdo_start, co_ssdo_start
  <2>2. harm' = harm
    BY <1>8 DEF ClientStart, ServerStart, hist
  <2> QED
    BY <1>4, <2>1, <2>2
<1>9. CASE ServerTimeoutOff
  <2>1. /\ csdo' = csdo /\ con' = con /\ c2s' = c2s /\ s2c' = s2c /\ req' = req /\ harm' = harm
        /\ co_ssdo_set_timeout(FALSE)
    BY <1>9 DEF ServerTimeoutOff, hist
  <2>2. SameTransfer(ssdo, ssdo')
    BY <1>3, <2>1 DEF co_ssdo_set_timeout, SameTransfer, ServerData, ServerRecord
  <2>3. Agree(csdo, ssdo', c2s, s2c)
    BY <1>2, <2>1, <2>2, SameAgrees
  <2> QED
    BY <1>2, <2>1, <2>3
<1>10. CASE LocalWrite
  <2>1. /\ csdo' = csdo /\ con' = con /\ ssdo' = ssdo /\ c2s' = c2s /\ s2c' = s2c
        /\ req' = req /\ harm' = harm
    BY <1>10 DEF LocalWrite
  <2> QED
    BY <1>2, <2>1
<1>11. CASE \/ ClientTimeout \/ ServerTimeout \/ LoseRequest \/ LoseResponse
            \/ ClientAbort \/ ClientStop \/ ServerStop
  BY <1>11 DEF ClientTimeout, ServerTimeout, LoseRequest, LoseResponse, ClientAbort, ClientStop, ServerStop
<1>12. CASE UNCHANGED vars
  <2>1. /\ csdo' = csdo /\ con' = con /\ ssdo' = ssdo /\ c2s' = c2s /\ s2c' = s2c
        /\ req' = req /\ harm' = harm
    BY <1>12 DEF vars, hist
  <2> QED
    BY <1>2, <2>1
<1> QED
  BY <1>5, <1>6, <1>7, <1>8, <1>9, <1>10, <1>11, <1>12 DEF Next

(* While nothing disturbs the pending request, the client, the server and   *)
(* the frames under way are in one of the joint states of its transfer      *)
(* mode: they agree on the toggle bit, the sequence number, the bytes       *)
(* moved so far and the CRC (the on_recv functions of csdo.c and ssdo.c).   *)
THEOREM ChannelInvHolds == Spec => []ChannelInv
<1>1. Init => ChannelInv
  BY TypesInit, UndisturbedInit DEF ChannelInv
<1>2. ChannelInv /\ [Next]_vars => ChannelInv'
  BY TypesNext, UndisturbedNext DEF ChannelInv
<1> QED
  BY <1>1, <1>2, PTL DEF Spec

(* A request that nothing disturbs is confirmed with success, unless the    *)
(* object refuses it, and a frame is under way until then: client and       *)
(* server (csdo.c, ssdo.c) never abort each other and never both wait, in   *)
(* the expedited, segmented and block modes and in a DCF, for values of     *)
(* every size and every block size up to 127.                               *)
THEOREM UndisturbedSucceedsHolds == Spec => []UndisturbedSucceeds
<1>1. ChannelInv => UndisturbedSucceeds
  <2> SUFFICES ASSUME SdoTypes, Undisturbed, ~harm
               PROVE  /\ (req = NoReq /\ con.ac # "NONE") => con.ac \in {"OK"} \cup AccessErrors
                      /\ req # NoReq => ~Quiet
    BY Zenon DEF ChannelInv, UndisturbedSucceeds
  <2>1. /\ Agree(csdo, ssdo, c2s, s2c)
        /\ req = NoReq => con.ac \in {"NONE", "OK"} \cup AccessErrors
    BY DEF Undisturbed
  <2>2. ClientTyped /\ ServerTyped /\ (csdo.pending <=> req # NoReq)
    BY DEF SdoTypes, ClientTyped, ServerTyped
  <2>3. csdo.blksize \in Nat /\ ssdo.blksize \in Nat
    BY <2>2, ClientFacts, ServerFacts, ServerFields DEF ClientRecord
  <2>4. req # NoReq => csdo.state # "wait"
    BY <2>2 DEF ClientTyped, ClientOk, Idling
  <2>5. csdo.state # "wait" => ~Quiet
    BY <2>1, <2>3, AgreeBusy DEF Quiet
  <2> QED
    BY <2>1, <2>4, <2>5
<1> QED
  BY <1>1, ChannelInvHolds, PTL
=============================================================================

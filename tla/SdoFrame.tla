------------------------------ MODULE SdoFrame ------------------------------
(***************************************************************************)
(* The CAN frames of one SDO channel (co/sdo.h) and the two queues that    *)
(* carry them: c2s from the Client-SDO to the Server-SDO, s2c back. A      *)
(* frame keeps its command byte as a number, because both ends decode the  *)
(* same byte in different ways (a command specifier in most states, a      *)
(* sequence number in the sub-block states), and a frame of one transfer   *)
(* can meet a peer that is still in another.                               *)
(*                                                                         *)
(* idx is the multiplexer (index and sub-index), data the bytes of the     *)
(* object value the frame carries, arg whatever else it carries: a number  *)
(* (size, acknowledged sequence number or protocol switch threshold), the  *)
(* block size, the CRC or the abort code. A frame of the segment kind      *)
(* carries no multiplexer (NoIdx).                                         *)
(***************************************************************************)
EXTENDS Integers, Sequences

CONSTANT NoIdx    \* the multiplexer bytes of a frame that has none: zero

VARIABLES c2s, s2c

Frame(cs, idx, arg, data) == [cs |-> cs, idx |-> idx, arg |-> arg, data |-> data]

NoArg            == [num |-> 0, blksize |-> 0, crc |-> <<>>, ac |-> "NONE"]
Num(n)           == [NoArg EXCEPT !.num = n]
Blk(n, blksize)  == [NoArg EXCEPT !.num = n, !.blksize = blksize]

(* The command specifier: the byte masked with CO_SDO_CS_MASK, in units of  *)
(* 32, for the client (CCS) and for the server (SCS).                       *)
Cs(m) == m.cs \div 32

CCS_DN_SEG == 0
CCS_DN_INI == 1
CCS_UP_INI == 2
CCS_UP_SEG == 3
CS_ABORT   == 4
CCS_BLK_UP == 5
CCS_BLK_DN == 6
SCS_UP_SEG == 0
SCS_DN_SEG == 1
SCS_UP_INI == 2
SCS_DN_INI == 3
SCS_BLK_DN == 5
SCS_BLK_UP == 6

(* The subcommand of the block protocols (CO_SDO_SC_MASK).                  *)
Sc(m) == m.cs % 4

SC_INI_BLK  == 0
SC_END_BLK  == 1
SC_BLK_RES  == 2
SC_START_UP == 3

IsExpedited(m) == (m.cs \div 2) % 2 = 1   \* CO_SDO_INI_SIZE_EXP
ExpSize(m)     == 4 - ((m.cs % 16) \div 4) \* CO_SDO_INI_SIZE_EXP_GET
Toggle(m)      == (m.cs \div 16) % 2      \* CO_SDO_SEG_TOGGLE
IsLastSeg(m)   == m.cs % 2 = 1            \* CO_SDO_SEG_LAST
HasCrc(m)      == (m.cs \div 4) % 2 = 1   \* CO_SDO_BLK_CRC
BlkSizeGet(m)  == 7 - ((m.cs \div 4) % 8)  \* CO_SDO_BLK_SIZE_GET

(* The same byte read as a block segment (CO_SDO_SEQ_LAST).                 *)
SeqNo(m)       == m.cs % 128
IsLastSeq(m)   == m.cs >= 128
IsAbortByte(m) == m.cs = 32 * CS_ABORT

(* The receiver of a block acknowledges it after this segment.              *)
EndOfBlock(m, blksize) == SeqNo(m) = blksize \/ IsLastSeq(m)

ExpByte(cs, n)          == 32 * cs + ((4 * (4 - n) + 3) % 16)
SizeByte(cs)            == 32 * cs + 1
SegByte(cs, t, n, last) == 32 * cs + 16 * t + 2 * (7 - n) + (IF last THEN 1 ELSE 0)
BlkIniByte(cs, size)    == 32 * cs + 4 + (IF size THEN 2 ELSE 0) + SC_INI_BLK
BlkEndByte(cs, n)       == 32 * cs + 4 * (7 - n) + SC_END_BLK
SeqByte(seqno, last)    == seqno + (IF last THEN 128 ELSE 0)

(* The abort code of a frame read as an abort. The last segment of a block  *)
(* reads as one too in a state that does not expect it; its code is then    *)
(* whatever the data bytes hold.                                            *)
AbortCode(m) == IF IsAbortByte(m) THEN m.arg.ac ELSE "JUNK"

AbortFrame(idx, ac) == Frame(32 * CS_ABORT, idx, [NoArg EXCEPT !.ac = ac], <<>>)

(* Bytes per segment, and the bytes a segment that starts at pos carries.   *)
SegBytes == 7

Lesser(a, b) == IF a < b THEN a ELSE b

Segment(bytes, pos, n) == SubSeq(bytes, pos + 1, pos + n)

(* The number of data bytes in the last segment of a data set.              *)
LastBytes(size) == IF size > 0 THEN ((size - 1) % SegBytes) + 1 ELSE 0

(* A frame is sent with all its bytes, the unused ones zero, and n bytes    *)
(* are read from it whatever it carries. An expedited frame has four.       *)
ZeroByte == <<0, 0>>

Padded(bytes, n) == [i \in 1..n |-> IF i <= Len(bytes) THEN bytes[i] ELSE ZeroByte]

Expedited(bytes) == Padded(bytes, 4)

(* The frames of block segments 1..k of the bytes from pos on; the last     *)
(* one is marked when nothing follows it.                                   *)
BlockOf(bytes, pos, k, end) ==
  [i \in 1..k |->
     LET from == pos + (i - 1) * SegBytes
         left == Len(bytes) - from
     IN  Frame(SeqByte(i, end /\ left <= SegBytes), NoIdx, NoArg,
               Segment(bytes, from, Lesser(left, SegBytes)))]

(* The CRC of a data set: the bytes it was computed from, so that two data  *)
(* sets have the same CRC only when they are equal.                         *)
co_crc(crc, bytes) == crc \o bytes
=============================================================================

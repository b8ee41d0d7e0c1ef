--------------------------- MODULE MCSdoTransfer ---------------------------
EXTENDS SdoTransfer, TLC

CONSTANTS o1, o2, ro, gone

MCInitialSize == (o1 :> 15 @@ o2 :> 3 @@ ro :> 8)

Rq(kind, idx, size, pst) == [kind |-> kind, idx |-> idx, size |-> size, pst |-> pst]

MCRequests ==
  { Rq("dn", o1, 4, 0), Rq("dn", o1, 8, 0), Rq("dn", gone, 5, 0),
    Rq("up", o1, 0, 0), Rq("up", o2, 0, 0),
    Rq("blk_dn", o1, 15, 0), Rq("blk_dn", ro, 7, 0),
    Rq("blk_up", o1, 0, 0), Rq("blk_up", ro, 0, 8),
    [kind |-> "dcf", items |-> <<[idx |-> o1, size |-> 2], [idx |-> o2, size |-> 9]>>] }
=============================================================================

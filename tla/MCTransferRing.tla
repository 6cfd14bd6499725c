---------------------------- MODULE MCTransferRing ----------------------------
(* TransferRing on a ring of six slots and a link TRB, with TDs of one or    *)
(* three TRBs, in one or two fragments: a fragment can be moved from either  *)
(* of the last two slots, and the ring is gone round more than once.         *)
EXTENDS TransferRing

CONSTANT MaxSuspectTRBs   \* bound: TRBs laid out on a ring followed once it is suspect

Followed == suspect => written <= MaxSuspectTRBs
===============================================================================

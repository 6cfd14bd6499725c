---------------------------- MODULE MCCommandRing ----------------------------
(* CommandRing on a ring of three command slots and a link TRB: at most two  *)
(* commands outstanding, and enough commands to wrap it.                     *)
EXTENDS CommandRing
=============================================================================

----------------------------- MODULE MCEventRing -----------------------------
(* EventRing with room for one or two events on each queue: both are full,   *)
(* and go round, in a behaviour.                                             *)
EXTENDS EventRing
==============================================================================

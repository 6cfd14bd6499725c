---------------------------- MODULE MCIsochEndpoint ----------------------------
(* The isochronous endpoint with three slots: see MCIsochEndpoint.cfg.            *)
EXTENDS IsochEndpoint
=============================================================================

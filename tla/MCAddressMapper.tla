---------------------------- MODULE MCAddressMapper ----------------------------
(* A hub and a device behind it.                                                  *)
EXTENDS AddressMapper
================================================================================

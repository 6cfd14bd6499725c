--------------------------- MODULE MCAsyncEndpoint ---------------------------
(* AsyncEndpoint on small instances; the .cfg files give the constants values. *)
EXTENDS AsyncEndpoint
==============================================================================

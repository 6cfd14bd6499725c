----------------------------- MODULE MCCompleter -----------------------------
(* Completer with three blocks of memory, one of which is retained.          *)
EXTENDS Completer
==============================================================================

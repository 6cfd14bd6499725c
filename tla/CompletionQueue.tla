--------------------------- MODULE CompletionQueue ---------------------------
(***************************************************************************)
(* What a Completer promises: completions are called in the order they were *)
(* added, each once, one at a time; more may be added while one is called.  *)
(* A completion for which there is no memory is called at once instead. A   *)
(* Completer that is finalized forgets what it has not called.              *)
(*                                                                         *)
(* Completions are numbered 1, 2, ... in the order of AddItem.              *)
(***************************************************************************)
EXTENDS Integers, Sequences

CONSTANT MaxAdds    \* bound: completions added in a behaviour

VARIABLES
  added,      \* completions added so far
  pending,    \* those to be called, oldest first
  called      \* the one called last

vars == <<added, pending, called>>

Init == added = 0 /\ pending = <<>> /\ called = 0

Add ==
  /\ added < MaxAdds /\ added' = added + 1
  /\ \/ pending' = Append(pending, added + 1) /\ UNCHANGED called
     \/ called' = added + 1 /\ UNCHANGED pending          \* no memory

Call ==
  /\ pending # <<>>
  /\ called' = Head(pending) /\ pending' = Tail(pending)
  /\ UNCHANGED added

Forget == pending' = <<>> /\ UNCHANGED <<added, called>>

Next == Add \/ Call \/ Forget
Spec == Init /\ [][Next]_vars
=============================================================================

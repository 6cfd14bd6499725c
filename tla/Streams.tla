-------------------------------- MODULE Streams --------------------------------
(***************************************************************************)
(* The stream rings of a bulk endpoint (Streams.cpp): the array of rings, one *)
(* page each, is sorted by physical address when the endpoint is created     *)
(* (AllocStreamsContextArray and its quicksort, which keeps its ranges on a  *)
(* stack of fixed size), given its asynchronous endpoints when the device's  *)
(* driver asks for streams (UIMCreateStreams) and searched by halving for    *)
(* the stream of a transfer event (FindStream).                            *)
(*                                                                         *)
(* An address counts TRBs; a page holds NumTRBs of them. The pages of the    *)
(* buffer are contiguous for the kernel but not for the xHC: their physical  *)
(* addresses come in any order, with gaps.                                  *)
(***************************************************************************)
EXTENDS Integers, Sequences, FiniteSets

CONSTANTS MaxStream,      \* maxStreamForEndpoint: 2^k - 1, up to 255
          StackSize,      \* entries of lefts[] and rights[]: 9
          NumTRBs,        \* TRBs of a page, the last of which is the link
          NumPages,       \* bound: pages the physical addresses are taken from
          MaxCalls        \* bound: calls of UIMCreateStreams

ASSUME StreamAssumption == MaxStream \in Nat \ {0} /\ NumTRBs \in Nat \ {0, 1} /\ NumPages \in Nat

\* The entries a range has if it can be halved k times: 2^k.
Pow2[k \in Nat] == IF k = 0 THEN 1 ELSE 2 * Pow2[k - 1]

ASSUME StackAssumption  == StackSize \in Nat /\ Pow2[StackSize] > MaxStream
ASSUME CallsAssumption  == MaxCalls \in Nat

StreamIds == 1..MaxStream
Addresses == {page * NumTRBs : page \in 0..(NumPages - 1)}

VARIABLES
  physAddr,        \* physAddr of each stream's ring
  contexts,        \* the ring the stream context array gives the xHC for each stream
  used,            \* the streams with an asynchronous endpoint (asyncEndpoint, md)
  lastStream,      \* lastStreamForEndpoint
  lefts, rights,   \* the stack of qsort; its top is index tos
  part,            \* L, R and pivot of partition, or NoPart
  pc, calls

sortVars == <<lefts, rights, part>>
streamVars == <<physAddr, contexts, used, lastStream, sortVars, pc, calls>>

NoPart == [L |-> 0, R |-> -1, pivot |-> 0]

\* CreateRing leaves the rings zeroed.
StreamsInit ==
  /\ physAddr = [s \in StreamIds |-> 0] /\ contexts = [s \in StreamIds |-> 0]
  /\ used = {} /\ lastStream = 0
  /\ lefts = <<>> /\ rights = <<>> /\ part = NoPart
  /\ pc = "none" /\ calls = 0

-----------------------------------------------------------------------------
(* AllocStreamsContextArray.                                               *)

\* A page for each stream, then qsort starts with the whole range.
AllocStreamsContextArray ==
  /\ pc = "none"
  /\ physAddr' \in {f \in [StreamIds -> Addresses] : \A s, t \in StreamIds : s # t => f[s] # f[t]}
  /\ lefts' = <<1>> /\ rights' = <<MaxStream>> /\ part' = NoPart /\ pc' = "qsort"
  /\ UNCHANGED <<contexts, used, lastStream, calls>>

Top(stack) == stack[Len(stack)]
Below(stack) == SubSeq(stack, 1, Len(stack) - 1)
sortUnchanged == UNCHANGED <<contexts, used, lastStream, calls>>

QsortPop ==
  /\ pc = "qsort" /\ lefts # <<>> /\ Top(lefts) >= Top(rights)
  /\ lefts' = Below(lefts) /\ rights' = Below(rights)
  /\ UNCHANGED <<physAddr, part, pc>> /\ sortUnchanged

QsortPartition ==
  /\ pc = "qsort" /\ lefts # <<>> /\ Top(lefts) < Top(rights)
  /\ part' = [L |-> Top(lefts), R |-> Top(rights), pivot |-> physAddr[Top(rights)]]
  /\ pc' = "partition"
  /\ UNCHANGED <<physAddr, lefts, rights>> /\ sortUnchanged

\* The first index from R down whose address is not above the pivot, the first from L up
\* whose address is; one past the other end when there is none.
SkipDown == CHOOSE r \in (part.L - 1)..part.R :
              /\ \A i \in (r + 1)..part.R : physAddr[i] > part.pivot
              /\ r >= part.L => physAddr[r] <= part.pivot
SkipUp(R) == CHOOSE l \in part.L..(R + 1) :
              /\ \A i \in part.L..(l - 1) : physAddr[i] <= part.pivot
              /\ l <= R => physAddr[l] > part.pivot

Swapped(l, r) == [physAddr EXCEPT ![l] = physAddr[r], ![r] = physAddr[l]]

PartitionStep ==
  /\ pc = "partition" /\ part.L <= part.R
  /\ LET R == SkipDown
         L == SkipUp(R)
     IN IF L < R THEN physAddr' = Swapped(L, R) /\ part' = [part EXCEPT !.L = L + 1, !.R = R - 1]
                 ELSE part' = [part EXCEPT !.L = L, !.R = R] /\ UNCHANGED physAddr
  /\ UNCHANGED <<lefts, rights, pc>> /\ sortUnchanged

\* The larger part stays below, the smaller one goes on top.
RightIsSmaller_Not(L, P, R) == R - P > P - L + 1
RightIsSmaller(L, P, R) == R - P <= P - L + 1

QsortSplit ==
  /\ pc = "partition" /\ part.L > part.R
  /\ LET L == Top(lefts)
         R == Top(rights)
         P == IF part.R = R THEN R - 1 ELSE part.R
         Left == <<L, P>>
         Right == <<P + 1, R>>
         lower == IF RightIsSmaller(L, P, R) THEN Left ELSE Right
         upper == IF RightIsSmaller(L, P, R) THEN Right ELSE Left
     IN /\ lefts' = Append(Append(Below(lefts), lower[1]), upper[1])
        /\ rights' = Append(Append(Below(rights), lower[2]), upper[2])
  /\ part' = NoPart /\ pc' = "qsort"
  /\ UNCHANGED physAddr /\ sortUnchanged

\* InitPreallocedRing and the stream context of each ring.
InitRings ==
  /\ pc = "qsort" /\ lefts = <<>>
  /\ contexts' = physAddr /\ pc' = "ready"
  /\ UNCHANGED <<physAddr, used, lastStream, sortVars, calls>>

-----------------------------------------------------------------------------
(* UIMCreateStreams, DeleteStreams.                                        *)

\* What CleanupPartialStreamAllocations leaves of the rings that are marked.
Cleaned_ButLast(marked, s) == marked \ 1..(s - 1)
Cleaned(marked, s) == marked \ 1..s

\* CreateStream marks the ring, then makes its endpoint. It refuses a ring that is marked.
CreateStreamsSucceeds(maxStream) ==
  /\ used \cap 1..maxStream = {}
  /\ used' = used \cup 1..maxStream /\ lastStream' = maxStream

\* No memory for the endpoint of stream s, or its ring is marked.
CreateStreamsFails(maxStream) ==
  /\ \E s \in 1..maxStream :
       /\ used \cap 1..(s - 1) = {}
       /\ used' = Cleaned(used \cup 1..s, s)
  /\ lastStream' = 0

\* The device's driver asks once the endpoint is there, and no more than UIMMaxSupportedStream.
UIMCreateStreams ==
  /\ pc = "ready" /\ lastStream = 0 /\ calls < MaxCalls
  /\ calls' = calls + 1
  /\ \E maxStream \in StreamIds : CreateStreamsSucceeds(maxStream) \/ CreateStreamsFails(maxStream)
  /\ UNCHANGED <<physAddr, contexts, sortVars, pc>>

\* UIMDeleteEndpoint: DeleteStreams, then the rings are freed.
DeleteStreams ==
  /\ pc = "ready"
  /\ used' = used \ 1..lastStream /\ lastStream' = 0
  /\ physAddr' = [s \in StreamIds |-> 0] /\ contexts' = [s \in StreamIds |-> 0]
  /\ pc' = "none"
  /\ UNCHANGED <<sortVars, calls>>

-----------------------------------------------------------------------------
(* FindStream, for an address in a transfer event.                         *)

NotFound == [stream |-> 0, index |-> 0]

Beyond_Link(diff) == diff >= NumTRBs
Beyond(diff) == diff >= NumTRBs - 1

FindStream(addr) ==
  LET look[range \in (1..(MaxStream + 1)) \X (0..MaxStream)] ==
        LET L == range[1]
            R == range[2]
            M == (L + R) \div 2
            diff == addr - physAddr[M]
        IN IF L > R THEN NotFound
           ELSE IF diff < 0 THEN look[<<L, M - 1>>]
           ELSE IF Beyond(diff) THEN look[<<M + 1, R>>]
           ELSE [stream |-> M, index |-> diff]
  IN look[<<1, lastStream>>]

-----------------------------------------------------------------------------
StreamsNext ==
  \/ AllocStreamsContextArray
  \/ QsortPop \/ QsortPartition \/ PartitionStep \/ QsortSplit
  \/ InitRings
  \/ UIMCreateStreams \/ DeleteStreams

StreamsSpec == StreamsInit /\ [][StreamsNext]_streamVars

-----------------------------------------------------------------------------
(* What is promised.                                                       *)

\* The ranges of qsort never need more entries than lefts[] and rights[] have, whatever order
\* the pages come in: 2^StackSize exceeds the number of streams (qsort, Streams.cpp).
StackSuffices == Len(lefts) <= StackSize

\* The event of any TRB that the xHC runs for a stream in use is taken to that stream and
\* that TRB; an address in no ring in use, or of a link TRB, is taken to no stream
\* (FindStream, on what AllocStreamsContextArray sorted and wrote to the stream contexts).
EventFindsItsStream ==
  (pc = "ready" /\ lastStream > 0) =>
    \A addr \in 0..(NumPages * NumTRBs) :
      FindStream(addr) =
        IF \E s \in 1..lastStream : addr - contexts[s] \in 0..(NumTRBs - 2)
        THEN LET s == CHOOSE t \in 1..lastStream : addr - contexts[t] \in 0..(NumTRBs - 2)
             IN [stream |-> s, index |-> addr - contexts[s]]
        ELSE NotFound

\* Exactly the streams in use have an endpoint: what a failed UIMCreateStreams made before it
\* failed is undone, so that the next call is not refused for a ring still in use.
NoStreamLeftBehind == used = 1..lastStream
=============================================================================

-------------------------- MODULE MCHeapAllocation --------------------------
(* Instances of HeapAllocation: two processes on a small heap. *)
EXTENDS HeapAllocation

CONSTANTS p1, p2

Powers == [i \in Lists |-> 2 ^ i]

Direct(w) == [words |-> w, external |-> FALSE]

SmallRequests == {Direct(1), Direct(2), [words |-> 3, external |-> TRUE]}
=============================================================================

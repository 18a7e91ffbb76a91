------------------------------ MODULE MCProcess ------------------------------
(* An instance of Process: three processes with a short counter.             *)
EXTENDS Process, TLC

CONSTANTS p1, p2, p3

ShortAddress == [p \in Procs |-> CASE p = p1 -> 16 [] p = p2 -> 0 [] OTHER -> 48]
=============================================================================

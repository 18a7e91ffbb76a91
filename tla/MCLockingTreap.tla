--------------------------- MODULE MCLockingTreap ---------------------------
(* Instances of LockingTreap: two threads, six keys in every order.         *)
EXTENDS LockingTreap

CONSTANTS t1, t2

SomeKeys == 1 .. 6
SomeInitKeys == <<3, 5>>
=============================================================================

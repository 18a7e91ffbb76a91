------------------------------- MODULE MCTreap -------------------------------
(* An instance of Treap: five keys in memory of four, then six elements.     *)
EXTENDS Treap

FiveKeys == 1 .. 5
TwoSizes == {4, 6}
=============================================================================

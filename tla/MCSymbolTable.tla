---------------------------- MODULE MCSymbolTable ----------------------------
(* Instances of SymbolTable.  Two initial strings leave one element of the   *)
(* memory that takes them free, as the code's 53 leave ten of 64 (one is the *)
(* root's).  The second constant is written with another arity than its      *)
(* string has, as three of the code are.                                     *)
EXTENDS SymbolTable

CONSTANTS p1, p2

SixStrings == 1 .. 6
Initial == <<4, 2>>
SomeLoads == {<<6>>, <<4, 1>>}
Arities == [s \in Strings |-> (s + 1) % 2]
WrittenArities == <<1, 0>>

ASSUME EnoughRoomHere == \A k \in 0 .. 32 : RoomAfter(k)
=============================================================================

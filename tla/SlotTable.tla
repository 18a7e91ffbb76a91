------------------------------ MODULE SlotTable ------------------------------
(***************************************************************************)
(* What the array treap of the Zig VM promises: keys have slots of their   *)
(* own and keep them, slots can be reserved without a key, and a slot is   *)
(* found as long as there is one.                                          *)
(***************************************************************************)
EXTENDS Integers

CONSTANTS Keys, Sizes

VARIABLES
  slot,       (* the keys in the table, each with its slot                  *)
  reserved,   (* slots taken without a key                                  *)
  size,       (* of the table; slot 0 is not for keys                       *)
  result      (* the slot the last request was given, 0 if refused          *)

vars == <<slot, reserved, size, result>>

Used == {slot[k] : k \in DOMAIN slot} \cup reserved
Unused == (1 .. size - 1) \ Used

Init == slot = <<>> /\ reserved = {} /\ size = 0 /\ result = 0

Insert(k) ==
  /\ k \notin DOMAIN slot
  /\ \E s \in Unused :
       /\ slot' = [j \in DOMAIN slot \cup {k} |-> IF j = k THEN s ELSE slot[j]]
       /\ result' = s
  /\ UNCHANGED <<reserved, size>>

Find(k) ==
  /\ k \in DOMAIN slot
  /\ result' = slot[k]
  /\ UNCHANGED <<slot, reserved, size>>

Reserve ==
  /\ \E s \in Unused : reserved' = reserved \cup {s} /\ result' = s
  /\ UNCHANGED <<slot, size>>

Refuse ==
  /\ Unused = {}
  /\ result' = 0
  /\ UNCHANGED <<slot, reserved, size>>

Remove(k) ==
  /\ slot' = [j \in DOMAIN slot \ {k} |-> slot[j]]
  /\ UNCHANGED <<reserved, size, result>>

Resize ==
  /\ size' \in {n \in Sizes : n > size}
  /\ UNCHANGED <<slot, reserved, result>>

Next ==
  \/ \E k \in Keys : Insert(k) \/ Find(k) \/ Remove(k)
  \/ Reserve \/ Refuse \/ Resize

Spec == Init /\ [][Next]_vars
=============================================================================

-------------------------------- MODULE Treap --------------------------------
(***************************************************************************)
(* An array treap of the Zig VM (zig/zag/utilities/treap.zig) and its      *)
(* operations, in memory the caller supplies and enlarges.  The symbol     *)
(* table interns in one; the class table also takes positions without keys *)
(* for metaclasses (class.zig:119).  Each call is a step: the code has no  *)
(* locks and one caller at a time.                                         *)
(***************************************************************************)
EXTENDS TreapOperators

CONSTANTS
  Keys,      (* keys, above the key `empty`                                 *)
  Sizes      (* lengths of the memory resize is given                       *)

ASSUME TreapAssumption ==
  /\ Keys \subseteq Nat \ {empty}
  /\ Sizes \subseteq Nat \ {0}

VARIABLES
  table,     (* the treap                                                   *)
  reserved,  (* positions nextFree returned to a caller                     *)
  result     (* what insert or nextFree returned, 0 when out of space       *)

vars == <<table, reserved, result>>

-----------------------------------------------------------------------------
Init ==
  /\ table = NoMemory
  /\ reserved = {}
  /\ result = 0

Used == Elements(table) > 0

insertNew(k) ==
  /\ Used
  /\ lookup(table, k) = 0
  /\ free(table) # 0
  /\ table' = inserted(table, k)
  /\ result' = free(table)
  /\ UNCHANGED reserved

insertExisting(k) ==
  /\ Used
  /\ lookup(table, k) # 0
  /\ result' = lookup(table, k)
  /\ UNCHANGED <<table, reserved>>

OutOfSpace(k) ==
  /\ Used
  /\ k = empty \/ lookup(table, k) = 0
  /\ free(table) = 0
  /\ result' = 0
  /\ UNCHANGED <<table, reserved>>

insert(k) == insertNew(k) \/ insertExisting(k) \/ OutOfSpace(k)

nextFree ==
  \/ /\ Used
     /\ free(table) # 0
     /\ table' = Taken(table)
     /\ reserved' = reserved \cup {free(table)}
     /\ result' = free(table)
  \/ OutOfSpace(empty)

remove(k) ==
  /\ Used
  /\ table' = removed(table, k)
  /\ UNCHANGED <<reserved, result>>

Resize(n) ==
  /\ n > Elements(table)
  /\ table' = resize(table, n)
  /\ UNCHANGED <<reserved, result>>

Next ==
  \/ \E k \in Keys : insert(k) \/ remove(k)
  \/ nextFree
  \/ \E n \in Sizes : Resize(n)

Spec == Init /\ [][Next]_vars

-----------------------------------------------------------------------------
Capacity == 1 .. Elements(table) - 1
Keyed == {p \in Capacity : table.key[p] # empty}
Idle == Capacity \ (Keyed \cup reserved)

TypeOK ==
  /\ Positions(table) = Memory(Elements(table))
  /\ table.key \in [Positions(table) -> Keys \cup {empty}]
  /\ table.left \in [Positions(table) -> Positions(table)]
  /\ table.right \in [Positions(table) -> Positions(table)]
  /\ reserved \subseteq Capacity
  /\ result \in Capacity \cup {0}

(* lookup finds each key where it is, whatever was inserted, removed and     *)
(* copied to larger memory before.                                           *)
EveryKeyFound == \A p \in Keyed : lookup(table, table.key[p]) = p

(* No element outranks its parent (treap.zig:165 "Fix Heap property if it is *)
(* violated"), also after a removal has rotated subtrees up.                 *)
HeapOrdered ==
  \A p \in Keyed : ~Outranks(table.left[p], p) /\ ~Outranks(table.right[p], p)

(* A search tree and a heap in one, after any insertions, removals and       *)
(* enlargements (treap.zig:158-241).                                         *)
WellFormed == TypeOK /\ EveryKeyFound /\ HeapOrdered

(* The free list, threaded through the same field as the tree, holds each    *)
(* position that has no key and is not reserved, once.                       *)
FreeListExact ==
  Used =>
    LET fl == FreeList(table)
    IN /\ {fl[i] : i \in DOMAIN fl} = Idle
       /\ Len(fl) = Cardinality(Idle)

(* hasRoom answers for exactly as many keys as there are places: theTreap    *)
(* (symbol.zig:168) relies on it to never meet error.OutOfSpace.             *)
RoomAsPromised ==
  Used => \A n \in 0 .. Elements(table) : hasRoom(table, n) <=> n <= Cardinality(Idle)

(* lessEqual finds the greatest key not above k.                             *)
LessEqualIsFloor ==
  Used =>
    \A k \in Keys :
      LET below == {p \in Keyed : table.key[p] <= k}
          p == lessEqual(table, k)
      IN IF below = {} THEN p = 0
         ELSE p \in below /\ \A q \in below : table.key[q] <= table.key[p]

SlotOf(t, K) == [k \in {t.key[p] : p \in K} |-> CHOOSE p \in K : t.key[p] = k]

Slots == INSTANCE SlotTable WITH slot <- SlotOf(table, Keyed), size <- Elements(table)

(* Keys keep their positions until they are removed, positions are never     *)
(* shared, and a key is refused only when every position is taken.           *)
ImplementsSlotTable == Slots!Spec
=============================================================================

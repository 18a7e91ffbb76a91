--------------------------- MODULE TreapOperators ---------------------------
(***************************************************************************)
(* The functions of the array treap of the Zig VM                          *)
(* (zig/zag/utilities/treap.zig): a search tree by key and a heap by a     *)
(* priority computed from the position.  A treap t is a record of three    *)
(* functions, key, left and right, of the positions 0, 1, ...; element 0   *)
(* is the header: its `left` is the head of the free list, its `right` the *)
(* root.                                                                   *)
(* An operator named after another one with a suffix is that one with a    *)
(* slip in it, for the runs that show a property to notice it.             *)
(***************************************************************************)
EXTENDS Integers, Sequences, FiniteSets

empty == 0

Positions(t) == DOMAIN t.key
Elements(t) == Cardinality(Positions(t))

(* pos *% inversePhi(u32), as two halves of 16 bits. *)
priority(pos) ==
  LET low == pos * 31161
  IN <<(pos * 40503 + low \div 65536) % 65536, low % 65536>>

Outranks(p, q) ==
  LET a == priority(p)
      b == priority(q)
  IN a[1] > b[1] \/ (a[1] = b[1] /\ a[2] > b[2])

free(t) == IF Positions(t) = {} THEN 0 ELSE t.left[0]
root(t) == t.right[0]
setFree(t, pos) == [t EXCEPT !.left[0] = pos]
setRoot(t, pos) == [t EXCEPT !.right[0] = pos]

(* From start along the field `left`, up to its end 0. *)
chain(t, start) ==
  LET from[p \in Positions(t)] == IF p = 0 THEN <<>> ELSE <<p>> \o from[t.left[p]]
  IN from[start]

FreeList(t) == chain(t, free(t))

(* The positions from start on become free, behind those that are. *)
extend(t, start) ==
  LET fl == FreeList(t)
      linked == IF fl = <<>> THEN setFree(t, start)
                ELSE [t EXCEPT !.left[fl[Len(fl)]] = start]
      last == Elements(t) - 1
  IN [key   |-> [p \in Positions(t) |-> IF p >= start THEN empty ELSE t.key[p]],
      left  |-> [p \in Positions(t) |-> IF p = last THEN 0
                                        ELSE IF p >= start THEN p + 1 ELSE linked.left[p]],
      right |-> [p \in Positions(t) |-> IF p >= start THEN 0 ELSE t.right[p]]]

Memory(n) == 0 .. n - 1
Zeroes(n) == [p \in Memory(n) |-> 0]

init(n) == extend([key |-> Zeroes(n), left |-> Zeroes(n), right |-> Zeroes(n)], 1)

CopiedNothing(f, g) == g

Copied(f, g) == [p \in DOMAIN g |-> IF p \in DOMAIN f THEN f[p] ELSE g[p]]

(* The elements are copied to the new memory.  An empty treap initialises it *)
(* first, then extends it from position 0 on, over the header.               *)
resize(t, n) ==
  LET fresh == IF Elements(t) > 0
               THEN [key |-> Zeroes(n), left |-> Zeroes(n), right |-> Zeroes(n)]
               ELSE init(n)
  IN extend([key |-> Copied(t.key, fresh.key), left |-> Copied(t.left, fresh.left),
             right |-> Copied(t.right, fresh.right)],
            Elements(t))

hasRoomForOneLess(t, n) == Elements(t) > 0 /\ Len(FreeList(t)) + 1 >= n

hasRoom(t, n) == Elements(t) > 0 /\ Len(FreeList(t)) >= n

-----------------------------------------------------------------------------
lookup(t, k) ==
  LET under[p \in Positions(t)] ==
        IF p = 0 \/ t.key[p] = k THEN p
        ELSE under[IF t.key[p] < k THEN t.right[p] ELSE t.left[p]]
  IN under[root(t)]

lessEqualForgetful(t, k) ==
  LET under[at \in Positions(t) \X Positions(t)] ==
        LET p == at[1]
            best == at[2]
        IN IF p = 0 THEN best
           ELSE IF t.key[p] = k THEN p
           ELSE IF t.key[p] < k THEN under[<<t.right[p], p>>]
           ELSE under[<<t.left[p], 0>>]
  IN under[<<root(t), 0>>]

(* The last element passed on the way down that has a smaller key is `best`. *)
lessEqual(t, k) ==
  LET under[at \in Positions(t) \X Positions(t)] ==
        LET p == at[1]
            best == at[2]
        IN IF p = 0 THEN best
           ELSE IF t.key[p] = k THEN p
           ELSE IF t.key[p] < k THEN under[<<t.right[p], p>>]
           ELSE under[<<t.left[p], best>>]
  IN under[<<root(t), 0>>]

(* Rotations and the operators below return a tree and its new root. *)
Subtree(t, r) == [tree |-> t, top |-> r]

rightRotate(t, y) ==
  LET x == t.left[y]
  IN Subtree([t EXCEPT !.right[x] = y, !.left[y] = t.right[x]], x)

leftRotate(t, x) ==
  LET y == t.right[x]
  IN Subtree([t EXCEPT !.left[y] = x, !.right[x] = t.left[y]], y)

(* What was returned for a subtree becomes the left (right) one of p. *)
linkedLeft(s, p) == Subtree([s.tree EXCEPT !.left[p] = s.top], p)
linkedRight(s, p) == Subtree([s.tree EXCEPT !.right[p] = s.top], p)

insertedLeft(s, p) ==
  IF Outranks(s.top, p) THEN rightRotate(linkedLeft(s, p).tree, p) ELSE linkedLeft(s, p)

insertedRight(s, p) ==
  IF Outranks(s.top, p) THEN leftRotate(linkedRight(s, p).tree, p) ELSE linkedRight(s, p)

(* Descend to where the key of `target` belongs; rotate on the way back. *)
insertElement(t, target, current) ==
  LET into[p \in Positions(t)] ==
        IF p = 0 THEN Subtree(t, target)
        ELSE IF t.key[target] < t.key[p] THEN insertedLeft(into[t.left[p]], p)
        ELSE insertedRight(into[t.right[p]], p)
  IN into[current]

deleteForgotten(t, pos) ==
  [key |-> [t.key EXCEPT ![pos] = empty], left |-> [t.left EXCEPT ![pos] = 0],
   right |-> [t.right EXCEPT ![pos] = 0]]

delete(t, pos) ==
  setFree([key |-> [t.key EXCEPT ![pos] = empty], left |-> [t.left EXCEPT ![pos] = free(t)],
           right |-> [t.right EXCEPT ![pos] = 0]], pos)

LeftChild(l, r) == "left"

HigherChild(l, r) == IF Outranks(r, l) THEN "right" ELSE "left"

(* The node sinks until it has at most one child.  A rotation below its      *)
(* higher child gives it that child's inner subtree in exchange; it changes  *)
(* no link but the node's, which goes, and the child's, which is set to what *)
(* the removal from the rotated subtree returns.                             *)
sunk(t, pos) ==
  LET between[children \in Positions(t) \X Positions(t)] ==
        LET l == children[1]
            r == children[2]
        IN IF l = 0 THEN Subtree(delete(t, pos), r)
           ELSE IF r = 0 THEN Subtree(delete(t, pos), l)
           ELSE IF HigherChild(l, r) = "right" THEN linkedLeft(between[<<l, t.left[r]>>], r)
           ELSE linkedRight(between[<<t.right[l], r>>], l)
  IN between[<<t.left[pos], t.right[pos]>>]

removeKey(t, k, current) ==
  LET from[p \in Positions(t)] ==
        IF p = 0 THEN Subtree(t, 0)
        ELSE IF k < t.key[p] THEN linkedLeft(from[t.left[p]], p)
        ELSE IF k > t.key[p] THEN linkedRight(from[t.right[p]], p)
        ELSE sunk(t, p)
  IN from[current]

(* The table without its first free position. *)
Taken(t) == [setFree(t, t.left[free(t)]) EXCEPT !.left[free(t)] = 0]

(* insert of a key that is not there, with a position free for it. *)
inserted(t, k) ==
  LET pos == free(t)
      s == insertElement([Taken(t) EXCEPT !.key[pos] = k], pos, root(t))
  IN setRoot(s.tree, s.top)

removed(t, k) ==
  LET s == removeKey(t, k, root(t))
  IN setRoot(s.tree, s.top)

NoMemory == [key |-> <<>>, left |-> <<>>, right |-> <<>>]
=============================================================================

----------------------------- MODULE TreapProofs -----------------------------
(***************************************************************************)
(* The array treap of the Zig VM for any keys and any sizes of memory:     *)
(* search tree, heap and free list stay exact in one array through every   *)
(* insertion, removal, reservation and enlargement, and its users see a    *)
(* table of keys that keep their slots.  Then the symbol table, which      *)
(* keeps its strings in such a treap.                                      *)
(*                                                                         *)
(* The code descends the tree by recursion.  Three lemmas stand for it: a  *)
(* treap is a top and two smaller treaps (Parts), these and a top make one *)
(* (Join), and writes elsewhere leave it alone (Untouched).  Everything    *)
(* else is by induction over the set of positions of a tree.               *)
(***************************************************************************)
EXTENDS Treap, SymbolTable, FiniteSetTheorems, SequenceTheorems, WellFoundedInduction, TLAPS

(* Tables of the positions of P. *)
TableOver(P) == [key : [P -> Nat], left : [P -> P], right : [P -> P]]

(* Below position p of E there are in t the positions below[p], in order on  *)
(* both sides, and none outranks p.                                          *)
TreeAt(t, E, below, p) ==
  /\ t.key[p] \in Nat
  /\ t.left[p] \in E \cup {0} /\ t.right[p] \in E \cup {0}
  /\ below[p] = {p} \cup below[t.left[p]] \cup below[t.right[p]]
  /\ \A q \in below[p] : below[q] \subseteq below[p]
  /\ \A q \in below[t.left[p]] : t.key[q] < t.key[p]
  /\ \A q \in below[t.right[p]] : t.key[p] < t.key[q]
  /\ \A q \in below[p] : ~Outranks(q, p)

IsTreap(t, E, below) ==
  /\ below \in [E \cup {0} -> SUBSET E] /\ below[0] = {}
  /\ \A p \in E : TreeAt(t, E, below, p)

(* The positions of S are a treap of t with the top `top`, 0 if S is empty.  *)
TreapAt(t, top, S) ==
  /\ S \subseteq Nat \ {0} /\ top \in S \cup {0}
  /\ \E below : IsTreap(t, S, below) /\ below[top] = S

-----------------------------------------------------------------------------
(* Priorities are ordered, and 0 has the lowest. *)

LEMMA PriorityType == \A p \in Int : priority(p) \in Int \X Int
  BY DEF priority

LEMMA ZeroIsLast ==
  ASSUME NEW p \in Int
  PROVE  ~Outranks(0, p)
<1> DEFINE low == p * 31161
<1>1. \A n \in Int : n % 65536 >= 0
  OBVIOUS
<1>2. low \in Int /\ p * 40503 + low \div 65536 \in Int
  OBVIOUS
<1>3. priority(p) = <<(p * 40503 + low \div 65536) % 65536, low % 65536>>
  BY DEF priority
<1>4. PICK a \in Int, b \in Int : priority(p) = <<a, b>> /\ a >= 0 /\ b >= 0
  <2> HIDE DEF low
  <2> QED
    BY <1>1, <1>2, <1>3
<1>5. priority(0) = <<0, 0>>
  <2>1. 0 * 31161 = 0 /\ 0 * 40503 = 0 /\ 0 \div 65536 = 0 /\ 0 % 65536 = 0 /\ 0 + 0 = 0
    OBVIOUS
  <2> QED
    BY <2>1 DEF priority
<1> QED
  BY <1>4, <1>5 DEF Outranks

LEMMA RankOrder ==
  ASSUME NEW p \in Int, NEW q \in Int, NEW r \in Int
  PROVE  /\ ~Outranks(p, p)
         /\ ~Outranks(p, q) /\ ~Outranks(q, r) => ~Outranks(p, r)
         /\ Outranks(p, q) => ~Outranks(q, p)
<1>1. PICK a1 \in Int, a2 \in Int : priority(p) = <<a1, a2>>
  BY PriorityType
<1>2. PICK b1 \in Int, b2 \in Int : priority(q) = <<b1, b2>>
  BY PriorityType
<1>3. PICK c1 \in Int, c2 \in Int : priority(r) = <<c1, c2>>
  BY PriorityType
<1> QED
  BY <1>1, <1>2, <1>3 DEF Outranks

-----------------------------------------------------------------------------
(* Induction over finite sets. *)

LEMMA SmallestOf ==
  ASSUME NEW E, IsFiniteSet(E), NEW T, T \subseteq SUBSET E, T # {}
  PROVE  \E x \in T : \A y \in T : ~(y \subseteq x /\ y # x)
<1>1. IsWellFoundedOn(StrictSubsetOrdering(E), SUBSET E)
  BY FS_StrictSubsetOrderingWellFounded, FS_FiniteSubsetsOfFinite
<1>2. PICK x \in T : \A y \in T : <<y, x>> \notin StrictSubsetOrdering(E)
  BY <1>1, WFMin
<1> QED
  BY <1>2 DEF StrictSubsetOrdering

(* A set of sets that has every set whose smaller ones it has has them all.  *)
LEMMA SubsetInduction ==
  ASSUME NEW E, IsFiniteSet(E), NEW Good,
         \A S \in SUBSET E : (\A T \in SUBSET S : T # S => T \in Good) => S \in Good
  PROVE  SUBSET E \subseteq Good
<1> DEFINE Bad == (SUBSET E) \ Good
<1> SUFFICES ASSUME Bad # {} PROVE FALSE
  OBVIOUS
<1>1. PICK S \in Bad : \A T \in Bad : ~(T \subseteq S /\ T # S)
  <2>1. Bad \subseteq SUBSET E
    OBVIOUS
  <2> HIDE DEF Bad
  <2> QED
    BY <2>1, SmallestOf
<1>2. \A T \in SUBSET S : T # S => T \in Good
  BY <1>1
<1> QED
  BY <1>1, <1>2

-----------------------------------------------------------------------------
(* Trees. *)

LEMMA EmptyTree ==
  ASSUME NEW t
  PROVE  TreapAt(t, 0, {})
<1> DEFINE below == [p \in {0} |-> {}]
<1>1. IsTreap(t, {}, below) /\ below[0] = {}
  BY DEF IsTreap
<1> QED
  BY <1>1 DEF TreapAt

LEMMA NoTop ==
  ASSUME NEW t, NEW S, TreapAt(t, 0, S)
  PROVE  S = {}
  BY DEF TreapAt, IsTreap

LEMMA TopIsThere ==
  ASSUME NEW t, NEW top, NEW S, TreapAt(t, top, S), top # 0
  PROVE  top \in S /\ top \in Nat \ {0}
  BY DEF TreapAt

(* What a treap is made of.                                                  *)
MadeOf(t, top, S, L, R) ==
  /\ S = {top} \cup L \cup R /\ L \cap R = {} /\ top \notin L /\ top \notin R
  /\ L # S /\ R # S
  /\ TreapAt(t, t.left[top], L) /\ TreapAt(t, t.right[top], R)
  /\ \A q \in S : t.key[q] \in Nat /\ ~Outranks(q, top)
  /\ \A q \in L : t.key[q] < t.key[top]
  /\ \A q \in R : t.key[top] < t.key[q]

LEMMA BranchIsTreap ==
  ASSUME NEW t, NEW S, S \subseteq Nat \ {0}, NEW below, IsTreap(t, S, below), NEW p \in S,
         NEW c, c \in {t.left[p], t.right[p]}
  PROVE  TreapAt(t, c, below[c])
<1> DEFINE B == below[c]
           part == [q \in B \cup {0} |-> below[q]]
<1>1. below \in [S \cup {0} -> SUBSET S] /\ below[0] = {} /\ \A q \in S : TreeAt(t, S, below, q)
  BY DEF IsTreap
<1>2. c \in S \cup {0} /\ B \subseteq S
  BY <1>1 DEF TreeAt
<1>3. c \in B \cup {0} /\ \A q \in B : below[q] \subseteq B
  BY <1>1, <1>2 DEF TreeAt
<1>4. \A q \in B : t.left[q] \in B \cup {0} /\ t.right[q] \in B \cup {0}
  <2> SUFFICES ASSUME NEW q \in B, NEW d \in {t.left[q], t.right[q]}, d # 0
               PROVE  d \in B
    OBVIOUS
  <2>1. q \in S /\ d \in S
    BY <1>1, <1>2 DEF TreeAt
  <2>2. d \in below[d] /\ below[d] \subseteq below[q]
    BY <1>1, <2>1 DEF TreeAt
  <2> QED
    BY <1>3, <2>2
<1>5. part \in [B \cup {0} -> SUBSET B] /\ part[0] = {} /\ \A q \in B \cup {0} : part[q] = below[q]
  BY <1>1, <1>2, <1>3
<1>6. \A q \in B : TreeAt(t, B, part, q)
  <2> SUFFICES ASSUME NEW q \in B PROVE TreeAt(t, B, part, q)
    OBVIOUS
  <2>1. TreeAt(t, S, below, q)
    BY <1>1, <1>2
  <2>2. /\ part[q] = below[q] /\ part[t.left[q]] = below[t.left[q]]
        /\ part[t.right[q]] = below[t.right[q]] /\ \A x \in below[q] : part[x] = below[x]
    BY <1>3, <1>4, <1>5
  <2> HIDE DEF part, B
  <2> QED
    BY <1>4, <2>1, <2>2 DEF TreeAt
<1>7. IsTreap(t, B, part) /\ part[c] = B
  BY <1>3, <1>5, <1>6 DEF IsTreap
<1> HIDE DEF part
<1> QED
  BY <1>2, <1>3, <1>7 DEF TreapAt

LEMMA Parts ==
  ASSUME NEW t, NEW top, NEW S, TreapAt(t, top, S), top # 0
  PROVE  \E L, R : MadeOf(t, top, S, L, R)
<1>1. PICK below : IsTreap(t, S, below) /\ below[top] = S
  BY DEF TreapAt
<1>2. S \subseteq Nat \ {0} /\ top \in S
  BY DEF TreapAt
<1> DEFINE L == below[t.left[top]]
           R == below[t.right[top]]
<1>3. TreeAt(t, S, below, top) /\ \A q \in S : TreeAt(t, S, below, q)
  BY <1>1, <1>2 DEF IsTreap
<1>4. TreapAt(t, t.left[top], L) /\ TreapAt(t, t.right[top], R)
  BY <1>1, <1>2, BranchIsTreap
<1>5. /\ \A q \in S : t.key[q] \in Nat
      /\ \A q \in L : t.key[q] < t.key[top]
      /\ \A q \in R : t.key[top] < t.key[q]
      /\ \A q \in S : ~Outranks(q, top)
      /\ S = {top} \cup L \cup R
  BY <1>1, <1>3 DEF TreeAt
<1> HIDE DEF L, R
<1>6. \A q \in Nat : ~(q < q)
  OBVIOUS
<1>7. top \notin L /\ top \notin R
  BY <1>2, <1>5, <1>6
<1>8. L \cap R = {}
  <2> SUFFICES ASSUME NEW q \in L, q \in R PROVE FALSE
    OBVIOUS
  <2>1. t.key[q] \in Nat /\ t.key[top] \in Nat /\ t.key[q] < t.key[top] /\ t.key[top] < t.key[q]
    BY <1>2, <1>5
  <2> QED
    BY <2>1
<1>9. L # S /\ R # S
  BY <1>2, <1>7
<1> QED
  BY <1>4, <1>5, <1>7, <1>8, <1>9 DEF MadeOf

(* A treap stays one as long as nobody writes to its positions.              *)
LEMMA Untouched ==
  ASSUME NEW t, NEW u, NEW top, NEW S, TreapAt(t, top, S),
         \A q \in S : u.key[q] = t.key[q] /\ u.left[q] = t.left[q] /\ u.right[q] = t.right[q]
  PROVE  TreapAt(u, top, S)
<1>1. PICK below : IsTreap(t, S, below) /\ below[top] = S
  BY DEF TreapAt
<1>2. below \in [S \cup {0} -> SUBSET S] /\ below[0] = {} /\ \A p \in S : TreeAt(t, S, below, p)
  BY <1>1 DEF IsTreap
<1>3. ASSUME NEW p \in S PROVE TreeAt(u, S, below, p)
  <2>1. /\ TreeAt(t, S, below, p) /\ below[p] \subseteq S
        /\ u.key[p] = t.key[p] /\ u.left[p] = t.left[p] /\ u.right[p] = t.right[p]
    BY <1>2
  <2>2. below[t.left[p]] \subseteq S /\ below[t.right[p]] \subseteq S
    BY <2>1 DEF TreeAt
  <2>3. /\ \A q \in below[t.left[p]] : u.key[q] = t.key[q]
        /\ \A q \in below[t.right[p]] : u.key[q] = t.key[q]
    BY <2>2
  <2> QED
    BY <2>1, <2>3 DEF TreeAt
<1>4. IsTreap(u, S, below)
  BY <1>2, <1>3 DEF IsTreap
<1> QED
  BY <1>1, <1>4 DEF TreapAt

Agree(t, u, S) == \A q \in S : u.key[q] = t.key[q] /\ u.left[q] = t.left[q] /\ u.right[q] = t.right[q]

LEMMA UntouchedBy ==
  ASSUME NEW t, NEW u, NEW top, NEW S, TreapAt(t, top, S), Agree(t, u, S)
  PROVE  TreapAt(u, top, S)
<1>1. \A q \in S : u.key[q] = t.key[q] /\ u.left[q] = t.left[q] /\ u.right[q] = t.right[q]
  BY DEF Agree
<1> QED
  BY <1>1, Untouched

(* Two treaps and a top with a key between theirs that neither outranks.     *)
Fit(t, top, L, R) ==
  /\ top \in Nat \ {0} /\ top \notin L /\ top \notin R /\ L \cap R = {}
  /\ TreapAt(t, t.left[top], L) /\ TreapAt(t, t.right[top], R)
  /\ t.key[top] \in Nat
  /\ \A q \in L : t.key[q] < t.key[top] /\ ~Outranks(q, top)
  /\ \A q \in R : t.key[top] < t.key[q] /\ ~Outranks(q, top)

LEMMA Join ==
  ASSUME NEW t, NEW top, NEW L, NEW R, Fit(t, top, L, R)
  PROVE  TreapAt(t, top, {top} \cup L \cup R)
<1>1. /\ top \in Nat \ {0} /\ top \notin L /\ top \notin R /\ L \cap R = {}
      /\ L \subseteq Nat \ {0} /\ R \subseteq Nat \ {0}
      /\ t.left[top] \in L \cup {0} /\ t.right[top] \in R \cup {0}
  BY DEF Fit, TreapAt
<1>2. PICK bl : IsTreap(t, L, bl) /\ bl[t.left[top]] = L
  BY DEF Fit, TreapAt
<1>3. PICK br : IsTreap(t, R, br) /\ br[t.right[top]] = R
  BY DEF Fit, TreapAt
<1> DEFINE S == {top} \cup L \cup R
           below == [q \in S \cup {0} |-> IF q = top THEN S ELSE IF q \in L THEN bl[q] ELSE br[q]]
<1>4. /\ bl \in [L \cup {0} -> SUBSET L] /\ bl[0] = {} /\ \A p \in L : TreeAt(t, L, bl, p)
      /\ br \in [R \cup {0} -> SUBSET R] /\ br[0] = {} /\ \A p \in R : TreeAt(t, R, br, p)
  BY <1>2, <1>3 DEF IsTreap
<1>5. /\ below[top] = S
      /\ \A q \in L \cup {0} : below[q] = bl[q]
      /\ \A q \in R \cup {0} : below[q] = br[q]
  BY <1>1, <1>4
<1>6. below \in [S \cup {0} -> SUBSET S] /\ below[0] = {}
  <2>1. \A q \in S \cup {0} : below[q] \subseteq S
    BY <1>1, <1>4, <1>5
  <2> QED
    BY <1>4, <1>5, <2>1
<1> HIDE DEF below
<1>7. ASSUME NEW p \in L PROVE TreeAt(t, S, below, p)
  <2>1. TreeAt(t, L, bl, p) /\ bl[p] \subseteq L
    BY <1>4
  <2>2. /\ below[p] = bl[p] /\ below[t.left[p]] = bl[t.left[p]] /\ below[t.right[p]] = bl[t.right[p]]
        /\ \A q \in bl[p] : below[q] = bl[q]
    BY <1>5, <2>1 DEF TreeAt
  <2> QED
    BY <2>1, <2>2 DEF TreeAt
<1>8. ASSUME NEW p \in R PROVE TreeAt(t, S, below, p)
  <2>1. TreeAt(t, R, br, p) /\ br[p] \subseteq R
    BY <1>4
  <2>2. /\ below[p] = br[p] /\ below[t.left[p]] = br[t.left[p]] /\ below[t.right[p]] = br[t.right[p]]
        /\ \A q \in br[p] : below[q] = br[q]
    BY <1>5, <2>1 DEF TreeAt
  <2> QED
    BY <2>1, <2>2 DEF TreeAt
<1>9. TreeAt(t, S, below, top)
  <2>1. below[t.left[top]] = L /\ below[t.right[top]] = R
    BY <1>1, <1>2, <1>3, <1>5
  <2>2. \A q \in S : ~Outranks(q, top)
    BY <1>1, RankOrder DEF Fit
  <2>3. \A q \in S : below[q] \subseteq S
    BY <1>6
  <2> QED
    BY <1>1, <1>5, <2>1, <2>2, <2>3 DEF TreeAt, Fit
<1>10. IsTreap(t, S, below)
  BY <1>6, <1>7, <1>8, <1>9 DEF IsTreap
<1> HIDE DEF S
<1>11. S \subseteq Nat \ {0} /\ top \in S
  BY <1>1 DEF S
<1>12. TreapAt(t, top, S)
  BY <1>5, <1>10, <1>11 DEF TreapAt
<1> QED
  BY <1>12 DEF S

-----------------------------------------------------------------------------
(* Recursive functions along links that come to an end. *)

(* A set with 0 and with the successor of each of its members.               *)
LEMMA NatInSet ==
  ASSUME NEW G, 0 \in G, \A n \in Nat : n \in G => n + 1 \in G
  PROVE  Nat \subseteq G
<1> SUFFICES ASSUME Nat \ G # {} PROVE FALSE
  OBVIOUS
<1>1. PICK n \in Nat \ G : \A m \in Nat \ G : <<m, n>> \notin OpToRel(<, Nat)
  <2>1. IsWellFoundedOn(OpToRel(<, Nat), Nat)
    BY NatLessThanWellFounded
  <2> DEFINE R == OpToRel(<, Nat)
  <2> HIDE DEF R
  <2>2. IsWellFoundedOn(R, Nat)
    BY <2>1 DEF R
  <2>3. \E x \in Nat \ G : \A y \in Nat \ G : <<y, x>> \notin R
    BY <2>2, WFMin
  <2> QED
    BY <2>3 DEF R
<1>2. \A m \in Nat \ G : ~(m < n)
  BY <1>1 DEF OpToRel
<1>3. n \in Nat /\ n \notin G /\ n # 0
  BY <1>1
<1>4. n - 1 \in Nat /\ (n - 1) + 1 = n /\ n - 1 < n
  BY <1>3
<1> QED
  BY <1>2, <1>3, <1>4

(* Along next the rank falls, except at the ends.                            *)
Falls(D, next, Ends, rank) ==
  /\ next \in [D -> D] /\ rank \in [D -> Nat]
  /\ \A x \in D \ Ends : rank[next[x]] < rank[x]

Recurs(f, D, V, next, Ends, base, step) ==
  /\ f \in [D -> V]
  /\ \A x \in D : f[x] = IF x \in Ends THEN base[x] ELSE step[x][f[next[x]]]

LEMMA Recursion ==
  ASSUME NEW D, NEW V, NEW next, NEW Ends, NEW rank, Falls(D, next, Ends, rank),
         NEW N \in Nat, \A x \in D : rank[x] < N,
         NEW base \in [D -> V], NEW step \in [D -> [V -> V]]
  PROVE  \E f : Recurs(f, D, V, next, Ends, base, step)
<1> DEFINE Once(g) == [x \in D |-> IF x \in Ends THEN base[x] ELSE step[x][g[next[x]]]]
           Upto(g, n) == \A x \in D : rank[x] < n => g[x] = Once(g)[x]
           Good == {n \in Nat : \E g \in [D -> V] : Upto(g, n)}
<1>1. 0 \in Good
  <2>1. base \in [D -> V] /\ Upto(base, 0)
    BY DEF Falls
  <2> QED
    BY <2>1
<1>2. ASSUME NEW n \in Nat, n \in Good PROVE n + 1 \in Good
  <2>1. PICK g \in [D -> V] : Upto(g, n)
    BY <1>2
  <2>2. Once(g) \in [D -> V]
    BY DEF Falls
  <2>3. ASSUME NEW x \in D, rank[x] < n + 1 PROVE Once(g)[x] = Once(Once(g))[x]
    <3>1. CASE x \in Ends
      BY <3>1
    <3>2. CASE x \notin Ends
      <4>1. next[x] \in D /\ rank[next[x]] < rank[x] /\ rank[x] \in Nat /\ rank[next[x]] \in Nat
        BY <3>2 DEF Falls
      <4>2. rank[next[x]] < n
        BY <2>3, <4>1
      <4>3. g[next[x]] = Once(g)[next[x]]
        BY <2>1, <4>1, <4>2
      <4> QED
        BY <3>2, <4>1, <4>3
    <3> QED
      BY <3>1, <3>2
  <2>4. Upto(Once(g), n + 1)
    BY <2>3
  <2> HIDE DEF Once, Upto
  <2>5. \E h \in [D -> V] : Upto(h, n + 1)
    BY <2>2, <2>4
  <2>6. n + 1 \in Nat
    OBVIOUS
  <2> QED
    BY <2>5, <2>6
<1>3. N \in Good
  <2> HIDE DEF Good
  <2> QED
    BY <1>1, <1>2, NatInSet
<1>4. PICK f \in [D -> V] : Upto(f, N)
  BY <1>3
<1> QED
  BY <1>4 DEF Recurs

(* What holds at the ends, and of x when of next[x], holds everywhere.       *)
LEMMA AlongLinks ==
  ASSUME NEW D, NEW next, NEW Ends, NEW rank, Falls(D, next, Ends, rank),
         NEW Good, \A x \in D : x \in Ends \/ next[x] \in Good => x \in Good
  PROVE  D \subseteq Good
<1> DEFINE Lowest == {n \in Nat : \A x \in D : rank[x] < n => x \in Good}
<1>1. 0 \in Lowest
  BY DEF Falls
<1>2. ASSUME NEW n \in Nat, n \in Lowest PROVE n + 1 \in Lowest
  <2>1. ASSUME NEW x \in D, rank[x] < n + 1 PROVE x \in Good
    <3>1. CASE x \in Ends
      BY <3>1
    <3>2. CASE x \notin Ends
      <4>1. next[x] \in D /\ rank[next[x]] < rank[x] /\ rank[x] \in Nat /\ rank[next[x]] \in Nat
        BY <3>2 DEF Falls
      <4>2. rank[next[x]] < n
        BY <2>1, <4>1
      <4> QED
        BY <1>2, <4>1, <4>2
    <3> QED
      BY <3>1, <3>2
  <2> QED
    BY <2>1
<1>3. Nat \subseteq Lowest
  <2> HIDE DEF Lowest
  <2> QED
    BY <1>1, <1>2, NatInSet
<1> SUFFICES ASSUME NEW x \in D PROVE x \in Good
  OBVIOUS
<1>4. rank[x] \in Nat /\ rank[x] + 1 \in Nat /\ rank[x] < rank[x] + 1
  BY DEF Falls
<1>5. rank[x] + 1 \in Lowest
  BY <1>3, <1>4
<1> QED
  BY <1>4, <1>5

(* The links of the positions of t come to an end at 0.                      *)
Ranked(t, P, rank, N) ==
  /\ t \in TableOver(P) /\ 0 \in P /\ P \subseteq Nat
  /\ N \in Nat /\ rank \in [P -> Nat]
  /\ \A p \in P : rank[p] < N
  /\ \A p \in P \ {0} : rank[t.left[p]] < rank[p] /\ rank[t.right[p]] < rank[p]

-----------------------------------------------------------------------------
(* Induction over trees: what holds of the empty tree, and of a tree when of *)
(* its two branches, holds of all.  Good is a set of tops with their trees.  *)

LEMMA TreapInduction ==
  ASSUME NEW t, NEW E, IsFiniteSet(E), NEW Good,
         <<0, {}>> \in Good,
         \A p \in E, S \in SUBSET E, L \in SUBSET E, R \in SUBSET E :
           /\ TreapAt(t, p, S) /\ p # 0 /\ MadeOf(t, p, S, L, R)
           /\ <<t.left[p], L>> \in Good /\ <<t.right[p], R>> \in Good
           => <<p, S>> \in Good
  PROVE  \A S \in SUBSET E : \A p : TreapAt(t, p, S) => <<p, S>> \in Good
<1> DEFINE Sets == {S \in SUBSET E : \A p \in E \cup {0} : TreapAt(t, p, S) => <<p, S>> \in Good}
<1>1. ASSUME NEW S \in SUBSET E, \A T \in SUBSET S : T # S => T \in Sets
      PROVE  S \in Sets
  <2> SUFFICES ASSUME NEW p \in E \cup {0}, TreapAt(t, p, S) PROVE <<p, S>> \in Good
    OBVIOUS
  <2>1. CASE p = 0
    BY <2>1, NoTop
  <2>2. CASE p # 0
    <3>1. PICK L, R : MadeOf(t, p, S, L, R)
      BY <2>2, Parts
    <3>2. /\ L \in SUBSET S /\ R \in SUBSET S /\ L # S /\ R # S
          /\ TreapAt(t, t.left[p], L) /\ TreapAt(t, t.right[p], R)
      BY <3>1 DEF MadeOf
    <3>3. t.left[p] \in E \cup {0} /\ t.right[p] \in E \cup {0} /\ p \in E
      BY <2>2, <3>2 DEF TreapAt
    <3>4. <<t.left[p], L>> \in Good /\ <<t.right[p], R>> \in Good
      BY <1>1, <3>2, <3>3
    <3> QED
      BY <2>2, <3>1, <3>2, <3>3, <3>4
  <2> QED
    BY <2>1, <2>2
<1>2. SUBSET E \subseteq Sets
  <2> HIDE DEF Sets
  <2>1. \A G : (\A S \in SUBSET E : (\A T \in SUBSET S : T # S => T \in G) => S \in G) => SUBSET E \subseteq G
    BY SubsetInduction
  <2> QED
    BY <1>1, <2>1, Zenon
<1>3. \A S, p : S \in SUBSET E /\ TreapAt(t, p, S) => p \in E \cup {0}
  BY DEF TreapAt
<1> QED
  BY <1>2, <1>3

-----------------------------------------------------------------------------
(* lookup. *)

(* The function that lookup recurs on.                                       *)
IsUnder(t, k, f) ==
  f = [p \in Positions(t) |-> IF p = 0 \/ t.key[p] = k THEN p
                              ELSE f[IF t.key[p] < k THEN t.right[p] ELSE t.left[p]]]

LEMMA LookupSearches ==
  ASSUME NEW t, NEW P, NEW rank, NEW N, Ranked(t, P, rank, N), NEW k
  PROVE  \E f : IsUnder(t, k, f) /\ lookup(t, k) = f[root(t)]
<1> DEFINE under == CHOOSE f : IsUnder(t, k, f)
           next == [p \in P |-> IF t.key[p] < k THEN t.right[p] ELSE t.left[p]]
           base == [p \in P |-> p]
           Ends == {p \in P : p = 0 \/ t.key[p] = k}
           step == [p \in P |-> [v \in P |-> v]]
<1>1. Positions(t) = P /\ N \in Nat /\ \A p \in P : rank[p] < N
  BY DEF Ranked, TableOver, Positions
<1>2. Falls(P, next, Ends, rank)
  BY DEF Ranked, TableOver, Falls
<1>3. base \in [P -> P] /\ step \in [P -> [P -> P]]
  OBVIOUS
<1>4. PICK f : Recurs(f, P, P, next, Ends, base, step)
  <2> HIDE DEF next, base, step, Ends
  <2> QED
    BY <1>1, <1>2, <1>3, Recursion
<1>5. \A p \in P : next[p] \in P
  BY <1>2 DEF Falls
<1>6. \A p \in P : f[p] = IF p = 0 \/ t.key[p] = k THEN p
                         ELSE f[IF t.key[p] < k THEN t.right[p] ELSE t.left[p]]
  BY <1>4, <1>5 DEF Recurs
<1>7. IsUnder(t, k, f)
  BY <1>1, <1>4, <1>6 DEF IsUnder, Recurs
<1>8. IsUnder(t, k, under)
  <2> HIDE DEF next, step, base, Ends
  <2> QED BY <1>7, Zenon
<1>9. lookup(t, k) = under[root(t)]
  BY DEF lookup, IsUnder
<1> QED
  BY <1>8, <1>9

(* p is the position of k in S, 0 if there is none.                          *)
IsPlace(t, S, k, p) ==
  \/ p \in S /\ t.key[p] = k
  \/ p = 0 /\ \A q \in S : t.key[q] # k

LEMMA LookupFinds ==
  ASSUME NEW t, NEW P, IsFiniteSet(P), NEW rank, NEW N, Ranked(t, P, rank, N), NEW k \in Nat,
         NEW S \in SUBSET P, TreapAt(t, root(t), S)
  PROVE  IsPlace(t, S, k, lookup(t, k))
<1>1. PICK f : IsUnder(t, k, f) /\ lookup(t, k) = f[root(t)]
  BY LookupSearches
<1>2. Positions(t) = P /\ 0 \in P
  BY DEF Ranked, TableOver, Positions
<1>3. \A p \in P : f[p] = IF p = 0 \/ t.key[p] = k THEN p
                         ELSE f[IF t.key[p] < k THEN t.right[p] ELSE t.left[p]]
  BY <1>1, <1>2 DEF IsUnder
<1> DEFINE Good == {x \in P \X SUBSET P : IsPlace(t, x[2], k, f[x[1]])}
<1>4. <<0, {}>> \in Good
  BY <1>2, <1>3 DEF IsPlace
<1>5. ASSUME NEW p \in P, NEW T \in SUBSET P, NEW L \in SUBSET P, NEW R \in SUBSET P,
             p # 0, MadeOf(t, p, T, L, R), <<t.left[p], L>> \in Good, <<t.right[p], R>> \in Good
      PROVE  <<p, T>> \in Good
  <2>1. IsPlace(t, L, k, f[t.left[p]]) /\ IsPlace(t, R, k, f[t.right[p]])
    BY <1>5
  <2>2. /\ T = {p} \cup L \cup R
        /\ \A q \in T : t.key[q] \in Nat
        /\ \A q \in L : t.key[q] < t.key[p]
        /\ \A q \in R : t.key[p] < t.key[q]
    BY <1>5 DEF MadeOf
  <2>3. IsPlace(t, T, k, f[p])
    <3>1. CASE t.key[p] = k
      BY <1>3, <2>2, <3>1 DEF IsPlace
    <3>2. CASE t.key[p] < k
      <4>1. f[p] = f[t.right[p]]
        BY <1>3, <1>5, <2>2, <3>2
      <4>2. \A q \in L \cup {p} : t.key[q] # k
        BY <2>2, <3>2
      <4> QED
        BY <2>1, <2>2, <4>1, <4>2 DEF IsPlace
    <3>3. CASE k < t.key[p]
      <4>1. f[p] = f[t.left[p]]
        BY <1>3, <1>5, <2>2, <3>3
      <4>2. \A q \in R \cup {p} : t.key[q] # k
        BY <2>2, <3>3
      <4> QED
        BY <2>1, <2>2, <4>1, <4>2 DEF IsPlace
    <3> QED
      BY <2>2, <3>1, <3>2, <3>3
  <2> QED
    BY <2>3
<1>6. \A T \in SUBSET P : \A p : TreapAt(t, p, T) => <<p, T>> \in Good
  <2> HIDE DEF Good
  <2> QED
    BY <1>4, <1>5, TreapInduction
<1> QED
  BY <1>1, <1>6

-----------------------------------------------------------------------------
(* lessEqual. *)

(* The function that lessEqual recurs on.                                    *)
IsBelow(t, k, f) ==
  f = [at \in Positions(t) \X Positions(t) |->
         IF at[1] = 0 THEN at[2]
         ELSE IF t.key[at[1]] = k THEN at[1]
         ELSE IF t.key[at[1]] < k THEN f[<<t.right[at[1]], at[1]>>]
         ELSE f[<<t.left[at[1]], at[2]>>]]

LEMMA LessEqualSearches ==
  ASSUME NEW t, NEW P, NEW rank, NEW N, Ranked(t, P, rank, N), NEW k
  PROVE  \E f : IsBelow(t, k, f) /\ lessEqual(t, k) = f[<<root(t), 0>>]
<1> DEFINE under == CHOOSE f : IsBelow(t, k, f)
           D == P \X P
           next == [x \in D |-> IF t.key[x[1]] < k THEN <<t.right[x[1]], x[1]>>
                                ELSE <<t.left[x[1]], x[2]>>]
           base == [x \in D |-> IF x[1] = 0 THEN x[2] ELSE x[1]]
           Ends == {x \in D : x[1] = 0 \/ t.key[x[1]] = k}
           step == [x \in D |-> [v \in P |-> v]]
           falling == [x \in D |-> rank[x[1]]]
<1>1. Positions(t) = P /\ N \in Nat /\ \A x \in D : falling[x] < N
  BY DEF Ranked, TableOver, Positions
<1>2. Falls(D, next, Ends, falling)
  <2>1. next \in [D -> D] /\ falling \in [D -> Nat]
    BY DEF Ranked, TableOver
  <2>2. ASSUME NEW x \in D \ Ends PROVE falling[next[x]] < falling[x]
    <3>1. x \in D /\ next[x] \in D /\ x[1] \in P \ {0}
      BY <2>1, <2>2
    <3>2. next[x][1] = t.right[x[1]] \/ next[x][1] = t.left[x[1]]
      BY <3>1
    <3>3. falling[next[x]] = rank[next[x][1]] /\ falling[x] = rank[x[1]]
      BY <3>1
    <3> HIDE DEF D, next, falling
    <3> QED
      BY <3>1, <3>2, <3>3 DEF Ranked
  <2> HIDE DEF next, falling, D, Ends
  <2> QED
    BY <2>1, <2>2 DEF Falls
<1>3. base \in [D -> P] /\ step \in [D -> [P -> P]]
  OBVIOUS
<1>4. PICK f : Recurs(f, D, P, next, Ends, base, step)
  <2> HIDE DEF next, base, step, Ends, falling, D
  <2> QED
    BY <1>1, <1>2, <1>3, Recursion
<1>5. \A x \in D : next[x] \in D
  BY <1>2 DEF Falls
<1>6. ASSUME NEW x \in D
      PROVE  f[x] = IF x[1] = 0 THEN x[2]
                    ELSE IF t.key[x[1]] = k THEN x[1]
                    ELSE IF t.key[x[1]] < k THEN f[<<t.right[x[1]], x[1]>>]
                    ELSE f[<<t.left[x[1]], x[2]>>]
  <2>1. f \in [D -> P] /\ f[x] = IF x \in Ends THEN base[x] ELSE step[x][f[next[x]]]
    BY <1>4 DEF Recurs
  <2>2. next[x] \in D
    BY <1>5
  <2> QED
    BY <2>1, <2>2
<1>7. IsBelow(t, k, f)
  <2> HIDE DEF next, base, step, Ends, falling
  <2> QED
    BY <1>1, <1>4, <1>6 DEF IsBelow, Recurs
<1>8. IsBelow(t, k, under)
  <2> HIDE DEF next, step, base, Ends, falling
  <2> QED BY <1>7, Zenon
<1>9. lessEqual(t, k) = under[<<root(t), 0>>]
  BY DEF lessEqual, IsBelow
<1> QED
  BY <1>8, <1>9

(* p has the greatest key of S not above k, and is best if there is none.    *)
IsFloor(t, S, k, best, p) ==
  \/ p \in S /\ t.key[p] <= k /\ \A q \in S : t.key[q] <= k => t.key[q] <= t.key[p]
  \/ p = best /\ \A q \in S : ~(t.key[q] <= k)

LEMMA LessEqualFinds ==
  ASSUME NEW t, NEW P, IsFiniteSet(P), NEW rank, NEW N, Ranked(t, P, rank, N), NEW k \in Nat,
         NEW S \in SUBSET P, TreapAt(t, root(t), S)
  PROVE  IsFloor(t, S, k, 0, lessEqual(t, k))
<1>1. PICK f : IsBelow(t, k, f) /\ lessEqual(t, k) = f[<<root(t), 0>>]
  BY LessEqualSearches
<1>2. Positions(t) = P /\ 0 \in P
  BY DEF Ranked, TableOver, Positions
<1>3. ASSUME NEW p \in P, NEW best \in P
      PROVE  /\ p = 0 => f[<<p, best>>] = best
             /\ p # 0 /\ t.key[p] = k => f[<<p, best>>] = p
             /\ p # 0 /\ t.key[p] # k /\ t.key[p] < k => f[<<p, best>>] = f[<<t.right[p], p>>]
             /\ p # 0 /\ t.key[p] # k /\ ~(t.key[p] < k) => f[<<p, best>>] = f[<<t.left[p], best>>]
  <2> DEFINE x == <<p, best>>
  <2>1. x \in Positions(t) \X Positions(t) /\ x[1] = p /\ x[2] = best
    BY <1>2
  <2> HIDE DEF x
  <2>2. f[x] = IF x[1] = 0 THEN x[2]
               ELSE IF t.key[x[1]] = k THEN x[1]
               ELSE IF t.key[x[1]] < k THEN f[<<t.right[x[1]], x[1]>>]
               ELSE f[<<t.left[x[1]], x[2]>>]
    BY <1>1, <2>1 DEF IsBelow
  <2>3. f[x] = IF p = 0 THEN best
               ELSE IF t.key[p] = k THEN p
               ELSE IF t.key[p] < k THEN f[<<t.right[p], p>>]
               ELSE f[<<t.left[p], best>>]
    BY <2>1, <2>2
  <2> DEFINE onRight == f[<<t.right[p], p>>]
             onLeft == f[<<t.left[p], best>>]
  <2>4. f[x] = IF p = 0 THEN best ELSE IF t.key[p] = k THEN p ELSE IF t.key[p] < k THEN onRight ELSE onLeft
    BY <2>3
  <2>5. /\ p = 0 => f[x] = best
        /\ p # 0 /\ t.key[p] = k => f[x] = p
        /\ p # 0 /\ t.key[p] # k /\ t.key[p] < k => f[x] = onRight
        /\ p # 0 /\ t.key[p] # k /\ ~(t.key[p] < k) => f[x] = onLeft
    <3> HIDE DEF onRight, onLeft
    <3> QED
      BY <2>4
  <2> QED
    BY <2>5 DEF x
<1> DEFINE Good == {x \in P \X SUBSET P : \A best \in P : IsFloor(t, x[2], k, best, f[<<x[1], best>>])}
<1>4. <<0, {}>> \in Good
  <2>1. ASSUME NEW best \in P PROVE IsFloor(t, {}, k, best, f[<<0, best>>])
    <3>1. f[<<0, best>>] = best
      BY <1>2, <1>3
    <3> QED
      BY <3>1 DEF IsFloor
  <2>2. <<0, {}>> \in P \X SUBSET P
    BY <1>2
  <2> QED
    BY <2>1, <2>2
<1>5. ASSUME NEW p \in P, NEW T \in SUBSET P, NEW L \in SUBSET P, NEW R \in SUBSET P,
             p # 0, MadeOf(t, p, T, L, R), <<t.left[p], L>> \in Good, <<t.right[p], R>> \in Good
      PROVE  <<p, T>> \in Good
  <2>1. \A best \in P : /\ IsFloor(t, L, k, best, f[<<t.left[p], best>>])
                        /\ IsFloor(t, R, k, best, f[<<t.right[p], best>>])
    BY <1>5
  <2>2. /\ T = {p} \cup L \cup R
        /\ \A q \in T : t.key[q] \in Nat
        /\ \A q \in L : t.key[q] < t.key[p]
        /\ \A q \in R : t.key[p] < t.key[q]
    BY <1>5 DEF MadeOf
  <2>3. ASSUME NEW best \in P PROVE IsFloor(t, T, k, best, f[<<p, best>>])
    <3>1. CASE t.key[p] = k
      <4>1. f[<<p, best>>] = p
        BY <1>3, <1>5, <3>1
      <4> QED
        BY <2>2, <3>1, <4>1 DEF IsFloor
    <3>2. CASE t.key[p] < k
      <4>1. f[<<p, best>>] = f[<<t.right[p], p>>]
        <5>1. t.key[p] # k /\ t.key[p] < k
          BY <2>2, <3>2
        <5> QED
          BY <1>3, <1>5, <5>1
      <4>2. IsFloor(t, R, k, p, f[<<t.right[p], p>>])
        BY <2>1
      <4>3. \A q \in L : t.key[q] <= t.key[p]
        BY <2>2
      <4>4. ASSUME NEW r \in R, t.key[r] <= k, \A q \in R : t.key[q] <= k => t.key[q] <= t.key[r]
            PROVE  IsFloor(t, T, k, best, r)
        BY <2>2, <3>2, <4>4 DEF IsFloor
      <4>5. (\A q \in R : ~(t.key[q] <= k)) => IsFloor(t, T, k, best, p)
        BY <2>2, <3>2, <4>3 DEF IsFloor
      <4> QED
        BY <4>1, <4>2, <4>4, <4>5 DEF IsFloor
    <3>3. CASE k < t.key[p]
      <4>1. f[<<p, best>>] = f[<<t.left[p], best>>]
        <5>1. t.key[p] # k /\ ~(t.key[p] < k)
          BY <2>2, <3>3
        <5> QED
          BY <1>3, <1>5, <5>1
      <4>2. \A q \in R \cup {p} : ~(t.key[q] <= k)
        BY <2>2, <3>3
      <4>3. IsFloor(t, L, k, best, f[<<p, best>>])
        BY <2>1, <4>1
      <4> QED
        BY <2>2, <4>2, <4>3 DEF IsFloor
    <3> QED
      BY <2>2, <3>1, <3>2, <3>3
  <2> QED
    BY <2>3
<1>6. \A T \in SUBSET P : \A p : TreapAt(t, p, T) => <<p, T>> \in Good
  <2> HIDE DEF Good
  <2> QED
    BY <1>4, <1>5, TreapInduction
<1>7. <<root(t), S>> \in Good
  BY <1>6
<1> QED
  BY <1>1, <1>2, <1>7

-----------------------------------------------------------------------------
(* Insertion. *)

(* The links of u differ from those of t at positions of S only, its keys    *)
(* nowhere.                                                                  *)
LinksOf(t, u, P, S) ==
  /\ t \in TableOver(P) /\ u \in TableOver(P) /\ u.key = t.key
  /\ \A q \in P \ S : u.left[q] = t.left[q] /\ u.right[q] = t.right[q]

(* Two treaps of P on the right sides of a top.                              *)
Ordered(t, top, P, L, R) ==
  /\ P \subseteq Nat /\ t \in TableOver(P) /\ L \subseteq P /\ R \subseteq P
  /\ top \in P \ {0} /\ top \notin L /\ top \notin R /\ L \cap R = {}
  /\ TreapAt(t, t.left[top], L) /\ TreapAt(t, t.right[top], R)
  /\ \A q \in L : t.key[q] < t.key[top]
  /\ \A q \in R : t.key[top] < t.key[q]

LEMMA RotateRight ==
  ASSUME NEW t, NEW P, NEW y, NEW L, NEW R, Ordered(t, y, P, L, R), 0 \in P,
         Outranks(t.left[y], y), \A q \in L \ {t.left[y]} : ~Outranks(q, y),
         \A q \in R : ~Outranks(q, y)
  PROVE  LET s == rightRotate(t, y)
         IN LinksOf(t, s.tree, P, {y} \cup L) /\ s.top \in P /\ TreapAt(s.tree, s.top, {y} \cup L \cup R)
<1> DEFINE x == t.left[y]
           u == rightRotate(t, y).tree
<1>1. /\ P \subseteq Nat /\ t \in TableOver(P) /\ L \subseteq P /\ R \subseteq P
      /\ y \in P /\ y # 0 /\ y \notin L /\ y \notin R /\ L \cap R = {}
      /\ TreapAt(t, x, L) /\ TreapAt(t, t.right[y], R)
      /\ \A q \in L : t.key[q] < t.key[y]
      /\ \A q \in R : t.key[y] < t.key[q]
  BY DEF Ordered
<1>2. x # 0 /\ x \in L /\ x \in P
  <2>1. x # 0
    BY <1>1, ZeroIsLast
  <2> QED
    BY <1>1, <2>1, TopIsThere
<1>3. PICK A, B : MadeOf(t, x, L, A, B)
  BY <1>1, <1>2, Parts
<1>4. /\ L = {x} \cup A \cup B /\ A \cap B = {} /\ x \notin A /\ x \notin B
      /\ TreapAt(t, t.left[x], A) /\ TreapAt(t, t.right[x], B)
      /\ \A q \in L : t.key[q] \in Nat /\ ~Outranks(q, x)
      /\ \A q \in A : t.key[q] < t.key[x]
      /\ \A q \in B : t.key[x] < t.key[q]
  BY <1>3 DEF MadeOf
<1>5. rightRotate(t, y).top = x /\ rightRotate(t, y) = Subtree(u, x)
  BY DEF rightRotate, Subtree
<1>6. u = [key |-> t.key, left |-> [t.left EXCEPT ![y] = t.right[x]], right |-> [t.right EXCEPT ![x] = y]]
  BY <1>1 DEF rightRotate, Subtree, TableOver
<1> HIDE DEF u, x
<1>7. x # y
  BY <1>1, <1>2
<1>8. /\ u \in TableOver(P) /\ u.key = t.key
      /\ u.left[y] = t.right[x] /\ u.right[y] = t.right[y]
      /\ u.left[x] = t.left[x] /\ u.right[x] = y
      /\ \A q \in P : q # x /\ q # y => u.left[q] = t.left[q] /\ u.right[q] = t.right[q]
  <2>1. u.left \in [P -> P] /\ u.right \in [P -> P] /\ u.key \in [P -> Nat]
    BY <1>1, <1>2, <1>6 DEF TableOver
  <2>2. u \in TableOver(P)
    BY <1>6, <2>1 DEF TableOver
  <2> QED
    BY <1>1, <1>2, <1>6, <1>7, <2>2 DEF TableOver
<1>9. TreapAt(u, u.left[x], A) /\ TreapAt(u, u.left[y], B) /\ TreapAt(u, u.right[y], R)
  <2>1. \A q \in A \cup B \cup R : q \in P /\ q # x /\ q # y
    BY <1>1, <1>2, <1>4
  <2>2. Agree(t, u, B) /\ Agree(t, u, A) /\ Agree(t, u, R)
    BY <1>8, <2>1 DEF Agree
  <2>3. TreapAt(u, t.left[x], A)
    BY <1>4, <2>2, UntouchedBy
  <2>4. TreapAt(u, t.right[x], B)
    BY <1>4, <2>2, UntouchedBy
  <2>5. TreapAt(u, t.right[y], R)
    BY <1>1, <2>2, UntouchedBy
  <2> QED
    BY <1>8, <2>3, <2>4, <2>5
<1>10. \A q \in P : u.key[q] \in Nat
  BY <1>8 DEF TableOver
<1>11. Fit(u, y, B, R)
  <2>1. \A q \in B : u.key[q] < u.key[y] /\ ~Outranks(q, y)
    BY <1>1, <1>4, <1>8 DEF x
  <2>2. \A q \in R : u.key[y] < u.key[q] /\ ~Outranks(q, y)
    BY <1>1, <1>8
  <2> QED
    BY <1>1, <1>4, <1>9, <1>10, <2>1, <2>2 DEF Fit
<1>12. TreapAt(u, y, {y} \cup B \cup R)
  BY <1>11, Join
<1> DEFINE C == {y} \cup B \cup R
<1>13. Fit(u, x, A, C)
  <2>1. \A q \in A : u.key[q] < u.key[x] /\ ~Outranks(q, x)
    BY <1>4, <1>8
  <2>2. ~Outranks(y, x)
    <3>1. x \in Nat /\ y \in Nat
      BY <1>1, <1>2
    <3>2. Outranks(x, y)
      BY DEF x
    <3> QED
      BY <3>1, <3>2, RankOrder
  <2>3. \A q \in R : ~Outranks(q, x)
    <3>1. \A q \in R : q \in Int /\ y \in Int /\ x \in Int /\ ~Outranks(q, y)
      BY <1>1, <1>2
    <3> QED
      BY <2>2, <3>1, RankOrder
  <2>4. \A q \in R : u.key[x] < u.key[q]
    <3> SUFFICES ASSUME NEW q \in R PROVE u.key[x] < u.key[q]
      OBVIOUS
    <3>1. u.key[x] < u.key[y] /\ u.key[y] < u.key[q]
      BY <1>1, <1>2, <1>8
    <3>2. u.key[x] \in Nat /\ u.key[y] \in Nat /\ u.key[q] \in Nat
      BY <1>1, <1>2, <1>10
    <3> QED
      BY <3>1, <3>2
  <2>5. \A q \in C : u.key[x] < u.key[q] /\ ~Outranks(q, x)
    BY <1>1, <1>2, <1>4, <1>8, <2>2, <2>3, <2>4
  <2>6. x \notin C /\ A \cap C = {} /\ x \in Nat \ {0}
    BY <1>1, <1>2, <1>4, <1>7
  <2>7. TreapAt(u, u.right[x], C)
    BY <1>8, <1>12
  <2> HIDE DEF C
  <2> QED
    BY <1>2, <1>4, <1>9, <1>10, <2>1, <2>5, <2>6, <2>7 DEF Fit
<1>14. TreapAt(u, x, {x} \cup A \cup C)
  <2> HIDE DEF C
  <2> QED
    BY <1>13, Join
<1>15. {x} \cup A \cup C = {y} \cup L \cup R
  BY <1>4
<1>16. TreapAt(u, x, {y} \cup L \cup R)
  <2> HIDE DEF C
  <2> QED
    BY <1>14, <1>15
<1>17. LinksOf(t, u, P, {y} \cup L)
  BY <1>1, <1>2, <1>8 DEF LinksOf
<1> QED
  BY <1>2, <1>5, <1>16, <1>17 DEF Subtree

LEMMA RotateLeft ==
  ASSUME NEW t, NEW P, NEW y, NEW R, NEW L, Ordered(t, y, P, L, R), 0 \in P,
         Outranks(t.right[y], y), \A q \in R \ {t.right[y]} : ~Outranks(q, y),
         \A q \in L : ~Outranks(q, y)
  PROVE  LET s == leftRotate(t, y)
         IN LinksOf(t, s.tree, P, {y} \cup R) /\ s.top \in P /\ TreapAt(s.tree, s.top, {y} \cup L \cup R)
<1> DEFINE x == t.right[y]
           u == leftRotate(t, y).tree
<1>1. /\ P \subseteq Nat /\ t \in TableOver(P) /\ R \subseteq P /\ L \subseteq P
      /\ y \in P /\ y # 0 /\ y \notin R /\ y \notin L /\ L \cap R = {}
      /\ TreapAt(t, x, R) /\ TreapAt(t, t.left[y], L)
      /\ \A q \in R : t.key[y] < t.key[q]
      /\ \A q \in L : t.key[q] < t.key[y]
  BY DEF Ordered
<1>2. x # 0 /\ x \in R /\ x \in P
  <2>1. x # 0
    BY <1>1, ZeroIsLast
  <2> QED
    BY <1>1, <2>1, TopIsThere
<1>3. PICK A, B : MadeOf(t, x, R, A, B)
  BY <1>1, <1>2, Parts
<1>4. /\ R = {x} \cup A \cup B /\ B \cap A = {} /\ x \notin B /\ x \notin A
      /\ TreapAt(t, t.right[x], B) /\ TreapAt(t, t.left[x], A)
      /\ \A q \in R : t.key[q] \in Nat /\ ~Outranks(q, x)
      /\ \A q \in B : t.key[x] < t.key[q]
      /\ \A q \in A : t.key[q] < t.key[x]
  BY <1>3 DEF MadeOf
<1>5. leftRotate(t, y).top = x /\ leftRotate(t, y) = Subtree(u, x)
  BY DEF leftRotate, Subtree
<1>6. u = [key |-> t.key, right |-> [t.right EXCEPT ![y] = t.left[x]], left |-> [t.left EXCEPT ![x] = y]]
  BY <1>1 DEF leftRotate, Subtree, TableOver
<1> HIDE DEF u, x
<1>7. x # y
  BY <1>1, <1>2
<1>8. /\ u \in TableOver(P) /\ u.key = t.key
      /\ u.right[y] = t.left[x] /\ u.left[y] = t.left[y]
      /\ u.right[x] = t.right[x] /\ u.left[x] = y
      /\ \A q \in P : q # x /\ q # y => u.right[q] = t.right[q] /\ u.left[q] = t.left[q]
  <2>1. u.right \in [P -> P] /\ u.left \in [P -> P] /\ u.key \in [P -> Nat]
    BY <1>1, <1>2, <1>6 DEF TableOver
  <2>2. u \in TableOver(P)
    BY <1>6, <2>1 DEF TableOver
  <2> QED
    BY <1>1, <1>2, <1>6, <1>7, <2>2 DEF TableOver
<1>9. TreapAt(u, u.right[x], B) /\ TreapAt(u, u.right[y], A) /\ TreapAt(u, u.left[y], L)
  <2>1. \A q \in B \cup L \cup A : q \in P /\ q # x /\ q # y
    BY <1>1, <1>2, <1>4
  <2>2. Agree(t, u, B) /\ Agree(t, u, A) /\ Agree(t, u, L)
    BY <1>8, <2>1 DEF Agree
  <2>3. TreapAt(u, t.right[x], B)
    BY <1>4, <2>2, UntouchedBy
  <2>4. TreapAt(u, t.left[x], A)
    BY <1>4, <2>2, UntouchedBy
  <2>5. TreapAt(u, t.left[y], L)
    BY <1>1, <2>2, UntouchedBy
  <2> QED
    BY <1>8, <2>3, <2>4, <2>5
<1>10. \A q \in P : u.key[q] \in Nat
  BY <1>8 DEF TableOver
<1>11. Fit(u, y, L, A)
  <2>1. \A q \in A : u.key[y] < u.key[q] /\ ~Outranks(q, y)
    BY <1>1, <1>4, <1>8 DEF x
  <2>2. \A q \in L : u.key[q] < u.key[y] /\ ~Outranks(q, y)
    BY <1>1, <1>8
  <2> QED
    BY <1>1, <1>4, <1>9, <1>10, <2>1, <2>2 DEF Fit
<1>12. TreapAt(u, y, {y} \cup L \cup A)
  BY <1>11, Join
<1> DEFINE C == {y} \cup L \cup A
<1>13. Fit(u, x, C, B)
  <2>1. \A q \in B : u.key[x] < u.key[q] /\ ~Outranks(q, x)
    BY <1>4, <1>8
  <2>2. ~Outranks(y, x)
    <3>1. x \in Nat /\ y \in Nat
      BY <1>1, <1>2
    <3>2. Outranks(x, y)
      BY DEF x
    <3> QED
      BY <3>1, <3>2, RankOrder
  <2>3. \A q \in L : ~Outranks(q, x)
    <3>1. \A q \in L : q \in Int /\ y \in Int /\ x \in Int /\ ~Outranks(q, y)
      BY <1>1, <1>2
    <3> QED
      BY <2>2, <3>1, RankOrder
  <2>4. \A q \in L : u.key[q] < u.key[x]
    <3> SUFFICES ASSUME NEW q \in L PROVE u.key[q] < u.key[x]
      OBVIOUS
    <3>1. u.key[y] < u.key[x] /\ u.key[q] < u.key[y]
      BY <1>1, <1>2, <1>8
    <3>2. u.key[x] \in Nat /\ u.key[y] \in Nat /\ u.key[q] \in Nat
      BY <1>1, <1>2, <1>10
    <3> QED
      BY <3>1, <3>2
  <2>5. \A q \in C : u.key[q] < u.key[x] /\ ~Outranks(q, x)
    BY <1>1, <1>2, <1>4, <1>8, <2>2, <2>3, <2>4
  <2>6. x \notin C /\ B \cap C = {} /\ x \in Nat \ {0}
    BY <1>1, <1>2, <1>4, <1>7
  <2>7. TreapAt(u, u.left[x], C)
    BY <1>8, <1>12
  <2> HIDE DEF C
  <2> QED
    BY <1>2, <1>4, <1>9, <1>10, <2>1, <2>5, <2>6, <2>7 DEF Fit
<1>14. TreapAt(u, x, {x} \cup C \cup B)
  <2> HIDE DEF C
  <2> QED
    BY <1>13, Join
<1>15. {x} \cup C \cup B = {y} \cup L \cup R
  BY <1>4
<1>16. TreapAt(u, x, {y} \cup L \cup R)
  <2> HIDE DEF C
  <2> QED
    BY <1>14, <1>15
<1>17. LinksOf(t, u, P, {y} \cup R)
  BY <1>1, <1>2, <1>8 DEF LinksOf
<1> QED
  BY <1>2, <1>5, <1>16, <1>17 DEF Subtree

(* What the operators return: a table of P and a top.                        *)
Subtrees(P) == [tree : TableOver(P), top : P]

(* s is t with other links in X, and has a treap of the part Y of X, whose   *)
(* keys belong left of p.  On the right of p there is the treap R.           *)
HangsLeft(t, P, p, s, X, Y, R) ==
  /\ P \subseteq Nat /\ 0 \in P /\ t \in TableOver(P) /\ p \in P \ {0}
  /\ R \subseteq P /\ TreapAt(t, t.right[p], R) /\ p \notin R
  /\ s \in Subtrees(P) /\ LinksOf(t, s.tree, P, X) /\ TreapAt(s.tree, s.top, Y)
  /\ X \subseteq P /\ Y \subseteq X /\ p \notin X /\ X \cap R = {}
  /\ \A q \in Y : t.key[q] < t.key[p]
  /\ \A q \in R : t.key[p] < t.key[q]

LEMMA LinkLeft ==
  ASSUME NEW t, NEW P, NEW p, NEW s, NEW X, NEW Y, NEW R, HangsLeft(t, P, p, s, X, Y, R)
  PROVE  LET u == linkedLeft(s, p)
         IN /\ u \in Subtrees(P) /\ u.top = p /\ u.tree.left[p] = s.top
            /\ LinksOf(t, u.tree, P, {p} \cup X) /\ Ordered(u.tree, p, P, Y, R)
<1> DEFINE u == linkedLeft(s, p).tree
<1>1. /\ P \subseteq Nat /\ 0 \in P /\ t \in TableOver(P) /\ p \in P /\ p # 0
      /\ R \subseteq P /\ TreapAt(t, t.right[p], R) /\ p \notin R
      /\ s.tree \in TableOver(P) /\ s.top \in P
      /\ s.tree.key = t.key /\ TreapAt(s.tree, s.top, Y)
      /\ \A q \in P \ X : s.tree.left[q] = t.left[q] /\ s.tree.right[q] = t.right[q]
      /\ X \subseteq P /\ Y \subseteq X /\ p \notin X /\ X \cap R = {}
      /\ \A q \in Y : t.key[q] < t.key[p]
      /\ \A q \in R : t.key[p] < t.key[q]
  BY DEF HangsLeft, Subtrees, LinksOf
<1>2. linkedLeft(s, p) = Subtree(u, p) /\ linkedLeft(s, p).top = p
  BY DEF linkedLeft, Subtree
<1>3. u = [key |-> s.tree.key, left |-> [s.tree.left EXCEPT ![p] = s.top], right |-> s.tree.right]
  BY <1>1 DEF linkedLeft, Subtree, TableOver
<1> HIDE DEF u
<1>4. /\ u \in TableOver(P) /\ u.key = t.key /\ u.left[p] = s.top /\ u.right = s.tree.right
      /\ \A q \in P : q # p => u.left[q] = s.tree.left[q]
  <2>1. [s.tree.left EXCEPT ![p] = s.top] \in [P -> P]
    BY <1>1 DEF TableOver
  <2>2. u \in TableOver(P)
    BY <1>1, <1>3, <2>1 DEF TableOver
  <2> QED
    BY <1>1, <1>3, <2>2 DEF TableOver
<1>5. TreapAt(u, s.top, Y)
  <2>1. \A q \in Y : q \in P /\ q # p
    BY <1>1
  <2>2. Agree(s.tree, u, Y)
    BY <1>1, <1>4, <2>1 DEF Agree
  <2> QED
    BY <1>1, <2>2, UntouchedBy
<1>6. TreapAt(u, t.right[p], R)
  <2>1. \A q \in R : q \in P \ X /\ q # p
    BY <1>1
  <2>2. Agree(t, u, R)
    BY <1>1, <1>4, <2>1 DEF Agree
  <2> QED
    BY <1>1, <2>2, UntouchedBy
<1>7. u.right[p] = t.right[p]
  BY <1>1, <1>4
<1>8. Ordered(u, p, P, Y, R)
  <2>1. Y \cap R = {} /\ Y \subseteq P /\ p \notin Y
    BY <1>1
  <2> QED
    BY <1>1, <1>4, <1>5, <1>6, <1>7, <2>1 DEF Ordered
<1>9. LinksOf(t, u, P, {p} \cup X)
  <2>1. \A q \in P \ ({p} \cup X) : u.left[q] = t.left[q] /\ u.right[q] = t.right[q]
    BY <1>1, <1>4
  <2> QED
    BY <1>1, <1>4, <2>1 DEF LinksOf
<1> QED
  BY <1>1, <1>2, <1>4, <1>8, <1>9 DEF Subtree, Subtrees

(* s is t with other links in X, and has a treap of the part Y of X, whose   *)
(* keys belong right of p.  On the left of p there is the treap L.           *)
HangsRight(t, P, p, s, X, Y, L) ==
  /\ P \subseteq Nat /\ 0 \in P /\ t \in TableOver(P) /\ p \in P \ {0}
  /\ L \subseteq P /\ TreapAt(t, t.left[p], L) /\ p \notin L
  /\ s \in Subtrees(P) /\ LinksOf(t, s.tree, P, X) /\ TreapAt(s.tree, s.top, Y)
  /\ X \subseteq P /\ Y \subseteq X /\ p \notin X /\ X \cap L = {}
  /\ \A q \in Y : t.key[p] < t.key[q]
  /\ \A q \in L : t.key[q] < t.key[p]

LEMMA LinkRight ==
  ASSUME NEW t, NEW P, NEW p, NEW s, NEW X, NEW Y, NEW L, HangsRight(t, P, p, s, X, Y, L)
  PROVE  LET u == linkedRight(s, p)
         IN /\ u \in Subtrees(P) /\ u.top = p /\ u.tree.right[p] = s.top
            /\ LinksOf(t, u.tree, P, {p} \cup X) /\ Ordered(u.tree, p, P, L, Y)
<1> DEFINE u == linkedRight(s, p).tree
<1>1. /\ P \subseteq Nat /\ 0 \in P /\ t \in TableOver(P) /\ p \in P /\ p # 0
      /\ L \subseteq P /\ TreapAt(t, t.left[p], L) /\ p \notin L
      /\ s.tree \in TableOver(P) /\ s.top \in P
      /\ s.tree.key = t.key /\ TreapAt(s.tree, s.top, Y)
      /\ \A q \in P \ X : s.tree.right[q] = t.right[q] /\ s.tree.left[q] = t.left[q]
      /\ X \subseteq P /\ Y \subseteq X /\ p \notin X /\ X \cap L = {}
      /\ \A q \in Y : t.key[p] < t.key[q]
      /\ \A q \in L : t.key[q] < t.key[p]
  BY DEF HangsRight, Subtrees, LinksOf
<1>2. linkedRight(s, p) = Subtree(u, p) /\ linkedRight(s, p).top = p
  BY DEF linkedRight, Subtree
<1>3. u = [key |-> s.tree.key, left |-> s.tree.left, right |-> [s.tree.right EXCEPT ![p] = s.top]]
  BY <1>1 DEF linkedRight, Subtree, TableOver
<1> HIDE DEF u
<1>4. /\ u \in TableOver(P) /\ u.key = t.key /\ u.right[p] = s.top /\ u.left = s.tree.left
      /\ \A q \in P : q # p => u.right[q] = s.tree.right[q]
  <2>1. [s.tree.right EXCEPT ![p] = s.top] \in [P -> P]
    BY <1>1 DEF TableOver
  <2>2. u \in TableOver(P)
    BY <1>1, <1>3, <2>1 DEF TableOver
  <2> QED
    BY <1>1, <1>3, <2>2 DEF TableOver
<1>5. TreapAt(u, s.top, Y)
  <2>1. \A q \in Y : q \in P /\ q # p
    BY <1>1
  <2>2. Agree(s.tree, u, Y)
    BY <1>1, <1>4, <2>1 DEF Agree
  <2> QED
    BY <1>1, <2>2, UntouchedBy
<1>6. TreapAt(u, t.left[p], L)
  <2>1. \A q \in L : q \in P \ X /\ q # p
    BY <1>1
  <2>2. Agree(t, u, L)
    BY <1>1, <1>4, <2>1 DEF Agree
  <2> QED
    BY <1>1, <2>2, UntouchedBy
<1>7. u.left[p] = t.left[p]
  BY <1>1, <1>4
<1>8. Ordered(u, p, P, L, Y)
  <2>1. Y \cap L = {} /\ Y \subseteq P /\ p \notin Y
    BY <1>1
  <2> QED
    BY <1>1, <1>4, <1>5, <1>6, <1>7, <2>1 DEF Ordered
<1>9. LinksOf(t, u, P, {p} \cup X)
  <2>1. \A q \in P \ ({p} \cup X) : u.right[q] = t.right[q] /\ u.left[q] = t.left[q]
    BY <1>1, <1>4
  <2> QED
    BY <1>1, <1>4, <2>1 DEF LinksOf
<1> QED
  BY <1>1, <1>2, <1>4, <1>8, <1>9 DEF Subtree, Subtrees

(* s is t after target has gone into the tree S.                             *)
Grown(t, P, S, target, s) ==
  /\ s \in Subtrees(P) /\ LinksOf(t, s.tree, P, S \cup {target})
  /\ TreapAt(s.tree, s.top, S \cup {target})

(* The tree S of p, and a position that is not in it with a key of its own.  *)
Entering(t, P, p, S, L, R, target) ==
  /\ P \subseteq Nat /\ 0 \in P /\ t \in TableOver(P) /\ p \in P \ {0}
  /\ S \subseteq P /\ MadeOf(t, p, S, L, R)
  /\ target \in P \ {0} /\ target \notin S /\ \A q \in S : t.key[q] # t.key[target]

LEMMA InsertedLeftCorrect ==
  ASSUME NEW t, NEW P, NEW p, NEW S, NEW L, NEW R, NEW target, NEW s,
         Entering(t, P, p, S, L, R, target), t.key[target] < t.key[p], Grown(t, P, L, target, s)
  PROVE  Grown(t, P, S, target, insertedLeft(s, p))
<1> DEFINE E == L \cup {target}
           u == linkedLeft(s, p)
           w == rightRotate(u.tree, p)
<1>1. /\ P \subseteq Nat /\ 0 \in P /\ t \in TableOver(P) /\ p \in P /\ p # 0
      /\ S = {p} \cup L \cup R /\ L \cap R = {} /\ p \notin L /\ p \notin R
      /\ L \subseteq P /\ R \subseteq P
      /\ TreapAt(t, t.right[p], R)
      /\ \A q \in S : ~Outranks(q, p)
      /\ \A q \in L : t.key[q] < t.key[p]
      /\ \A q \in R : t.key[p] < t.key[q]
      /\ target \in P /\ target # 0 /\ target \notin L /\ target \notin R /\ target # p
  BY DEF Entering, MadeOf
<1>2. s \in Subtrees(P) /\ LinksOf(t, s.tree, P, E) /\ TreapAt(s.tree, s.top, E)
  BY DEF Grown
<1>3. HangsLeft(t, P, p, s, E, E, R)
  <2>1. E \subseteq P /\ p \notin E /\ E \cap R = {} /\ \A q \in E : t.key[q] < t.key[p]
    BY <1>1
  <2> HIDE DEF E
  <2> QED
    BY <1>1, <1>2, <2>1 DEF HangsLeft
<1>4. /\ u \in Subtrees(P) /\ u.top = p /\ u.tree.left[p] = s.top
      /\ LinksOf(t, u.tree, P, {p} \cup E) /\ Ordered(u.tree, p, P, E, R)
  <2> HIDE DEF E
  <2> QED
    BY <1>3, LinkLeft
<1>5. {p} \cup E \cup R = S \cup {target} /\ {p} \cup E \subseteq S \cup {target}
  BY <1>1
<1>6. \A q \in R : ~Outranks(q, p)
  BY <1>1
<1>7. s.top \in E /\ s.top # 0
  <2> HIDE DEF E
  <2>1. s.top # 0
    <3>1. TreapAt(s.tree, 0, E) => E = {}
      BY NoTop
    <3>2. E # {}
      BY DEF E
    <3> QED
      BY <1>2, <3>1, <3>2
  <2> QED
    BY <1>2, <2>1, TopIsThere
<1>8. CASE ~Outranks(s.top, p)
  <2>1. insertedLeft(s, p) = u
    BY <1>8 DEF insertedLeft
  <2>2. \A q \in E : ~Outranks(q, p)
    <3>1. \E A, B : MadeOf(s.tree, s.top, E, A, B)
      <4> HIDE DEF E
      <4> QED
        BY <1>2, <1>7, Parts
    <3>2. \A q \in E : ~Outranks(q, s.top)
      BY <3>1 DEF MadeOf
    <3>3. p \in Nat /\ s.top \in Nat /\ \A q \in E : q \in Nat
      BY <1>1, <1>7
    <3> HIDE DEF E
    <3>4. \A q \in E : ~Outranks(q, s.top) /\ ~Outranks(s.top, p) => ~Outranks(q, p)
      BY <3>3, RankOrder
    <3> QED
      BY <1>8, <3>2, <3>4
  <2> HIDE DEF u, E
  <2>3. Fit(u.tree, p, E, R)
    <3>1. u.tree.key[p] \in Nat
      BY <1>1, <1>4 DEF Ordered, TableOver
    <3> QED
      BY <1>1, <1>4, <1>6, <2>2, <3>1 DEF Fit, Ordered
  <2>4. TreapAt(u.tree, p, {p} \cup E \cup R)
    BY <2>3, Join
  <2>5. LinksOf(t, u.tree, P, S \cup {target})
    BY <1>4, <1>5 DEF LinksOf
  <2> QED
    BY <1>4, <1>5, <2>1, <2>4, <2>5 DEF Grown
<1>9. CASE Outranks(s.top, p)
  <2>1. insertedLeft(s, p) = w
    BY <1>9 DEF insertedLeft
  <2>2. s.top = target
    BY <1>1, <1>7, <1>9
  <2>3. \A q \in E \ {s.top} : ~Outranks(q, p)
    BY <1>1, <2>2
  <2> HIDE DEF u, E, w
  <2>4. /\ LinksOf(u.tree, w.tree, P, {p} \cup E) /\ w.top \in P
        /\ TreapAt(w.tree, w.top, {p} \cup E \cup R)
    <3>1. Outranks(u.tree.left[p], p) /\ \A q \in E \ {u.tree.left[p]} : ~Outranks(q, p)
      BY <1>4, <1>9, <2>3
    <3> QED
      BY <1>1, <1>4, <1>6, <3>1, RotateRight DEF w
  <2>5. LinksOf(t, w.tree, P, S \cup {target})
    BY <1>4, <1>5, <2>4 DEF LinksOf
  <2>6. w = Subtree(w.tree, w.top)
    BY DEF w, rightRotate, Subtree
  <2>7. w \in Subtrees(P)
    BY <2>4, <2>6 DEF Subtree, Subtrees, LinksOf
  <2> QED
    BY <1>5, <2>1, <2>4, <2>5, <2>7 DEF Grown
<1> QED
  BY <1>8, <1>9

LEMMA InsertedRightCorrect ==
  ASSUME NEW t, NEW P, NEW p, NEW S, NEW L, NEW R, NEW target, NEW s,
         Entering(t, P, p, S, L, R, target), t.key[p] < t.key[target], Grown(t, P, R, target, s)
  PROVE  Grown(t, P, S, target, insertedRight(s, p))
<1> DEFINE E == R \cup {target}
           u == linkedRight(s, p)
           w == leftRotate(u.tree, p)
<1>1. /\ P \subseteq Nat /\ 0 \in P /\ t \in TableOver(P) /\ p \in P /\ p # 0
      /\ S = {p} \cup L \cup R /\ L \cap R = {} /\ p \notin R /\ p \notin L
      /\ R \subseteq P /\ L \subseteq P
      /\ TreapAt(t, t.left[p], L)
      /\ \A q \in S : ~Outranks(q, p)
      /\ \A q \in R : t.key[p] < t.key[q]
      /\ \A q \in L : t.key[q] < t.key[p]
      /\ target \in P /\ target # 0 /\ target \notin R /\ target \notin L /\ target # p
  BY DEF Entering, MadeOf
<1>2. s \in Subtrees(P) /\ LinksOf(t, s.tree, P, E) /\ TreapAt(s.tree, s.top, E)
  BY DEF Grown
<1>3. HangsRight(t, P, p, s, E, E, L)
  <2>1. E \subseteq P /\ p \notin E /\ E \cap L = {} /\ \A q \in E : t.key[p] < t.key[q]
    BY <1>1
  <2> HIDE DEF E
  <2> QED
    BY <1>1, <1>2, <2>1 DEF HangsRight
<1>4. /\ u \in Subtrees(P) /\ u.top = p /\ u.tree.right[p] = s.top
      /\ LinksOf(t, u.tree, P, {p} \cup E) /\ Ordered(u.tree, p, P, L, E)
  <2> HIDE DEF E
  <2> QED
    BY <1>3, LinkRight
<1>5. {p} \cup L \cup E = S \cup {target} /\ {p} \cup E \subseteq S \cup {target}
  BY <1>1
<1>6. \A q \in L : ~Outranks(q, p)
  BY <1>1
<1>7. s.top \in E /\ s.top # 0
  <2> HIDE DEF E
  <2>1. s.top # 0
    <3>1. TreapAt(s.tree, 0, E) => E = {}
      BY NoTop
    <3>2. E # {}
      BY DEF E
    <3> QED
      BY <1>2, <3>1, <3>2
  <2> QED
    BY <1>2, <2>1, TopIsThere
<1>8. CASE ~Outranks(s.top, p)
  <2>1. insertedRight(s, p) = u
    BY <1>8 DEF insertedRight
  <2>2. \A q \in E : ~Outranks(q, p)
    <3>1. \E B, A : MadeOf(s.tree, s.top, E, B, A)
      <4> HIDE DEF E
      <4> QED
        BY <1>2, <1>7, Parts
    <3>2. \A q \in E : ~Outranks(q, s.top)
      BY <3>1 DEF MadeOf
    <3>3. p \in Nat /\ s.top \in Nat /\ \A q \in E : q \in Nat
      BY <1>1, <1>7
    <3> HIDE DEF E
    <3>4. \A q \in E : ~Outranks(q, s.top) /\ ~Outranks(s.top, p) => ~Outranks(q, p)
      BY <3>3, RankOrder
    <3> QED
      BY <1>8, <3>2, <3>4
  <2> HIDE DEF u, E
  <2>3. Fit(u.tree, p, L, E)
    <3>1. u.tree.key[p] \in Nat
      BY <1>1, <1>4 DEF Ordered, TableOver
    <3> QED
      BY <1>1, <1>4, <1>6, <2>2, <3>1 DEF Fit, Ordered
  <2>4. TreapAt(u.tree, p, {p} \cup L \cup E)
    BY <2>3, Join
  <2>5. LinksOf(t, u.tree, P, S \cup {target})
    BY <1>4, <1>5 DEF LinksOf
  <2> QED
    BY <1>4, <1>5, <2>1, <2>4, <2>5 DEF Grown
<1>9. CASE Outranks(s.top, p)
  <2>1. insertedRight(s, p) = w
    BY <1>9 DEF insertedRight
  <2>2. s.top = target
    BY <1>1, <1>7, <1>9
  <2>3. \A q \in E \ {s.top} : ~Outranks(q, p)
    BY <1>1, <2>2
  <2> HIDE DEF u, E, w
  <2>4. /\ LinksOf(u.tree, w.tree, P, {p} \cup E) /\ w.top \in P
        /\ TreapAt(w.tree, w.top, {p} \cup L \cup E)
    <3>1. Outranks(u.tree.right[p], p) /\ \A q \in E \ {u.tree.right[p]} : ~Outranks(q, p)
      BY <1>4, <1>9, <2>3
    <3> QED
      BY <1>1, <1>4, <1>6, <3>1, RotateLeft DEF w
  <2>5. LinksOf(t, w.tree, P, S \cup {target})
    BY <1>4, <1>5, <2>4 DEF LinksOf
  <2>6. w = Subtree(w.tree, w.top)
    BY DEF w, leftRotate, Subtree
  <2>7. w \in Subtrees(P)
    BY <2>4, <2>6 DEF Subtree, Subtrees, LinksOf
  <2> QED
    BY <1>5, <2>1, <2>4, <2>5, <2>7 DEF Grown
<1> QED
  BY <1>8, <1>9

LEMMA LinkedType ==
  ASSUME NEW P, NEW s \in Subtrees(P), NEW p \in P
  PROVE  linkedLeft(s, p) \in Subtrees(P) /\ linkedRight(s, p) \in Subtrees(P)
<1>1. s.tree \in TableOver(P) /\ s.top \in P
  BY DEF Subtrees
<1>2. /\ [s.tree EXCEPT !.left[p] = s.top] = [key |-> s.tree.key, left |-> [s.tree.left EXCEPT ![p] = s.top], right |-> s.tree.right]
      /\ [s.tree EXCEPT !.right[p] = s.top] = [key |-> s.tree.key, left |-> s.tree.left, right |-> [s.tree.right EXCEPT ![p] = s.top]]
  BY <1>1 DEF TableOver
<1>3. [s.tree EXCEPT !.left[p] = s.top] \in TableOver(P) /\ [s.tree EXCEPT !.right[p] = s.top] \in TableOver(P)
  BY <1>1, <1>2 DEF TableOver
<1> QED
  BY <1>3 DEF linkedLeft, linkedRight, Subtree, Subtrees

LEMMA RotatedType ==
  ASSUME NEW P, NEW t, t \in TableOver(P), NEW p \in P
  PROVE  rightRotate(t, p) \in Subtrees(P) /\ leftRotate(t, p) \in Subtrees(P)
<1>1. t.left[p] \in P /\ t.right[p] \in P
  BY DEF TableOver
<1>2. ASSUME NEW x \in P, NEW u, u = [t EXCEPT !.right[x] = p, !.left[p] = t.right[x]]
      PROVE  u \in TableOver(P)
  <2>1. u = [key |-> t.key, left |-> [t.left EXCEPT ![p] = t.right[x]],
             right |-> [t.right EXCEPT ![x] = p]]
    BY <1>2 DEF TableOver
  <2> QED
    BY <2>1 DEF TableOver
<1>3. ASSUME NEW x \in P, NEW u, u = [t EXCEPT !.left[x] = p, !.right[p] = t.left[x]]
      PROVE  u \in TableOver(P)
  <2>1. u = [key |-> t.key, left |-> [t.left EXCEPT ![x] = p],
             right |-> [t.right EXCEPT ![p] = t.left[x]]]
    BY <1>3 DEF TableOver
  <2> QED
    BY <2>1 DEF TableOver
<1> QED
  BY <1>1, <1>2, <1>3 DEF rightRotate, leftRotate, Subtree, Subtrees

LEMMA InsertedType ==
  ASSUME NEW P, NEW s \in Subtrees(P), NEW p \in P
  PROVE  insertedLeft(s, p) \in Subtrees(P) /\ insertedRight(s, p) \in Subtrees(P)
<1>1. linkedLeft(s, p) \in Subtrees(P) /\ linkedRight(s, p) \in Subtrees(P)
  BY LinkedType
<1>2. linkedLeft(s, p).tree \in TableOver(P) /\ linkedRight(s, p).tree \in TableOver(P)
  BY <1>1 DEF Subtrees
<1>3. rightRotate(linkedLeft(s, p).tree, p) \in Subtrees(P) /\ leftRotate(linkedRight(s, p).tree, p) \in Subtrees(P)
  BY <1>2, RotatedType
<1> QED
  BY <1>1, <1>3 DEF insertedLeft, insertedRight

(* The function that insertElement recurs on.                                *)
IsInto(t, target, f) ==
  f = [p \in Positions(t) |-> IF p = 0 THEN Subtree(t, target)
                              ELSE IF t.key[target] < t.key[p] THEN insertedLeft(f[t.left[p]], p)
                              ELSE insertedRight(f[t.right[p]], p)]

LEMMA InsertRecurs ==
  ASSUME NEW t, NEW P, NEW rank, NEW N, Ranked(t, P, rank, N), NEW target \in P
  PROVE  \E f : IsInto(t, target, f) /\ \A p : insertElement(t, target, p) = f[p]
<1> DEFINE into == CHOOSE f : IsInto(t, target, f)
           goesLeft(p) == t.key[target] < t.key[p]
           next == [p \in P |-> IF goesLeft(p) THEN t.left[p] ELSE t.right[p]]
           V == Subtrees(P)
           base == [p \in P |-> Subtree(t, target)]
           step == [p \in P |-> [s \in V |-> IF goesLeft(p) THEN insertedLeft(s, p) ELSE insertedRight(s, p)]]
<1>1. Positions(t) = P /\ N \in Nat /\ (\A p \in P : rank[p] < N) /\ t \in TableOver(P)
  BY DEF Ranked, TableOver, Positions
<1>2. Falls(P, next, {0}, rank)
  BY DEF Ranked, TableOver, Falls
<1>3. base \in [P -> V]
  BY <1>1 DEF Subtree, Subtrees
<1>4. step \in [P -> [V -> V]]
  <2>1. \A s \in V, p \in P : insertedLeft(s, p) \in V /\ insertedRight(s, p) \in V
    BY InsertedType
  <2> HIDE DEF V, goesLeft
  <2> QED
    BY <2>1
<1>5. PICK f : Recurs(f, P, V, next, {0}, base, step)
  <2> HIDE DEF next, base, step, V
  <2> QED
    BY <1>1, <1>2, <1>3, <1>4, Recursion
<1>6. \A p \in P : next[p] \in P
  BY <1>2 DEF Falls
<1>7. \A p \in P : f[p] = IF p = 0 THEN Subtree(t, target)
                         ELSE IF t.key[target] < t.key[p] THEN insertedLeft(f[t.left[p]], p)
                         ELSE insertedRight(f[t.right[p]], p)
  <2>1. ASSUME NEW p \in P
        PROVE  f[p] = IF p = 0 THEN Subtree(t, target)
                      ELSE IF t.key[target] < t.key[p] THEN insertedLeft(f[t.left[p]], p)
                      ELSE insertedRight(f[t.right[p]], p)
    <3>1. f \in [P -> V] /\ f[p] = IF p \in {0} THEN base[p] ELSE step[p][f[next[p]]]
      BY <1>5 DEF Recurs
    <3>2. next[p] \in P /\ f[next[p]] \in V
      BY <1>6, <3>1
    <3> HIDE DEF V
    <3>3. f[p] = IF p = 0 THEN Subtree(t, target)
                 ELSE IF goesLeft(p) THEN insertedLeft(f[next[p]], p) ELSE insertedRight(f[next[p]], p)
      BY <3>1, <3>2
    <3>4. next[p] = IF goesLeft(p) THEN t.left[p] ELSE t.right[p]
      OBVIOUS
    <3> QED
      BY <3>3, <3>4
  <2> QED
    BY <2>1
<1>8. IsInto(t, target, f)
  <2> HIDE DEF next, base, step, V
  <2> QED
    BY <1>1, <1>5, <1>7 DEF IsInto, Recurs
<1>9. IsInto(t, target, into)
  <2> HIDE DEF next, step, base, V, goesLeft
  <2> QED BY <1>8, Zenon
<1>10. \A p : insertElement(t, target, p) = into[p]
  BY DEF insertElement, IsInto
<1> QED
  BY <1>9, <1>10

(* A tree without the target and its key becomes one with them.              *)
LEMMA InsertCorrect ==
  ASSUME NEW t, NEW P, IsFiniteSet(P), NEW rank, NEW N, Ranked(t, P, rank, N),
         NEW target \in P, target # 0, t.left[target] = 0, t.right[target] = 0,
         NEW top, NEW S \in SUBSET P, TreapAt(t, top, S),
         target \notin S, \A q \in S : t.key[q] # t.key[target]
  PROVE  Grown(t, P, S, target, insertElement(t, target, top))
<1>1. PICK f : IsInto(t, target, f) /\ \A p : insertElement(t, target, p) = f[p]
  BY InsertRecurs
<1>2. Positions(t) = P /\ 0 \in P /\ P \subseteq Nat /\ t \in TableOver(P)
  BY DEF Ranked, TableOver, Positions
<1>3. /\ f[0] = Subtree(t, target)
      /\ \A p \in P \ {0} : f[p] = IF t.key[target] < t.key[p] THEN insertedLeft(f[t.left[p]], p)
                                   ELSE insertedRight(f[t.right[p]], p)
  BY <1>1, <1>2 DEF IsInto
<1> DEFINE Fresh(T) == target \notin T /\ \A q \in T : t.key[q] # t.key[target]
           Good == {x \in P \X SUBSET P : Fresh(x[2]) => Grown(t, P, x[2], target, f[x[1]])}
<1>4. <<0, {}>> \in Good
  <2>1. Fit(t, target, {}, {})
    <3>1. TreapAt(t, 0, {})
      BY EmptyTree
    <3>2. t.key[target] \in Nat /\ target \in Nat \ {0}
      BY <1>2 DEF TableOver
    <3> QED
      BY <3>1, <3>2 DEF Fit
  <2>2. TreapAt(t, target, {target} \cup {} \cup {})
    BY <2>1, Join
  <2>3. {target} \cup {} \cup {} = {} \cup {target}
    OBVIOUS
  <2>4. TreapAt(t, target, {} \cup {target})
    BY <2>2, <2>3
  <2>5. Grown(t, P, {}, target, f[0])
    BY <1>2, <1>3, <2>4 DEF Grown, Subtree, Subtrees, LinksOf
  <2> QED
    BY <1>2, <2>5
<1>5. ASSUME NEW p \in P, NEW T \in SUBSET P, NEW L \in SUBSET P, NEW R \in SUBSET P,
             p # 0, MadeOf(t, p, T, L, R), <<t.left[p], L>> \in Good, <<t.right[p], R>> \in Good
      PROVE  <<p, T>> \in Good
  <2> SUFFICES ASSUME Fresh(T) PROVE Grown(t, P, T, target, f[p])
    OBVIOUS
  <2>1. T = {p} \cup L \cup R
    BY <1>5 DEF MadeOf
  <2>2. Grown(t, P, L, target, f[t.left[p]]) /\ Grown(t, P, R, target, f[t.right[p]])
    BY <1>5, <2>1
  <2>3. Entering(t, P, p, T, L, R, target)
    BY <1>2, <1>5, <2>1 DEF Entering
  <2>4. t.key[p] # t.key[target] /\ t.key[p] \in Nat /\ t.key[target] \in Nat
    BY <1>2, <2>1 DEF TableOver
  <2> HIDE DEF Good
  <2>5. CASE t.key[target] < t.key[p]
    <3>1. f[p] = insertedLeft(f[t.left[p]], p)
      BY <1>3, <1>5, <2>5
    <3> QED
      BY <2>2, <2>3, <2>5, <3>1, InsertedLeftCorrect
  <2>6. CASE t.key[p] < t.key[target]
    <3>1. f[p] = insertedRight(f[t.right[p]], p)
      BY <1>3, <1>5, <2>4, <2>6
    <3> QED
      BY <2>2, <2>3, <2>6, <3>1, InsertedRightCorrect
  <2> QED
    BY <2>4, <2>5, <2>6
<1>6. \A T \in SUBSET P : \A p : TreapAt(t, p, T) => <<p, T>> \in Good
  <2> HIDE DEF Good
  <2> QED
    BY <1>4, <1>5, TreapInduction
<1>7. <<top, S>> \in Good
  BY <1>6
<1> QED
  BY <1>1, <1>7

-----------------------------------------------------------------------------
(* Removal. *)

(* d is t without the key of q, which is the head of the free list.          *)
Deleted(t, P, q, d) ==
  /\ d \in TableOver(P)
  /\ d.key[q] = empty /\ d.left[q] = t.left[0] /\ d.right[q] = 0 /\ d.left[0] = q
  /\ d.right[0] = t.right[0] /\ d.key[0] = t.key[0]
  /\ \A p \in P \ {0, q} : d.key[p] = t.key[p] /\ d.left[p] = t.left[p] /\ d.right[p] = t.right[p]

LEMMA DeleteEffect ==
  ASSUME NEW t, NEW P, t \in TableOver(P), 0 \in P, NEW q \in P, q # 0
  PROVE  Deleted(t, P, q, delete(t, q))
<1>1. free(t) = t.left[0] /\ free(t) \in P
  BY DEF free, Positions, TableOver
<1>2. ASSUME NEW d, d = delete(t, q)
      PROVE  d = [key |-> [t.key EXCEPT ![q] = empty],
                  left |-> [[t.left EXCEPT ![q] = t.left[0]] EXCEPT ![0] = q],
                  right |-> [t.right EXCEPT ![q] = 0]]
  BY <1>1, <1>2 DEF delete, setFree
<1>3. ASSUME NEW d, d = delete(t, q)
      PROVE  Deleted(t, P, q, d)
  <2>1. /\ d.key = [t.key EXCEPT ![q] = empty]
        /\ d.left = [[t.left EXCEPT ![q] = t.left[0]] EXCEPT ![0] = q]
        /\ d.right = [t.right EXCEPT ![q] = 0]
        /\ d = [key |-> d.key, left |-> d.left, right |-> d.right]
    BY <1>2, <1>3
  <2>2. d.key \in [P -> Nat] /\ d.left \in [P -> P] /\ d.right \in [P -> P]
    BY <1>1, <2>1 DEF TableOver, empty
  <2>3. d \in TableOver(P)
    BY <2>1, <2>2 DEF TableOver
  <2>4. /\ d.key[q] = empty /\ d.left[q] = t.left[0] /\ d.right[q] = 0 /\ d.left[0] = q
        /\ d.right[0] = t.right[0] /\ d.key[0] = t.key[0]
    BY <2>1 DEF TableOver
  <2>5. \A p \in P \ {0, q} : d.key[p] = t.key[p] /\ d.left[p] = t.left[p] /\ d.right[p] = t.right[p]
    BY <2>1 DEF TableOver
  <2> QED
    BY <2>3, <2>4, <2>5 DEF Deleted
<1> QED
  BY <1>3

(* The function that sunk recurs on.                                         *)
IsBetween(t, pos, f) ==
  f = [c \in Positions(t) \X Positions(t) |->
         IF c[1] = 0 THEN Subtree(delete(t, pos), c[2])
         ELSE IF c[2] = 0 THEN Subtree(delete(t, pos), c[1])
         ELSE IF HigherChild(c[1], c[2]) = "right" THEN linkedLeft(f[<<c[1], t.left[c[2]]>>], c[2])
         ELSE linkedRight(f[<<t.right[c[1]], c[2]>>], c[1])]

LEMMA SunkRecurs ==
  ASSUME NEW t, NEW P, NEW rank, NEW N, Ranked(t, P, rank, N), NEW pos \in P, pos # 0
  PROVE  /\ \E f : IsBetween(t, pos, f) /\ sunk(t, pos) = f[<<t.left[pos], t.right[pos]>>]
         /\ sunk(t, pos) \in Subtrees(P)
<1> DEFINE between == CHOOSE f : IsBetween(t, pos, f)
           D == P \X P
           V == Subtrees(P)
           d == delete(t, pos)
           onRight(c) == HigherChild(c[1], c[2]) = "right"
           next == [c \in D |-> IF onRight(c) THEN <<c[1], t.left[c[2]]>> ELSE <<t.right[c[1]], c[2]>>]
           Ends == {c \in D : c[1] = 0 \/ c[2] = 0}
           base == [c \in D |-> IF c[1] = 0 THEN Subtree(d, c[2]) ELSE Subtree(d, c[1])]
           step == [c \in D |-> [s \in V |-> IF onRight(c) THEN linkedLeft(s, c[2]) ELSE linkedRight(s, c[1])]]
           falling == [c \in D |-> rank[c[1]] + rank[c[2]]]
<1>1. /\ Positions(t) = P /\ N \in Nat /\ (\A p \in P : rank[p] < N) /\ t \in TableOver(P) /\ 0 \in P
      /\ rank \in [P -> Nat]
  BY DEF Ranked, TableOver, Positions
<1>2. Falls(D, next, Ends, falling)
  <2>1. next \in [D -> D] /\ falling \in [D -> Nat]
    BY <1>1 DEF TableOver
  <2>2. ASSUME NEW c \in D \ Ends PROVE falling[next[c]] < falling[c]
    <3>1. c \in D /\ c[1] \in P \ {0} /\ c[2] \in P \ {0}
      BY <2>2
    <3>2. /\ rank[t.left[c[2]]] < rank[c[2]] /\ rank[t.right[c[1]]] < rank[c[1]]
          /\ t.left[c[2]] \in P /\ t.right[c[1]] \in P
      BY <3>1 DEF Ranked, TableOver
    <3>3. /\ rank[c[1]] \in Nat /\ rank[c[2]] \in Nat
          /\ rank[t.left[c[2]]] \in Nat /\ rank[t.right[c[1]]] \in Nat
      BY <1>1, <3>1, <3>2
    <3>4. CASE onRight(c)
      <4>1. next[c] = <<c[1], t.left[c[2]]>> /\ next[c] \in D
        BY <3>1, <3>2, <3>4
      <4>2. falling[next[c]] = rank[c[1]] + rank[t.left[c[2]]]
        BY <4>1
      <4> QED
        BY <3>1, <3>2, <3>3, <4>2
    <3>5. CASE ~onRight(c)
      <4>1. next[c] = <<t.right[c[1]], c[2]>> /\ next[c] \in D
        BY <3>1, <3>2, <3>5
      <4>2. falling[next[c]] = rank[t.right[c[1]]] + rank[c[2]]
        BY <4>1
      <4> QED
        BY <3>1, <3>2, <3>3, <4>2
    <3> QED
      BY <3>4, <3>5
  <2> HIDE DEF next, falling, D, Ends
  <2> QED
    BY <2>1, <2>2 DEF Falls
<1>3. N + N \in Nat /\ \A c \in D : falling[c] < N + N
  <2>1. ASSUME NEW c \in D PROVE falling[c] < N + N
    <3>1. rank[c[1]] \in Nat /\ rank[c[2]] \in Nat /\ rank[c[1]] < N /\ rank[c[2]] < N
      BY <1>1
    <3> QED
      BY <1>1, <3>1
  <2> QED
    BY <1>1, <2>1
<1>4. base \in [D -> V]
  <2>1. d \in TableOver(P)
    BY <1>1, DeleteEffect DEF Deleted
  <2> HIDE DEF d
  <2> QED
    BY <2>1 DEF Subtree, Subtrees
<1>5. step \in [D -> [V -> V]]
  <2>1. \A s \in V, p \in P : linkedLeft(s, p) \in V /\ linkedRight(s, p) \in V
    BY LinkedType
  <2> HIDE DEF V, onRight
  <2> QED
    BY <2>1
<1>6. PICK f : Recurs(f, D, V, next, Ends, base, step)
  <2> HIDE DEF next, base, step, V, D, Ends, falling
  <2> QED
    BY <1>2, <1>3, <1>4, <1>5, Recursion
<1>7. ASSUME NEW c \in D
      PROVE  f[c] = IF c[1] = 0 THEN Subtree(d, c[2])
                    ELSE IF c[2] = 0 THEN Subtree(d, c[1])
                    ELSE IF onRight(c) THEN linkedLeft(f[<<c[1], t.left[c[2]]>>], c[2])
                    ELSE linkedRight(f[<<t.right[c[1]], c[2]>>], c[1])
  <2>1. f \in [D -> V] /\ f[c] = IF c \in Ends THEN base[c] ELSE step[c][f[next[c]]]
    BY <1>6 DEF Recurs
  <2>2. next[c] \in D /\ f[next[c]] \in V
    BY <1>2, <2>1 DEF Falls
  <2> HIDE DEF V, d
  <2>3. f[c] = IF c[1] = 0 THEN Subtree(d, c[2])
               ELSE IF c[2] = 0 THEN Subtree(d, c[1])
               ELSE IF onRight(c) THEN linkedLeft(f[next[c]], c[2])
               ELSE linkedRight(f[next[c]], c[1])
    <3> HIDE DEF next, onRight
    <3> QED
      BY <2>1, <2>2
  <2>4. next[c] = IF onRight(c) THEN <<c[1], t.left[c[2]]>> ELSE <<t.right[c[1]], c[2]>>
    OBVIOUS
  <2> HIDE DEF next, onRight
  <2> QED
    BY <2>3, <2>4
<1>8. IsBetween(t, pos, f)
  <2>1. f = [c \in D |-> f[c]]
    <3> HIDE DEF next, base, step, V, D, Ends, falling
    <3> QED
      BY <1>6 DEF Recurs
  <2> HIDE DEF next, base, step, V, Ends, falling
  <2> QED
    BY <1>1, <1>7, <2>1 DEF IsBetween
<1>9. IsBetween(t, pos, between)
  <2> HIDE DEF next, step, base, V, D, Ends, falling, d
  <2> QED BY <1>8, Zenon
<1>10. sunk(t, pos) = between[<<t.left[pos], t.right[pos]>>]
  BY DEF sunk, IsBetween
<1>11. ASSUME NEW c \in D
       PROVE  between[c] = IF c \in Ends THEN base[c]
                           ELSE IF onRight(c) THEN linkedLeft(between[next[c]], c[2])
                           ELSE linkedRight(between[next[c]], c[1])
  <2>1. between[c] = IF c[1] = 0 THEN Subtree(d, c[2])
                     ELSE IF c[2] = 0 THEN Subtree(d, c[1])
                     ELSE IF onRight(c) THEN linkedLeft(between[<<c[1], t.left[c[2]]>>], c[2])
                     ELSE linkedRight(between[<<t.right[c[1]], c[2]>>], c[1])
    <3> HIDE DEF between, d
    <3> QED
      BY <1>1, <1>9 DEF IsBetween, d
  <2>2. next[c] = IF onRight(c) THEN <<c[1], t.left[c[2]]>> ELSE <<t.right[c[1]], c[2]>>
    OBVIOUS
  <2> HIDE DEF next, onRight, d, between
  <2> QED
    BY <2>1, <2>2
<1> DEFINE Typed == {c \in D : between[c] \in V}
<1>12. ASSUME NEW c \in D, c \in Ends \/ next[c] \in Typed PROVE c \in Typed
  <2>1. CASE c \in Ends
    <3>1. base[c] \in V
      <4> HIDE DEF base, V, D
      <4> QED
        BY <1>4
    <3> HIDE DEF between, base, V, next, onRight, Ends
    <3> QED
      BY <1>11, <2>1, <3>1
  <2>2. CASE c \notin Ends /\ next[c] \in Typed
    <3>1. between[next[c]] \in V /\ c[1] \in P /\ c[2] \in P
      BY <2>2
    <3>2. linkedLeft(between[next[c]], c[2]) \in V /\ linkedRight(between[next[c]], c[1]) \in V
      <4> HIDE DEF between, next
      <4> QED
        BY <3>1, LinkedType
    <3> HIDE DEF between, base, V, next, onRight, Ends
    <3> QED
      BY <1>11, <2>2, <3>2
  <2> QED
    BY <1>12, <2>1, <2>2
<1>13. D \subseteq Typed
  <2> HIDE DEF Typed, D, next, Ends, falling
  <2> QED
    BY <1>2, <1>12, AlongLinks
<1>14. <<t.left[pos], t.right[pos]>> \in D
  BY <1>1 DEF TableOver
<1> QED
  <2>1. sunk(t, pos) \in V
    <3> HIDE DEF between, V, D
    <3> QED
      BY <1>10, <1>13, <1>14
  <2> HIDE DEF between
  <2> QED
    BY <1>9, <1>10, <2>1

(* s is d with the treap S, in which only links have changed.                *)
Merged(d, P, S, s) ==
  s \in Subtrees(P) /\ LinksOf(d, s.tree, P, S) /\ TreapAt(s.tree, s.top, S)

LEMMA LinkedLeftCorrect ==
  ASSUME NEW d, NEW P, NEW p, NEW s, NEW X, NEW R, HangsLeft(d, P, p, s, X, X, R),
         \A q \in X \cup R : ~Outranks(q, p)
  PROVE  Merged(d, P, {p} \cup X \cup R, linkedLeft(s, p))
<1> DEFINE u == linkedLeft(s, p)
<1>1. /\ u \in Subtrees(P) /\ u.top = p /\ u.tree.left[p] = s.top
      /\ LinksOf(d, u.tree, P, {p} \cup X) /\ Ordered(u.tree, p, P, X, R)
  BY LinkLeft
<1> HIDE DEF u
<1>2. Fit(u.tree, p, X, R)
  <2>1. u.tree.key[p] \in Nat
    BY <1>1 DEF Ordered, TableOver
  <2> QED
    BY <1>1, <2>1 DEF Fit, Ordered
<1>3. TreapAt(u.tree, p, {p} \cup X \cup R)
  BY <1>2, Join
<1>4. LinksOf(d, u.tree, P, {p} \cup X \cup R)
  BY <1>1 DEF LinksOf
<1> QED
  BY <1>1, <1>3, <1>4 DEF Merged, u

LEMMA LinkedRightCorrect ==
  ASSUME NEW d, NEW P, NEW p, NEW s, NEW X, NEW L, HangsRight(d, P, p, s, X, X, L),
         \A q \in X \cup L : ~Outranks(q, p)
  PROVE  Merged(d, P, {p} \cup X \cup L, linkedRight(s, p))
<1> DEFINE u == linkedRight(s, p)
<1>1. /\ u \in Subtrees(P) /\ u.top = p /\ u.tree.right[p] = s.top
      /\ LinksOf(d, u.tree, P, {p} \cup X) /\ Ordered(u.tree, p, P, L, X)
  BY LinkRight
<1> HIDE DEF u
<1>2. Fit(u.tree, p, L, X)
  <2>1. u.tree.key[p] \in Nat
    BY <1>1 DEF Ordered, TableOver
  <2> QED
    BY <1>1, <2>1 DEF Fit, Ordered
<1>3. TreapAt(u.tree, p, {p} \cup L \cup X)
  BY <1>2, Join
<1>4. {p} \cup L \cup X = {p} \cup X \cup L
  OBVIOUS
<1>5. LinksOf(d, u.tree, P, {p} \cup X \cup L)
  BY <1>1 DEF LinksOf
<1> QED
  BY <1>1, <1>3, <1>4, <1>5 DEF Merged, u

(* Two treaps, the keys of one below those of the other.                     *)
Apart(d, P, l, r, L, R) ==
  /\ L \subseteq P /\ R \subseteq P /\ L \cap R = {}
  /\ TreapAt(d, l, L) /\ TreapAt(d, r, R)
  /\ \A q \in L : \A x \in R : d.key[q] < d.key[x]

(* The branches of a removed position become one treap.                      *)
LEMMA SunkCorrect ==
  ASSUME NEW t, NEW P, IsFiniteSet(P), NEW rank, NEW N, Ranked(t, P, rank, N),
         NEW pos \in P, pos # 0, NEW L, NEW R,
         Apart(delete(t, pos), P, t.left[pos], t.right[pos], L, R), pos \notin L, pos \notin R
  PROVE  Merged(delete(t, pos), P, L \cup R, sunk(t, pos))
<1> DEFINE d == delete(t, pos)
<1>1. PICK f : IsBetween(t, pos, f) /\ sunk(t, pos) = f[<<t.left[pos], t.right[pos]>>]
  BY SunkRecurs
<1>2. /\ Positions(t) = P /\ t \in TableOver(P) /\ 0 \in P /\ P \subseteq Nat
  BY DEF Ranked, TableOver, Positions
<1>3. Deleted(t, P, pos, d)
  BY <1>2, DeleteEffect
<1> HIDE DEF d
<1>4. /\ d \in TableOver(P)
      /\ \A q \in P \ {0, pos} : d.key[q] = t.key[q] /\ d.left[q] = t.left[q] /\ d.right[q] = t.right[q]
  BY <1>3 DEF Deleted
<1>5. ASSUME NEW l \in P, NEW r \in P
      PROVE  /\ l = 0 => f[<<l, r>>] = Subtree(d, r)
             /\ l # 0 /\ r = 0 => f[<<l, r>>] = Subtree(d, l)
             /\ l # 0 /\ r # 0 /\ Outranks(r, l) => f[<<l, r>>] = linkedLeft(f[<<l, t.left[r]>>], r)
             /\ l # 0 /\ r # 0 /\ ~Outranks(r, l) => f[<<l, r>>] = linkedRight(f[<<t.right[l], r>>], l)
  <2> DEFINE c == <<l, r>>
  <2>1. c \in Positions(t) \X Positions(t) /\ c[1] = l /\ c[2] = r
    BY <1>2
  <2> HIDE DEF c
  <2>2. f[c] = IF c[1] = 0 THEN Subtree(delete(t, pos), c[2])
               ELSE IF c[2] = 0 THEN Subtree(delete(t, pos), c[1])
               ELSE IF HigherChild(c[1], c[2]) = "right" THEN linkedLeft(f[<<c[1], t.left[c[2]]>>], c[2])
               ELSE linkedRight(f[<<t.right[c[1]], c[2]>>], c[1])
    BY <1>1, <2>1 DEF IsBetween
  <2>3. f[c] = IF l = 0 THEN Subtree(d, r)
               ELSE IF r = 0 THEN Subtree(d, l)
               ELSE IF HigherChild(l, r) = "right" THEN linkedLeft(f[<<l, t.left[r]>>], r)
               ELSE linkedRight(f[<<t.right[l], r>>], l)
    BY <2>1, <2>2 DEF d
  <2>4. HigherChild(l, r) = "right" <=> Outranks(r, l)
    BY DEF HigherChild
  <2> QED
    BY <2>3, <2>4 DEF c
<1> DEFINE Good == {S \in SUBSET P : \A l \in P, r \in P : \A A \in SUBSET S, B \in SUBSET S :
                      /\ S = A \cup B /\ pos \notin S /\ Apart(d, P, l, r, A, B)
                      => Merged(d, P, S, f[<<l, r>>])}
<1>6. ASSUME NEW S \in SUBSET P, \A T \in SUBSET S : T # S => T \in Good
      PROVE  S \in Good
  <2> SUFFICES ASSUME NEW l \in P, NEW r \in P, NEW A \in SUBSET S, NEW B \in SUBSET S,
                      S = A \cup B, pos \notin S, Apart(d, P, l, r, A, B)
               PROVE  Merged(d, P, S, f[<<l, r>>])
    OBVIOUS
  <2>1. /\ A \cap B = {} /\ TreapAt(d, l, A) /\ TreapAt(d, r, B)
        /\ \A q \in A : \A x \in B : d.key[q] < d.key[x]
    BY DEF Apart
  <2>2. \A T \in SUBSET S : T # S =>
          \A i \in P, j \in P : \A X \in SUBSET T, Y \in SUBSET T :
            T = X \cup Y /\ pos \notin T /\ Apart(d, P, i, j, X, Y) => Merged(d, P, T, f[<<i, j>>])
    BY <1>6
  <2> HIDE DEF Good
  <2>3. CASE l = 0
    <3>1. A = {} /\ S = B
      BY <2>1, <2>3, NoTop
    <3>2. f[<<l, r>>] = Subtree(d, r)
      BY <1>5, <2>3
    <3> QED
      BY <1>4, <2>1, <3>1, <3>2 DEF Merged, Subtree, Subtrees, LinksOf
  <2>4. CASE l # 0 /\ r = 0
    <3>1. B = {} /\ S = A
      BY <2>1, <2>4, NoTop
    <3>2. f[<<l, r>>] = Subtree(d, l)
      BY <1>5, <2>4
    <3> QED
      BY <1>4, <2>1, <3>1, <3>2 DEF Merged, Subtree, Subtrees, LinksOf
  <2>5. CASE l # 0 /\ r # 0 /\ Outranks(r, l)
    <3>1. PICK C, E : MadeOf(d, r, B, C, E)
      BY <2>1, <2>5, Parts
    <3>2. /\ B = {r} \cup C \cup E /\ C \cap E = {} /\ r \notin C /\ r \notin E
          /\ TreapAt(d, d.left[r], C) /\ TreapAt(d, d.right[r], E)
          /\ \A q \in B : ~Outranks(q, r)
          /\ \A q \in C : d.key[q] < d.key[r]
          /\ \A q \in E : d.key[r] < d.key[q]
      BY <3>1 DEF MadeOf
    <3>3. \E X, Y : MadeOf(d, l, A, X, Y)
      BY <2>1, <2>5, Parts
    <3>4. l \in A /\ \A q \in A : ~Outranks(q, l)
      BY <3>3 DEF MadeOf
    <3>5. d.left[r] = t.left[r] /\ d.left[r] \in P
      BY <1>4, <2>5, <3>2 DEF TableOver
    <3> DEFINE T == A \cup C
               s == f[<<l, t.left[r]>>]
    <3>6. T \in SUBSET S /\ T # S /\ r \notin T /\ T \cap E = {} /\ pos \notin T
      BY <2>1, <3>2
    <3>7. Apart(d, P, l, t.left[r], A, C)
      BY <2>1, <3>2, <3>5 DEF Apart
    <3>8. Merged(d, P, T, s)
      BY <2>2, <3>5, <3>6, <3>7
    <3>9. HangsLeft(d, P, r, s, T, T, E)
      <4>1. \A q \in T : d.key[q] < d.key[r]
        BY <2>1, <3>2
      <4> HIDE DEF T, s
      <4> QED
        BY <1>2, <1>4, <2>5, <3>2, <3>6, <3>8, <4>1 DEF HangsLeft, Merged
    <3>10. \A q \in T \cup E : ~Outranks(q, r)
      <4>1. ~Outranks(l, r)
        BY <1>2, <2>5, RankOrder
      <4>2. \A q \in A : ~Outranks(q, r)
        <5>1. \A q \in A : q \in Nat /\ l \in Nat /\ r \in Nat
          BY <1>2
        <5> QED
          BY <3>4, <4>1, <5>1, RankOrder
      <4> QED
        BY <3>2, <4>2
    <3>11. Merged(d, P, {r} \cup T \cup E, linkedLeft(s, r))
      <4> HIDE DEF T, s
      <4> QED
        BY <3>9, <3>10, LinkedLeftCorrect
    <3>12. {r} \cup T \cup E = S
      BY <3>2
    <3>13. f[<<l, r>>] = linkedLeft(s, r)
      BY <1>5, <2>5
    <3> HIDE DEF T, s
    <3> QED
      BY <3>11, <3>12, <3>13
  <2>6. CASE l # 0 /\ r # 0 /\ ~Outranks(r, l)
    <3>1. PICK C, E : MadeOf(d, l, A, C, E)
      BY <2>1, <2>6, Parts
    <3>2. /\ A = {l} \cup C \cup E /\ C \cap E = {} /\ l \notin C /\ l \notin E
          /\ TreapAt(d, d.left[l], C) /\ TreapAt(d, d.right[l], E)
          /\ \A q \in A : ~Outranks(q, l)
          /\ \A q \in C : d.key[q] < d.key[l]
          /\ \A q \in E : d.key[l] < d.key[q]
      BY <3>1 DEF MadeOf
    <3>3. \E X, Y : MadeOf(d, r, B, X, Y)
      BY <2>1, <2>6, Parts
    <3>4. r \in B /\ \A q \in B : ~Outranks(q, r)
      BY <3>3 DEF MadeOf
    <3>5. d.right[l] = t.right[l] /\ d.right[l] \in P
      BY <1>4, <2>6, <3>2 DEF TableOver
    <3> DEFINE T == E \cup B
               s == f[<<t.right[l], r>>]
    <3>6. T \in SUBSET S /\ T # S /\ l \notin T /\ T \cap C = {} /\ pos \notin T
      BY <2>1, <3>2
    <3>7. Apart(d, P, t.right[l], r, E, B)
      BY <2>1, <3>2, <3>5 DEF Apart
    <3>8. Merged(d, P, T, s)
      BY <2>2, <3>5, <3>6, <3>7
    <3>9. HangsRight(d, P, l, s, T, T, C)
      <4>1. \A q \in T : d.key[l] < d.key[q]
        BY <2>1, <3>2
      <4> HIDE DEF T, s
      <4> QED
        BY <1>2, <1>4, <2>6, <3>2, <3>6, <3>8, <4>1 DEF HangsRight, Merged
    <3>10. \A q \in T \cup C : ~Outranks(q, l)
      <4>1. \A q \in B : ~Outranks(q, l)
        <5>1. \A q \in B : q \in Nat /\ l \in Nat /\ r \in Nat
          BY <1>2
        <5> QED
          BY <2>6, <3>4, <5>1, RankOrder
      <4> QED
        BY <3>2, <4>1
    <3>11. Merged(d, P, {l} \cup T \cup C, linkedRight(s, l))
      <4> HIDE DEF T, s
      <4> QED
        BY <3>9, <3>10, LinkedRightCorrect
    <3>12. {l} \cup T \cup C = S
      BY <3>2
    <3>13. f[<<l, r>>] = linkedRight(s, l)
      BY <1>5, <2>6
    <3> HIDE DEF T, s
    <3> QED
      BY <3>11, <3>12, <3>13
  <2> QED
    BY <2>3, <2>4, <2>5, <2>6
<1>7. SUBSET P \subseteq Good
  <2> HIDE DEF Good
  <2>1. \A G : (\A S \in SUBSET P : (\A T \in SUBSET S : T # S => T \in G) => S \in G) => SUBSET P \subseteq G
    BY SubsetInduction
  <2> QED
    BY <1>6, <2>1, Zenon
<1>8. /\ L \cup R \in SUBSET P /\ t.left[pos] \in P /\ t.right[pos] \in P
      /\ Apart(d, P, t.left[pos], t.right[pos], L, R)
  BY <1>2 DEF Apart, TableOver, d
<1>9. Merged(d, P, L \cup R, f[<<t.left[pos], t.right[pos]>>])
  <2>1. L \cup R \in Good
    BY <1>7, <1>8
  <2> QED
    BY <1>8, <2>1
<1> QED
  BY <1>1, <1>9 DEF d

(* The function that removeKey recurs on.                                    *)
IsFrom(t, k, f) ==
  f = [p \in Positions(t) |-> IF p = 0 THEN Subtree(t, 0)
                              ELSE IF k < t.key[p] THEN linkedLeft(f[t.left[p]], p)
                              ELSE IF k > t.key[p] THEN linkedRight(f[t.right[p]], p)
                              ELSE sunk(t, p)]

LEMMA RemoveRecurs ==
  ASSUME NEW t, NEW P, NEW rank, NEW N, Ranked(t, P, rank, N), NEW k
  PROVE  \E f : IsFrom(t, k, f) /\ \A p : removeKey(t, k, p) = f[p]
<1> DEFINE from == CHOOSE f : IsFrom(t, k, f)
           goesLeft(p) == k < t.key[p]
           goesRight(p) == k > t.key[p]
           next == [p \in P |-> IF goesLeft(p) THEN t.left[p] ELSE t.right[p]]
           V == Subtrees(P)
           Ends == {p \in P : p = 0 \/ (~goesLeft(p) /\ ~goesRight(p))}
           base == [p \in P |-> IF p = 0 THEN Subtree(t, 0) ELSE sunk(t, p)]
           step == [p \in P |-> [s \in V |-> IF goesLeft(p) THEN linkedLeft(s, p) ELSE linkedRight(s, p)]]
<1>1. Positions(t) = P /\ N \in Nat /\ (\A p \in P : rank[p] < N) /\ t \in TableOver(P) /\ 0 \in P
  BY DEF Ranked, TableOver, Positions
<1>2. Falls(P, next, Ends, rank)
  <2>1. next \in [P -> P] /\ rank \in [P -> Nat]
    BY DEF Ranked, TableOver
  <2>2. \A p \in P \ Ends : rank[next[p]] < rank[p]
    BY DEF Ranked
  <2> HIDE DEF next, Ends
  <2> QED
    BY <2>1, <2>2 DEF Falls
<1>3. base \in [P -> V]
  <2>1. Subtree(t, 0) \in V
    BY <1>1 DEF Subtree, Subtrees
  <2>2. \A p \in P \ {0} : sunk(t, p) \in V
    BY SunkRecurs
  <2> HIDE DEF V
  <2> QED
    BY <2>1, <2>2
<1>4. step \in [P -> [V -> V]]
  <2>1. \A s \in V, p \in P : linkedLeft(s, p) \in V /\ linkedRight(s, p) \in V
    BY LinkedType
  <2> HIDE DEF V, goesLeft
  <2> QED
    BY <2>1
<1>5. PICK f : Recurs(f, P, V, next, Ends, base, step)
  <2> HIDE DEF next, base, step, V, Ends
  <2> QED
    BY <1>1, <1>2, <1>3, <1>4, Recursion
<1>6. ASSUME NEW p \in P
      PROVE  f[p] = IF p = 0 THEN Subtree(t, 0)
                    ELSE IF k < t.key[p] THEN linkedLeft(f[t.left[p]], p)
                    ELSE IF k > t.key[p] THEN linkedRight(f[t.right[p]], p)
                    ELSE sunk(t, p)
  <2>1. f \in [P -> V] /\ f[p] = IF p \in Ends THEN base[p] ELSE step[p][f[next[p]]]
    BY <1>5 DEF Recurs
  <2>2. next[p] \in P /\ f[next[p]] \in V
    BY <1>2, <2>1 DEF Falls
  <2> HIDE DEF V
  <2>3. f[p] = IF p = 0 THEN Subtree(t, 0)
               ELSE IF goesLeft(p) THEN linkedLeft(f[next[p]], p)
               ELSE IF goesRight(p) THEN linkedRight(f[next[p]], p)
               ELSE sunk(t, p)
    <3> HIDE DEF next, goesLeft, goesRight
    <3> QED
      BY <2>1, <2>2
  <2>4. next[p] = IF goesLeft(p) THEN t.left[p] ELSE t.right[p]
    OBVIOUS
  <2> HIDE DEF next
  <2> QED
    BY <2>3, <2>4
<1>7. IsFrom(t, k, f)
  <2>1. f = [p \in P |-> f[p]]
    <3> HIDE DEF next, base, step, V, Ends
    <3> QED
      BY <1>5 DEF Recurs
  <2> HIDE DEF next, base, step, V, Ends
  <2> QED
    BY <1>1, <1>6, <2>1 DEF IsFrom
<1>8. IsFrom(t, k, from)
  <2> HIDE DEF next, step, base, V, Ends, goesLeft, goesRight
  <2> QED BY <1>7, Zenon
<1>9. \A p : removeKey(t, k, p) = from[p]
  BY DEF removeKey, IsFrom
<1> QED
  BY <1>8, <1>9

Lacks(t, K, k) == \A q \in K : t.key[q] # k

(* What removeKey makes of a tree without the key: the same tree.            *)
LEMMA RemoveAbsent ==
  ASSUME NEW t, NEW P, IsFiniteSet(P), NEW rank, NEW N, Ranked(t, P, rank, N), NEW k \in Nat,
         NEW top, NEW S \in SUBSET P, TreapAt(t, top, S), Lacks(t, S, k)
  PROVE  removeKey(t, k, top) = Subtree(t, top)
<1>1. PICK f : IsFrom(t, k, f) /\ \A p : removeKey(t, k, p) = f[p]
  BY RemoveRecurs
<1>2. Positions(t) = P /\ 0 \in P /\ t \in TableOver(P)
  BY DEF Ranked, TableOver, Positions
<1>3. /\ f[0] = Subtree(t, 0)
      /\ \A p \in P \ {0} : f[p] = IF k < t.key[p] THEN linkedLeft(f[t.left[p]], p)
                                   ELSE IF k > t.key[p] THEN linkedRight(f[t.right[p]], p)
                                   ELSE sunk(t, p)
  BY <1>1, <1>2 DEF IsFrom
<1>4. ASSUME NEW p \in P
      PROVE  /\ linkedLeft(Subtree(t, t.left[p]), p) = Subtree(t, p)
             /\ linkedRight(Subtree(t, t.right[p]), p) = Subtree(t, p)
  <2>1. ASSUME NEW u, u = [t EXCEPT !.left[p] = t.left[p]] PROVE u = t
    BY <1>2, <2>1 DEF TableOver
  <2>2. ASSUME NEW u, u = [t EXCEPT !.right[p] = t.right[p]] PROVE u = t
    BY <1>2, <2>2 DEF TableOver
  <2> QED
    BY <2>1, <2>2 DEF linkedLeft, linkedRight, Subtree
<1> DEFINE Good == {x \in P \X SUBSET P : (\A q \in x[2] : t.key[q] # k) => f[x[1]] = Subtree(t, x[1])}
<1>5. <<0, {}>> \in Good
  BY <1>2, <1>3
<1>6. ASSUME NEW p \in P, NEW T \in SUBSET P, NEW L \in SUBSET P, NEW R \in SUBSET P,
             p # 0, MadeOf(t, p, T, L, R), <<t.left[p], L>> \in Good, <<t.right[p], R>> \in Good
      PROVE  <<p, T>> \in Good
  <2> SUFFICES ASSUME \A q \in T : t.key[q] # k PROVE f[p] = Subtree(t, p)
    OBVIOUS
  <2>1. T = {p} \cup L \cup R /\ t.key[p] \in Nat
    BY <1>6 DEF MadeOf
  <2>2. f[t.left[p]] = Subtree(t, t.left[p]) /\ f[t.right[p]] = Subtree(t, t.right[p])
    BY <1>6, <2>1
  <2>3. k < t.key[p] \/ k > t.key[p]
    BY <2>1
  <2> HIDE DEF Good
  <2> QED
    BY <1>3, <1>4, <1>6, <2>2, <2>3
<1>7. \A T \in SUBSET P : \A p : TreapAt(t, p, T) => <<p, T>> \in Good
  <2> HIDE DEF Good
  <2> QED
    BY <1>5, <1>6, TreapInduction
<1>8. <<top, S>> \in Good
  BY <1>7
<1>9. (\A q \in S : t.key[q] # k) => f[top] = Subtree(t, top)
  BY <1>8
<1> QED
  BY <1>1, <1>9 DEF Lacks

(* A tree with the key at position q becomes one without it.                 *)
LEMMA RemoveCorrect ==
  ASSUME NEW t, NEW P, IsFiniteSet(P), NEW rank, NEW N, Ranked(t, P, rank, N), NEW k \in Nat,
         NEW top, NEW S \in SUBSET P, TreapAt(t, top, S), NEW q \in S, t.key[q] = k
  PROVE  Merged(delete(t, q), P, S \ {q}, removeKey(t, k, top))
<1>1. PICK f : IsFrom(t, k, f) /\ \A p : removeKey(t, k, p) = f[p]
  BY RemoveRecurs
<1>2. Positions(t) = P /\ 0 \in P /\ t \in TableOver(P) /\ P \subseteq Nat
  BY DEF Ranked, TableOver, Positions
<1>3. /\ f[0] = Subtree(t, 0)
      /\ \A p \in P \ {0} : f[p] = IF k < t.key[p] THEN linkedLeft(f[t.left[p]], p)
                                   ELSE IF k > t.key[p] THEN linkedRight(f[t.right[p]], p)
                                   ELSE sunk(t, p)
  BY <1>1, <1>2 DEF IsFrom
<1>4. q # 0 /\ q \in P
  BY DEF TreapAt
<1> DEFINE d == delete(t, q)
<1>5. Deleted(t, P, q, d)
  BY <1>2, <1>4, DeleteEffect
<1> HIDE DEF d
<1>6. /\ d \in TableOver(P)
      /\ \A p \in P \ {0, q} : d.key[p] = t.key[p] /\ d.left[p] = t.left[p] /\ d.right[p] = t.right[p]
  BY <1>5 DEF Deleted
<1> DEFINE Good == {x \in P \X SUBSET P : q \in x[2] => Merged(d, P, x[2] \ {q}, f[x[1]])}
<1>7. <<0, {}>> \in Good
  BY <1>2
<1>8. ASSUME NEW p \in P, NEW T \in SUBSET P, NEW L \in SUBSET P, NEW R \in SUBSET P,
             TreapAt(t, p, T), p # 0, MadeOf(t, p, T, L, R),
             <<t.left[p], L>> \in Good, <<t.right[p], R>> \in Good
      PROVE  <<p, T>> \in Good
  <2> SUFFICES ASSUME q \in T PROVE Merged(d, P, T \ {q}, f[p])
    OBVIOUS
  <2>1. /\ T = {p} \cup L \cup R /\ L \cap R = {} /\ p \notin L /\ p \notin R
        /\ TreapAt(t, t.left[p], L) /\ TreapAt(t, t.right[p], R)
        /\ \A x \in T : t.key[x] \in Nat /\ ~Outranks(x, p)
        /\ \A x \in L : t.key[x] < t.key[p]
        /\ \A x \in R : t.key[p] < t.key[x]
    BY <1>8 DEF MadeOf
  <2>2. /\ q \in L => Merged(d, P, L \ {q}, f[t.left[p]])
        /\ q \in R => Merged(d, P, R \ {q}, f[t.right[p]])
    BY <1>8
  <2>3. 0 \notin T
    BY <1>8 DEF TreapAt
  <2> HIDE DEF Good
  <2>4. q \notin L => TreapAt(d, t.left[p], L)
    <3> SUFFICES ASSUME q \notin L PROVE TreapAt(d, t.left[p], L)
      OBVIOUS
    <3>1. \A x \in L : d.key[x] = t.key[x] /\ d.left[x] = t.left[x] /\ d.right[x] = t.right[x]
      BY <1>6, <2>1, <2>3
    <3> QED
      BY <2>1, <3>1, Untouched
  <2>5. q \notin R => TreapAt(d, t.right[p], R)
    <3> SUFFICES ASSUME q \notin R PROVE TreapAt(d, t.right[p], R)
      OBVIOUS
    <3>1. \A x \in R : d.key[x] = t.key[x] /\ d.left[x] = t.left[x] /\ d.right[x] = t.right[x]
      BY <1>6, <2>1, <2>3
    <3> QED
      BY <2>1, <3>1, Untouched
  <2>6. CASE q = p
    <3>1. f[p] = sunk(t, q)
      <4>1. ~(k < t.key[p]) /\ ~(k > t.key[p])
        BY <2>6
      <4> QED
        BY <1>3, <1>8, <2>6, <4>1
    <3>2. Apart(d, P, t.left[q], t.right[q], L, R)
      <4>1. \A x \in L : \A y \in R : t.key[x] < t.key[y]
        <5> SUFFICES ASSUME NEW x \in L, NEW y \in R PROVE t.key[x] < t.key[y]
          OBVIOUS
        <5>1. t.key[x] < t.key[p] /\ t.key[p] < t.key[y]
          BY <2>1
        <5>2. t.key[x] \in Nat /\ t.key[p] \in Nat /\ t.key[y] \in Nat
          BY <2>1
        <5> QED
          BY <5>1, <5>2
      <4>2. \A x \in L : \A y \in R : d.key[x] < d.key[y]
        BY <1>6, <2>1, <2>3, <2>6, <4>1
      <4> QED
        BY <2>1, <2>4, <2>5, <2>6, <4>2 DEF Apart
    <3>3. Merged(d, P, L \cup R, sunk(t, q))
      BY <1>4, <2>1, <2>6, <3>2, SunkCorrect DEF d
    <3>4. L \cup R = T \ {q}
      BY <2>1, <2>6
    <3> QED
      BY <3>1, <3>3, <3>4
  <2>7. CASE q \in L
    <3> DEFINE X == L \ {q}
               s == f[t.left[p]]
    <3>1. f[p] = linkedLeft(s, p)
      <4>1. k < t.key[p]
        BY <2>1, <2>7
      <4> QED
        BY <1>3, <1>8, <4>1
    <3>2. p # q /\ q \notin R /\ X \subseteq P /\ p \notin X /\ X \cap R = {} /\ X \subseteq T /\ X \subseteq L
      BY <2>1, <2>7
    <3>3. Merged(d, P, X, s)
      BY <2>2, <2>7
    <3>4. d.right[p] = t.right[p] /\ d.key[p] = t.key[p]
      BY <1>6, <1>8, <3>2
    <3> HIDE DEF X, s
    <3>5. (\A x \in X : d.key[x] < d.key[p]) /\ (\A x \in R : d.key[p] < d.key[x])
      <4>1. \A x \in X \cup R : d.key[x] = t.key[x]
        <5>1. \A x \in X \cup R : x \in P \ {0, q}
          BY <2>1, <2>3, <3>2 DEF X
        <5> QED
          BY <1>6, <5>1
      <4> QED
        BY <2>1, <3>2, <3>4, <4>1
    <3>6. HangsLeft(d, P, p, s, X, X, R)
      <4>1. TreapAt(d, d.right[p], R) /\ p \notin R /\ R \subseteq P /\ p \in P \ {0}
        BY <1>8, <2>1, <2>5, <3>2, <3>4
      <4> QED
        BY <1>2, <1>6, <3>2, <3>3, <3>5, <4>1 DEF HangsLeft, Merged
    <3>7. \A x \in X \cup R : ~Outranks(x, p)
      BY <2>1, <3>2
    <3>8. Merged(d, P, {p} \cup X \cup R, linkedLeft(s, p))
      BY <3>6, <3>7, LinkedLeftCorrect
    <3>9. {p} \cup X \cup R = T \ {q}
      BY <2>1, <2>7, <3>2 DEF X
    <3> QED
      BY <3>1, <3>8, <3>9
  <2>8. CASE q \in R
    <3> DEFINE X == R \ {q}
               s == f[t.right[p]]
    <3>1. f[p] = linkedRight(s, p)
      <4>1. k > t.key[p] /\ ~(k < t.key[p])
        BY <2>1, <2>8
      <4> QED
        BY <1>3, <1>8, <4>1
    <3>2. p # q /\ q \notin L /\ X \subseteq P /\ p \notin X /\ X \cap L = {} /\ X \subseteq T /\ X \subseteq R
      BY <2>1, <2>8
    <3>3. Merged(d, P, X, s)
      BY <2>2, <2>8
    <3>4. d.left[p] = t.left[p] /\ d.key[p] = t.key[p]
      BY <1>6, <1>8, <3>2
    <3> HIDE DEF X, s
    <3>5. (\A x \in X : d.key[p] < d.key[x]) /\ (\A x \in L : d.key[x] < d.key[p])
      <4>1. \A x \in X \cup L : d.key[x] = t.key[x]
        <5>1. \A x \in X \cup L : x \in P \ {0, q}
          BY <2>1, <2>3, <3>2 DEF X
        <5> QED
          BY <1>6, <5>1
      <4> QED
        BY <2>1, <3>2, <3>4, <4>1
    <3>6. HangsRight(d, P, p, s, X, X, L)
      <4>1. TreapAt(d, d.left[p], L) /\ p \notin L /\ L \subseteq P /\ p \in P \ {0}
        BY <1>8, <2>1, <2>4, <3>2, <3>4
      <4> QED
        BY <1>2, <1>6, <3>2, <3>3, <3>5, <4>1 DEF HangsRight, Merged
    <3>7. \A x \in X \cup L : ~Outranks(x, p)
      BY <2>1, <3>2
    <3>8. Merged(d, P, {p} \cup X \cup L, linkedRight(s, p))
      BY <3>6, <3>7, LinkedRightCorrect
    <3>9. {p} \cup X \cup L = T \ {q}
      BY <2>1, <2>8, <3>2 DEF X
    <3> QED
      BY <3>1, <3>8, <3>9
  <2> QED
    BY <2>1, <2>6, <2>7, <2>8
<1>9. \A T \in SUBSET P : \A p : TreapAt(t, p, T) => <<p, T>> \in Good
  <2> HIDE DEF Good
  <2> QED
    BY <1>7, <1>8, TreapInduction
<1>10. Merged(d, P, S \ {q}, f[top])
  <2>1. <<top, S>> \in Good
    BY <1>9
  <2> QED
    BY <2>1
<1> QED
  BY <1>1, <1>10 DEF d

-----------------------------------------------------------------------------
(* The layout of a table: tree, free list, and positions in neither. *)

Members(fl) == {fl[i] : i \in 1 .. Len(fl)}

(* The positions of fl, each once, are linked from head on.                  *)
Threaded(t, P, head, fl) ==
  /\ fl \in Seq(P \ {0})
  /\ head = IF Len(fl) = 0 THEN 0 ELSE fl[1]
  /\ \A i \in 1 .. Len(fl) : t.left[fl[i]] = IF i = Len(fl) THEN 0 ELSE fl[i + 1]
  /\ \A i, j \in 1 .. Len(fl) : fl[i] = fl[j] => i = j

(* The positions of K are the tree of t, those of fl its free list.          *)
Laid(t, P, K, fl) ==
  /\ IsFiniteSet(P) /\ P \subseteq Nat /\ 0 \in P /\ t \in TableOver(P)
  /\ K \subseteq P \ {0} /\ TreapAt(t, t.right[0], K)
  /\ Threaded(t, P, t.left[0], fl) /\ Members(fl) \cap K = {}
  /\ \A p \in P \ (K \cup {0}) : t.right[p] = 0
  /\ \A p \in P \ (K \cup Members(fl) \cup {0}) : t.left[p] = 0

LEMMA MembersType ==
  ASSUME NEW P, NEW fl \in Seq(P)
  PROVE  /\ Members(fl) \subseteq P /\ Len(fl) \in Nat
         /\ \A i \in 1 .. Len(fl) : fl[i] \in P /\ fl[i] \in Members(fl)
  BY DEF Members

LEMMA LaidIsRanked ==
  ASSUME NEW t, NEW P, NEW K, NEW fl, Laid(t, P, K, fl)
  PROVE  \E rank, N : Ranked(t, P, rank, N)
<1> DEFINE F == Members(fl)
           n == Len(fl)
<1>1. /\ IsFiniteSet(P) /\ P \subseteq Nat /\ 0 \in P /\ t \in TableOver(P)
      /\ K \subseteq P /\ 0 \notin K /\ F \cap K = {}
      /\ \A p \in P \ (K \cup {0}) : t.right[p] = 0
      /\ \A p \in P \ (K \cup F \cup {0}) : t.left[p] = 0
  BY DEF Laid
<1>2. /\ fl \in Seq(P \ {0}) /\ n \in Nat /\ F \subseteq P \ {0}
      /\ \A i \in 1 .. n : t.left[fl[i]] = IF i = n THEN 0 ELSE fl[i + 1]
      /\ \A i, j \in 1 .. n : fl[i] = fl[j] => i = j
      /\ \A i \in 1 .. n : fl[i] \in P \ {0} /\ fl[i] \in F
  BY MembersType DEF Laid, Threaded
<1>3. PICK below : IsTreap(t, K, below)
  BY DEF Laid, TreapAt
<1>4. /\ below \in [K \cup {0} -> SUBSET K] /\ below[0] = {}
      /\ \A p \in K : TreeAt(t, K, below, p)
  BY <1>3 DEF IsTreap
<1>5. IsFiniteSet(K) /\ Cardinality(K) \in Nat
  BY <1>1, FS_Subset, FS_CardinalityType
<1> DEFINE place == [p \in F |-> CHOOSE i \in 1 .. n : fl[i] = p]
           size == [p \in K \cup {0} |-> Cardinality(below[p])]
           rank == [p \in P |-> IF p = 0 THEN 0 ELSE IF p \in K THEN size[p]
                                ELSE IF p \in F THEN n + 1 - place[p] ELSE 1]
           N == Cardinality(K) + n + 2
<1>6. \A i \in 1 .. n : place[fl[i]] = i
  <2>1. ASSUME NEW i \in 1 .. n PROVE place[fl[i]] = i
    <3>1. place[fl[i]] = CHOOSE j \in 1 .. n : fl[j] = fl[i]
      BY <1>2
    <3>2. \E j \in 1 .. n : fl[j] = fl[i]
      OBVIOUS
    <3>3. place[fl[i]] \in 1 .. n /\ fl[place[fl[i]]] = fl[i]
      <4> HIDE DEF place
      <4> QED
        BY <3>1, <3>2
    <3> HIDE DEF place
    <3> QED
      BY <1>2, <3>3
  <2> QED
    BY <2>1
<1>7. \A p \in F : place[p] \in 1 .. n /\ fl[place[p]] = p
  <2> HIDE DEF place
  <2> QED
    BY <1>6 DEF Members
<1>8. /\ \A p \in K \cup {0} : size[p] \in Nat /\ size[p] <= Cardinality(K)
      /\ size[0] = 0
      /\ \A p \in K : size[t.left[p]] < size[p] /\ size[t.right[p]] < size[p]
  <2>1. \A p \in K \cup {0} : IsFiniteSet(below[p]) /\ size[p] \in Nat /\ size[p] <= Cardinality(K)
    BY <1>4, <1>5, FS_Subset, FS_CardinalityType
  <2>2. size[0] = 0
    BY <1>4, FS_EmptySet
  <2>3. ASSUME NEW p \in K, NEW c \in {t.left[p], t.right[p]} PROVE size[c] < size[p]
    <3>1. c \in K \cup {0} /\ below[c] \subseteq below[p] /\ p \in below[p] /\ t.key[p] \in Nat
      BY <1>4 DEF TreeAt
    <3>2. p \notin below[c]
      <4>1. \A q \in below[t.left[p]] : t.key[q] < t.key[p]
        BY <1>4 DEF TreeAt
      <4>2. \A q \in below[t.right[p]] : t.key[p] < t.key[q]
        BY <1>4 DEF TreeAt
      <4>3. ~(t.key[p] < t.key[p])
        BY <3>1
      <4> QED
        BY <4>1, <4>2, <4>3
    <3>3. below[c] # below[p]
      BY <3>1, <3>2
    <3>4. Cardinality(below[c]) < Cardinality(below[p])
      <4>1. IsFiniteSet(below[p])
        BY <2>1
      <4>2. /\ Cardinality(below[c]) <= Cardinality(below[p])
            /\ Cardinality(below[p]) = Cardinality(below[c]) => below[p] = below[c]
        BY <3>1, <4>1, FS_Subset
      <4>3. Cardinality(below[c]) \in Nat /\ Cardinality(below[p]) \in Nat
        BY <2>1, <3>1
      <4> QED
        BY <3>3, <4>2, <4>3
    <3> QED
      BY <3>1, <3>4
  <2> QED
    BY <2>1, <2>2, <2>3
<1> HIDE DEF place, size
<1>9. N \in Nat /\ rank \in [P -> Nat] /\ \A p \in P : rank[p] < N
  <2>1. \A p \in F : n + 1 - place[p] \in Nat /\ n + 1 - place[p] <= n
    BY <1>2, <1>7
  <2>2. ASSUME NEW p \in P PROVE rank[p] \in Nat /\ rank[p] < N
    <3>1. \/ rank[p] = 0
          \/ p \in K /\ rank[p] = size[p]
          \/ p \in F /\ rank[p] = n + 1 - place[p]
          \/ rank[p] = 1
      OBVIOUS
    <3> HIDE DEF rank, F
    <3> QED
      BY <1>2, <1>5, <1>8, <2>1, <3>1
  <2>3. N \in Nat
    BY <1>2, <1>5
  <2> HIDE DEF N
  <2> QED
    BY <2>2, <2>3
<1>10. ASSUME NEW p \in P \ {0} PROVE rank[t.left[p]] < rank[p] /\ rank[t.right[p]] < rank[p]
  <2>1. CASE p \in K
    <3>1. t.left[p] \in K \cup {0} /\ t.right[p] \in K \cup {0}
      BY <1>4, <2>1 DEF TreeAt
    <3>2. \A q \in K \cup {0} : rank[q] = size[q]
      BY <1>1, <1>8
    <3> HIDE DEF rank
    <3> QED
      BY <1>8, <2>1, <3>1, <3>2
  <2>2. CASE p \in F
    <3>1. p \notin K /\ rank[p] = n + 1 - place[p] /\ place[p] \in 1 .. n
      BY <1>1, <1>7, <2>2
    <3>2. t.right[p] = 0 /\ rank[0] = 0
      BY <1>1, <3>1
    <3>3. CASE place[p] = n
      <4>1. t.left[p] = 0
        BY <1>2, <1>7, <2>2, <3>3
      <4> HIDE DEF rank
      <4> QED
        BY <1>2, <3>1, <3>2, <3>3, <4>1
    <3>4. CASE place[p] # n
      <4>1. t.left[p] = fl[place[p] + 1] /\ place[p] + 1 \in 1 .. n
        BY <1>2, <1>7, <2>2, <3>1, <3>4
      <4>2. t.left[p] \in F /\ place[t.left[p]] = place[p] + 1 /\ t.left[p] \in P \ {0}
        BY <1>2, <1>6, <4>1
      <4>3. rank[t.left[p]] = n + 1 - (place[p] + 1)
        BY <1>1, <4>2
      <4> HIDE DEF rank
      <4> QED
        BY <1>2, <3>1, <3>2, <4>3
    <3> QED
      BY <3>3, <3>4
  <2>3. CASE p \notin K /\ p \notin F
    <3>1. t.left[p] = 0 /\ t.right[p] = 0 /\ rank[p] = 1 /\ rank[0] = 0
      BY <1>1, <2>3
    <3> QED
      BY <3>1
  <2> QED
    BY <2>1, <2>2, <2>3
<1> HIDE DEF rank, N
<1>11. Ranked(t, P, rank, N)
  BY <1>1, <1>9, <1>10 DEF Ranked
<1> QED
  BY <1>11

(* The function that chain recurs on.                                        *)
IsChain(t, f) ==
  f = [p \in Positions(t) |-> IF p = 0 THEN <<>> ELSE <<p>> \o f[t.left[p]]]

LEMMA ChainRecurs ==
  ASSUME NEW t, NEW P, NEW rank, NEW N, Ranked(t, P, rank, N)
  PROVE  \E f : IsChain(t, f) /\ \A p : chain(t, p) = f[p]
<1> DEFINE from == CHOOSE f : IsChain(t, f)
           V == Seq(P)
           base == [p \in P |-> <<>>]
           step == [p \in P |-> [s \in V |-> <<p>> \o s]]
<1>1. Positions(t) = P /\ N \in Nat /\ (\A p \in P : rank[p] < N) /\ t \in TableOver(P)
  BY DEF Ranked, TableOver, Positions
<1>2. Falls(P, t.left, {0}, rank)
  BY DEF Ranked, TableOver, Falls
<1>3. base \in [P -> V] /\ step \in [P -> [V -> V]]
  <2>1. <<>> \in V /\ \A p \in P, s \in V : <<p>> \o s \in V
    OBVIOUS
  <2> HIDE DEF V
  <2> QED
    BY <2>1
<1>4. PICK f : Recurs(f, P, V, t.left, {0}, base, step)
  <2> HIDE DEF base, step, V
  <2> QED
    BY <1>1, <1>2, <1>3, Recursion
<1>5. ASSUME NEW p \in P
      PROVE  f[p] = IF p = 0 THEN <<>> ELSE <<p>> \o f[t.left[p]]
  <2>1. f \in [P -> V] /\ f[p] = IF p \in {0} THEN base[p] ELSE step[p][f[t.left[p]]]
    BY <1>4 DEF Recurs
  <2>2. f[t.left[p]] \in V
    BY <1>2, <2>1 DEF Falls
  <2> HIDE DEF V
  <2> QED
    BY <2>1, <2>2
<1>6. IsChain(t, f)
  <2>1. f = [p \in P |-> f[p]]
    <3> HIDE DEF base, step, V
    <3> QED
      BY <1>4 DEF Recurs
  <2> HIDE DEF base, step, V
  <2> QED
    BY <1>1, <1>5, <2>1 DEF IsChain
<1>7. IsChain(t, from)
  <2> HIDE DEF step, base, V
  <2> QED BY <1>6, Zenon
<1>8. \A p : chain(t, p) = from[p]
  BY DEF chain, IsChain
<1> QED
  BY <1>7, <1>8

(* The chain of links from the head is the free list.                        *)
LEMMA FreeListIs ==
  ASSUME NEW t, NEW P, NEW K, NEW fl, Laid(t, P, K, fl)
  PROVE  FreeList(t) = fl
<1>1. PICK rank, N : Ranked(t, P, rank, N)
  BY LaidIsRanked
<1>2. PICK f : IsChain(t, f) /\ \A p : chain(t, p) = f[p]
  BY <1>1, ChainRecurs
<1> DEFINE n == Len(fl)
           V == P \ {0}
           At(i) == IF i <= n THEN fl[i] ELSE 0
           From(k) == f[At(n + 1 - k)] = SubSeq(fl, n + 1 - k, n)
           Good == {k \in Nat : k <= n => From(k)}
<1>3. /\ fl \in Seq(V) /\ n \in Nat /\ 0 \in P /\ t \in TableOver(P)
      /\ t.left[0] = (IF n = 0 THEN 0 ELSE fl[1])
      /\ \A i \in 1 .. n : t.left[fl[i]] = IF i = n THEN 0 ELSE fl[i + 1]
      /\ \A i \in 1 .. n : fl[i] \in V
  BY MembersType DEF Laid, Threaded
<1>4. /\ f[0] = <<>>
      /\ \A p \in V : f[p] = <<p>> \o f[t.left[p]]
  BY <1>2, <1>3 DEF IsChain, Positions, TableOver
<1>5. 0 \in Good
  <2>1. SubSeq(fl, n + 1, n) = <<>>
    BY <1>3, SubSeqEmpty
  <2>2. At(n + 1 - 0) = 0 /\ n + 1 - 0 = n + 1
    BY <1>3
  <2> QED
    BY <1>4, <2>1, <2>2
<1>6. ASSUME NEW k \in Nat, k \in Good PROVE k + 1 \in Good
  <2> SUFFICES ASSUME k + 1 <= n PROVE From(k + 1)
    <3> HIDE DEF From
    <3> QED
      OBVIOUS
  <2> DEFINE i == n - k
  <2>1. i \in 1 .. n /\ n + 1 - (k + 1) = i /\ n + 1 - k = i + 1 /\ k <= n /\ n \in i .. n /\ i \in Int
    BY <1>3
  <2>2. f[At(i + 1)] = SubSeq(fl, i + 1, n)
    BY <1>6, <2>1
  <2>3. At(i) = fl[i] /\ fl[i] \in V
    BY <1>3, <2>1
  <2>4. t.left[fl[i]] = At(i + 1)
    <3>1. CASE i = n
      <4>1. ~(i + 1 <= n)
        BY <1>3, <3>1
      <4> QED
        BY <1>3, <2>1, <3>1, <4>1
    <3>2. CASE i # n
      <4>1. i + 1 <= n
        BY <1>3, <2>1, <3>2
      <4> QED
        BY <1>3, <2>1, <3>2, <4>1
    <3> QED
      BY <3>1, <3>2
  <2>5. f[fl[i]] = <<fl[i]>> \o SubSeq(fl, i + 1, n)
    <3> HIDE DEF i, n, At, V
    <3> QED
      BY <1>4, <2>2, <2>3, <2>4
  <2>6. SubSeq(fl, i, n) = <<fl[i]>> \o SubSeq(fl, i + 1, n)
    <3> HIDE DEF i, V
    <3> QED
      BY <1>3, <2>1, SubSeqRecursiveFirst
  <2> QED
    BY <2>1, <2>3, <2>5, <2>6
<1>7. n \in Good
  <2>1. Nat \subseteq Good
    <3> HIDE DEF Good
    <3> QED
      BY <1>5, <1>6, NatInSet
  <2> QED
    BY <1>3, <2>1
<1>8. f[At(1)] = SubSeq(fl, 1, n)
  <2>1. n + 1 - n = 1
    BY <1>3
  <2>2. f[At(n + 1 - n)] = SubSeq(fl, n + 1 - n, n)
    BY <1>3, <1>7
  <2> HIDE DEF At
  <2> QED
    BY <2>1, <2>2
<1>9. At(1) = t.left[0] /\ SubSeq(fl, 1, n) = fl
  <2>1. SubSeq(fl, 1, n) = fl
    BY <1>3, SubSeqFull
  <2>2. At(1) = t.left[0]
    BY <1>3
  <2> QED
    BY <2>1, <2>2
<1>10. FreeList(t) = f[t.left[0]]
  <2>1. free(t) = t.left[0]
    BY <1>3 DEF free, Positions, TableOver
  <2> QED
    BY <1>2, <2>1 DEF FreeList
<1> QED
  <2> HIDE DEF At
  <2> QED
    BY <1>8, <1>9, <1>10

-----------------------------------------------------------------------------
(* What the operations do to the layout. *)

(* u is t with the root p.                                                   *)
RootedAt(t, u, P, p) ==
  /\ u \in TableOver(P) /\ u.key = t.key /\ u.left = t.left /\ u.right[0] = p
  /\ \A q \in P \ {0} : u.right[q] = t.right[q]
  /\ p = t.right[0] => u = t

LEMMA SetRootEffect ==
  ASSUME NEW t, NEW P, t \in TableOver(P), 0 \in P, NEW p \in P
  PROVE  RootedAt(t, setRoot(t, p), P, p)
<1>1. ASSUME NEW u, u = setRoot(t, p)
      PROVE  u = [key |-> t.key, left |-> t.left, right |-> [t.right EXCEPT ![0] = p]]
  BY <1>1 DEF setRoot, TableOver
<1>2. ASSUME NEW u, u = setRoot(t, p)
      PROVE  RootedAt(t, u, P, p)
  <2>1. u.key = t.key /\ u.left = t.left /\ u.right = [t.right EXCEPT ![0] = p]
        /\ u = [key |-> u.key, left |-> u.left, right |-> u.right]
    BY <1>1, <1>2
  <2>2. u.right \in [P -> P]
    BY <2>1 DEF TableOver
  <2>3. u \in TableOver(P)
    BY <2>1, <2>2 DEF TableOver
  <2>4. u.right[0] = p /\ \A q \in P \ {0} : u.right[q] = t.right[q]
    BY <2>1 DEF TableOver
  <2>5. p = t.right[0] => u.right = t.right
    BY <2>1 DEF TableOver
  <2>6. t = [key |-> t.key, left |-> t.left, right |-> t.right]
    BY DEF TableOver
  <2>7. p = t.right[0] => u = t
    BY <2>1, <2>5, <2>6
  <2> QED
    BY <2>1, <2>3, <2>4, <2>7 DEF RootedAt
<1> QED
  BY <1>2

(* u is t with the key k at q.                                               *)
KeyAt(t, u, q, k) == u.key = [t.key EXCEPT ![q] = k] /\ u.left = t.left /\ u.right = t.right

LEMMA KeyWritten ==
  ASSUME NEW t, NEW P, NEW K, NEW fl, Laid(t, P, K, fl), NEW q \in P \ K, NEW k \in Nat,
         NEW u, u = [t EXCEPT !.key[q] = k]
  PROVE  Laid(u, P, K, fl) /\ KeyAt(t, u, q, k)
<1>1. /\ t \in TableOver(P) /\ K \subseteq P \ {0} /\ TreapAt(t, t.right[0], K)
  BY DEF Laid
<1>2. u = [key |-> [t.key EXCEPT ![q] = k], left |-> t.left, right |-> t.right]
  BY <1>1 DEF TableOver
<1>3. u.key = [t.key EXCEPT ![q] = k] /\ u.left = t.left /\ u.right = t.right
  BY <1>2
<1>4. u \in TableOver(P)
  BY <1>1, <1>2 DEF TableOver
<1>5. \A p \in K : u.key[p] = t.key[p] /\ u.left[p] = t.left[p] /\ u.right[p] = t.right[p]
  BY <1>1, <1>3 DEF TableOver
<1>6. TreapAt(u, u.right[0], K)
  BY <1>1, <1>3, <1>5, Untouched
<1> QED
  BY <1>3, <1>4, <1>6 DEF Laid, Threaded, KeyAt

HasFree(t, P, K, fl) == Laid(t, P, K, fl) /\ Len(fl) # 0

(* rest is fl without its first member a.                                    *)
FirstOf(fl, a, rest) ==
  a = fl[1] /\ rest = Tail(fl) /\ a \in Members(fl) /\ Members(rest) = Members(fl) \ {a}

(* The first position of the free list leaves it.                            *)
LEMMA TakenIsLaid ==
  ASSUME NEW t, NEW P, NEW K, NEW fl, HasFree(t, P, K, fl)
  PROVE  \E rest : /\ FirstOf(fl, free(t), rest) /\ Laid(Taken(t), P, K, rest)
                   /\ Taken(t).key = t.key /\ Taken(t).right = t.right
                   /\ Taken(t).left[free(t)] = 0
<1> DEFINE n == Len(fl)
           a == fl[1]
           u == Taken(t)
           rest == Tail(fl)
<1>1. /\ IsFiniteSet(P) /\ P \subseteq Nat /\ 0 \in P /\ t \in TableOver(P)
      /\ K \subseteq P /\ 0 \notin K /\ TreapAt(t, t.right[0], K) /\ Members(fl) \cap K = {}
      /\ \A p \in P \ (K \cup {0}) : t.right[p] = 0
      /\ \A p \in P \ (K \cup Members(fl) \cup {0}) : t.left[p] = 0
  BY DEF Laid, HasFree
<1>2. /\ fl \in Seq(P \ {0}) /\ n \in Nat /\ n # 0 /\ 1 \in 1 .. n
      /\ t.left[0] = a
      /\ \A i \in 1 .. n : t.left[fl[i]] = IF i = n THEN 0 ELSE fl[i + 1]
      /\ \A i, j \in 1 .. n : fl[i] = fl[j] => i = j
      /\ \A i \in 1 .. n : fl[i] \in P \ {0} /\ fl[i] \in Members(fl)
  BY MembersType DEF Laid, Threaded, HasFree
<1>3. free(t) = a /\ a \in Members(fl) /\ a \in P /\ a # 0 /\ a \notin K
  BY <1>1, <1>2 DEF free, Positions, TableOver
<1>4. ASSUME NEW v, v = Taken(t)
      PROVE  v = [key |-> t.key, left |-> [[t.left EXCEPT ![0] = t.left[a]] EXCEPT ![a] = 0], right |-> t.right]
  BY <1>1, <1>3, <1>4 DEF Taken, setFree, TableOver
<1>5. u = [key |-> t.key, left |-> [[t.left EXCEPT ![0] = t.left[a]] EXCEPT ![a] = 0], right |-> t.right]
  BY <1>4
<1> HIDE DEF u, a
<1>6. /\ u.key = t.key /\ u.right = t.right /\ u.left = [[t.left EXCEPT ![0] = t.left[a]] EXCEPT ![a] = 0]
  BY <1>5
<1>7. /\ u.left[0] = t.left[a] /\ u.left[a] = 0
      /\ \A p \in P \ {0, a} : u.left[p] = t.left[p]
  BY <1>1, <1>3, <1>6 DEF TableOver
<1>8. u \in TableOver(P)
  <2>1. t.left \in [P -> P] /\ t.left[a] \in P
    BY <1>1, <1>3 DEF TableOver
  <2>2. u.left \in [P -> P]
    <3>1. PICK f : f = t.left
      OBVIOUS
    <3>2. PICK b : b = t.left[a]
      OBVIOUS
    <3>3. f \in [P -> P] /\ b \in P /\ 0 \in P
      BY <1>1, <2>1, <3>1, <3>2
    <3>4. [[f EXCEPT ![0] = b] EXCEPT ![a] = 0] \in [P -> P]
      BY <3>3
    <3> QED
      BY <1>6, <3>1, <3>2, <3>4
  <2>3. t.key \in [P -> Nat] /\ t.right \in [P -> P]
    BY <1>1 DEF TableOver
  <2>4. PICK l : l = u.left
    OBVIOUS
  <2>5. u = [key |-> t.key, left |-> l, right |-> t.right] /\ l \in [P -> P]
    BY <1>5, <1>6, <2>2, <2>4
  <2> QED
    BY <2>3, <2>5 DEF TableOver
<1>9. /\ rest \in Seq(P \ {0}) /\ Len(rest) = n - 1
      /\ \A i \in 1 .. n - 1 : rest[i] = fl[i + 1]
  <2>1. fl # <<>>
    BY <1>2
  <2> QED
    BY <1>2, <2>1, HeadTailProperties
<1> HIDE DEF rest
<1>10. Members(rest) = Members(fl) \ {a}
  <2>1. ASSUME NEW p \in Members(rest) PROVE p \in Members(fl) /\ p # a
    <3>1. PICK i \in 1 .. n - 1 : p = rest[i]
      BY <1>9 DEF Members
    <3>2. i + 1 \in 1 .. n /\ p = fl[i + 1] /\ i + 1 # 1
      BY <1>2, <1>9, <3>1
    <3> QED
      BY <1>2, <3>2 DEF a
  <2>2. ASSUME NEW p \in Members(fl), p # a PROVE p \in Members(rest)
    <3>1. PICK i \in 1 .. n : p = fl[i]
      BY DEF Members
    <3>2. i # 1
      BY <2>2, <3>1 DEF a
    <3>3. i - 1 \in 1 .. n - 1 /\ (i - 1) + 1 = i
      BY <1>2, <3>1, <3>2
    <3>4. rest[i - 1] = p
      BY <1>9, <3>1, <3>3
    <3> QED
      BY <1>9, <3>3, <3>4 DEF Members
  <2> QED
    BY <2>1, <2>2
<1>11. Threaded(u, P, u.left[0], rest)
  <2>1. u.left[0] = IF Len(rest) = 0 THEN 0 ELSE rest[1]
    <3>1. CASE n = 1
      BY <1>2, <1>7, <1>9, <3>1 DEF a
    <3>2. CASE n # 1
      <4>1. 1 \in 1 .. n - 1 /\ n - 1 # 0 /\ 1 + 1 = 2 /\ 1 # n
        <5>1. n \in Nat /\ n # 0 /\ n # 1
          BY <1>2, <3>2
        <5> HIDE DEF n
        <5> QED
          BY <5>1
      <4>2. t.left[a] = fl[2]
        BY <1>2, <4>1 DEF a
      <4> QED
        BY <1>7, <1>9, <4>1, <4>2
    <3> QED
      BY <3>1, <3>2
  <2>2. ASSUME NEW i \in 1 .. Len(rest)
        PROVE  u.left[rest[i]] = IF i = Len(rest) THEN 0 ELSE rest[i + 1]
    <3>1. i \in 1 .. n - 1 /\ i + 1 \in 1 .. n /\ i + 1 # 1 /\ (i = n - 1 <=> i + 1 = n)
      BY <1>2, <1>9
    <3>2. rest[i] = fl[i + 1] /\ fl[i + 1] \in P \ {0} /\ fl[i + 1] # a
      BY <1>2, <1>9, <3>1 DEF a
    <3>3. u.left[rest[i]] = IF i + 1 = n THEN 0 ELSE fl[(i + 1) + 1]
      BY <1>2, <1>7, <3>1, <3>2
    <3>4. i + 1 # n => i + 1 \in 1 .. n - 1
      BY <1>2, <3>1
    <3> QED
      BY <1>9, <3>1, <3>3, <3>4
  <2>3. ASSUME NEW i \in 1 .. Len(rest), NEW j \in 1 .. Len(rest), rest[i] = rest[j]
        PROVE  i = j
    <3>1. i + 1 \in 1 .. n /\ j + 1 \in 1 .. n /\ fl[i + 1] = fl[j + 1]
      BY <1>2, <1>9, <2>3
    <3>2. i + 1 = j + 1
      BY <1>2, <3>1
    <3> QED
      BY <1>9, <3>2
  <2> QED
    BY <1>9, <2>1, <2>2, <2>3 DEF Threaded
<1>12. TreapAt(u, u.right[0], K)
  <2>1. \A p \in K : u.key[p] = t.key[p] /\ u.left[p] = t.left[p] /\ u.right[p] = t.right[p]
    BY <1>1, <1>3, <1>6, <1>7
  <2> QED
    BY <1>1, <1>6, <2>1, Untouched
<1>13. Laid(u, P, K, rest)
  <2>1. \A p \in P \ (K \cup {0}) : u.right[p] = 0
    BY <1>1, <1>6
  <2>2. \A p \in P \ (K \cup Members(rest) \cup {0}) : u.left[p] = 0
    BY <1>1, <1>7, <1>10
  <2> QED
    BY <1>1, <1>8, <1>10, <1>11, <1>12, <2>1, <2>2 DEF Laid
<1>14. FirstOf(fl, a, rest)
  BY <1>3, <1>10 DEF FirstOf, a, rest
<1> QED
  BY <1>3, <1>6, <1>7, <1>13, <1>14 DEF u

(* v is t with the first free position a in the tree and the key k there.    *)
MovedIn(t, v, P, K, fl, a, k) ==
  \E rest : /\ FirstOf(fl, a, rest) /\ Laid(v, P, K \cup {a}, rest)
            /\ v.key = [t.key EXCEPT ![a] = k]

(* An insertion moves the first free position into the tree.                 *)
LEMMA InsertedIsLaid ==
  ASSUME NEW t, NEW P, NEW K, NEW fl, HasFree(t, P, K, fl), NEW k \in Nat, Lacks(t, K, k)
  PROVE  MovedIn(t, inserted(t, k), P, K, fl, free(t), k)
<1> DEFINE a == free(t)
           u == Taken(t)
           w == [Taken(t) EXCEPT !.key[a] = k]
           s == insertElement(w, a, t.right[0])
           v == setRoot(s.tree, s.top)
<1>1. PICK rest : /\ FirstOf(fl, a, rest) /\ Laid(u, P, K, rest)
                  /\ u.key = t.key /\ u.right = t.right /\ u.left[a] = 0
  BY TakenIsLaid
<1>2. /\ IsFiniteSet(P) /\ P \subseteq Nat /\ 0 \in P /\ t \in TableOver(P)
      /\ K \subseteq P \ {0} /\ Members(fl) \cap K = {}
      /\ \A p \in P \ (K \cup {0}) : t.right[p] = 0
      /\ fl \in Seq(P \ {0})
  BY DEF HasFree, Laid, Threaded
<1> HIDE DEF u, a
<1>3. /\ a \in Members(fl) /\ Members(rest) = Members(fl) \ {a}
      /\ a \in P \ K /\ a # 0
  <2>1. a \in Members(fl) /\ Members(rest) = Members(fl) \ {a}
    BY <1>1 DEF FirstOf
  <2> QED
    BY <1>2, <2>1, MembersType
<1>4. Laid(w, P, K, rest) /\ w.key = [t.key EXCEPT ![a] = k] /\ w.left = u.left /\ w.right = t.right
  <2>1. ASSUME NEW x, x = [u EXCEPT !.key[a] = k]
        PROVE  Laid(x, P, K, rest) /\ KeyAt(u, x, a, k)
    BY <1>1, <1>3, <2>1, KeyWritten
  <2>2. w = [u EXCEPT !.key[a] = k]
    BY DEF u, a
  <2> HIDE DEF w
  <2> QED
    BY <1>1, <2>1, <2>2 DEF KeyAt
<1> HIDE DEF w
<1>5. PICK rank, N : Ranked(w, P, rank, N)
  BY <1>4, LaidIsRanked
<1>6. Grown(w, P, K, a, s)
  <2>1. w.left[a] = 0 /\ w.right[a] = 0
    BY <1>1, <1>2, <1>3, <1>4
  <2>2. TreapAt(w, t.right[0], K)
    BY <1>4 DEF Laid
  <2>3. w.key[a] = k /\ \A q \in K : w.key[q] # w.key[a]
    BY <1>2, <1>3, <1>4 DEF TableOver, Lacks
  <2>4. K \in SUBSET P /\ a \notin K
    BY <1>2, <1>3
  <2> QED
    BY <1>2, <1>3, <1>5, <2>1, <2>2, <2>3, <2>4, InsertCorrect
<1> HIDE DEF s
<1>7. /\ s.tree \in TableOver(P) /\ s.top \in P /\ s.tree.key = w.key
      /\ \A q \in P \ (K \cup {a}) : s.tree.left[q] = w.left[q] /\ s.tree.right[q] = w.right[q]
      /\ TreapAt(s.tree, s.top, K \cup {a})
  BY <1>6 DEF Grown, Subtrees, LinksOf
<1>8. /\ v \in TableOver(P) /\ v.key = w.key /\ v.left = s.tree.left /\ v.right[0] = s.top
      /\ \A q \in P \ {0} : v.right[q] = s.tree.right[q]
  <2>1. RootedAt(s.tree, v, P, s.top)
    BY <1>2, <1>7, SetRootEffect
  <2> HIDE DEF v
  <2> QED
    BY <1>7, <2>1 DEF RootedAt
<1>9. inserted(t, k) = v
  <2>1. root(t) = t.right[0]
    BY DEF root
  <2> QED
    BY <2>1 DEF inserted, v, s, w, a
<1> HIDE DEF v
<1>10. TreapAt(v, v.right[0], K \cup {a})
  <2>1. \A q \in K \cup {a} : q \in P \ {0}
    BY <1>2, <1>3
  <2>2. \A q \in K \cup {a} : v.key[q] = s.tree.key[q] /\ v.left[q] = s.tree.left[q] /\ v.right[q] = s.tree.right[q]
    BY <1>7, <1>8, <2>1
  <2> QED
    BY <1>7, <1>8, <2>2, Untouched
<1>11. /\ Threaded(w, P, w.left[0], rest) /\ Members(rest) \cap K = {}
       /\ \A p \in P \ (K \cup {0}) : w.right[p] = 0
       /\ \A p \in P \ (K \cup Members(rest) \cup {0}) : w.left[p] = 0
  BY <1>4 DEF Laid
<1>12. Threaded(v, P, v.left[0], rest)
  <2>1. Members(rest) \subseteq P \ (K \cup {a}) /\ 0 \in P \ (K \cup {a})
    <3>1. Members(rest) \subseteq P
      BY <1>11, MembersType DEF Threaded
    <3> QED
      BY <1>2, <1>3, <1>11, <3>1
  <2>2. v.left[0] = w.left[0] /\ \A p \in Members(rest) : v.left[p] = w.left[p]
    BY <1>7, <1>8, <2>1
  <2>3. \A i \in 1 .. Len(rest) : v.left[rest[i]] = w.left[rest[i]]
    BY <2>2 DEF Members
  <2> QED
    BY <1>11, <2>2, <2>3 DEF Threaded
<1>13. Laid(v, P, K \cup {a}, rest)
  <2>1. Members(rest) \cap (K \cup {a}) = {} /\ K \cup {a} \subseteq P \ {0}
    BY <1>2, <1>3, <1>11
  <2>2. \A p \in P \ (K \cup {a} \cup {0}) : v.right[p] = 0
    BY <1>7, <1>8, <1>11
  <2>3. \A p \in P \ (K \cup {a} \cup Members(rest) \cup {0}) : v.left[p] = 0
    BY <1>7, <1>8, <1>11
  <2> QED
    BY <1>2, <1>8, <1>10, <1>12, <2>1, <2>2, <2>3 DEF Laid
<1> QED
  BY <1>1, <1>4, <1>8, <1>9, <1>13 DEF a, MovedIn

(* xl is q and then fl.                                                      *)
FirstThen(V, q, fl, xl) ==
  /\ xl \in Seq(V) /\ Len(xl) = Len(fl) + 1 /\ xl[1] = q
  /\ \A i \in 1 .. Len(fl) : xl[i + 1] = fl[i]
  /\ Members(xl) = Members(fl) \cup {q}

LEMMA Prepended ==
  ASSUME NEW V, NEW fl, fl \in Seq(V), NEW q, q \in V
  PROVE  FirstThen(V, q, fl, <<q>> \o fl)
<1> SUFFICES ASSUME NEW xl, xl = <<q>> \o fl PROVE FirstThen(V, q, fl, xl)
  OBVIOUS
<1>1. /\ xl \in Seq(V) /\ Len(xl) = Len(fl) + 1 /\ xl[1] = q /\ Len(fl) \in Nat
      /\ \A i \in 1 .. Len(fl) : xl[i + 1] = fl[i]
  OBVIOUS
<1>2. ASSUME NEW p \in Members(xl), p # q PROVE p \in Members(fl)
  <2>1. PICK i \in 1 .. Len(fl) + 1 : p = xl[i]
    BY <1>1 DEF Members
  <2>2. i - 1 \in 1 .. Len(fl) /\ (i - 1) + 1 = i
    <3>1. i # 1
      BY <1>1, <1>2, <2>1
    <3> QED
      BY <1>1, <2>1, <3>1
  <2>3. fl[i - 1] = p
    BY <1>1, <2>1, <2>2
  <2> QED
    BY <2>2, <2>3 DEF Members
<1>3. ASSUME NEW p \in Members(fl) PROVE p \in Members(xl)
  <2>1. PICK i \in 1 .. Len(fl) : p = fl[i]
    BY DEF Members
  <2>2. i + 1 \in 1 .. Len(xl) /\ xl[i + 1] = p
    BY <1>1, <2>1
  <2> QED
    BY <2>2 DEF Members
<1>4. q \in Members(xl)
  <2>1. 1 \in 1 .. Len(xl)
    BY <1>1
  <2> QED
    BY <1>1, <2>1 DEF Members
<1> QED
  BY <1>1, <1>2, <1>3, <1>4 DEF FirstThen

MovedOut(t, v, P, K, fl, q) ==
  Laid(v, P, K \ {q}, <<q>> \o fl) /\ v.key = [t.key EXCEPT ![q] = empty]

(* A removal moves the position of the key to the head of the free list.     *)
LEMMA RemovedIsLaid ==
  ASSUME NEW t, NEW P, NEW K, NEW fl, Laid(t, P, K, fl), NEW k \in Nat, NEW q \in K, t.key[q] = k
  PROVE  MovedOut(t, removed(t, k), P, K, fl, q)
<1> DEFINE d == delete(t, q)
           s == removeKey(t, k, t.right[0])
           v == setRoot(s.tree, s.top)
           E == K \ {q}
<1>1. /\ IsFiniteSet(P) /\ P \subseteq Nat /\ 0 \in P /\ t \in TableOver(P)
      /\ K \subseteq P /\ 0 \notin K /\ TreapAt(t, t.right[0], K) /\ Members(fl) \cap K = {}
      /\ \A p \in P \ (K \cup {0}) : t.right[p] = 0
      /\ \A p \in P \ (K \cup Members(fl) \cup {0}) : t.left[p] = 0
  BY DEF Laid
<1>2. /\ fl \in Seq(P \ {0}) /\ Len(fl) \in Nat
      /\ t.left[0] = IF Len(fl) = 0 THEN 0 ELSE fl[1]
      /\ \A i \in 1 .. Len(fl) : t.left[fl[i]] = IF i = Len(fl) THEN 0 ELSE fl[i + 1]
      /\ \A i, j \in 1 .. Len(fl) : fl[i] = fl[j] => i = j
      /\ \A i \in 1 .. Len(fl) : fl[i] \in P \ {0} /\ fl[i] \in Members(fl)
      /\ Members(fl) \subseteq P \ {0}
  BY MembersType DEF Laid, Threaded
<1>3. PICK rank, N : Ranked(t, P, rank, N)
  BY LaidIsRanked
<1>4. q \in P /\ q # 0 /\ q \notin Members(fl)
  BY <1>1
<1>5. Deleted(t, P, q, d)
  BY <1>1, <1>4, DeleteEffect
<1>6. Merged(d, P, E, s)
  BY <1>1, <1>3, RemoveCorrect
<1>7. removed(t, k) = v
  BY DEF removed, root
<1> HIDE DEF d, s
<1>8. /\ d \in TableOver(P)
      /\ d.key[q] = empty /\ d.left[q] = t.left[0] /\ d.right[q] = 0 /\ d.left[0] = q
      /\ d.key[0] = t.key[0]
      /\ \A p \in P \ {0, q} : d.key[p] = t.key[p] /\ d.left[p] = t.left[p] /\ d.right[p] = t.right[p]
  BY <1>5 DEF Deleted
<1>9. /\ s.tree \in TableOver(P) /\ s.top \in P /\ s.tree.key = d.key
      /\ \A p \in P \ E : s.tree.left[p] = d.left[p] /\ s.tree.right[p] = d.right[p]
      /\ TreapAt(s.tree, s.top, E)
  BY <1>6 DEF Merged, Subtrees, LinksOf
<1>10. /\ v \in TableOver(P) /\ v.key = d.key /\ v.left = s.tree.left /\ v.right[0] = s.top
       /\ \A p \in P \ {0} : v.right[p] = s.tree.right[p]
  <2>1. RootedAt(s.tree, v, P, s.top)
    BY <1>1, <1>9, SetRootEffect
  <2> HIDE DEF v
  <2> QED
    BY <1>9, <2>1 DEF RootedAt
<1> HIDE DEF v
<1>11. TreapAt(v, v.right[0], E)
  <2>1. \A p \in E : p \in P \ {0}
    BY <1>1
  <2>2. \A p \in E : v.key[p] = s.tree.key[p] /\ v.left[p] = s.tree.left[p] /\ v.right[p] = s.tree.right[p]
    BY <1>9, <1>10, <2>1
  <2> QED
    BY <1>9, <1>10, <2>2, Untouched
<1>12. /\ v.left[0] = q /\ v.left[q] = t.left[0]
       /\ \A p \in P \ (K \cup {0}) : v.left[p] = t.left[p]
       /\ \A p \in P \ (E \cup {0}) : v.right[p] = 0
  <2>1. 0 \in P \ E /\ q \in P \ E /\ \A p \in P \ (K \cup {0}) : p \in P \ E /\ p # q
    BY <1>1, <1>4
  <2>2. v.left[0] = q /\ v.left[q] = t.left[0]
    BY <1>8, <1>9, <1>10, <2>1
  <2>3. \A p \in P \ (K \cup {0}) : v.left[p] = t.left[p]
    BY <1>8, <1>9, <1>10, <2>1
  <2>4. \A p \in P \ (K \cup {0}) : v.right[p] = 0
    BY <1>1, <1>8, <1>9, <1>10, <2>1
  <2>5. v.right[q] = 0
    BY <1>4, <1>8, <1>9, <1>10, <2>1
  <2>6. \A p \in P \ (E \cup {0}) : p = q \/ p \in P \ (K \cup {0})
    OBVIOUS
  <2> QED
    BY <2>2, <2>3, <2>4, <2>5, <2>6
<1>13. PICK xl : xl = <<q>> \o fl
  OBVIOUS
<1>14. /\ xl \in Seq(P \ {0}) /\ Len(xl) = Len(fl) + 1 /\ xl[1] = q
       /\ \A i \in 1 .. Len(fl) : xl[i + 1] = fl[i]
       /\ Members(xl) = Members(fl) \cup {q}
  <2>1. q \in P \ {0}
    BY <1>4
  <2> QED
    BY <1>2, <1>13, <2>1, Prepended DEF FirstThen
<1>15. Threaded(v, P, v.left[0], xl)
  <2>1. v.left[0] = IF Len(xl) = 0 THEN 0 ELSE xl[1]
    BY <1>2, <1>12, <1>14
  <2>2. ASSUME NEW i \in 1 .. Len(xl)
        PROVE  v.left[xl[i]] = IF i = Len(xl) THEN 0 ELSE xl[i + 1]
    <3>1. CASE i = 1
      <4>1. v.left[xl[i]] = t.left[0]
        BY <1>12, <1>14, <3>1
      <4>2. i = Len(xl) <=> Len(fl) = 0
        BY <1>2, <1>14, <3>1
      <4>3. Len(fl) # 0 => xl[i + 1] = fl[1]
        BY <1>2, <1>14, <3>1
      <4> QED
        BY <1>2, <4>1, <4>2, <4>3
    <3>2. CASE i # 1
      <4> DEFINE j == i - 1
      <4>1. j \in 1 .. Len(fl) /\ j + 1 = i /\ (i = Len(xl) <=> j = Len(fl))
        BY <1>2, <1>14, <3>2
      <4> HIDE DEF j
      <4>2. xl[i] = fl[j] /\ fl[j] \in P \ (K \cup {0})
        BY <1>1, <1>2, <1>14, <4>1
      <4>3. v.left[xl[i]] = IF j = Len(fl) THEN 0 ELSE fl[j + 1]
        BY <1>2, <1>12, <4>1, <4>2
      <4>4. j # Len(fl) => xl[i + 1] = fl[j + 1]
        <5>1. j # Len(fl) => i \in 1 .. Len(fl)
          BY <1>2, <1>14, <4>1
        <5> QED
          BY <1>14, <4>1, <5>1
      <4> QED
        BY <4>1, <4>3, <4>4
    <3> QED
      BY <3>1, <3>2
  <2>3. ASSUME NEW i \in 1 .. Len(xl), NEW j \in 1 .. Len(xl), xl[i] = xl[j]
        PROVE  i = j
    <3>1. \A h \in 1 .. Len(xl) : h # 1 => h - 1 \in 1 .. Len(fl) /\ xl[h] = fl[h - 1] /\ xl[h] # q
      <4> SUFFICES ASSUME NEW h \in 1 .. Len(xl), h # 1
                   PROVE  h - 1 \in 1 .. Len(fl) /\ xl[h] = fl[h - 1] /\ xl[h] # q
        OBVIOUS
      <4>1. h - 1 \in 1 .. Len(fl) /\ (h - 1) + 1 = h
        BY <1>2, <1>14
      <4>2. xl[h] = fl[h - 1]
        BY <1>14, <4>1
      <4> QED
        BY <1>2, <1>4, <4>1, <4>2
    <3>2. i = 1 <=> j = 1
      BY <1>14, <2>3, <3>1
    <3>3. CASE i # 1
      <4>1. i - 1 = j - 1
        BY <1>2, <2>3, <3>1, <3>2, <3>3
      <4> QED
        BY <4>1
    <3> QED
      BY <3>2, <3>3
  <2> QED
    BY <1>14, <2>1, <2>2, <2>3 DEF Threaded
<1>16. Laid(v, P, E, xl)
  <2>1. E \subseteq P \ {0} /\ Members(xl) \cap E = {}
    BY <1>1, <1>14
  <2>2. \A p \in P \ (E \cup Members(xl) \cup {0}) : v.left[p] = 0
    BY <1>1, <1>12, <1>14
  <2> HIDE DEF E
  <2> QED
    BY <1>1, <1>10, <1>11, <1>12, <1>15, <2>1, <2>2 DEF Laid
<1>17. v.key = [t.key EXCEPT ![q] = empty]
  <2>1. v.key \in [P -> Nat] /\ t.key \in [P -> Nat]
    BY <1>1, <1>10 DEF TableOver
  <2>2. \A p \in P : v.key[p] = IF p = q THEN empty ELSE t.key[p]
    BY <1>4, <1>8, <1>10
  <2> QED
    BY <2>1, <2>2
<1> QED
  BY <1>7, <1>13, <1>16, <1>17 DEF MovedOut

(* Without the key a removal leaves the table as it is.                      *)
LEMMA RemovedNothing ==
  ASSUME NEW t, NEW P, NEW K, NEW fl, Laid(t, P, K, fl), NEW k \in Nat, Lacks(t, K, k)
  PROVE  removed(t, k) = t
<1>1. /\ IsFiniteSet(P) /\ 0 \in P /\ t \in TableOver(P) /\ K \in SUBSET P /\ TreapAt(t, t.right[0], K)
  BY DEF Laid
<1>2. PICK rank, N : Ranked(t, P, rank, N)
  BY LaidIsRanked
<1>3. removeKey(t, k, t.right[0]) = Subtree(t, t.right[0])
  BY <1>1, <1>2, RemoveAbsent
<1>4. removed(t, k) = setRoot(t, t.right[0]) /\ t.right[0] \in P
  BY <1>1, <1>3 DEF removed, root, Subtree, TableOver
<1>5. RootedAt(t, setRoot(t, t.right[0]), P, t.right[0])
  BY <1>1, <1>4, SetRootEffect
<1> QED
  BY <1>4, <1>5 DEF RootedAt

-----------------------------------------------------------------------------
(* Enlargement. *)

LEMMA MemorySize ==
  ASSUME NEW n \in Nat
  PROVE  Cardinality(Memory(n)) = n /\ IsFiniteSet(Memory(n)) /\ Memory(n) \subseteq Nat
         /\ \A p : p \in Memory(n) <=> p \in Nat /\ p < n
<1>1. n - 1 \in Int /\ 0 \in Int /\ (0 > n - 1 <=> n = 0) /\ n - 1 - 0 + 1 = n
  OBVIOUS
<1>2. IsFiniteSet(Memory(n)) /\ Cardinality(Memory(n)) = IF 0 > n - 1 THEN 0 ELSE n - 1 - 0 + 1
  BY <1>1, FS_Interval DEF Memory
<1>3. Memory(n) \subseteq Nat /\ \A p : p \in Memory(n) <=> p \in Nat /\ p < n
  BY DEF Memory
<1> QED
  BY <1>1, <1>2, <1>3

(* e is t with the positions from start on behind the end `tail` of the list. *)
ExtendedTo(t, e, n, start, tail) ==
  /\ e \in TableOver(Memory(n))
  /\ \A p \in Memory(n) :
       /\ e.key[p] = IF p >= start THEN empty ELSE t.key[p]
       /\ e.right[p] = IF p >= start THEN 0 ELSE t.right[p]
       /\ e.left[p] = IF p = n - 1 THEN 0 ELSE IF p >= start THEN p + 1
                      ELSE IF p = tail THEN start ELSE t.left[p]

TailOf(fl) == IF fl = <<>> THEN 0 ELSE fl[Len(fl)]

LEMMA ExtendEffect ==
  ASSUME NEW n \in Nat, NEW start \in Nat, start < n, NEW t, t \in TableOver(Memory(n)),
         NEW fl, fl = FreeList(t), start = 0 \/ TailOf(fl) \in Memory(n)
  PROVE  ExtendedTo(t, extend(t, start), n, start, TailOf(fl))
<1> DEFINE P == Memory(n)
           e == extend(t, start)
           linked == IF fl = <<>> THEN setFree(t, start) ELSE [t EXCEPT !.left[fl[Len(fl)]] = start]
           last == Elements(t) - 1
<1>1. /\ P \subseteq Nat /\ 0 \in P /\ start \in P
      /\ \A p : p \in P <=> p \in Nat /\ p < n
  BY MemorySize
<1>2. t = [key |-> t.key, left |-> t.left, right |-> t.right]
      /\ t.key \in [P -> Nat] /\ t.left \in [P -> P] /\ t.right \in [P -> P]
  BY DEF TableOver
<1>3. Positions(t) = P /\ last = n - 1
  <2>1. Positions(t) = P
    BY <1>2 DEF Positions
  <2>2. Cardinality(P) = n
    BY MemorySize
  <2> QED
    BY <2>1, <2>2 DEF Elements
<1> HIDE DEF P
<1>4. linked.left = [t.left EXCEPT ![TailOf(fl)] = start]
  <2>1. ASSUME NEW u, u = setFree(t, start) PROVE u.left = [t.left EXCEPT ![0] = start]
    BY <1>2, <2>1 DEF setFree
  <2>2. ASSUME NEW u, NEW q, u = [t EXCEPT !.left[q] = start] PROVE u.left = [t.left EXCEPT ![q] = start]
    BY <1>2, <2>2
  <2>3. CASE fl = <<>>
    <3>1. linked = setFree(t, start)
      BY <2>3
    <3> HIDE DEF linked
    <3> QED
      BY <2>1, <2>3, <3>1 DEF TailOf
  <2>4. CASE fl # <<>>
    <3>1. linked = [t EXCEPT !.left[fl[Len(fl)]] = start]
      BY <2>4
    <3> HIDE DEF linked
    <3> QED
      BY <2>2, <2>4, <3>1 DEF TailOf
  <2> QED
    BY <2>3, <2>4
<1>5. e = [key   |-> [p \in P |-> IF p >= start THEN empty ELSE t.key[p]],
           left  |-> [p \in P |-> IF p = n - 1 THEN 0
                                  ELSE IF p >= start THEN p + 1 ELSE linked.left[p]],
           right |-> [p \in P |-> IF p >= start THEN 0 ELSE t.right[p]]]
  BY <1>3 DEF extend
<1> HIDE DEF e, linked, last
<1>6. /\ e.key = [p \in P |-> IF p >= start THEN empty ELSE t.key[p]]
      /\ e.left = [p \in P |-> IF p = n - 1 THEN 0 ELSE IF p >= start THEN p + 1 ELSE linked.left[p]]
      /\ e.right = [p \in P |-> IF p >= start THEN 0 ELSE t.right[p]]
      /\ e = [key |-> e.key, left |-> e.left, right |-> e.right]
  BY <1>5
<1>7. \A p \in P : p < start => linked.left[p] = IF p = TailOf(fl) THEN start ELSE t.left[p]
  BY <1>1, <1>2, <1>4
<1>8. ASSUME NEW p \in P
      PROVE  /\ e.key[p] = IF p >= start THEN empty ELSE t.key[p]
             /\ e.right[p] = IF p >= start THEN 0 ELSE t.right[p]
             /\ e.left[p] = IF p = n - 1 THEN 0 ELSE IF p >= start THEN p + 1
                            ELSE IF p = TailOf(fl) THEN start ELSE t.left[p]
  <2>1. p \in Nat /\ (p >= start <=> ~(p < start))
    BY <1>1
  <2> QED
    BY <1>6, <1>7, <2>1
<1>9. e \in TableOver(P)
  <2>1. \A p \in P : e.key[p] \in Nat /\ e.right[p] \in P
    BY <1>1, <1>2, <1>8 DEF empty
  <2>2. \A p \in P : e.left[p] \in P
    <3>1. \A p \in P : p # n - 1 => p + 1 \in P
      BY <1>1
    <3> QED
      BY <1>1, <1>2, <1>8, <3>1
  <2>3. e.key \in [P -> Nat] /\ e.left \in [P -> P] /\ e.right \in [P -> P]
    BY <1>6, <2>1, <2>2
  <2> QED
    BY <1>6, <2>3 DEF TableOver
<1> QED
  BY <1>8, <1>9 DEF ExtendedTo, e, P

(* xl is fl and then the positions from start to the last of n.              *)
ThenRest(fl, xl, start, n) ==
  /\ Len(xl) = Len(fl) + (n - start)
  /\ \A i \in 1 .. Len(fl) : xl[i] = fl[i]
  /\ \A i \in Len(fl) + 1 .. Len(xl) : xl[i] = start + (i - Len(fl) - 1)
  /\ xl \in Seq(Memory(n) \ {0})
  /\ Members(xl) = Members(fl) \cup (start .. n - 1)

LEMMA RestAppended ==
  ASSUME NEW n \in Nat, NEW start \in Nat, 0 < start, start < n, NEW fl, fl \in Seq(Memory(n) \ {0})
  PROVE  \E xl : ThenRest(fl, xl, start, n)
<1> DEFINE m == Len(fl)
           h == m + (n - start)
           V == Memory(n) \ {0}
           xl == [i \in 1 .. h |-> IF i <= m THEN fl[i] ELSE start + (i - m - 1)]
<1>1. m \in Nat /\ h \in Nat /\ \A i \in 1 .. m : fl[i] \in V
  OBVIOUS
<1>2. \A i \in 1 .. h : i <= m => i \in 1 .. m
  BY <1>1
<1>3. \A i \in 1 .. h : ~(i <= m) => start + (i - m - 1) \in start .. n - 1
  <2> HIDE DEF m
  <2> QED
    BY <1>1
<1>4. start .. n - 1 \subseteq V
  BY DEF Memory
<1>5. \A i \in 1 .. h : xl[i] \in V
  <2> HIDE DEF V, m, h
  <2> QED
    BY <1>1, <1>2, <1>3, <1>4
<1>6. xl \in Seq(V) /\ Len(xl) = h
  <2>1. xl \in [1 .. h -> V]
    <3> HIDE DEF h, V, m
    <3> QED
      BY <1>5
  <2> HIDE DEF xl, h, V
  <2> QED
    BY <1>1, <2>1, SeqDef, LenProperties
<1>7. /\ \A i \in 1 .. m : xl[i] = fl[i]
      /\ \A i \in m + 1 .. h : xl[i] = start + (i - m - 1)
  <2> HIDE DEF m
  <2> QED
    BY <1>1
<1> HIDE DEF xl
<1>8. \A p \in Members(xl) : p \in Members(fl) \cup (start .. n - 1)
  <2> SUFFICES ASSUME NEW i \in 1 .. h PROVE xl[i] \in Members(fl) \cup (start .. n - 1)
    BY <1>6 DEF Members
  <2>1. CASE i <= m
    BY <1>2, <1>7, <2>1 DEF Members
  <2>2. CASE ~(i <= m)
    <3>1. i \in m + 1 .. h
      BY <1>1, <2>2
    <3> QED
      BY <1>3, <1>7, <2>2, <3>1
  <2> QED
    BY <2>1, <2>2
<1>9. \A p \in Members(fl) : p \in Members(xl)
  <2>1. \A i \in 1 .. m : i \in 1 .. h
    BY <1>1
  <2> QED
    BY <1>6, <1>7, <2>1 DEF Members
<1>10. \A p \in start .. n - 1 : p \in Members(xl)
  <2> SUFFICES ASSUME NEW p \in start .. n - 1 PROVE p \in Members(xl)
    OBVIOUS
  <2> DEFINE i == p - start + 1 + m
  <2>1. i \in m + 1 .. h /\ i \in 1 .. h /\ start + (i - m - 1) = p
    <3> HIDE DEF m
    <3> QED
      BY <1>1
  <2> HIDE DEF i, h, m
  <2>2. xl[i] = p
    BY <1>7, <2>1
  <2> QED
    BY <1>6, <2>1, <2>2 DEF Members
<1> HIDE DEF V
<1>11. Members(xl) = Members(fl) \cup (start .. n - 1)
  BY <1>8, <1>9, <1>10
<1>12. ThenRest(fl, xl, start, n)
  BY <1>6, <1>7, <1>11 DEF ThenRest, V
<1> QED
  BY <1>12

(* The keys of e are those of t below start and none above.                  *)
KeysBelow(t, e, start, n) ==
  \A p \in Memory(n) : e.key[p] = IF p >= start THEN empty ELSE t.key[p]

LEMMA ExtendedIsLaid ==
  ASSUME NEW n \in Nat, NEW start \in Nat, 0 < start, start < n,
         NEW t, NEW K, NEW fl, Laid(t, Memory(n), K, fl), K \cup Members(fl) \subseteq Memory(start)
  PROVE  \E xl : /\ Laid(extend(t, start), Memory(n), K, xl) /\ ThenRest(fl, xl, start, n)
                 /\ Members(xl) = Members(fl) \cup (start .. n - 1)
                 /\ KeysBelow(t, extend(t, start), start, n)
<1> DEFINE P == Memory(n)
           e == extend(t, start)
           m == Len(fl)
           a == TailOf(fl)
<1>1. /\ P \subseteq Nat /\ IsFiniteSet(P) /\ 0 \in P /\ start \in P
      /\ \A p : p \in P <=> p \in Nat /\ p < n
      /\ \A p : p \in Memory(start) => p \in Nat /\ p < start /\ p \in P /\ p # n - 1
      /\ 0 < start /\ 0 # n - 1
  <2>1. \A p : p \in Memory(start) <=> p \in Nat /\ p < start
    BY MemorySize
  <2>2. /\ P \subseteq Nat /\ IsFiniteSet(P)
        /\ \A p : p \in P <=> p \in Nat /\ p < n
    BY MemorySize
  <2> HIDE DEF P
  <2> QED
    BY <2>1, <2>2
<1>2. /\ t \in TableOver(P) /\ K \subseteq P /\ 0 \notin K /\ TreapAt(t, t.right[0], K)
      /\ Members(fl) \cap K = {} /\ Threaded(t, P, t.left[0], fl)
      /\ \A p \in P \ (K \cup {0}) : t.right[p] = 0
      /\ \A p \in P \ (K \cup Members(fl) \cup {0}) : t.left[p] = 0
  BY DEF Laid
<1>3. /\ fl \in Seq(P \ {0}) /\ m \in Nat
      /\ t.left[0] = IF m = 0 THEN 0 ELSE fl[1]
      /\ \A i \in 1 .. m : t.left[fl[i]] = IF i = m THEN 0 ELSE fl[i + 1]
      /\ \A i, j \in 1 .. m : fl[i] = fl[j] => i = j
      /\ \A i \in 1 .. m : fl[i] \in P \ {0} /\ fl[i] \in Members(fl)
      /\ Members(fl) \subseteq P \ {0}
  BY <1>2, MembersType DEF Threaded
<1>4. \A p \in K \cup Members(fl) \cup {0} : p \in Nat /\ p < start /\ p \in P /\ p # n - 1 /\ ~(p >= start)
  <2>1. \A p \in K \cup Members(fl) \cup {0} : p \in Nat /\ p < start /\ p \in P /\ p # n - 1
    BY <1>1
  <2> QED
    BY <2>1
<1>5. a = (IF m = 0 THEN 0 ELSE fl[m]) /\ a \in Members(fl) \cup {0} /\ a \in P /\ a \notin K
  <2>1. fl = <<>> <=> m = 0
    BY <1>3
  <2>2. m # 0 => m \in 1 .. m
    BY <1>3
  <2> QED
    BY <1>1, <1>2, <1>3, <2>1, <2>2 DEF TailOf
<1>6. ExtendedTo(t, e, n, start, a)
  <2>1. fl = FreeList(t)
    BY FreeListIs
  <2> QED
    BY <1>2, <1>5, <2>1, ExtendEffect
<1> HIDE DEF e, a
<1>7. /\ e \in TableOver(P)
      /\ \A p \in P : /\ e.key[p] = IF p >= start THEN empty ELSE t.key[p]
                      /\ e.right[p] = IF p >= start THEN 0 ELSE t.right[p]
                      /\ e.left[p] = IF p = n - 1 THEN 0 ELSE IF p >= start THEN p + 1
                                     ELSE IF p = a THEN start ELSE t.left[p]
  BY <1>6 DEF ExtendedTo
<1>8. PICK xl : ThenRest(fl, xl, start, n)
  BY <1>3, RestAppended
<1>9. /\ Len(xl) = m + (n - start) /\ xl \in Seq(P \ {0})
      /\ \A i \in 1 .. m : xl[i] = fl[i]
      /\ \A i \in m + 1 .. Len(xl) : xl[i] = start + (i - m - 1)
      /\ Members(xl) = Members(fl) \cup (start .. n - 1)
  BY <1>8 DEF ThenRest
<1> HIDE DEF P, m
<1>10. TreapAt(e, e.right[0], K)
  <2>1. \A p \in K : e.key[p] = t.key[p] /\ e.left[p] = t.left[p] /\ e.right[p] = t.right[p]
    BY <1>4, <1>5, <1>7
  <2>2. e.right[0] = t.right[0]
    BY <1>1, <1>4, <1>7
  <2> QED
    BY <1>2, <2>1, <2>2, Untouched
<1>11. Threaded(e, P, e.left[0], xl)
  <2>1. m + 1 \in m + 1 .. Len(xl) /\ m + 1 \in 1 .. Len(xl) /\ Len(xl) # 0 /\ xl[m + 1] = start
        /\ Len(xl) \in Nat /\ m < Len(xl)
    <3>1. m + 1 \in m + 1 .. Len(xl) /\ m + 1 \in 1 .. Len(xl) /\ Len(xl) # 0 /\ start + (m + 1 - m - 1) = start
          /\ Len(xl) \in Nat /\ m < Len(xl)
      BY <1>3, <1>9
    <3>2. PICK i : i = m + 1
      OBVIOUS
    <3>3. i \in m + 1 .. Len(xl) /\ start + (i - m - 1) = start
      BY <1>3, <3>1, <3>2
    <3>4. xl[i] = start
      BY <1>9, <3>3
    <3> QED
      BY <3>1, <3>2, <3>4
  <2>2. e.left[0] = IF Len(xl) = 0 THEN 0 ELSE xl[1]
    <3>1. e.left[0] = IF 0 = a THEN start ELSE t.left[0]
      BY <1>1, <1>4, <1>7
    <3>2. CASE m = 0
      <4>1. m + 1 = 1
        BY <3>2
      <4> QED
        BY <1>5, <2>1, <3>1, <3>2, <4>1
    <3>3. CASE m # 0
      <4>1. 1 \in 1 .. m /\ m \in 1 .. m
        BY <1>3, <3>3
      <4>2. a # 0
        BY <1>3, <1>5, <3>3, <4>1
      <4> QED
        BY <1>3, <1>9, <2>1, <3>1, <3>3, <4>1, <4>2
    <3> QED
      BY <3>2, <3>3
  <2>3. ASSUME NEW i \in 1 .. Len(xl)
        PROVE  e.left[xl[i]] = IF i = Len(xl) THEN 0 ELSE xl[i + 1]
    <3>1. CASE i \in 1 .. m
      <4>1. xl[i] = fl[i] /\ fl[i] \in Members(fl) /\ fl[i] \in P /\ i # Len(xl)
        BY <1>3, <1>9, <2>1, <3>1
      <4>2. e.left[xl[i]] = IF fl[i] = a THEN start ELSE t.left[fl[i]]
        BY <1>4, <1>7, <4>1
      <4>3. fl[i] = a <=> i = m
        BY <1>3, <1>5, <3>1
      <4>4. i # m => i + 1 \in 1 .. m
        BY <1>3, <3>1
      <4> QED
        BY <1>3, <1>9, <2>1, <3>1, <4>1, <4>2, <4>3, <4>4
    <3>2. CASE i \notin 1 .. m
      <4>1. i \in m + 1 .. Len(xl) /\ i \in Int
        BY <1>3, <2>1, <3>2
      <4>2. /\ xl[i] = start + (i - m - 1) /\ xl[i] \in Nat /\ xl[i] < n /\ xl[i] >= start
            /\ (xl[i] = n - 1 <=> i = Len(xl))
        <5>1. xl[i] = start + (i - m - 1)
          BY <1>9, <4>1
        <5> QED
          BY <1>3, <1>9, <4>1, <5>1
      <4>3. xl[i] \in P
        BY <1>1, <4>2
      <4>4. e.left[xl[i]] = IF i = Len(xl) THEN 0 ELSE xl[i] + 1
        BY <1>7, <4>2, <4>3
      <4>5. i # Len(xl) => xl[i + 1] = xl[i] + 1
        <5>1. SUFFICES ASSUME i # Len(xl) PROVE xl[i + 1] = xl[i] + 1
          OBVIOUS
        <5>2. i + 1 \in m + 1 .. Len(xl) /\ start + (i + 1 - m - 1) = start + (i - m - 1) + 1
          BY <1>3, <2>1, <4>1, <5>1
        <5>3. PICK j : j = i + 1
          OBVIOUS
        <5>4. xl[j] = start + (j - m - 1)
          BY <1>9, <5>2, <5>3
        <5>5. start + (j - m - 1) = start + (i - m - 1) + 1
          BY <1>3, <4>1, <5>3
        <5> QED
          BY <4>2, <5>3, <5>4, <5>5
      <4> QED
        BY <4>4, <4>5
    <3> QED
      BY <3>1, <3>2
  <2>4. ASSUME NEW i \in 1 .. Len(xl), NEW j \in 1 .. Len(xl), xl[i] = xl[j]
        PROVE  i = j
    <3>1. \A h \in 1 .. Len(xl) : IF h \in 1 .. m THEN xl[h] = fl[h] /\ xl[h] < start
                                  ELSE h \in Int /\ xl[h] = start + (h - m - 1) /\ ~(xl[h] < start)
      <4> SUFFICES ASSUME NEW h \in 1 .. Len(xl)
                   PROVE  IF h \in 1 .. m THEN xl[h] = fl[h] /\ xl[h] < start
                          ELSE h \in Int /\ xl[h] = start + (h - m - 1) /\ ~(xl[h] < start)
        OBVIOUS
      <4>1. CASE h \in 1 .. m
        BY <1>3, <1>4, <1>9, <4>1
      <4>2. CASE h \notin 1 .. m
        <5>1. h \in m + 1 .. Len(xl)
          BY <1>3, <2>1, <4>2
        <5>2. xl[h] = start + (h - m - 1)
          BY <1>9, <5>1
        <5>3. h \in Int /\ ~(start + (h - m - 1) < start)
          BY <1>3, <2>1, <5>1
        <5> QED
          BY <4>2, <5>2, <5>3
      <4> QED
        BY <4>1, <4>2
    <3>2. CASE i \in 1 .. m
      BY <1>3, <2>4, <3>1, <3>2
    <3>3. CASE i \notin 1 .. m
      <4>1. j \notin 1 .. m
        BY <2>4, <3>1, <3>3
      <4>2. i \in Int /\ j \in Int /\ start + (i - m - 1) = start + (j - m - 1)
        BY <2>4, <3>1, <3>3, <4>1
      <4> QED
        BY <1>3, <4>2
    <3> QED
      BY <3>2, <3>3
  <2> QED
    BY <1>9, <2>2, <2>3, <2>4 DEF Threaded
<1>12. Members(xl) \cap K = {}
  <2>1. \A p \in start .. n - 1 : ~(p < start)
    OBVIOUS
  <2> QED
    BY <1>2, <1>4, <1>9, <2>1
<1>13. \A p \in P \ (K \cup {0}) : e.right[p] = 0
  BY <1>2, <1>7
<1>14. \A p \in P \ (K \cup Members(xl) \cup {0}) : e.left[p] = 0
  <2> SUFFICES ASSUME NEW p \in P \ (K \cup Members(xl) \cup {0}) PROVE e.left[p] = 0
    OBVIOUS
  <2>1. p \notin start .. n - 1 /\ p \notin Members(fl) /\ p \in Nat /\ p < n
    BY <1>1, <1>9
  <2>2. ~(p >= start) /\ p # n - 1
    BY <2>1
  <2>3. p # a
    BY <1>5, <2>1
  <2> QED
    BY <1>2, <1>7, <2>1, <2>2, <2>3
<1>15. Laid(e, P, K, xl)
  BY <1>1, <1>2, <1>7, <1>10, <1>11, <1>12, <1>13, <1>14 DEF Laid
<1>16. KeysBelow(t, e, start, n)
  BY <1>7 DEF KeysBelow, P
<1> QED
  BY <1>8, <1>9, <1>15, <1>16 DEF e, P

LEMMA ResizedIsLaid ==
  ASSUME NEW m \in Nat, 0 < m, NEW n \in Nat, m < n, NEW t, NEW K, NEW fl, Laid(t, Memory(m), K, fl)
  PROVE  \E xl : /\ Laid(resize(t, n), Memory(n), K, xl) /\ ThenRest(fl, xl, m, n)
                 /\ Members(xl) = Members(fl) \cup (m .. n - 1)
                 /\ KeysBelow(t, resize(t, n), m, n)
<1> DEFINE O == Memory(m)
           P == Memory(n)
           z == Zeroes(n)
           x == [key |-> Copied(t.key, z), left |-> Copied(t.left, z), right |-> Copied(t.right, z)]
<1>1. /\ P \subseteq Nat /\ IsFiniteSet(P) /\ O \subseteq P /\ 0 \in O /\ 0 \in P
      /\ \A p \in P : p \in O <=> ~(p >= m)
  <2>1. \A p : p \in O <=> p \in Nat /\ p < m
    BY MemorySize
  <2>2. /\ P \subseteq Nat /\ IsFiniteSet(P)
        /\ \A p : p \in P <=> p \in Nat /\ p < n
    BY MemorySize
  <2> HIDE DEF P, O
  <2> QED
    BY <2>1, <2>2
<1>2. /\ t \in TableOver(O) /\ K \subseteq O /\ 0 \notin K /\ TreapAt(t, t.right[0], K)
      /\ Members(fl) \cap K = {} /\ Threaded(t, O, t.left[0], fl)
      /\ \A p \in O \ (K \cup {0}) : t.right[p] = 0
      /\ \A p \in O \ (K \cup Members(fl) \cup {0}) : t.left[p] = 0
  BY DEF Laid
<1>3. /\ fl \in Seq(O \ {0})
      /\ \A i \in 1 .. Len(fl) : fl[i] \in O \ {0} /\ fl[i] \in Members(fl)
      /\ Members(fl) \subseteq O
  BY <1>2, MembersType DEF Threaded
<1>4. resize(t, n) = extend(x, m)
  <2>1. Elements(t) = m
    <3>1. Cardinality(O) = m
      BY MemorySize
    <3> QED
      BY <1>2, <3>1 DEF Elements, Positions, TableOver
  <2> QED
    BY <2>1 DEF resize
<1>5. /\ t.key \in [O -> Nat] /\ t.left \in [O -> O] /\ t.right \in [O -> O]
      /\ z = [p \in P |-> 0]
  BY <1>2 DEF TableOver, Zeroes
<1> HIDE DEF z, O, P
<1>6. /\ x.key = [p \in P |-> IF p \in O THEN t.key[p] ELSE 0]
      /\ x.left = [p \in P |-> IF p \in O THEN t.left[p] ELSE 0]
      /\ x.right = [p \in P |-> IF p \in O THEN t.right[p] ELSE 0]
      /\ x = [key |-> x.key, left |-> x.left, right |-> x.right]
  BY <1>5 DEF Copied
<1> HIDE DEF x
<1>7. x.key \in [P -> Nat] /\ x.left \in [P -> P] /\ x.right \in [P -> P]
  BY <1>1, <1>5, <1>6
<1>8. x \in TableOver(P)
  BY <1>6, <1>7 DEF TableOver
<1>9. /\ \A p \in O : x.key[p] = t.key[p] /\ x.left[p] = t.left[p] /\ x.right[p] = t.right[p]
      /\ \A p \in P \ O : x.left[p] = 0 /\ x.right[p] = 0
  BY <1>1, <1>6
<1>10. TreapAt(x, x.right[0], K)
  <2>1. \A p \in K : x.key[p] = t.key[p] /\ x.left[p] = t.left[p] /\ x.right[p] = t.right[p]
    BY <1>2, <1>9
  <2>2. x.right[0] = t.right[0]
    BY <1>1, <1>9
  <2> QED
    BY <1>2, <2>1, <2>2, Untouched
<1>11. Threaded(x, P, x.left[0], fl)
  <2>1. fl \in Seq(P \ {0})
    <3>1. /\ Len(fl) \in Nat /\ fl = [i \in 1 .. Len(fl) |-> fl[i]]
          /\ \A i \in 1 .. Len(fl) : fl[i] \in P \ {0}
      BY <1>1, <1>3
    <3>2. fl \in [1 .. Len(fl) -> P \ {0}]
      BY <3>1
    <3> QED
      BY <3>1, <3>2, SeqDef
  <2>2. x.left[0] = t.left[0] /\ \A i \in 1 .. Len(fl) : x.left[fl[i]] = t.left[fl[i]]
    BY <1>1, <1>3, <1>9
  <2> QED
    BY <1>2, <2>1, <2>2 DEF Threaded
<1>12. Laid(x, P, K, fl)
  <2>1. K \subseteq P \ {0}
    BY <1>1, <1>2
  <2>2. /\ \A p \in P \ (K \cup {0}) : x.right[p] = 0
        /\ \A p \in P \ (K \cup Members(fl) \cup {0}) : x.left[p] = 0
    BY <1>2, <1>9
  <2> QED
    BY <1>1, <1>2, <1>8, <1>10, <1>11, <2>1, <2>2 DEF Laid
<1>13. PICK xl : /\ Laid(extend(x, m), P, K, xl) /\ ThenRest(fl, xl, m, n)
                 /\ Members(xl) = Members(fl) \cup (m .. n - 1)
                 /\ KeysBelow(x, extend(x, m), m, n)
  <2>1. K \cup Members(fl) \subseteq O
    BY <1>2, <1>3
  <2> QED
    BY <1>12, <2>1, ExtendedIsLaid DEF O, P
<1>14. KeysBelow(t, extend(x, m), m, n)
  BY <1>1, <1>9, <1>13 DEF KeysBelow, P
<1> QED
  BY <1>4, <1>13, <1>14 DEF P

(* The first memory: extended from position 0 on, over what init wrote.      *)
LEMMA FirstIsLaid ==
  ASSUME NEW n \in Nat, 0 < n
  PROVE  \E xl : /\ Laid(resize(NoMemory, n), Memory(n), {}, xl) /\ Members(xl) = Memory(n) \ {0}
                 /\ Len(xl) = n - 1 /\ \A i \in 1 .. n - 1 : xl[i] = i
                 /\ \A p \in Memory(n) : resize(NoMemory, n).key[p] = empty
<1> DEFINE P == Memory(n)
           z == [key |-> Zeroes(n), left |-> Zeroes(n), right |-> Zeroes(n)]
           y == init(n)
           x == [key |-> Copied(<<>>, y.key), left |-> Copied(<<>>, y.left), right |-> Copied(<<>>, y.right)]
           e == extend(x, 0)
<1>1. /\ P \subseteq Nat /\ IsFiniteSet(P) /\ 0 \in P /\ Cardinality(P) = n
      /\ \A p : p \in P <=> p \in Nat /\ p < n
  <2>1. /\ P \subseteq Nat /\ IsFiniteSet(P) /\ Cardinality(P) = n
        /\ \A p : p \in P <=> p \in Nat /\ p < n
    BY MemorySize
  <2> HIDE DEF P
  <2> QED
    BY <2>1
<1>2. resize(NoMemory, n) = e
  <2>1. Elements(NoMemory) = 0
    BY FS_EmptySet DEF Elements, Positions, NoMemory
  <2> QED
    BY <2>1 DEF resize, NoMemory
<1>3. DOMAIN z.key = P
  BY DEF Zeroes
<1>4. DOMAIN y.key = P /\ DOMAIN y.left = P /\ DOMAIN y.right = P
  BY <1>3 DEF init, extend, Positions
<1> HIDE DEF P, y, z
<1>5. Positions(x) = P /\ Elements(x) - 1 = n - 1
  BY <1>1, <1>4 DEF Copied, Positions, Elements
<1> DEFINE Next1(p) == IF p = n - 1 THEN 0 ELSE p + 1
<1>6. /\ e.key = [p \in P |-> 0] /\ e.right = [p \in P |-> 0]
      /\ e.left = [p \in P |-> Next1(p)]
      /\ e = [key |-> e.key, left |-> e.left, right |-> e.right]
  <2>1. \A p \in P : p >= 0
    BY <1>1
  <2> HIDE DEF x
  <2>2. \A w : e = w => /\ w.key = [p \in P |-> 0] /\ w.right = [p \in P |-> 0]
                        /\ w.left = [p \in P |-> Next1(p)]
                        /\ w = [key |-> w.key, left |-> w.left, right |-> w.right]
    BY <1>5, <2>1 DEF extend, empty
  <2> HIDE DEF e
  <2> QED
    BY <2>2
<1> HIDE DEF e, x
<1>7. \A p \in P : Next1(p) \in P
  BY <1>1
<1>8. e \in TableOver(P)
  <2>1. e.key \in [P -> Nat] /\ e.left \in [P -> P] /\ e.right \in [P -> P]
    BY <1>1, <1>6, <1>7
  <2> QED
    BY <1>6, <2>1 DEF TableOver
<1> DEFINE xl == [i \in 1 .. n - 1 |-> i]
<1>9. xl \in Seq(P \ {0}) /\ Len(xl) = n - 1
  <2>1. n - 1 \in Nat /\ xl \in [1 .. n - 1 -> P \ {0}]
    BY <1>1
  <2> HIDE DEF xl
  <2> QED
    BY <2>1, SeqDef, LenProperties
<1>10. \A i \in 1 .. n - 1 : xl[i] = i
  OBVIOUS
<1> HIDE DEF xl
<1>11. Members(xl) = P \ {0}
  <2>1. \A p : p \in P \ {0} <=> p \in 1 .. n - 1
    BY <1>1
  <2>2. Members(xl) = {xl[i] : i \in 1 .. n - 1}
    BY <1>9 DEF Members
  <2> QED
    BY <1>10, <2>1, <2>2
<1>12. Threaded(e, P, e.left[0], xl)
  <2>1. e.left[0] = IF Len(xl) = 0 THEN 0 ELSE xl[1]
    <3>1. e.left[0] = Next1(0)
      BY <1>1, <1>6
    <3>2. n - 1 # 0 => 1 \in 1 .. n - 1
      OBVIOUS
    <3> QED
      BY <1>9, <1>10, <3>1, <3>2
  <2>2. ASSUME NEW i \in 1 .. Len(xl)
        PROVE  e.left[xl[i]] = IF i = Len(xl) THEN 0 ELSE xl[i + 1]
    <3>1. i \in P /\ xl[i] = i /\ i \in 1 .. n - 1
      BY <1>1, <1>9, <1>10
    <3>2. e.left[xl[i]] = Next1(i)
      BY <1>6, <3>1
    <3>3. i # n - 1 => i + 1 \in 1 .. n - 1
      BY <3>1
    <3> QED
      BY <1>9, <1>10, <3>2, <3>3
  <2> QED
    BY <1>9, <1>10, <2>1, <2>2 DEF Threaded
<1>13. TreapAt(e, e.right[0], {})
  BY <1>1, <1>6, EmptyTree
<1>14. Laid(e, P, {}, xl)
  <2>1. \A p \in P : e.right[p] = 0
    BY <1>6
  <2> QED
    BY <1>1, <1>8, <1>11, <1>12, <1>13, <2>1 DEF Laid
<1> QED
  BY <1>2, <1>6, <1>9, <1>10, <1>11, <1>14 DEF P, empty

-----------------------------------------------------------------------------
(* What the layout says of the tree. *)

LEMMA KeysDiffer ==
  ASSUME NEW t, NEW E, IsFiniteSet(E), NEW S \in SUBSET E, NEW top, TreapAt(t, top, S)
  PROVE  \A p, q \in S : t.key[p] = t.key[q] => p = q
<1> DEFINE Good == {x \in (E \cup {0}) \X SUBSET E :
                      \A p, q \in x[2] : t.key[p] = t.key[q] => p = q}
<1>1. <<0, {}>> \in Good
  OBVIOUS
<1>2. ASSUME NEW p \in E, NEW T \in SUBSET E, NEW L \in SUBSET E, NEW R \in SUBSET E,
             MadeOf(t, p, T, L, R), <<t.left[p], L>> \in Good, <<t.right[p], R>> \in Good
      PROVE  <<p, T>> \in Good
  <2>1. /\ T = {p} \cup L \cup R
        /\ \A q \in T : t.key[q] \in Nat
        /\ \A q \in L : t.key[q] < t.key[p]
        /\ \A q \in R : t.key[p] < t.key[q]
    BY <1>2 DEF MadeOf
  <2>2. /\ \A q, r \in L : t.key[q] = t.key[r] => q = r
        /\ \A q, r \in R : t.key[q] = t.key[r] => q = r
    BY <1>2
  <2>3. \A q, r \in T : t.key[q] = t.key[r] => q = r
    <3> SUFFICES ASSUME NEW q \in T, NEW r \in T, t.key[q] = t.key[r] PROVE q = r
      OBVIOUS
    <3>1. t.key[q] \in Nat /\ t.key[r] \in Nat /\ t.key[p] \in Nat
      BY <2>1
    <3>2. CASE q \in L
      <4>1. r \in L
        BY <2>1, <3>1, <3>2
      <4> QED
        BY <2>2, <3>2, <4>1
    <3>3. CASE q \in R
      <4>1. r \in R
        BY <2>1, <3>1, <3>3
      <4> QED
        BY <2>2, <3>3, <4>1
    <3>4. CASE q = p
      <4>1. r \notin L /\ r \notin R
        BY <2>1, <3>1, <3>4
      <4> QED
        BY <2>1, <3>4, <4>1
    <3> QED
      BY <2>1, <3>2, <3>3, <3>4
  <2> QED
    BY <2>3
<1>3. \A T \in SUBSET E : \A p : TreapAt(t, p, T) => <<p, T>> \in Good
  <2> HIDE DEF Good
  <2> QED
    BY <1>1, <1>2, TreapInduction
<1>4. <<top, S>> \in Good
  BY <1>3
<1> QED
  BY <1>4

LEMMA ChildrenRankLower ==
  ASSUME NEW t, NEW top, NEW S, TreapAt(t, top, S), NEW p \in S
  PROVE  ~Outranks(t.left[p], p) /\ ~Outranks(t.right[p], p)
<1>1. PICK below : IsTreap(t, S, below)
  BY DEF TreapAt
<1>2. S \subseteq Nat \ {0} /\ p \in Int
  BY DEF TreapAt
<1>3. ASSUME NEW c, c \in {t.left[p], t.right[p]} PROVE ~Outranks(c, p)
  <2>1. CASE c = 0
    BY <1>2, <2>1, ZeroIsLast
  <2>2. CASE c # 0
    <3>1. TreeAt(t, S, below, p) /\ \A q \in S : TreeAt(t, S, below, q)
      BY <1>1 DEF IsTreap
    <3>2. c \in S /\ below[c] \subseteq below[p]
      BY <1>3, <2>2, <3>1 DEF TreeAt
    <3>3. c \in below[c]
      BY <3>1, <3>2 DEF TreeAt
    <3> QED
      BY <3>1, <3>2, <3>3 DEF TreeAt
  <2> QED
    BY <2>1, <2>2
<1> QED
  BY <1>3

LEMMA CountMembers ==
  ASSUME NEW V, NEW fl, fl \in Seq(V), \A i, j \in 1 .. Len(fl) : fl[i] = fl[j] => i = j
  PROVE  Cardinality(Members(fl)) = Len(fl)
<1> DEFINE n == Len(fl)
           D == 1 .. n
<1>1. n \in Nat /\ fl \in [D -> V]
  BY LenProperties
<1>2. fl \in Bijection(D, Members(fl))
  <2>1. fl \in [D -> Members(fl)]
    BY <1>1 DEF Members
  <2>2. \A p \in Members(fl) : \E i \in D : fl[i] = p
    BY DEF Members
  <2> QED
    BY <2>1, <2>2 DEF Bijection, Injection, Surjection, IsInjective
<1>3. ExistsBijection(D, Members(fl))
  BY <1>2 DEF ExistsBijection
<1>4. IsFiniteSet(D) /\ Cardinality(D) = n
  <2>1. IsFiniteSet(D) /\ Cardinality(D) = IF 1 > n THEN 0 ELSE n - 1 + 1
    BY <1>1, FS_Interval
  <2> HIDE DEF D, n
  <2> QED
    BY <1>1, <2>1
<1> HIDE DEF D
<1> QED
  BY <1>3, <1>4, FS_Bijection

-----------------------------------------------------------------------------
(* A table in n elements of memory: keys at the positions of K, those of R   *)
(* reserved, the rest in the free list fl.                                   *)
Filled(t, n, K, R, fl) ==
  /\ n \in Nat \ {0} /\ Laid(t, Memory(n), K, fl)
  /\ t.key \in [Memory(n) -> Keys \cup {empty}]
  /\ \A p \in Memory(n) : t.key[p] # empty <=> p \in K
  /\ R \subseteq Memory(n) \ {0} /\ R \cap K = {}
  /\ Members(fl) = Memory(n) \ ({0} \cup K \cup R)

(* What the definitions of Treap are for such a table.                       *)
LEMMA FilledFacts ==
  ASSUME NEW t, NEW n, NEW K, NEW R, NEW fl, Filled(t, n, K, R, fl)
  PROVE  /\ n \in Nat /\ Positions(t) = Memory(n) /\ Elements(t) = n /\ n > 0 /\ 0 \in Memory(n)
         /\ 1 .. n - 1 = Memory(n) \ {0} /\ K = {p \in 1 .. n - 1 : t.key[p] # empty}
         /\ \A p \in K : t.key[p] \in Keys
<1>1. n \in Nat /\ n > 0 /\ t \in TableOver(Memory(n)) /\ K \subseteq Memory(n) \ {0}
  BY DEF Filled, Laid
<1>2. Positions(t) = Memory(n)
  BY <1>1 DEF Positions, TableOver
<1>3. Elements(t) = n
  BY <1>1, <1>2, MemorySize DEF Elements
<1>4. 1 .. n - 1 = Memory(n) \ {0} /\ 0 \in Memory(n)
  BY <1>1 DEF Memory
<1>5. K = {p \in 1 .. n - 1 : t.key[p] # empty} /\ \A p \in K : t.key[p] \in Keys
  BY <1>1, <1>4 DEF Filled
<1> QED
  BY <1>1, <1>2, <1>3, <1>4, <1>5

LEMMA FreeIs ==
  ASSUME NEW t, NEW n, NEW K, NEW R, NEW fl, Filled(t, n, K, R, fl)
  PROVE  IF free(t) = 0 THEN Members(fl) = {} ELSE HasFree(t, Memory(n), K, fl)
<1>1. /\ Laid(t, Memory(n), K, fl) /\ fl \in Seq(Memory(n) \ {0})
      /\ t.left[0] = IF Len(fl) = 0 THEN 0 ELSE fl[1]
      /\ t \in TableOver(Memory(n)) /\ 0 \in Memory(n)
  BY DEF Filled, Laid, Threaded
<1>2. free(t) = t.left[0]
  BY <1>1 DEF free, Positions, TableOver
<1>3. CASE Len(fl) = 0
  BY <1>1, <1>2, <1>3 DEF Members
<1>4. CASE Len(fl) # 0
  <2>1. 1 \in 1 .. Len(fl)
    BY <1>1, <1>4
  <2>2. fl[1] \in Memory(n) \ {0}
    BY <1>1, <2>1
  <2> QED
    BY <1>1, <1>2, <1>4, <2>2 DEF HasFree
<1> QED
  BY <1>3, <1>4

LEMMA LookupIs ==
  ASSUME NEW t, NEW n, NEW K, NEW R, NEW fl, Filled(t, n, K, R, fl), NEW k \in Nat
  PROVE  IsPlace(t, K, k, lookup(t, k))
<1>1. /\ Laid(t, Memory(n), K, fl) /\ IsFiniteSet(Memory(n)) /\ K \in SUBSET Memory(n)
      /\ TreapAt(t, t.right[0], K)
  BY DEF Filled, Laid
<1>2. PICK rank, N : Ranked(t, Memory(n), rank, N)
  BY <1>1, LaidIsRanked
<1> QED
  BY <1>1, <1>2, LookupFinds DEF root

(* What the operations make of such a table. *)

LEMMA FilledTaken ==
  ASSUME NEW t, NEW n, NEW K, NEW R, NEW fl, Filled(t, n, K, R, fl), free(t) # 0
  PROVE  /\ \E rest : Filled(Taken(t), n, K, R \cup {free(t)}, rest)
         /\ free(t) \in Members(fl) /\ Taken(t).key = t.key
<1>1. HasFree(t, Memory(n), K, fl)
  BY FreeIs
<1>2. PICK rest : /\ FirstOf(fl, free(t), rest) /\ Laid(Taken(t), Memory(n), K, rest)
                  /\ Taken(t).key = t.key
  BY <1>1, TakenIsLaid
<1>3. free(t) \in Members(fl) /\ Members(rest) = Members(fl) \ {free(t)}
  BY <1>2 DEF FirstOf
<1>4. Filled(Taken(t), n, K, R \cup {free(t)}, rest)
  BY <1>2, <1>3 DEF Filled
<1> QED
  BY <1>2, <1>3, <1>4

(* v is t with k at the free position a.                                     *)
KeyIn(t, v, n, K, R, fl, a, k) ==
  /\ \E rest : Filled(v, n, K \cup {a}, R, rest)
  /\ a \in Members(fl) /\ v.key = [t.key EXCEPT ![a] = k]

LEMMA FilledInserted ==
  ASSUME NEW t, NEW n, NEW K, NEW R, NEW fl, Filled(t, n, K, R, fl), free(t) # 0,
         NEW k, k \in Keys, Lacks(t, K, k)
  PROVE  KeyIn(t, inserted(t, k), n, K, R, fl, free(t), k)
<1> DEFINE a == free(t)
           v == inserted(t, k)
<1>1. HasFree(t, Memory(n), K, fl)
  BY FreeIs
<1>2. k \in Nat /\ k # empty
  BY TreapAssumption
<1>3. MovedIn(t, v, Memory(n), K, fl, a, k)
  BY <1>1, <1>2, InsertedIsLaid
<1> HIDE DEF a, v
<1>4. PICK rest : /\ FirstOf(fl, a, rest) /\ Laid(v, Memory(n), K \cup {a}, rest)
                  /\ v.key = [t.key EXCEPT ![a] = k]
  BY <1>3 DEF MovedIn
<1>5. a \in Members(fl) /\ Members(rest) = Members(fl) \ {a}
  BY <1>4 DEF FirstOf
<1>6. v.key \in [Memory(n) -> Keys \cup {empty}] /\ \A p \in Memory(n) : v.key[p] # empty <=> p \in K \cup {a}
  BY <1>2, <1>4, <1>5 DEF Filled
<1>7. Filled(v, n, K \cup {a}, R, rest)
  BY <1>4, <1>5, <1>6 DEF Filled
<1>8. KeyIn(t, v, n, K, R, fl, a, k)
  BY <1>4, <1>5, <1>7 DEF KeyIn
<1> QED
  BY <1>8 DEF a, v

(* v is t without the key at q.                                              *)
KeyOut(t, v, n, K, R, q) ==
  /\ \E xl : Filled(v, n, K \ {q}, R, xl)
  /\ v.key = [t.key EXCEPT ![q] = empty]

LEMMA FilledRemoved ==
  ASSUME NEW t, NEW n, NEW K, NEW R, NEW fl, Filled(t, n, K, R, fl),
         NEW k, k \in Keys, NEW q, q \in K, t.key[q] = k
  PROVE  KeyOut(t, removed(t, k), n, K, R, q)
<1> DEFINE v == removed(t, k)
<1>1. PICK xl : xl = <<q>> \o fl
  OBVIOUS
<1>2. /\ Laid(t, Memory(n), K, fl) /\ k \in Nat
      /\ fl \in Seq(Memory(n) \ {0}) /\ q \in Memory(n) \ {0}
  BY TreapAssumption DEF Filled, Laid, Threaded
<1>3. MovedOut(t, v, Memory(n), K, fl, q)
  BY <1>2, RemovedIsLaid
<1> HIDE DEF v
<1>4. Laid(v, Memory(n), K \ {q}, xl) /\ v.key = [t.key EXCEPT ![q] = empty]
  BY <1>1, <1>3 DEF MovedOut
<1>5. Members(xl) = Members(fl) \cup {q}
  BY <1>1, <1>2, Prepended DEF FirstThen
<1>6. v.key \in [Memory(n) -> Keys \cup {empty}] /\ \A p \in Memory(n) : v.key[p] # empty <=> p \in K \ {q}
  BY <1>2, <1>4 DEF Filled
<1>7. Filled(v, n, K \ {q}, R, xl)
  BY <1>2, <1>4, <1>5, <1>6 DEF Filled
<1>8. KeyOut(t, v, n, K, R, q)
  BY <1>4, <1>7 DEF KeyOut
<1> QED
  BY <1>8 DEF v

LEMMA FilledResized ==
  ASSUME NEW t, NEW m, NEW K, NEW R, NEW fl, Filled(t, m, K, R, fl), NEW n \in Nat, m < n
  PROVE  /\ \E xl : Filled(resize(t, n), n, K, R, xl)
         /\ \A p \in K : resize(t, n).key[p] = t.key[p]
<1> DEFINE v == resize(t, n)
<1>1. m \in Nat /\ 0 < m /\ Laid(t, Memory(m), K, fl) /\ n \in Nat \ {0} /\ K \subseteq Memory(m) \ {0}
  BY DEF Filled, Laid
<1>2. PICK xl : /\ Laid(v, Memory(n), K, xl)
                /\ Members(xl) = Members(fl) \cup (m .. n - 1)
                /\ KeysBelow(t, v, m, n)
  BY <1>1, ResizedIsLaid
<1> HIDE DEF v
<1>3. Memory(n) = Memory(m) \cup (m .. n - 1) /\ Memory(m) \cap (m .. n - 1) = {} /\ 0 \in Memory(m)
  BY <1>1 DEF Memory
<1>4. \A p \in Memory(n) : v.key[p] = IF p \in Memory(m) THEN t.key[p] ELSE empty
  <2>1. \A p \in Memory(n) : p \in Memory(m) <=> ~(p >= m)
    BY <1>1 DEF Memory
  <2> QED
    BY <1>2, <2>1 DEF KeysBelow
<1>5. v.key \in [Memory(n) -> Keys \cup {empty}]
  <2>1. v.key \in [Memory(n) -> Nat]
    BY <1>2 DEF Laid, TableOver
  <2>2. \A p \in Memory(n) : v.key[p] \in Keys \cup {empty}
    BY <1>4 DEF Filled
  <2> QED
    BY <2>1, <2>2
<1>6. \A p \in Memory(n) : v.key[p] # empty <=> p \in K
  BY <1>1, <1>3, <1>4 DEF Filled
<1>7. Members(xl) = Memory(n) \ ({0} \cup K \cup R) /\ R \subseteq Memory(n) \ {0} /\ R \cap K = {}
  BY <1>1, <1>2, <1>3 DEF Filled
<1>8. Filled(v, n, K, R, xl)
  BY <1>1, <1>2, <1>5, <1>6, <1>7 DEF Filled
<1>9. \A p \in K : v.key[p] = t.key[p]
  BY <1>1, <1>3, <1>4
<1> QED
  BY <1>8, <1>9 DEF v

LEMMA FilledFirst ==
  ASSUME NEW n \in Nat, 0 < n
  PROVE  \E xl : Filled(resize(NoMemory, n), n, {}, {}, xl)
<1> DEFINE v == resize(NoMemory, n)
<1>1. PICK xl : /\ Laid(v, Memory(n), {}, xl)
                /\ Members(xl) = Memory(n) \ {0}
                /\ \A p \in Memory(n) : v.key[p] = empty
  BY FirstIsLaid
<1> HIDE DEF v
<1>2. v.key \in [Memory(n) -> Keys \cup {empty}]
  <2>1. v.key \in [Memory(n) -> Nat]
    BY <1>1 DEF Laid, TableOver
  <2> QED
    BY <1>1, <2>1
<1>3. Filled(v, n, {}, {}, xl)
  BY <1>1, <1>2 DEF Filled
<1> QED
  BY <1>3 DEF v

-----------------------------------------------------------------------------
(* The invariant. *)

IInv ==
  /\ result \in Capacity \cup {0}
  /\ \/ table = NoMemory /\ reserved = {}
     \/ \E n, K, fl : Filled(table, n, K, reserved, fl)

LEMMA NothingYet ==
  ASSUME table = NoMemory
  PROVE  Elements(table) = 0 /\ ~Used /\ Capacity = {} /\ Keyed = {}
<1>1. Elements(table) = 0
  BY FS_EmptySet DEF Elements, Positions, NoMemory
<1> QED
  BY <1>1 DEF Used, Capacity, Keyed

LEMMA StateIs ==
  ASSUME NEW n, NEW K, NEW fl, Filled(table, n, K, reserved, fl)
  PROVE  Used /\ Elements(table) = n /\ Capacity = 1 .. n - 1 /\ Keyed = K /\ Idle = Members(fl)
         /\ Capacity = Memory(n) \ {0}
<1>1. /\ n \in Nat /\ Elements(table) = n /\ n > 0
      /\ 1 .. n - 1 = Memory(n) \ {0} /\ K = {p \in 1 .. n - 1 : table.key[p] # empty}
  BY FilledFacts
<1>2. Members(fl) = Memory(n) \ ({0} \cup K \cup reserved)
  BY DEF Filled
<1> QED
  BY <1>1, <1>2 DEF Used, Capacity, Keyed, Idle

LEMMA IInvHolds == Spec => []IInv
<1>1. Init => IInv
  BY DEF Init, IInv
<1>2. ASSUME IInv, [Next]_vars PROVE IInv'
  <2> USE <1>2
  <2> DEFINE After(R) == \E n, K, fl : Filled(table', n, K, R, fl) /\ Capacity \subseteq 1 .. n - 1
  <2>1. ASSUME NEW R, After(R), reserved' = R, result' \in Capacity \cup {0} PROVE IInv'
    <3>1. PICK n, K, fl : Filled(table', n, K, R, fl) /\ Capacity \subseteq 1 .. n - 1
      BY <2>1
    <3>2. Elements(table') = n
      BY <3>1, FilledFacts
    <3>3. Capacity' = 1 .. n - 1
      BY <3>2 DEF Capacity
    <3> QED
      BY <2>1, <3>1, <3>3 DEF IInv
  <2>2. ASSUME UNCHANGED <<table, reserved>>, result' \in Capacity \cup {0} PROVE IInv'
    <3>1. Capacity' = Capacity
      BY <2>2 DEF Capacity
    <3> QED
      BY <2>2, <3>1 DEF IInv
  <2> HIDE DEF After
  <2>3. ASSUME Used
        PROVE  \E n, K, fl : Filled(table, n, K, reserved, fl)
    BY <2>3, NothingYet DEF IInv
  <2>4. ASSUME NEW k \in Keys, insertNew(k) PROVE IInv'
    <3>1. PICK n, K, fl : Filled(table, n, K, reserved, fl)
      BY <2>3, <2>4 DEF insertNew
    <3>2. /\ lookup(table, k) = 0 /\ free(table) # 0 /\ table' = inserted(table, k)
          /\ result' = free(table) /\ reserved' = reserved
      BY <2>4 DEF insertNew
    <3>3. IsPlace(table, K, k, 0) /\ 0 \notin K
      <4>1. k \in Nat
        BY TreapAssumption
      <4> QED
        BY <3>1, <3>2, <4>1, LookupIs DEF Filled, Laid
    <3>4. Lacks(table, K, k)
      BY <3>3 DEF IsPlace, Lacks
    <3>5. PICK rest : Filled(table', n, K \cup {free(table)}, reserved, rest) /\ free(table) \in Members(fl)
      BY <3>1, <3>2, <3>4, FilledInserted DEF KeyIn
    <3>6. Capacity = 1 .. n - 1 /\ Idle = Members(fl)
      BY <3>1, StateIs
    <3>7. After(reserved) /\ free(table) \in Capacity
      BY <3>5, <3>6 DEF After, Idle
    <3> QED
      BY <2>1, <3>2, <3>7
  <2>5. ASSUME NEW k \in Keys, insertExisting(k) PROVE IInv'
    <3>1. PICK n, K, fl : Filled(table, n, K, reserved, fl)
      BY <2>3, <2>5 DEF insertExisting
    <3>2. k \in Nat
      BY TreapAssumption
    <3>3. lookup(table, k) \in K
      BY <2>5, <3>1, <3>2, LookupIs DEF IsPlace, insertExisting
    <3>4. K \subseteq Capacity
      BY <3>1, StateIs DEF Keyed
    <3> QED
      BY <2>2, <2>5, <3>3, <3>4 DEF insertExisting
  <2>6. ASSUME NEW k, OutOfSpace(k) PROVE IInv'
    BY <2>2, <2>6 DEF OutOfSpace
  <2>7. ASSUME nextFree PROVE IInv'
    <3>1. CASE OutOfSpace(empty)
      BY <2>6, <3>1
    <3>2. CASE ~OutOfSpace(empty)
      <4>1. /\ Used /\ free(table) # 0 /\ table' = Taken(table)
            /\ reserved' = reserved \cup {free(table)} /\ result' = free(table)
        BY <2>7, <3>2 DEF nextFree
      <4>2. PICK n, K, fl : Filled(table, n, K, reserved, fl)
        BY <2>3, <4>1
      <4>3. PICK rest : Filled(table', n, K, reserved', rest) /\ free(table) \in Members(fl)
        BY <4>1, <4>2, FilledTaken
      <4>4. Capacity = 1 .. n - 1 /\ Idle = Members(fl)
        BY <4>2, StateIs
      <4>5. After(reserved') /\ free(table) \in Capacity
        BY <4>3, <4>4 DEF After, Idle
      <4> QED
        BY <2>1, <4>1, <4>5
    <3> QED
      BY <3>1, <3>2
  <2>8. ASSUME NEW k \in Keys, remove(k) PROVE IInv'
    <3>1. PICK n, K, fl : Filled(table, n, K, reserved, fl)
      BY <2>3, <2>8 DEF remove
    <3>2. table' = removed(table, k) /\ reserved' = reserved /\ result' = result /\ result \in Capacity \cup {0}
      BY <2>8 DEF remove, IInv
    <3>3. CASE \E q \in K : table.key[q] = k
      <4>1. PICK q \in K : table.key[q] = k
        BY <3>3
      <4>2. PICK xl : Filled(table', n, K \ {q}, reserved, xl)
        BY <3>1, <3>2, <4>1, FilledRemoved DEF KeyOut
      <4>3. Capacity = 1 .. n - 1
        BY <3>1, StateIs
      <4>4. After(reserved)
        BY <4>2, <4>3 DEF After
      <4> QED
        BY <2>1, <3>2, <4>4
    <3>4. CASE \A q \in K : table.key[q] # k
      <4>1. k \in Nat /\ Laid(table, Memory(n), K, fl)
        BY <3>1, TreapAssumption DEF Filled
      <4>2. table' = table
        BY <3>2, <3>4, <4>1, RemovedNothing DEF Lacks
      <4> QED
        BY <2>2, <3>2, <4>2
    <3> QED
      BY <3>3, <3>4
  <2>9. ASSUME NEW n \in Sizes, Resize(n) PROVE IInv'
    <3>1. /\ table' = resize(table, n) /\ reserved' = reserved /\ result' = result
          /\ result \in Capacity \cup {0} /\ n > Elements(table) /\ n \in Nat /\ 0 < n
      BY <2>9, TreapAssumption DEF Resize, IInv
    <3>2. CASE table = NoMemory /\ reserved = {}
      <4>1. PICK xl : Filled(table', n, {}, {}, xl)
        BY <3>1, <3>2, FilledFirst
      <4>2. Capacity = {}
        BY <3>2, NothingYet
      <4>3. After(reserved)
        BY <3>2, <4>1, <4>2 DEF After
      <4> QED
        BY <2>1, <3>1, <4>3
    <3>3. CASE \E m, K, fl : Filled(table, m, K, reserved, fl)
      <4>1. PICK m, K, fl : Filled(table, m, K, reserved, fl)
        BY <3>3
      <4>2. Capacity = 1 .. m - 1 /\ Elements(table) = m /\ m \in Nat
        BY <4>1, StateIs, FilledFacts
      <4>3. m < n
        BY <3>1, <4>2
      <4>4. PICK xl : Filled(table', n, K, reserved, xl)
        BY <3>1, <4>1, <4>3, FilledResized
      <4>5. Capacity \subseteq 1 .. n - 1
        BY <3>1, <4>2, <4>3
      <4>6. After(reserved)
        BY <4>4, <4>5 DEF After
      <4> QED
        BY <2>1, <3>1, <4>6
    <3> QED
      BY <3>2, <3>3 DEF IInv
  <2>10. ASSUME UNCHANGED vars PROVE IInv'
    BY <2>2, <2>10 DEF vars, IInv
  <2> QED
    BY <2>4, <2>5, <2>6, <2>7, <2>8, <2>9, <2>10 DEF Next, insert
<1> QED
  BY <1>1, <1>2, PTL DEF Spec

-----------------------------------------------------------------------------
(* Through all rotations of insertions and removals (treap.zig:158-241) and  *)
(* all enlargements the tree stays a search tree in which lookup finds every *)
(* key, and a heap: for any keys, in any sizes of memory.                    *)
THEOREM TreapWellFormed == Spec => []WellFormed
<1>1. ASSUME IInv PROVE WellFormed
  <2>1. CASE table = NoMemory /\ reserved = {}
    <3>1. Elements(table) = 0 /\ Capacity = {} /\ Keyed = {} /\ result = 0
      BY <1>1, <2>1, NothingYet DEF IInv
    <3>2. Memory(0) = {}
      BY DEF Memory
    <3>3. /\ Positions(table) = {} /\ table.key = <<>> /\ table.left = <<>> /\ table.right = <<>>
      BY <2>1 DEF Positions, NoMemory
    <3>4. <<>> = [p \in {} |-> p]
      OBVIOUS
    <3>5. \A V : <<>> \in [{} -> V]
      BY <3>4
    <3>6. TypeOK
      BY <2>1, <3>1, <3>2, <3>3, <3>5 DEF TypeOK
    <3> QED
      BY <3>1, <3>6 DEF WellFormed, EveryKeyFound, HeapOrdered
  <2>2. CASE \E n, K, fl : Filled(table, n, K, reserved, fl)
    <3>1. PICK n, K, fl : Filled(table, n, K, reserved, fl)
      BY <2>2
    <3>2. /\ Elements(table) = n /\ Capacity = 1 .. n - 1 /\ Keyed = K
          /\ Capacity = Memory(n) \ {0} /\ Positions(table) = Memory(n) /\ 0 \in Memory(n)
          /\ \A p \in K : table.key[p] \in Keys
      BY <3>1, StateIs, FilledFacts
    <3>3. /\ IsFiniteSet(Memory(n)) /\ K \in SUBSET Memory(n) /\ table \in TableOver(Memory(n))
          /\ TreapAt(table, table.right[0], K) /\ 0 \notin K
      BY <3>1 DEF Filled, Laid
    <3>4. TypeOK
      <4>1. reserved \subseteq Capacity /\ table.key \in [Memory(n) -> Keys \cup {empty}]
        BY <3>1, <3>2 DEF Filled
      <4>2. table.left \in [Memory(n) -> Memory(n)] /\ table.right \in [Memory(n) -> Memory(n)]
        BY <3>3 DEF TableOver
      <4> QED
        BY <1>1, <3>2, <4>1, <4>2 DEF TypeOK, IInv
    <3>5. EveryKeyFound
      <4> SUFFICES ASSUME NEW p, p \in K PROVE lookup(table, table.key[p]) = p
        BY <3>2 DEF EveryKeyFound
      <4>1. table.key[p] \in Nat
        BY <3>2, TreapAssumption
      <4>2. IsPlace(table, K, table.key[p], lookup(table, table.key[p]))
        BY <3>1, <4>1, LookupIs
      <4>3. \A q \in K : table.key[q] = table.key[p] => q = p
        BY <3>3, KeysDiffer
      <4> QED
        BY <4>2, <4>3 DEF IsPlace
    <3>6. HeapOrdered
      BY <3>2, <3>3, ChildrenRankLower DEF HeapOrdered
    <3> QED
      BY <3>4, <3>5, <3>6 DEF WellFormed
  <2> QED
    BY <1>1, <2>1, <2>2 DEF IInv
<1> QED
  BY <1>1, IInvHolds, PTL

LEMMA FreeListFacts ==
  ASSUME IInv, Used
  PROVE  /\ Members(FreeList(table)) = Idle
         /\ Cardinality(Idle) = Len(FreeList(table)) /\ Len(FreeList(table)) \in Nat
<1>1. PICK n, K, fl : Filled(table, n, K, reserved, fl)
  BY NothingYet DEF IInv
<1>2. /\ Laid(table, Memory(n), K, fl) /\ fl \in Seq(Memory(n) \ {0})
      /\ \A i, j \in 1 .. Len(fl) : fl[i] = fl[j] => i = j
  BY <1>1 DEF Filled, Laid, Threaded
<1>3. FreeList(table) = fl
  BY <1>2, FreeListIs
<1>4. Idle = Members(fl)
  BY <1>1, StateIs
<1>5. Cardinality(Members(fl)) = Len(fl) /\ Len(fl) \in Nat
  BY <1>2, CountMembers
<1> QED
  BY <1>3, <1>4, <1>5

(* The free list shares the field `left` with the tree; delete               *)
(* (treap.zig:242), in the middle of a removal's rotations, puts a position  *)
(* on it, nextFree (107) takes one, extend (58) appends: at any time it      *)
(* holds exactly the positions without key and reservation, once each.       *)
THEOREM FreeListIsExact == Spec => []FreeListExact
<1>1. ASSUME IInv PROVE FreeListExact
  <2> SUFFICES ASSUME Used
               PROVE  LET fl == FreeList(table)
                      IN /\ {fl[i] : i \in DOMAIN fl} = Idle
                         /\ Len(fl) = Cardinality(Idle)
    BY DEF FreeListExact
  <2> DEFINE fl == FreeList(table)
  <2>1. Members(fl) = Idle /\ Cardinality(Idle) = Len(fl)
    BY <1>1, FreeListFacts
  <2>2. DOMAIN fl = 1 .. Len(fl)
    <3>1. PICK n, K, gl : Filled(table, n, K, reserved, gl)
      BY <1>1, NothingYet DEF IInv
    <3>2. gl = fl /\ gl \in Seq(Memory(n) \ {0})
      BY <3>1, FreeListIs DEF Filled, Laid, Threaded
    <3> HIDE DEF fl
    <3> QED
      BY <3>2, LenProperties
  <2> HIDE DEF fl
  <2>3. {fl[i] : i \in DOMAIN fl} = Idle /\ Len(fl) = Cardinality(Idle)
    BY <2>1, <2>2 DEF Members
  <2> QED
    BY <2>3 DEF fl
<1> QED
  BY <1>1, IInvHolds, PTL

(* hasRoom (treap.zig:90), which counts along the free list, never promises  *)
(* an insertion that would meet error.OutOfSpace and never denies one.       *)
THEOREM RoomIsAsPromised == Spec => []RoomAsPromised
<1>1. ASSUME IInv PROVE RoomAsPromised
  <2> SUFFICES ASSUME Used, NEW n \in 0 .. Elements(table)
               PROVE  hasRoom(table, n) <=> n <= Cardinality(Idle)
    BY DEF RoomAsPromised
  <2>1. Cardinality(Idle) = Len(FreeList(table)) /\ Len(FreeList(table)) \in Nat
    BY <1>1, FreeListFacts
  <2>2. hasRoom(table, n) <=> Len(FreeList(table)) >= n
    BY DEF hasRoom, Used
  <2> QED
    BY <2>1, <2>2
<1> QED
  BY <1>1, IInvHolds, PTL

(* The key lessEqual (treap.zig:135) returns on its way down, the last       *)
(* smaller one it passed, is the greatest of the table that is not above k.  *)
THEOREM LessEqualIsTheFloor == Spec => []LessEqualIsFloor
<1>1. ASSUME IInv PROVE LessEqualIsFloor
  <2> SUFFICES ASSUME Used, NEW k \in Keys
               PROVE  LET below == {p \in Keyed : table.key[p] <= k}
                          p == lessEqual(table, k)
                      IN IF below = {} THEN p = 0
                         ELSE p \in below /\ \A q \in below : table.key[q] <= table.key[p]
    BY DEF LessEqualIsFloor
  <2>1. PICK n, K, fl : Filled(table, n, K, reserved, fl)
    BY <1>1, NothingYet DEF IInv
  <2>2. Keyed = K /\ k \in Nat
    BY <2>1, StateIs, TreapAssumption
  <2>3. /\ Laid(table, Memory(n), K, fl) /\ IsFiniteSet(Memory(n)) /\ K \in SUBSET Memory(n)
        /\ TreapAt(table, root(table), K)
    BY <2>1 DEF Filled, Laid, root
  <2>4. PICK rank, N : Ranked(table, Memory(n), rank, N)
    BY <2>3, LaidIsRanked
  <2>5. IsFloor(table, K, k, 0, lessEqual(table, k))
    BY <2>2, <2>3, <2>4, LessEqualFinds
  <2> QED
    BY <2>2, <2>5 DEF IsFloor
<1> QED
  BY <1>1, IInvHolds, PTL

-----------------------------------------------------------------------------
(* The users' view. *)

KeysAt(t, K) == {t.key[p] : p \in K}

(* s gives every key of K its position.                                      *)
IsSlots(t, K, s) ==
  /\ s = [k \in KeysAt(t, K) |-> s[k]] /\ DOMAIN s = KeysAt(t, K)
  /\ \A p \in K : s[t.key[p]] = p
  /\ {s[k] : k \in DOMAIN s} = K

LEMMA SlotsAre ==
  ASSUME NEW t, NEW n, NEW K, NEW R, NEW fl, Filled(t, n, K, R, fl)
  PROVE  IsSlots(t, K, SlotOf(t, K))
<1> DEFINE s == SlotOf(t, K)
<1>1. s = [k \in KeysAt(t, K) |-> CHOOSE p \in K : t.key[p] = k]
  BY DEF SlotOf, KeysAt
<1> HIDE DEF s
<1>2. \A p, q \in K : t.key[p] = t.key[q] => p = q
  <2>1. IsFiniteSet(Memory(n)) /\ K \in SUBSET Memory(n) /\ TreapAt(t, t.right[0], K)
    BY DEF Filled, Laid
  <2> QED
    BY <2>1, KeysDiffer
<1>3. ASSUME NEW p \in K PROVE s[t.key[p]] = p
  <2>1. t.key[p] \in KeysAt(t, K)
    BY DEF KeysAt
  <2>2. s[t.key[p]] = CHOOSE q \in K : t.key[q] = t.key[p]
    BY <1>1, <2>1
  <2> QED
    BY <1>2, <2>2
<1>4. {s[k] : k \in DOMAIN s} = K
  <2>1. \A k \in DOMAIN s : \E p \in K : k = t.key[p]
    BY <1>1 DEF KeysAt
  <2>2. \A p \in K : t.key[p] \in DOMAIN s
    BY <1>1 DEF KeysAt
  <2> QED
    BY <1>3, <2>1, <2>2
<1> QED
  BY <1>1, <1>3, <1>4 DEF IsSlots, s

(* Functions that agree.                                                     *)
LEMMA SameSlots ==
  ASSUME NEW t, NEW K, NEW s, IsSlots(t, K, s), NEW D, KeysAt(t, K) = D,
         NEW f, f = [k \in D |-> f[k]], \A p \in K : f[t.key[p]] = p
  PROVE  s = f
<1>1. \A k \in D : s[k] = f[k]
  BY DEF IsSlots, KeysAt
<1>2. s = [k \in D |-> s[k]]
  BY DEF IsSlots
<1> QED
  BY <1>1, <1>2

LEMMA InitRefines == Init => Slots!Init
<1> SUFFICES ASSUME Init PROVE Slots!Init
  OBVIOUS
<1>1. Elements(table) = 0 /\ Keyed = {}
  BY NothingYet DEF Init
<1>2. SlotOf(table, {}) = <<>>
  BY DEF SlotOf
<1> QED
  BY <1>1, <1>2 DEF Init, Slots!Init

(* The slots that are not used are the free positions.                       *)
LEMMA UnusedIs ==
  ASSUME NEW n, NEW K, NEW fl, Filled(table, n, K, reserved, fl)
  PROVE  Slots!Unused = Members(fl) /\ IsSlots(table, K, SlotOf(table, Keyed)) /\ Keyed = K
<1>1. /\ Elements(table) = n /\ Capacity = 1 .. n - 1 /\ Keyed = K
      /\ Idle = Members(fl)
  BY StateIs
<1>2. IsSlots(table, K, SlotOf(table, Keyed))
  BY <1>1, SlotsAre
<1>3. Slots!Used = K \cup reserved
  BY <1>2 DEF Slots!Used, IsSlots
<1>4. Slots!Unused = Members(fl)
  BY <1>1, <1>3 DEF Slots!Unused, Idle
<1> QED
  BY <1>1, <1>2, <1>4

LEMMA NextRefines == IInv /\ [Next]_vars => [Slots!Next]_Slots!vars
<1> SUFFICES ASSUME IInv, [Next]_vars PROVE [Slots!Next]_Slots!vars
  OBVIOUS
<1> DEFINE s == SlotOf(table, Keyed)
           z == SlotOf(table', Keyed')
<1>1. ASSUME table' = table PROVE z = s /\ Elements(table') = Elements(table)
  BY <1>1 DEF Keyed, Capacity
<1>2. ASSUME Used
      PROVE  \E n, K, fl : Filled(table, n, K, reserved, fl)
  BY <1>2, NothingYet DEF IInv
<1>3. ASSUME NEW n, NEW K, NEW R, NEW fl, Filled(table', n, K, R, fl)
      PROVE  IsSlots(table', K, z) /\ Elements(table') = n
  <2>1. /\ Elements(table') = n /\ K = {p \in 1 .. n - 1 : table'.key[p] # empty}
    BY <1>3, FilledFacts
  <2>2. Keyed' = K
    BY <2>1 DEF Keyed, Capacity
  <2> QED
    BY <1>3, <2>1, <2>2, SlotsAre
<1>4. ASSUME NEW k \in Keys, insertNew(k) PROVE Slots!Insert(k)
  <2>1. PICK n, K, fl : Filled(table, n, K, reserved, fl)
    BY <1>2, <1>4 DEF insertNew
  <2> DEFINE a == free(table)
             f == [j \in DOMAIN s \cup {k} |-> IF j = k THEN a ELSE s[j]]
  <2>2. /\ lookup(table, k) = 0 /\ a # 0 /\ table' = inserted(table, k)
        /\ result' = a /\ reserved' = reserved
    BY <1>4 DEF insertNew
  <2>3. Lacks(table, K, k)
    <3>1. k \in Nat /\ 0 \notin K
      BY <2>1, TreapAssumption DEF Filled, Laid
    <3> QED
      BY <2>1, <2>2, <3>1, LookupIs DEF IsPlace, Lacks
  <2>4. KeyIn(table, table', n, K, reserved, fl, a, k)
    BY <2>1, <2>2, <2>3, FilledInserted
  <2>5. Slots!Unused = Members(fl) /\ IsSlots(table, K, s)
    BY <2>1, UnusedIs
  <2>6. PICK rest : Filled(table', n, K \cup {a}, reserved, rest)
    BY <2>4 DEF KeyIn
  <2>7. IsSlots(table', K \cup {a}, z) /\ Elements(table') = n /\ Elements(table) = n
    BY <1>3, <2>1, <2>6, StateIs
  <2> HIDE DEF s, z, a
  <2>8. a \in Members(fl) /\ a \notin K
        /\ table'.key[a] = k /\ \A p \in K : table'.key[p] = table.key[p]
    <3>1. a \in Members(fl) /\ table'.key = [table.key EXCEPT ![a] = k]
      BY <2>4 DEF KeyIn
    <3>2. a \notin K /\ a \in Memory(n) /\ K \subseteq Memory(n) /\ table.key \in [Memory(n) -> Keys \cup {empty}]
      BY <2>1, <3>1 DEF Filled, Laid
    <3> QED
      BY <3>1, <3>2
  <2>9. k \notin DOMAIN s
    BY <2>3, <2>5 DEF IsSlots, KeysAt, Lacks
  <2>10. KeysAt(table', K \cup {a}) = DOMAIN s \cup {k}
    <3>1. DOMAIN s = KeysAt(table, K)
      BY <2>5 DEF IsSlots
    <3> QED
      BY <2>8, <3>1 DEF KeysAt
  <2>11. \A p \in K \cup {a} : f[table'.key[p]] = p
    <3>1. \A p \in K : table.key[p] \in DOMAIN s /\ s[table.key[p]] = p
      BY <2>5 DEF IsSlots, KeysAt
    <3> QED
      BY <2>8, <2>9, <3>1
  <2>12. z = f
    <3>1. f = [j \in DOMAIN s \cup {k} |-> f[j]]
      OBVIOUS
    <3> HIDE DEF f
    <3> QED
      BY <2>7, <2>10, <2>11, <3>1, SameSlots
  <2> QED
    BY <2>2, <2>5, <2>7, <2>8, <2>9, <2>12 DEF Slots!Insert, s, z
<1>5. ASSUME NEW k \in Keys, insertExisting(k) PROVE Slots!Find(k)
  <2>1. PICK n, K, fl : Filled(table, n, K, reserved, fl)
    BY <1>2, <1>5 DEF insertExisting
  <2>2. /\ lookup(table, k) # 0 /\ result' = lookup(table, k)
        /\ table' = table /\ reserved' = reserved
    BY <1>5 DEF insertExisting
  <2>3. k \in Nat
    BY TreapAssumption
  <2>4. result' \in K /\ table.key[result'] = k
    BY <2>1, <2>2, <2>3, LookupIs DEF IsPlace
  <2>5. IsSlots(table, K, s)
    BY <2>1, UnusedIs
  <2> HIDE DEF s, z
  <2>6. k \in DOMAIN s /\ s[k] = result'
    BY <2>4, <2>5 DEF IsSlots, KeysAt
  <2>7. z = s /\ Elements(table') = Elements(table)
    BY <1>1, <2>2
  <2> QED
    BY <2>2, <2>6, <2>7 DEF Slots!Find, s, z
<1>6. ASSUME NEW k, OutOfSpace(k) PROVE Slots!Refuse
  <2>1. PICK n, K, fl : Filled(table, n, K, reserved, fl)
    BY <1>2, <1>6 DEF OutOfSpace
  <2>2. free(table) = 0 /\ result' = 0 /\ table' = table /\ reserved' = reserved
    BY <1>6 DEF OutOfSpace
  <2>3. Slots!Unused = {}
    BY <2>1, <2>2, FreeIs, UnusedIs
  <2>4. z = s /\ Elements(table') = Elements(table)
    BY <1>1, <2>2
  <2> QED
    BY <2>2, <2>3, <2>4 DEF Slots!Refuse
<1>7. ASSUME nextFree PROVE Slots!Reserve \/ Slots!Refuse
  <2>1. CASE OutOfSpace(empty)
    BY <1>6, <2>1
  <2>2. CASE ~OutOfSpace(empty)
    <3>1. /\ Used /\ free(table) # 0 /\ table' = Taken(table)
          /\ reserved' = reserved \cup {free(table)} /\ result' = free(table)
      BY <1>7, <2>2 DEF nextFree
    <3>2. PICK n, K, fl : Filled(table, n, K, reserved, fl)
      BY <1>2, <3>1
    <3>3. PICK rest : Filled(table', n, K, reserved', rest)
      BY <3>1, <3>2, FilledTaken
    <3>4. free(table) \in Members(fl) /\ table'.key = table.key
      BY <3>1, <3>2, FilledTaken
    <3>5. Slots!Unused = Members(fl) /\ IsSlots(table, K, s)
      BY <3>2, UnusedIs
    <3>6. IsSlots(table', K, z) /\ Elements(table') = n /\ Elements(table) = n
      BY <1>3, <3>2, <3>3, StateIs
    <3> HIDE DEF s, z
    <3>7. z = s
      <4>1. KeysAt(table', K) = KeysAt(table, K)
        BY <3>4 DEF KeysAt
      <4>2. s = [k \in KeysAt(table, K) |-> s[k]] /\ \A p \in K : s[table'.key[p]] = p
        BY <3>4, <3>5 DEF IsSlots
      <4> QED
        BY <3>6, <4>1, <4>2, SameSlots
    <3>8. Slots!Reserve
      BY <3>1, <3>4, <3>5, <3>6, <3>7 DEF Slots!Reserve, s, z
    <3> QED
      BY <3>8
  <2> QED
    BY <2>1, <2>2
<1>8. ASSUME NEW k \in Keys, remove(k) PROVE Slots!Remove(k)
  <2>1. PICK n, K, fl : Filled(table, n, K, reserved, fl)
    BY <1>2, <1>8 DEF remove
  <2>2. table' = removed(table, k) /\ reserved' = reserved /\ result' = result
    BY <1>8 DEF remove
  <2>3. IsSlots(table, K, s) /\ Elements(table) = n
    BY <2>1, UnusedIs, StateIs
  <2> DEFINE f == [j \in DOMAIN s \ {k} |-> s[j]]
  <2>4. z = f /\ Elements(table') = n
    <3>1. CASE \E q \in K : table.key[q] = k
      <4>1. PICK q \in K : table.key[q] = k
        BY <3>1
      <4>2. KeyOut(table, table', n, K, reserved, q)
        BY <2>1, <2>2, <4>1, FilledRemoved
      <4>3. PICK xl : Filled(table', n, K \ {q}, reserved, xl)
        BY <4>2 DEF KeyOut
      <4>4. IsSlots(table', K \ {q}, z) /\ Elements(table') = n
        BY <1>3, <4>3
      <4> HIDE DEF s, z
      <4>5. \A p \in K \ {q} : table'.key[p] = table.key[p]
        <5>1. K \subseteq Memory(n) /\ table.key \in [Memory(n) -> Keys \cup {empty}]
          BY <2>1 DEF Filled, Laid
        <5> QED
          BY <4>2, <5>1 DEF KeyOut
      <4>6. \A p \in K : table.key[p] \in DOMAIN s /\ s[table.key[p]] = p
        BY <2>3 DEF IsSlots, KeysAt
      <4>7. \A p \in K \ {q} : table.key[p] # k
        BY <4>1, <4>6
      <4>8. KeysAt(table', K \ {q}) = DOMAIN s \ {k}
        <5>1. DOMAIN s = KeysAt(table, K)
          BY <2>3 DEF IsSlots
        <5> QED
          BY <4>1, <4>5, <4>7, <5>1 DEF KeysAt
      <4>9. \A p \in K \ {q} : f[table'.key[p]] = p
        BY <4>5, <4>6, <4>7
      <4>10. f = [j \in DOMAIN s \ {k} |-> f[j]]
        OBVIOUS
      <4> HIDE DEF f
      <4> QED
        BY <4>4, <4>8, <4>9, <4>10, SameSlots
    <3>2. CASE \A q \in K : table.key[q] # k
      <4>1. Laid(table, Memory(n), K, fl) /\ k \in Nat
        BY <2>1, TreapAssumption DEF Filled
      <4>2. table' = table
        BY <2>2, <3>2, <4>1, RemovedNothing DEF Lacks
      <4>3. z = s /\ Elements(table') = n
        BY <1>1, <2>3, <4>2
      <4> HIDE DEF s, z
      <4>4. k \notin DOMAIN s /\ s = [j \in DOMAIN s |-> s[j]]
        BY <2>3, <3>2 DEF IsSlots, KeysAt
      <4>5. DOMAIN s \ {k} = DOMAIN s
        BY <4>4
      <4> QED
        BY <4>3, <4>4, <4>5
    <3> QED
      BY <3>1, <3>2
  <2> HIDE DEF s, z
  <2> QED
    BY <2>2, <2>3, <2>4 DEF Slots!Remove, s, z
<1>9. ASSUME NEW n \in Sizes, Resize(n) PROVE Slots!Resize
  <2>1. /\ table' = resize(table, n) /\ reserved' = reserved /\ result' = result
        /\ n > Elements(table) /\ n \in Nat /\ 0 < n
    BY <1>9, TreapAssumption DEF Resize
  <2>2. z = s /\ Elements(table') = n
    <3>1. CASE table = NoMemory /\ reserved = {}
      <4>1. PICK xl : Filled(table', n, {}, {}, xl)
        BY <2>1, <3>1, FilledFirst
      <4>2. IsSlots(table', {}, z) /\ Elements(table') = n
        BY <1>3, <4>1
      <4>3. s = [k \in {} |-> k]
        BY <3>1, NothingYet DEF SlotOf
      <4> HIDE DEF s, z
      <4>4. z = [k \in {} |-> k]
        <5>1. DOMAIN z = {} /\ z = [k \in DOMAIN z |-> z[k]]
          BY <4>2 DEF IsSlots, KeysAt
        <5> QED
          BY <5>1
      <4> QED
        BY <4>2, <4>3, <4>4
    <3>2. CASE \E m, K, fl : Filled(table, m, K, reserved, fl)
      <4>1. PICK m, K, fl : Filled(table, m, K, reserved, fl)
        BY <3>2
      <4>2. Elements(table) = m
        BY <4>1, StateIs
      <4>3. m < n
        BY <2>1, <4>1, <4>2, FilledFacts
      <4>4. /\ \E xl : Filled(table', n, K, reserved, xl)
            /\ \A p \in K : table'.key[p] = table.key[p]
        BY <2>1, <4>1, <4>3, FilledResized
      <4>5. IsSlots(table', K, z) /\ Elements(table') = n /\ IsSlots(table, K, s)
        BY <1>3, <4>1, <4>4, UnusedIs
      <4> HIDE DEF s, z
      <4>6. KeysAt(table', K) = KeysAt(table, K)
        BY <4>4 DEF KeysAt
      <4>7. s = [k \in KeysAt(table, K) |-> s[k]] /\ \A p \in K : s[table'.key[p]] = p
        BY <4>4, <4>5 DEF IsSlots
      <4>8. z = s
        BY <4>5, <4>6, <4>7, SameSlots
      <4> QED
        BY <4>5, <4>8
    <3> QED
      BY <3>1, <3>2 DEF IInv
  <2> HIDE DEF s, z
  <2> QED
    BY <2>1, <2>2 DEF Slots!Resize, s, z
<1>10. ASSUME UNCHANGED vars PROVE UNCHANGED Slots!vars
  BY <1>1, <1>10 DEF vars, Slots!vars
<1> HIDE DEF s, z
<1> QED
  BY <1>4, <1>5, <1>6, <1>7, <1>8, <1>9, <1>10 DEF Next, insert, Slots!Next

(* The users of the treap, symbols and classes by position, see keys that    *)
(* keep their slots whatever else is inserted, removed, reserved or copied   *)
(* to larger memory; a slot has one key; and insert and nextFree             *)
(* (treap.zig:107, 147) refuse only if every slot is used.                   *)
THEOREM IsASlotTable == Spec => ImplementsSlotTable
<1>1. Init => Slots!Init
  BY InitRefines
<1>2. IInv /\ [Next]_vars => [Slots!Next]_Slots!vars
  BY NextRefines
<1> QED
  BY <1>1, <1>2, IInvHolds, PTL DEF Spec, Slots!Spec, ImplementsSlotTable

-----------------------------------------------------------------------------
(* The symbol table, from here on: strings in an array treap, for any        *)
(* strings, lists and memory sizes, and one process.                         *)
(*                                                                           *)
(* Its state is that of a call in progress (State): memory of n elements of  *)
(* which the first m have a string and the others are free in their order,   *)
(* a stack of loads of which only the innermost has begun, and room for all  *)
(* that is still missing.  The initial strings come first and in one go.     *)

(* Memory grows: the doubled size, rounded to a power of two. *)
IsDoubling(n, f) == f = [w \in 1 .. 2 * n + 1 |-> IF w >= n THEN w ELSE f[2 * w]]

LEMMA PowerIsLarger ==
  ASSUME NEW n \in Nat
  PROVE  largerPowerOf2(n) \in Nat /\ largerPowerOf2(n) >= n /\ largerPowerOf2(n) > 0
<1> DEFINE from == CHOOSE f : IsDoubling(n, f)
           D == 1 .. 2 * n + 1
           V == {v \in Nat : v >= n /\ v > 0}
           Ends == {w \in D : w >= n}
           next == [w \in D |-> IF w >= n THEN w ELSE 2 * w]
           rank == [w \in D |-> 2 * n + 1 - w]
           base == [w \in D |-> IF w >= n THEN w ELSE n + 1]
           step == [w \in D |-> [v \in V |-> v]]
<1>1. Falls(D, next, Ends, rank)
  <2>1. next \in [D -> D] /\ rank \in [D -> Nat]
    OBVIOUS
  <2>2. \A w \in D \ Ends : rank[next[w]] < rank[w]
    OBVIOUS
  <2> QED
    BY <2>1, <2>2 DEF Falls
<1>2. \A w \in D : rank[w] < 2 * n + 1
  OBVIOUS
<1>3. base \in [D -> V] /\ step \in [D -> [V -> V]] /\ 2 * n + 1 \in Nat
  OBVIOUS
<1>4. PICK f : Recurs(f, D, V, next, Ends, base, step)
  <2> HIDE DEF D, V, Ends, next, rank, base, step
  <2> QED
    BY <1>1, <1>2, <1>3, Recursion
<1>5. IsDoubling(n, f)
  <2>1. f = [w \in D |-> f[w]]
    BY <1>4 DEF Recurs
  <2>2. ASSUME NEW w \in D PROVE f[w] = IF w >= n THEN w ELSE f[2 * w]
    <3>1. f[w] = IF w \in Ends THEN base[w] ELSE step[w][f[next[w]]]
      <4> HIDE DEF D, V, Ends, next, rank, base, step
      <4> QED
        BY <1>4 DEF Recurs
    <3>2. CASE w >= n
      BY <3>1, <3>2
    <3>3. CASE ~(w >= n)
      <4>1. next[w] = 2 * w /\ 2 * w \in D /\ w \notin Ends
        BY <3>3
      <4>2. f[2 * w] \in V
        BY <4>1, <1>4 DEF Recurs
      <4> QED
        BY <3>1, <3>3, <4>1, <4>2
    <3> QED
      BY <3>2, <3>3
  <2> QED
    BY <2>1, <2>2 DEF IsDoubling
<1>6. IsDoubling(n, from)
  <2> HIDE DEF D, V, Ends, next, rank, base, step
  <2> QED
    BY <1>5, Zenon
<1>7. largerPowerOf2(n) = from[1]
  BY DEF largerPowerOf2, IsDoubling
<1> HIDE DEF from
<1>8. from[1] \in V
  <2> DEFINE Good == {w \in D : from[w] \in V}
  <2>1. ASSUME NEW w \in D, w \in Ends \/ next[w] \in Good PROVE w \in Good
    <3>1. CASE w >= n
      BY <3>1, <1>6 DEF IsDoubling
    <3>2. CASE ~(w >= n)
      BY <3>2, <2>1, <1>6 DEF IsDoubling
    <3> QED
      BY <3>1, <3>2
  <2>2. D \subseteq Good
    <3> HIDE DEF D, V, Ends, next, rank, Good
    <3> QED
      BY <1>1, <2>1, AlongLinks
  <2>3. 1 \in D
    OBVIOUS
  <2> QED
    BY <2>2, <2>3
<1> QED
  BY <1>7, <1>8

(* Every enlargement of the symbol table adds an element at least.           *)
LEMMA GrowSizeIsLarger ==
  ASSUME NEW n \in Nat
  PROVE  growSize(n) \in Nat /\ growSize(n) > n
<1> DEFINE words == largerPowerOf2(WordsOf(n) * 2)
<1>1. WordsOf(n) * 2 \in Nat /\ WordsOf(n) * 2 = 4 * n
  BY DEF WordsOf
<1>2. words \in Nat /\ words >= 4 * n /\ words > 0
  BY <1>1, PowerIsLarger
<1> HIDE DEF words
<1>3. MaxLength \in Nat \ {0}
  BY SymbolTableAssumption
<1>4. growSize(n) = ElementsIn(IF words > MaxLength - 4 /\ words < MaxLength * 2 - 8 THEN MaxLength
                               ELSE words)
  BY DEF growSize, words
<1>6. CASE words > MaxLength - 4 /\ words < MaxLength * 2 - 8
  BY <1>2, <1>3, <1>4, <1>6 DEF ElementsIn
<1>7. CASE ~(words > MaxLength - 4 /\ words < MaxLength * 2 - 8)
  BY <1>2, <1>3, <1>4, <1>7 DEF ElementsIn
<1> QED
  BY <1>6, <1>7

(* Numbers of 24 bits. *)
Wrap24 == 4096 * 4096
Bits24 == {m \in Nat : m < Wrap24}

(* The product of two of them modulo 2^24, by halves.                        *)
LEMMA WrappingTimes ==
  ASSUME NEW m \in Bits24, NEW c \in Bits24
  PROVE  TimesWrapping(m, c) \in Bits24 /\ \E z \in Int : m * c = TimesWrapping(m, c) + Wrap24 * z
<1> DEFINE a == Low(m)
           b == High(m)
           l == Low(c)
           h == High(c)
           y == b * l + a * h
           s == a * l + Low(y) * 4096
<1>1. a \in 0 .. 4095 /\ b \in 0 .. 4095 /\ m = 4096 * b + a
  BY DEF Low, High, Bits24, Wrap24
<1>2. l \in 0 .. 4095 /\ h \in 0 .. 4095 /\ c = 4096 * h + l
  BY DEF Low, High, Bits24, Wrap24
<1>3. TimesWrapping(m, c) = s % Wrap24
  BY DEF TimesWrapping, Wrap24
<1> HIDE DEF a, b, l, h
<1>4. b * l \in Int /\ a * h \in Int /\ a * l \in Int /\ b * h \in Int
  BY <1>1, <1>2
<1>5. y \in Int /\ Low(y) \in Int /\ High(y) \in Int /\ y = 4096 * High(y) + Low(y)
  BY <1>4 DEF Low, High
<1>6. m * c = Wrap24 * (b * h) + 4096 * y + a * l
  <2>1. m * c = (4096 * b + a) * (4096 * h + l)
    BY <1>1, <1>2
  <2>2. (4096 * b + a) * (4096 * h + l)
          = 4096 * 4096 * (b * h) + 4096 * (b * l) + 4096 * (a * h) + a * l
    BY <1>1, <1>2
  <2> QED
    BY <2>1, <2>2, <1>4 DEF Wrap24
<1> HIDE DEF y
<1>7. s \in Int
  BY <1>4, <1>5
<1>8. m * c = s + Wrap24 * (b * h + High(y))
  BY <1>4, <1>5, <1>6 DEF Wrap24
<1> HIDE DEF s
<1> DEFINE q == s \div Wrap24
           r == s % Wrap24
<1>9. q \in Int /\ r \in Bits24
  BY <1>7 DEF Wrap24, Bits24
<1>10. q = s \div (4096 * 4096) /\ r = s % (4096 * 4096)
  BY DEF Wrap24
<1>11. TimesWrapping(m, c) = r
  BY <1>3
<1> HIDE DEF q, r
<1>12. s = Wrap24 * q + r
  BY <1>7, <1>10 DEF Wrap24
<1>13. b * h + High(y) + q \in Int /\ m * c = r + Wrap24 * (b * h + High(y) + q)
  <2>1. b * h \in Int /\ High(y) \in Int /\ r \in Int /\ Wrap24 \in Int
    BY <1>4, <1>5, <1>9 DEF Bits24, Wrap24
  <2> QED
    BY <2>1, <1>8, <1>9, <1>12 DEF Wrap24
<1> QED
  BY <1>9, <1>11, <1>13

(* The constant of symbolIndex is the inverse of symbol_of's modulo 2^24.    *)
LEMMA PhiInverse ==
  /\ inversePhi24 \in Bits24 /\ undoPhi24 \in Bits24
  /\ inversePhi24 * undoPhi24 = 1 + Wrap24 * (7270 * 1000 + 814)
BY SMT DEF inversePhi24, undoPhi24, Wrap24, Bits24

(* A symbol has the position its string was interned at, up to 24 bits.      *)
THEOREM SymbolIndexUndone ==
  ASSUME NEW i \in Bits24, NEW a
  PROVE  symbolIndex(symbol_of(i, a)) = i /\ symbol_of(i, a).hash \in Nat
<1> DEFINE k == 7270 * 1000 + 814
           hash == TimesWrapping(i, inversePhi24)
           back == TimesWrapping(hash, undoPhi24)
<1>1. inversePhi24 \in Bits24 /\ undoPhi24 \in Bits24 /\ Wrap24 \in Int
      /\ inversePhi24 \in Int /\ undoPhi24 \in Int /\ k \in Int /\ i \in Int
      /\ inversePhi24 * undoPhi24 = 1 + Wrap24 * k
  BY PhiInverse DEF Bits24, Wrap24
<1> HIDE DEF k
<1>2. hash \in Bits24 /\ \E z \in Int : i * inversePhi24 = hash + Wrap24 * z
  BY <1>1, WrappingTimes
<1>3. back \in Bits24 /\ \E z \in Int : hash * undoPhi24 = back + Wrap24 * z
  <2> HIDE DEF hash
  <2> QED
    BY <1>1, <1>2, WrappingTimes
<1>4. symbolIndex(symbol_of(i, a)) = back /\ symbol_of(i, a).hash = hash
  BY DEF symbolIndex, symbol_of
<1> HIDE DEF hash, back
<1>5. PICK z1 \in Int : i * inversePhi24 = hash + Wrap24 * z1
  BY <1>2
<1>6. PICK z2 \in Int : hash * undoPhi24 = back + Wrap24 * z2
  BY <1>3
<1>7. hash \in Int /\ back \in Int
  BY <1>2, <1>3 DEF Bits24
<1> DEFINE d == z2 + z1 * undoPhi24 - i * k
<1>8. (i * inversePhi24) * undoPhi24 = i + Wrap24 * (i * k)
  <2>1. (i * inversePhi24) * undoPhi24 = i * (inversePhi24 * undoPhi24)
    BY <1>1
  <2>2. i * (1 + Wrap24 * k) = i + Wrap24 * (i * k)
    BY <1>1
  <2> QED
    BY <2>1, <2>2, <1>1
<1>9. (hash + Wrap24 * z1) * undoPhi24 = back + Wrap24 * z2 + Wrap24 * (z1 * undoPhi24)
  <2>1. (hash + Wrap24 * z1) * undoPhi24 = hash * undoPhi24 + Wrap24 * (z1 * undoPhi24)
    BY <1>1, <1>7
  <2> QED
    BY <2>1, <1>6
<1>10. d \in Int /\ i - back = Wrap24 * d
  <2>1. i * k \in Int /\ z1 * undoPhi24 \in Int
    BY <1>1
  <2>2. i + Wrap24 * (i * k) = back + Wrap24 * z2 + Wrap24 * (z1 * undoPhi24)
    BY <1>5, <1>8, <1>9
  <2> QED
    BY <2>1, <2>2, <1>1, <1>7 DEF Wrap24
<1> HIDE DEF d
<1>11. i = back
  BY <1>3, <1>10 DEF Wrap24, Bits24
<1> QED
  BY <1>2, <1>4, <1>11 DEF Bits24

(* 1 for a call that loads a list of its own, below the initial loads.       *)
Own(c) == IF c.op = "load" THEN 1 ELSE 0

Wanted(c) ==
  IF c.op = "intern" THEN {c.arg} ELSE IF c.op = "load" THEN StringsOf(c.arg) ELSE {}

Asked(c) == IF c.op = "intern" THEN 1 ELSE IF c.op = "load" THEN Len(c.arg) ELSE 0

InitialCount == Len(initialSymbolStrings)

(* The loads of a call at depth d, of which only the innermost has begun.    *)
ListAt(c, i) == IF i <= Own(c) THEN c.arg ELSE initialSymbolStrings

LoadAt(c, d, x, i) == [strings |-> ListAt(c, i), next |-> IF i = d THEN x ELSE 1]

Nested(c, d, x) == [i \in 1 .. d |-> LoadAt(c, d, x, i)]

StringAt(c, d, x) == IF d = 0 THEN c.arg ELSE ListAt(c, d)[x]

(* The string x of the load at depth d is one of the caller's and may move.  *)
MovesAt(c, d, x) == d <= Own(c) /\ x \in c.moving

(* Memory of n elements: the first m have a string, the others are free in   *)
(* their order.                                                              *)
FreeFrom(n, m) == [i \in 1 .. n - 1 - m |-> m + i]

Packed(t, n, m) ==
  /\ n \in Nat /\ m \in Nat /\ m < n
  /\ Laid(t, Memory(n), 1 .. m, FreeFrom(n, m))
  /\ \A q \in 1 .. m : t.key[q] \in Strings
  /\ \A q \in Memory(n) \ (1 .. m) : t.key[q] = empty

(* The first strings are the initial ones. *)
Prefix(t, m) == \A q \in 1 .. m : q <= InitialCount => t.key[q] = initialSymbolStrings[q]

NamesIn(t, m) == {t.key[q] : q \in 1 .. m}

(* What may still have to be interned before the call returns. *)
Missing(c, t, m) == (Wanted(c) \cup StringsOf(initialSymbolStrings)) \ NamesIn(t, m)

Symbols(k) == {symbol_of(i, a) : i \in 1 .. k, a \in 0 .. 15}

Known(m) == IF m < InitialCount THEN InitialCount ELSE m

IsCall(c, m) ==
  \/ \E s \in Strings : c = Looks(s) \/ \E v \in SUBSET {1} : c = Interns(s, v)
  \/ \E list \in Loads : \E v \in SUBSET DOMAIN list : c = LoadsAll(list, v)
  \/ \E y \in Symbols(Known(m)) : c = Asks(y)

(* Where a call at l is, depth d and string x, with m strings in t. *)
Stack(l, c, t, m, d, x) ==
  /\ d \in Nat /\ x \in Nat \ {0}
  /\ IF l = "idle" THEN d = 0 ELSE d >= Own(c)
  /\ d = 0 \/ l = "room" => x = 1
  /\ d > 0 => /\ x <= Len(ListAt(c, d)) + 1
              /\ \A j \in 1 .. x - 1 : ListAt(c, d)[j] \in NamesIn(t, m) \/ MovesAt(c, d, j)

(* The initial strings are loaded in one go, before anything else. *)
InOrder(l, c, m, d, x) ==
  m < InitialCount => d > Own(c) /\ (IF l = "room" THEN m = 0 ELSE x = m + 1)

(* A string without a symbol, and an element for it. *)
Pending(l, c, t, n, m, d, x, pos) ==
  /\ pos \in Memory(n)
  /\ l \in {"take", "link"} =>
       /\ pos = m + 1 /\ m + 1 < n
       /\ IF d = 0 THEN c.op = "intern" ELSE x <= Len(ListAt(c, d))
       /\ Lacks(t, 1 .. m, StringAt(c, d, x)) /\ ~MovesAt(c, d, x)

(* Room, once there is some, is enough for all that is missing. *)
Enough(l, c, t, n, m, d, ad) ==
  /\ l = "room" => ad = IF d > Own(c) THEN InitialCount ELSE Asked(c)
  /\ l = "room" /\ m < InitialCount => \E k \in Nat : n = growSize(k)
  /\ l \in {"body", "take", "link"} \/ (l = "room" /\ d > Own(c) /\ m >= InitialCount) =>
       Cardinality(Missing(c, t, m)) <= n - 1 - m

Reply(l, c, m, a) ==
  IF l # "idle" THEN a = NoAnswer
  ELSE IF c.op = "intern" THEN a \in Symbols(m)
  ELSE IF c.op = "lookup" THEN a \in Symbols(m) \cup {Nil}
  ELSE a \in Nat

(* Between Take and Link the tree lacks the element that holds the string. *)
WithString(t, m, s) == [Taken(t) EXCEPT !.key[m + 1] = s]

Taking(l, tr, t, m, s) == tr = IF l = "link" THEN WithString(t, m, s) ELSE t

(* The loads of a call as a sequence. *)
LEMMA NestedIs ==
  ASSUME NEW c, NEW d \in Nat, NEW x
  PROVE  /\ Len(Nested(c, d, x)) = d /\ DOMAIN Nested(c, d, x) = 1 .. d
         /\ Nested(c, d, x) = <<>> <=> d = 0
         /\ d > 0 => /\ Nested(c, d, x)[d].strings = ListAt(c, d)
                     /\ Nested(c, d, x)[d].next = x
<1> DEFINE s == Nested(c, d, x)
<1>1. s = [i \in 1 .. d |-> LoadAt(c, d, x, i)]
  BY DEF Nested
<1> HIDE DEF s
<1>2. s \in Seq({LoadAt(c, d, x, i) : i \in 1 .. d})
  BY <1>1
<1>3. Len(s) = d /\ DOMAIN s = 1 .. d
  BY <1>1, <1>2
<1>4. s = <<>> <=> d = 0
  BY <1>2, <1>3, EmptySeq
<1>5. d > 0 => s[d] = LoadAt(c, d, x, d)
  BY <1>1
<1>6. d > 0 => s[d].strings = ListAt(c, d) /\ s[d].next = x
  BY <1>5 DEF LoadAt
<1> QED
  BY <1>3, <1>4, <1>6 DEF s

SameLoads(s, c, d, x) == s = Nested(c, d, x)

(* An enlargement starts a load of the initial strings. *)
LEMMA LoadStarted ==
  ASSUME NEW c, NEW d \in Nat, d >= Own(c)
  PROVE  SameLoads(Append(Nested(c, d, 1), Load(initialSymbolStrings)), c, d + 1, 1)
<1> DEFINE s == Nested(c, d, 1)
           e == Load(initialSymbolStrings)
           u == Append(s, e)
<1>1. s = [i \in 1 .. d |-> LoadAt(c, d, 1, i)]
  BY DEF Nested
<1>2. e = LoadAt(c, d + 1, 1, d + 1)
  BY DEF Load, LoadAt, ListAt, Own
<1>3. \A i \in 1 .. d : LoadAt(c, d, 1, i) = LoadAt(c, d + 1, 1, i)
  BY DEF LoadAt
<1> HIDE DEF s, e
<1> DEFINE S == {LoadAt(c, d + 1, 1, i) : i \in 1 .. d + 1}
<1>4. s \in Seq(S) /\ e \in S /\ Len(s) = d
  BY <1>1, <1>2, <1>3
<1> HIDE DEF S
<1>5. u \in Seq(S) /\ Len(u) = d + 1 /\ \A i \in 1 .. d : u[i] = s[i]
  BY <1>4
<1>6. u[d + 1] = e
  BY <1>4
<1> HIDE DEF u
<1>7. ASSUME NEW i \in 1 .. d + 1 PROVE u[i] = LoadAt(c, d + 1, 1, i)
  BY <1>1, <1>2, <1>3, <1>5, <1>6
<1>8. u = [i \in 1 .. d + 1 |-> LoadAt(c, d + 1, 1, i)]
  BY <1>5, <1>7
<1> QED
  BY <1>8 DEF SameLoads, Nested, u, s, e

(* A string is interned. *)
LEMMA LoadAdvanced ==
  ASSUME NEW c, NEW d \in Nat \ {0}, NEW x \in Nat
  PROVE  SameLoads([Nested(c, d, x) EXCEPT ![d].next = x + 1], c, d, x + 1)
<1> DEFINE s == Nested(c, d, x)
<1>1. s = [i \in 1 .. d |-> LoadAt(c, d, x, i)]
  BY DEF Nested
<1>2. [s[d] EXCEPT !.next = x + 1] = LoadAt(c, d, x + 1, d)
  BY <1>1 DEF LoadAt
<1>3. \A i \in 1 .. d : i # d => LoadAt(c, d, x, i) = LoadAt(c, d, x + 1, i)
  BY DEF LoadAt
<1> HIDE DEF s
<1> DEFINE u == [s EXCEPT ![d].next = x + 1]
<1>4. u = [i \in 1 .. d |-> IF i = d THEN [s[d] EXCEPT !.next = x + 1] ELSE s[i]]
  BY <1>1
<1>5. ASSUME NEW i \in 1 .. d PROVE (IF i = d THEN [s[d] EXCEPT !.next = x + 1] ELSE s[i])
                                     = LoadAt(c, d, x + 1, i)
  BY <1>1, <1>2, <1>3
<1>6. u = [i \in 1 .. d |-> LoadAt(c, d, x + 1, i)]
  BY <1>4, <1>5
<1> QED
  BY <1>6 DEF SameLoads, Nested, s

(* A load is done. *)
LEMMA LoadEnded ==
  ASSUME NEW c, NEW d \in Nat \ {0}, NEW x \in Nat
  PROVE  SameLoads(SubSeq(Nested(c, d, x), 1, Len(Nested(c, d, x)) - 1), c, d - 1, 1)
<1> DEFINE s == Nested(c, d, x)
           u == SubSeq(s, 1, d - 1)
<1>1. s = [i \in 1 .. d |-> LoadAt(c, d, x, i)] /\ Len(s) = d
  BY NestedIs DEF Nested
<1> HIDE DEF s
<1>2. u = [i \in 1 .. d - 1 |-> s[i]]
  BY <1>1
<1>3. \A i \in 1 .. d - 1 : s[i] = LoadAt(c, d - 1, 1, i)
  BY <1>1 DEF LoadAt
<1>4. u = [i \in 1 .. d - 1 |-> LoadAt(c, d - 1, 1, i)]
  BY <1>2, <1>3
<1> QED
  BY <1>1, <1>4 DEF SameLoads, Nested, s

(* The loads of a call that begins. *)
LEMMA NestedFirst ==
  ASSUME NEW c
  PROVE  /\ c.op # "load" => SameLoads(<<>>, c, 0, 1)
         /\ c.op = "load" => SameLoads(<<Load(c.arg)>>, c, 1, 1)
         /\ SameLoads(<<>>, c, 0, 1)
<1>1. SameLoads(<<>>, c, 0, 1)
  BY DEF SameLoads, Nested
<1>2. ASSUME c.op = "load" PROVE SameLoads(<<Load(c.arg)>>, c, 1, 1)
  <2>1. LoadAt(c, 1, 1, 1) = Load(c.arg)
    BY <1>2 DEF LoadAt, ListAt, Own, Load
  <2>2. <<Load(c.arg)>> = [i \in 1 .. 1 |-> LoadAt(c, 1, 1, i)]
    BY <2>1
  <2> QED
    BY <2>2 DEF SameLoads, Nested
<1> QED
  BY <1>1, <1>2

(* The free list of packed memory. *)
LEMMA FreeFromIs ==
  ASSUME NEW n \in Nat, NEW m \in Nat, m < n
  PROVE  /\ FreeFrom(n, m) \in Seq(Nat) /\ Len(FreeFrom(n, m)) = n - 1 - m
         /\ \A i \in 1 .. n - 1 - m : FreeFrom(n, m)[i] = m + i
         /\ Members(FreeFrom(n, m)) = m + 1 .. n - 1
         /\ m + 1 < n => Tail(FreeFrom(n, m)) = FreeFrom(n, m + 1)
<1> DEFINE s == FreeFrom(n, m)
<1>1. s = [i \in 1 .. n - 1 - m |-> m + i] /\ n - 1 - m \in Nat
  BY DEF FreeFrom
<1> HIDE DEF s
<1>2. s \in Seq(Nat) /\ Len(s) = n - 1 - m
  BY <1>1
<1>3. \A i \in 1 .. n - 1 - m : s[i] = m + i
  BY <1>1
<1>4. Members(s) = m + 1 .. n - 1
  <2>1. ASSUME NEW q \in m + 1 .. n - 1 PROVE q \in Members(s)
    <3>1. q - m \in 1 .. n - 1 - m /\ m + (q - m) = q
      OBVIOUS
    <3> QED
      BY <3>1, <1>2, <1>3 DEF Members
  <2>2. ASSUME NEW q \in Members(s) PROVE q \in m + 1 .. n - 1
    BY <2>2, <1>2, <1>3 DEF Members
  <2> QED
    BY <2>1, <2>2
<1>5. ASSUME m + 1 < n PROVE Tail(s) = FreeFrom(n, m + 1)
  <2>1. Tail(s) = [i \in 1 .. Len(s) - 1 |-> s[i + 1]]
    <3>1. s # <<>>
      BY <1>2, <1>5
    <3>2. /\ Tail(s) \in Seq(Nat) /\ Len(Tail(s)) = Len(s) - 1
          /\ \A i \in 1 .. Len(Tail(s)) : Tail(s)[i] = s[i + 1]
      BY <1>2, <3>1, HeadTailProperties
    <3> DEFINE r == Tail(s)
    <3> HIDE DEF r
    <3>3. r \in Seq(Nat) /\ Len(r) = Len(s) - 1 /\ \A i \in 1 .. Len(r) : r[i] = s[i + 1]
      BY <3>2 DEF r
    <3>4. r = [i \in 1 .. Len(s) - 1 |-> s[i + 1]]
      BY <3>3
    <3> QED
      BY <3>4 DEF r
  <2>2. ASSUME NEW i \in 1 .. n - 1 - (m + 1) PROVE s[i + 1] = m + 1 + i
    <3>1. i + 1 \in 1 .. n - 1 - m /\ m + (i + 1) = m + 1 + i
      OBVIOUS
    <3> QED
      BY <3>1, <1>3
  <2>3. Len(s) - 1 = n - 1 - (m + 1)
    BY <1>2
  <2> QED
    BY <2>1, <2>2, <2>3 DEF FreeFrom
<1> QED
  BY <1>2, <1>3, <1>4, <1>5 DEF s

(* What the operators read of packed memory. *)
LEMMA PackedFacts ==
  ASSUME NEW t, NEW n, NEW m, Packed(t, n, m)
  PROVE  /\ n \in Nat /\ m \in Nat /\ m < n /\ 0 \in Memory(n) /\ 1 .. m \subseteq Memory(n)
         /\ t \in TableOver(Memory(n)) /\ Positions(t) = Memory(n) /\ Elements(t) = n
         /\ t.key \in [Memory(n) -> Strings \cup {empty}]
         /\ \A q \in 1 .. m : t.key[q] \in Strings /\ t.key[q] \in Nat \ {empty}
         /\ free(t) = IF m + 1 < n THEN m + 1 ELSE 0
         /\ FreeList(t) = FreeFrom(n, m)
<1>1. n \in Nat /\ m \in Nat /\ m < n /\ Laid(t, Memory(n), 1 .. m, FreeFrom(n, m))
  BY DEF Packed
<1>2. 0 \in Memory(n) /\ 1 .. m \subseteq Memory(n) /\ Cardinality(Memory(n)) = n
  BY <1>1, MemorySize DEF Memory
<1>3. t \in TableOver(Memory(n)) /\ t.left[0] = IF Len(FreeFrom(n, m)) = 0 THEN 0 ELSE FreeFrom(n, m)[1]
  BY <1>1 DEF Laid, Threaded
<1>4. Positions(t) = Memory(n)
  BY <1>3 DEF TableOver, Positions
<1>5. free(t) = IF m + 1 < n THEN m + 1 ELSE 0
  <2>1. free(t) = t.left[0]
    BY <1>2, <1>4 DEF free
  <2>2. Len(FreeFrom(n, m)) = n - 1 - m /\ (m + 1 < n => FreeFrom(n, m)[1] = m + 1)
    BY <1>1, FreeFromIs
  <2> QED
    BY <1>1, <1>3, <2>1, <2>2
<1>6. \A q \in 1 .. m : t.key[q] \in Strings /\ t.key[q] \in Nat \ {empty}
  BY SymbolTableAssumption DEF Packed
<1>7. t.key \in [Memory(n) -> Strings \cup {empty}]
  <2>1. \A q \in Memory(n) : t.key[q] \in Strings \cup {empty}
    BY <1>6 DEF Packed
  <2> QED
    BY <2>1, <1>3 DEF TableOver
<1>8. FreeList(t) = FreeFrom(n, m)
  BY <1>1, FreeListIs
<1> QED
  BY <1>1, <1>2, <1>3, <1>4, <1>5, <1>6, <1>7, <1>8 DEF Elements

(* hasRoom counts the elements behind the strings. *)
LEMMA PackedRoom ==
  ASSUME NEW t, NEW n, NEW m, Packed(t, n, m), NEW k \in Nat
  PROVE  hasRoom(t, k) <=> k <= n - 1 - m
<1>1. n \in Nat /\ m \in Nat /\ m < n /\ Elements(t) = n /\ FreeList(t) = FreeFrom(n, m)
  BY PackedFacts
<1>2. Len(FreeFrom(n, m)) = n - 1 - m
  BY <1>1, FreeFromIs
<1> QED
  BY <1>1, <1>2 DEF hasRoom

(* lookup finds each of its strings. *)
LEMMA PackedLookup ==
  ASSUME NEW t, NEW n, NEW m, Packed(t, n, m), NEW k \in Nat
  PROVE  IsPlace(t, 1 .. m, k, lookup(t, k))
<1>1. Laid(t, Memory(n), 1 .. m, FreeFrom(n, m))
  BY DEF Packed
<1>2. PICK rank, N : Ranked(t, Memory(n), rank, N)
  BY <1>1, LaidIsRanked
<1>3. IsFiniteSet(Memory(n)) /\ 1 .. m \in SUBSET Memory(n) /\ TreapAt(t, root(t), 1 .. m)
  BY <1>1 DEF Laid, root
<1> QED
  BY <1>2, <1>3, LookupFinds

(* v has the strings of t, in memory of n elements. *)
Moved(t, v, n, m) == Packed(v, n, m) /\ \A q \in 1 .. m : v.key[q] = t.key[q]

(* An enlargement keeps the strings at their positions. *)
LEMMA PackedMoved ==
  ASSUME NEW t, NEW k, NEW m, Packed(t, k, m), NEW n \in Nat, k < n
  PROVE  Moved(t, resize(t, n), n, m)
<1> DEFINE v == resize(t, n)
<1>1. k \in Nat /\ m \in Nat /\ m < k /\ Laid(t, Memory(k), 1 .. m, FreeFrom(k, m)) /\ 0 < k
  BY DEF Packed
<1>2. PICK xl : /\ Laid(v, Memory(n), 1 .. m, xl) /\ ThenRest(FreeFrom(k, m), xl, k, n)
                /\ KeysBelow(t, v, k, n)
  BY <1>1, ResizedIsLaid
<1> HIDE DEF v
<1>3. xl = FreeFrom(n, m)
  <2>1. Len(FreeFrom(k, m)) = k - 1 - m /\ \A i \in 1 .. k - 1 - m : FreeFrom(k, m)[i] = m + i
    BY <1>1, FreeFromIs
  <2>2. xl \in Seq(Memory(n) \ {0}) /\ Len(xl) = n - 1 - m
    BY <1>1, <1>2, <2>1 DEF ThenRest
  <2>3. ASSUME NEW i \in 1 .. n - 1 - m PROVE xl[i] = m + i
    <3>1. CASE i <= k - 1 - m
      BY <3>1, <1>1, <1>2, <2>1 DEF ThenRest
    <3>2. CASE i > k - 1 - m
      <4>1. xl[i] = k + (i - (k - 1 - m) - 1)
        BY <3>2, <1>1, <1>2, <2>1, <2>2 DEF ThenRest
      <4> QED
        BY <4>1, <1>1
    <3> QED
      BY <3>1, <3>2, <1>1
  <2> QED
    BY <2>2, <2>3, <1>1 DEF FreeFrom
<1>4. \A p \in Memory(n) : v.key[p] = IF p >= k THEN empty ELSE t.key[p]
  BY <1>2 DEF KeysBelow
<1>5. \A q \in 1 .. m : q \in Memory(n) /\ v.key[q] = t.key[q]
  BY <1>1, <1>4 DEF Memory
<1>6. \A q \in Memory(n) \ (1 .. m) : v.key[q] = empty
  BY <1>1, <1>4 DEF Memory, Packed
<1>7. \A q \in 1 .. m : t.key[q] \in Strings
  BY DEF Packed
<1>8. Packed(v, n, m)
  BY <1>1, <1>2, <1>3, <1>5, <1>6, <1>7 DEF Packed
<1> QED
  BY <1>5, <1>8 DEF Moved, v

(* The first memory is packed. *)
LEMMA PackedFirst ==
  ASSUME NEW n \in Nat, 0 < n
  PROVE  Packed(resize(NoMemory, n), n, 0)
<1> DEFINE v == resize(NoMemory, n)
<1>1. PICK xl : /\ Laid(v, Memory(n), {}, xl) /\ Len(xl) = n - 1 /\ \A i \in 1 .. n - 1 : xl[i] = i
                /\ \A p \in Memory(n) : v.key[p] = empty
  BY FirstIsLaid
<1> HIDE DEF v
<1>2. xl \in Seq(Memory(n) \ {0})
  BY <1>1 DEF Laid, Threaded
<1>3. xl = FreeFrom(n, 0)
  BY <1>1, <1>2 DEF FreeFrom
<1>4. 1 .. 0 = {}
  OBVIOUS
<1> QED
  BY <1>1, <1>3, <1>4 DEF Packed, v

(* v is t with the string s in its first free element. *)
Joined(t, v, n, m, s) ==
  Packed(v, n, m + 1) /\ v.key[m + 1] = s /\ \A q \in 1 .. m : v.key[q] = t.key[q]

(* An insertion puts its string behind the others. *)
LEMMA PackedJoined ==
  ASSUME NEW t, NEW n, NEW m, Packed(t, n, m), m + 1 < n, NEW s \in Strings, Lacks(t, 1 .. m, s)
  PROVE  Joined(t, inserted(t, s), n, m, s)
<1> DEFINE v == inserted(t, s)
           fl == FreeFrom(n, m)
<1>1. n \in Nat /\ m \in Nat /\ m < n /\ 0 \in Memory(n) /\ t \in TableOver(Memory(n))
      /\ free(t) = m + 1
  BY PackedFacts
<1>2. Len(fl) = n - 1 - m /\ Tail(fl) = FreeFrom(n, m + 1)
  BY <1>1, FreeFromIs
<1>3. HasFree(t, Memory(n), 1 .. m, fl) /\ s \in Nat
  BY <1>1, <1>2, SymbolTableAssumption DEF Packed, HasFree
<1>4. MovedIn(t, v, Memory(n), 1 .. m, fl, m + 1, s)
  <2> HIDE DEF fl
  <2> QED
    BY <1>1, <1>3, InsertedIsLaid
<1> HIDE DEF v
<1>5. Laid(v, Memory(n), (1 .. m) \cup {m + 1}, Tail(fl)) /\ v.key = [t.key EXCEPT ![m + 1] = s]
  BY <1>4 DEF MovedIn, FirstOf
<1>6. (1 .. m) \cup {m + 1} = 1 .. m + 1
  BY <1>1
<1>7. m + 1 \in Memory(n)
  BY <1>1 DEF Memory
<1>8. v.key[m + 1] = s /\ \A q \in Memory(n) : q # m + 1 => v.key[q] = t.key[q]
  BY <1>1, <1>5, <1>7 DEF TableOver
<1>9. \A q \in 1 .. m : q \in Memory(n) /\ q # m + 1 /\ v.key[q] = t.key[q] /\ t.key[q] \in Strings
  BY <1>1, <1>8 DEF Memory, Packed
<1>10. \A q \in Memory(n) \ (1 .. m + 1) : v.key[q] = empty
  BY <1>1, <1>8 DEF Packed
<1>11. \A q \in 1 .. m + 1 : v.key[q] \in Strings
  BY <1>1, <1>8, <1>9
<1>12. Laid(v, Memory(n), 1 .. m + 1, FreeFrom(n, m + 1))
  <2> HIDE DEF fl
  <2> QED
    BY <1>2, <1>5, <1>6
<1>13. Packed(v, n, m + 1)
  BY <1>1, <1>10, <1>11, <1>12 DEF Packed
<1> QED
  BY <1>8, <1>9, <1>13 DEF Joined, v

(* Between Take and Link: the element is off the free list, has its string,  *)
(* and is not in the tree.                                                   *)
Between(t, u, n, m, s) ==
  /\ u \in TableOver(Memory(n)) /\ u.key = [t.key EXCEPT ![m + 1] = s]
  /\ m + 1 \in Memory(n)
  /\ setRoot(insertElement(u, m + 1, root(u)).tree, insertElement(u, m + 1, root(u)).top)
       = inserted(t, s)

(* What Take makes of the table. *)
TakenFor(t, pos, s) == [setFree(t, t.left[pos]) EXCEPT !.left[pos] = 0, !.key[pos] = s]

(* The table between Take and Link of an insertion. *)
LEMMA PackedBetween ==
  ASSUME NEW t, NEW n, NEW m, Packed(t, n, m), m + 1 < n, NEW s \in Strings
  PROVE  Between(t, WithString(t, m, s), n, m, s) /\ TakenFor(t, m + 1, s) = WithString(t, m, s)
<1> DEFINE fl == FreeFrom(n, m)
           u == WithString(t, m, s)
<1>1. n \in Nat /\ m \in Nat /\ m < n /\ 0 \in Memory(n) /\ t \in TableOver(Memory(n))
      /\ free(t) = m + 1 /\ m + 1 \in Memory(n)
  BY PackedFacts DEF Memory
<1>2. Len(fl) = n - 1 - m
  BY <1>1, FreeFromIs
<1>3. HasFree(t, Memory(n), 1 .. m, fl) /\ s \in Nat
  BY <1>1, <1>2, SymbolTableAssumption DEF Packed, HasFree
<1>4. Taken(t) \in TableOver(Memory(n)) /\ Taken(t).key = t.key /\ Taken(t).right = t.right
  <2> HIDE DEF fl
  <2> QED
    BY <1>3, TakenIsLaid DEF Laid
<1>5. u \in TableOver(Memory(n)) /\ u.key = [t.key EXCEPT ![m + 1] = s] /\ u.right = t.right
  BY <1>1, <1>3, <1>4 DEF TableOver, WithString
<1>6. setRoot(insertElement(u, m + 1, root(u)).tree, insertElement(u, m + 1, root(u)).top)
        = inserted(t, s)
  <2>1. root(u) = root(t)
    BY <1>5 DEF root
  <2> QED
    BY <2>1, <1>1 DEF inserted, WithString
<1>7. TakenFor(t, m + 1, s) = u
  BY <1>1 DEF Taken, TakenFor, WithString
<1> HIDE DEF u
<1>8. Between(t, u, n, m, s)
  BY <1>1, <1>5, <1>6 DEF Between
<1> QED
  BY <1>7, <1>8 DEF u

(* A list has no more strings than elements. *)
LEMMA StringsAreFew ==
  ASSUME NEW list \in Seq(Strings)
  PROVE  /\ IsFiniteSet(StringsOf(list)) /\ StringsOf(list) \subseteq Strings
         /\ Len(list) \in Nat /\ Cardinality(StringsOf(list)) <= Len(list)
         /\ \A i \in 1 .. Len(list) : list[i] \in StringsOf(list) /\ list[i] \in Strings
<1> DEFINE n == Len(list)
           D == 1 .. n
<1>1. n \in Nat /\ list \in [D -> Strings] /\ DOMAIN list = D
  BY LenProperties
<1>2. list \in Surjection(D, StringsOf(list))
  BY <1>1 DEF StringsOf, Surjection
<1>3. IsFiniteSet(D) /\ Cardinality(D) = n
  <2>1. IsFiniteSet(D) /\ Cardinality(D) = IF 1 > n THEN 0 ELSE n - 1 + 1
    BY <1>1, FS_Interval
  <2> HIDE DEF D, n
  <2> QED
    BY <1>1, <2>1
<1>4. IsFiniteSet(StringsOf(list)) /\ Cardinality(StringsOf(list)) <= n
  <2> HIDE DEF D, n
  <2> QED
    BY <1>2, <1>3, FS_Surjection
<1>5. StringsOf(list) \subseteq Strings /\ \A i \in D : list[i] \in StringsOf(list) /\ list[i] \in Strings
  BY <1>1 DEF StringsOf
<1> QED
  BY <1>1, <1>4, <1>5

(* The initial strings are distinct. *)
LEMMA InitialStrings ==
  /\ initialSymbolStrings \in Seq(Strings) /\ InitialCount \in Nat \ {0}
  /\ \A i, j \in 1 .. InitialCount :
       initialSymbolStrings[i] = initialSymbolStrings[j] => i = j
  /\ IsFiniteSet(StringsOf(initialSymbolStrings)) /\ StringsOf(initialSymbolStrings) \subseteq Strings
  /\ Cardinality(StringsOf(initialSymbolStrings)) \in Nat
  /\ Cardinality(StringsOf(initialSymbolStrings)) <= InitialCount
  /\ \A i \in 1 .. InitialCount : /\ initialSymbolStrings[i] \in Strings
                                  /\ initialSymbolStrings[i] \in StringsOf(initialSymbolStrings)
<1>1. initialSymbolStrings \in Seq(Strings) /\ initialSymbolStrings # <<>>
  BY SymbolTableAssumption
<1>2. InitialCount \in Nat \ {0} /\ DOMAIN initialSymbolStrings = 1 .. InitialCount
  BY <1>1, LenProperties, EmptySeq DEF InitialCount
<1>3. \A i, j \in 1 .. InitialCount : initialSymbolStrings[i] = initialSymbolStrings[j] => i = j
  BY <1>2, SymbolTableAssumption
<1>4. IsFiniteSet(StringsOf(initialSymbolStrings))
  BY <1>1, StringsAreFew
<1> QED
  BY <1>1, <1>2, <1>3, <1>4, StringsAreFew, FS_CardinalityType DEF InitialCount

(* The argument of a call. *)
LEMMA CallIs ==
  ASSUME NEW c, NEW m, IsCall(c, m)
  PROVE  /\ c.op \in {"intern", "lookup", "at", "load"}
         /\ c.op \in {"intern", "lookup"} => c.arg \in Strings
         /\ c.op = "load" => c.arg \in Loads /\ c.arg \in Seq(Strings)
                             /\ c.moving \in SUBSET DOMAIN c.arg
         /\ c.op = "at" => c.arg \in Symbols(Known(m))
         /\ Own(c) = IF c.op = "load" THEN 1 ELSE 0
BY SymbolTableAssumption DEF IsCall, Interns, Looks, LoadsAll, Asks, Own

(* A call asks for as much room as it has strings to intern. *)
LEMMA WantedIs ==
  ASSUME NEW c, NEW m, IsCall(c, m)
  PROVE  /\ IsFiniteSet(Wanted(c)) /\ Wanted(c) \subseteq Strings
         /\ Asked(c) \in Nat /\ Cardinality(Wanted(c)) <= Asked(c)
<1>1. CASE c.op = "intern"
  <2>1. Wanted(c) = {c.arg} /\ Asked(c) = 1 /\ c.arg \in Strings
    BY <1>1, CallIs DEF Wanted, Asked
  <2>2. IsFiniteSet({c.arg}) /\ Cardinality({c.arg}) = 1
    BY FS_Singleton
  <2> QED
    BY <2>1, <2>2
<1>2. CASE c.op = "load"
  BY <1>2, CallIs, StringsAreFew DEF Wanted, Asked
<1>3. CASE c.op \notin {"intern", "load"}
  BY <1>3, FS_EmptySet DEF Wanted, Asked
<1> QED
  BY <1>1, <1>2, <1>3

(* The missing strings can be counted. *)
LEMMA MissingIs ==
  ASSUME NEW c, NEW k, IsCall(c, k), NEW t, NEW m
  PROVE  /\ IsFiniteSet(Missing(c, t, m)) /\ Cardinality(Missing(c, t, m)) \in Nat
         /\ \A s \in Missing(c, t, m) : Cardinality(Missing(c, t, m)) >= 1
<1> DEFINE S == Wanted(c) \cup StringsOf(initialSymbolStrings)
           Q == Missing(c, t, m)
<1>1. IsFiniteSet(S)
  BY WantedIs, InitialStrings, FS_Union
<1>2. Q \in SUBSET S
  BY DEF Missing
<1> HIDE DEF S, Q
<1>3. IsFiniteSet(Q)
  BY <1>1, <1>2, FS_Subset
<1>4. Cardinality(Q) \in Nat /\ (Cardinality(Q) = 0 <=> Q = {})
  BY <1>3, FS_CardinalityType, FS_EmptySet
<1> QED
  BY <1>3, <1>4 DEF Q

(* A string that is interned is missing no longer. *)
LEMMA MissingLess ==
  ASSUME NEW c, NEW k, IsCall(c, k), NEW t, NEW v, NEW n, NEW m \in Nat, NEW s,
         Joined(t, v, n, m, s), s \in Missing(c, t, m)
  PROVE  /\ NamesIn(v, m + 1) = NamesIn(t, m) \cup {s}
         /\ Cardinality(Missing(c, v, m + 1)) = Cardinality(Missing(c, t, m)) - 1
<1>1. NamesIn(v, m + 1) = NamesIn(t, m) \cup {s}
  <2>1. 1 .. m + 1 = (1 .. m) \cup {m + 1}
    OBVIOUS
  <2> QED
    BY <2>1 DEF NamesIn, Joined
<1> DEFINE Q == Missing(c, t, m)
<1>2. Missing(c, v, m + 1) = Q \ {s}
  BY <1>1 DEF Missing
<1>3. IsFiniteSet(Q) /\ s \in Q
  BY MissingIs
<1> HIDE DEF Q
<1>4. Cardinality(Q \ {s}) = Cardinality(Q) - 1
  BY <1>3, FS_RemoveElement
<1> QED
  BY <1>1, <1>2, <1>4 DEF Q

(* With all initial strings there, no more is missing than was asked for. *)
LEMMA MissingAsked ==
  ASSUME NEW c, NEW k, IsCall(c, k), NEW t, NEW m \in Nat, Prefix(t, m), m >= InitialCount
  PROVE  /\ StringsOf(initialSymbolStrings) \subseteq NamesIn(t, m)
         /\ Cardinality(Missing(c, t, m)) <= Asked(c)
<1>1. StringsOf(initialSymbolStrings) \subseteq NamesIn(t, m)
  <2>1. DOMAIN initialSymbolStrings = 1 .. InitialCount /\ InitialCount \in Nat
    BY InitialStrings, LenProperties DEF InitialCount
  <2>2. ASSUME NEW i \in 1 .. InitialCount PROVE initialSymbolStrings[i] \in NamesIn(t, m)
    <3>1. i \in 1 .. m /\ t.key[i] = initialSymbolStrings[i]
      BY <2>1 DEF Prefix
    <3> QED
      BY <3>1 DEF NamesIn
  <2> QED
    BY <2>1, <2>2 DEF StringsOf
<1> DEFINE Q == Missing(c, t, m)
<1>2. Q \in SUBSET Wanted(c)
  BY <1>1 DEF Missing
<1>3. IsFiniteSet(Wanted(c)) /\ Asked(c) \in Nat /\ Cardinality(Wanted(c)) <= Asked(c)
  BY WantedIs
<1>4. Cardinality(Wanted(c)) \in Nat /\ Cardinality(Q) \in Nat
  BY <1>3, FS_CardinalityType, MissingIs
<1> HIDE DEF Q
<1>5. Cardinality(Q) <= Cardinality(Wanted(c))
  BY <1>2, <1>3, FS_Subset
<1> QED
  BY <1>1, <1>3, <1>4, <1>5 DEF Q

(* The first memory with room for the initial strings has room for the rest. *)
LEMMA MissingAtFirst ==
  ASSUME NEW c, IsCall(c, 0), NEW t, NEW k \in Nat, RoomAfter(k), NEW n, n = growSize(k),
         n > InitialCount
  PROVE  Cardinality(Missing(c, t, 0)) <= n - 1
<1> DEFINE S == StringsOf(initialSymbolStrings)
           Q == Missing(c, t, 0)
<1>1. n \in Nat /\ InitialCount \in Nat /\ n > InitialCount + 1
      /\ \A list \in Loads : Cardinality(StringsOf(list) \cup S) < n
  BY GrowSizeIsLarger, InitialStrings DEF RoomAfter, InitialCount
<1>2. Q = Wanted(c) \cup S
  BY DEF Missing, NamesIn
<1>3. IsFiniteSet(Wanted(c)) /\ IsFiniteSet(S) /\ Cardinality(S) <= InitialCount
      /\ Cardinality(S) \in Nat /\ Cardinality(Q) \in Nat
  BY WantedIs, InitialStrings, MissingIs
<1> HIDE DEF S, Q
<1>4. CASE c.op = "intern"
  <2>1. Wanted(c) = {c.arg}
    BY <1>4 DEF Wanted
  <2>2. Q = S \cup {c.arg}
    BY <1>2, <2>1
  <2>3. Cardinality(S \cup {c.arg}) = IF c.arg \in S THEN Cardinality(S) ELSE Cardinality(S) + 1
    BY <1>3, FS_AddElement
  <2> QED
    BY <1>1, <1>3, <2>2, <2>3 DEF Q
<1>5. CASE c.op = "load"
  <2>1. c.arg \in Loads /\ Wanted(c) = StringsOf(c.arg)
    BY <1>5, CallIs DEF Wanted
  <2>2. Cardinality(StringsOf(c.arg) \cup S) < n
    BY <1>1, <2>1
  <2> QED
    BY <1>1, <1>2, <1>3, <2>1, <2>2 DEF Q
<1>6. CASE c.op \notin {"intern", "load"}
  <2>1. Q = S
    BY <1>2, <1>6 DEF Wanted
  <2> QED
    BY <1>1, <1>3, <2>1 DEF Q
<1> QED
  BY <1>4, <1>5, <1>6

Arrays ==
  /\ pc = [q \in Procs |-> pc[q]] /\ call = [q \in Procs |-> call[q]]
  /\ adding = [q \in Procs |-> adding[q]] /\ loads = [q \in Procs |-> loads[q]]
  /\ position = [q \in Procs |-> position[q]] /\ answer = [q \in Procs |-> answer[q]]

State(p, t, n, m, d, x) ==
  /\ pc[p] \in {"idle", "room", "body", "take", "link", "unreachable"}
  /\ IsCall(call[p], m) /\ loads[p] = Nested(call[p], d, x)
  /\ Packed(t, n, m) /\ Prefix(t, m)
  /\ Stack(pc[p], call[p], t, m, d, x)
  /\ InOrder(pc[p], call[p], m, d, x)
  /\ Pending(pc[p], call[p], t, n, m, d, x, position[p])
  /\ Enough(pc[p], call[p], t, n, m, d, adding[p])
  /\ Reply(pc[p], call[p], m, answer[p])
  /\ Taking(pc[p], treap, t, m, StringAt(call[p], d, x))

(* Before the first call has asked for room. *)
Unused(p) ==
  /\ treap = NoMemory /\ position[p] = 0
  /\ IF pc[p] = "idle"
     THEN call[p] = Asks(symbols(1)) /\ loads[p] = <<>> /\ answer[p] = 0
     ELSE /\ pc[p] = "room" /\ IsCall(call[p], 0) /\ adding[p] = Asked(call[p])
          /\ loads[p] = Nested(call[p], Own(call[p]), 1) /\ answer[p] = NoAnswer

(* What the steps read of the state of a call. *)
LEMMA SymbolStateIs ==
  ASSUME NEW p, NEW t, NEW n, NEW m, NEW d, NEW x, State(p, t, n, m, d, x)
  PROVE  /\ n \in Nat /\ m \in Nat /\ m < n /\ d \in Nat /\ x \in Nat \ {0}
         /\ InitialCount \in Nat \ {0}
         /\ Own(call[p]) = IF call[p].op = "load" THEN 1 ELSE 0
         /\ pc[p] # "link" => treap = t
         /\ loads[p] = <<>> <=> d = 0
         /\ Len(loads[p]) = d
         /\ d > 0 => Innermost(p).strings = ListAt(call[p], d) /\ Innermost(p).next = x
         /\ string(p) = StringAt(call[p], d, x)
<1>1. n \in Nat /\ m \in Nat /\ m < n /\ d \in Nat /\ x \in Nat \ {0}
  BY DEF State, Packed, Stack
<1>2. PICK c : c = call[p]
  OBVIOUS
<1>3. /\ Len(Nested(c, d, x)) = d /\ (Nested(c, d, x) = <<>> <=> d = 0)
      /\ d > 0 => Nested(c, d, x)[d].strings = ListAt(c, d) /\ Nested(c, d, x)[d].next = x
  <2>1. d \in Nat
    BY <1>1
  <2> QED
    BY <2>1, NestedIs
<1>4. loads[p] = Nested(c, d, x)
  BY <1>2 DEF State
<1>5. Len(loads[p]) = d /\ (loads[p] = <<>> <=> d = 0)
  BY <1>3, <1>4
<1>6. d > 0 => Innermost(p).strings = ListAt(call[p], d) /\ Innermost(p).next = x
  <2>1. Innermost(p) = Nested(c, d, x)[d]
    BY <1>4, <1>5 DEF Innermost
  <2> QED
    BY <1>2, <1>3, <2>1
<1>7. string(p) = StringAt(call[p], d, x)
  BY <1>1, <1>5, <1>6 DEF string, StringAt
<1>8. pc[p] # "link" => treap = t
  BY DEF State, Taking
<1>9. InitialCount \in Nat \ {0}
  BY InitialStrings
<1> QED
  BY <1>1, <1>5, <1>6, <1>7, <1>8, <1>9 DEF Own

(* Between calls all initial strings are there. *)
LEMMA InitialsAreThere ==
  ASSUME NEW p, NEW t, NEW n, NEW m, NEW d, NEW x, State(p, t, n, m, d, x), d <= Own(call[p])
  PROVE  m >= InitialCount /\ Known(m) = m
<1>1. m < InitialCount => d > Own(call[p])
  BY DEF State, InOrder
<1>2. m \in Nat /\ InitialCount \in Nat /\ d \in Nat /\ Own(call[p]) \in Nat
  BY SymbolStateIs DEF Own
<1> QED
  BY <1>1, <1>2 DEF Known

(* A load has a list of strings. *)
LEMMA SomeList ==
  ASSUME NEW c, NEW m, IsCall(c, m), NEW d \in Nat \ {0}
  PROVE  ListAt(c, d) \in Seq(Strings) /\ Len(ListAt(c, d)) \in Nat
<1>1. initialSymbolStrings \in Seq(Strings) /\ (c.op = "load" => c.arg \in Seq(Strings))
  BY CallIs, InitialStrings
<1>2. ListAt(c, d) \in Seq(Strings)
  BY <1>1 DEF ListAt, Own
<1> QED
  BY <1>2, LenProperties

(* A call begins. *)
LEMMA BeginKeeps ==
  ASSUME NEW p, Procs = {p}, Arrays, NEW c, NEW l, Begin(p, c, Asked(c), l),
         SameLoads(l, c, Own(c), 1),
         NEW t, NEW n, NEW m, NEW d, NEW x, State(p, t, n, m, d, x), IsCall(c, m)
  PROVE  State(p, t, n, m, Own(c), 1)'
<1>1. /\ pc[p] = "idle" /\ pc'[p] = "room" /\ call'[p] = c /\ adding'[p] = Asked(c) /\ loads'[p] = l
      /\ answer'[p] = NoAnswer /\ position'[p] = position[p] /\ treap' = treap
  BY DEF Begin, Goto, Arrays
<1>2. d = 0 /\ m >= InitialCount /\ InitialCount \in Nat /\ Own(c) \in {0, 1} /\ m \in Nat
  <2>1. d = 0
    BY <1>1 DEF State, Stack
  <2> QED
    BY <2>1, InitialsAreThere, SymbolStateIs DEF Own
<1>3. l = Nested(c, Own(c), 1)
  BY DEF SameLoads
<1>4. Stack("room", c, t, m, Own(c), 1)
  <2>1. Own(c) > 0 => Len(ListAt(c, Own(c))) \in Nat
    BY <1>2, SomeList
  <2> QED
    BY <1>2, <2>1 DEF Stack
<1>5. InOrder("room", c, m, Own(c), 1)
  BY <1>2 DEF InOrder
<1>6. Pending("room", c, t, n, m, Own(c), 1, position[p])
  BY DEF State, Pending
<1>7. Enough("room", c, t, n, m, Own(c), Asked(c))
  BY <1>2 DEF Enough
<1>8. Reply("room", c, m, NoAnswer)
  BY DEF Reply
<1>9. Taking("room", treap, t, m, StringAt(c, Own(c), 1))
  BY <1>1 DEF State, Taking
<1>10. Packed(t, n, m) /\ Prefix(t, m)
  BY DEF State
<1> QED
  BY <1>1, <1>3, <1>4, <1>5, <1>6, <1>7, <1>8, <1>9, <1>10 DEF State

(* A call before there is memory. *)
LEMMA FirstBegin ==
  ASSUME NEW p, Procs = {p}, Arrays, NEW c, NEW l, Begin(p, c, Asked(c), l),
         SameLoads(l, c, Own(c), 1), Unused(p), IsCall(c, 0)
  PROVE  Unused(p)'
BY DEF Begin, Goto, Arrays, Unused, SameLoads

Begins(p, k) ==
  \E c, l : Begin(p, c, Asked(c), l) /\ SameLoads(l, c, Own(c), 1) /\ IsCall(c, k)

(* Each operation begins a call in the same way. *)
LEMMA AllBegin ==
  ASSUME NEW p, NEW k \in Nat, k = 0 \/ k >= InitialCount,
         \/ intern(p) \/ lookupSymbol(p) \/ loadSymbols(p)
         \/ \E y \in Symbols(Known(k)) : Begin(p, Asks(y), 0, <<>>)
  PROVE  Begins(p, k)
<1>1. CASE intern(p)
  <2>1. PICK s \in Strings, v \in SUBSET {1} : Begin(p, Interns(s, v), 1, <<>>)
    BY <1>1 DEF intern
  <2>2. IsCall(Interns(s, v), k)
    BY DEF IsCall
  <2>3. Asked(Interns(s, v)) = 1 /\ Own(Interns(s, v)) = 0 /\ Interns(s, v).op # "load"
    BY DEF Asked, Own, Interns
  <2> QED
    BY <2>1, <2>2, <2>3, NestedFirst DEF Begins
<1>2. CASE lookupSymbol(p)
  <2>1. PICK s \in Strings : Begin(p, Looks(s), 0, <<>>)
    BY <1>2 DEF lookupSymbol
  <2>2. IsCall(Looks(s), k)
    BY DEF IsCall
  <2>3. Asked(Looks(s)) = 0 /\ Own(Looks(s)) = 0
    BY DEF Asked, Own, Looks
  <2> QED
    BY <2>1, <2>2, <2>3, NestedFirst DEF Begins
<1>3. CASE loadSymbols(p)
  <2>1. PICK list \in Loads :
          \E v \in SUBSET DOMAIN list : Begin(p, LoadsAll(list, v), Len(list), <<Load(list)>>)
    BY <1>3 DEF loadSymbols
  <2>0. PICK v \in SUBSET DOMAIN list : Begin(p, LoadsAll(list, v), Len(list), <<Load(list)>>)
    BY <2>1
  <2>2. IsCall(LoadsAll(list, v), k)
    BY DEF IsCall
  <2>3. Asked(LoadsAll(list, v)) = Len(list) /\ Own(LoadsAll(list, v)) = 1
        /\ LoadsAll(list, v).op = "load" /\ LoadsAll(list, v).arg = list
    BY DEF Asked, Own, LoadsAll
  <2>4. SameLoads(<<Load(list)>>, LoadsAll(list, v), 1, 1)
    BY <2>3, NestedFirst
  <2> QED
    BY <2>0, <2>2, <2>3, <2>4 DEF Begins
<1>4. CASE \E y \in Symbols(Known(k)) : Begin(p, Asks(y), 0, <<>>)
  <2>1. PICK y \in Symbols(Known(k)) : Begin(p, Asks(y), 0, <<>>)
    BY <1>4
  <2>2. IsCall(Asks(y), k)
    BY DEF IsCall
  <2>3. Asked(Asks(y)) = 0 /\ Own(Asks(y)) = 0
    BY DEF Asked, Own, Asks
  <2> QED
    BY <2>1, <2>2, <2>3, NestedFirst DEF Begins
<1> QED
  BY <1>1, <1>2, <1>3, <1>4

(* The constants of `symbols` are symbols of the first positions. *)
LEMMA PredefinedAreSymbols ==
  ASSUME NEW i \in DOMAIN initialSymbolStrings, NEW m \in Nat
  PROVE  symbols(i) \in Symbols(Known(m))
<1>1. InitialCount \in Nat /\ DOMAIN initialSymbolStrings = 1 .. InitialCount
  BY InitialStrings, LenProperties DEF InitialCount
<1>2. SymbolArity[i] \in 0 .. 15
  BY <1>1, SymbolTableAssumption
<1>3. i \in 1 .. Known(m)
  BY <1>1 DEF Known
<1> QED
  BY <1>2, <1>3 DEF symbols, Symbols

(* theTreap finds room. *)
LEMMA RoomKeeps ==
  ASSUME NEW p, Procs = {p}, Arrays, \A k \in Nat : RoomAfter(k), theTreap(p),
         NEW t, NEW n, NEW m, NEW d, NEW x, State(p, t, n, m, d, x)
  PROVE  State(p, t, n, m, d, x)'
<1> DEFINE c == call[p]
           Q == Cardinality(Missing(c, t, m))
<1>1. /\ pc[p] = "room" /\ pc'[p] = "body" /\ call'[p] = c /\ adding'[p] = adding[p]
      /\ loads'[p] = loads[p] /\ answer'[p] = answer[p] /\ position'[p] = position[p]
      /\ treap' = treap /\ hasRoom(treap, adding[p])
  BY DEF theTreap, Goto, Arrays
<1>2. /\ n \in Nat /\ m \in Nat /\ m < n /\ d \in Nat /\ x = 1 /\ d >= Own(c) /\ treap = t
      /\ InitialCount \in Nat \ {0} /\ Own(c) \in Nat
  <2>1. Stack("room", c, t, m, d, x)
    BY <1>1 DEF State
  <2>2. x = 1 /\ d >= Own(c) /\ Own(c) \in Nat
    BY <2>1 DEF Stack, Own
  <2>3. treap = t
    BY <1>1, SymbolStateIs
  <2>4. n \in Nat /\ m \in Nat /\ m < n /\ d \in Nat /\ InitialCount \in Nat \ {0}
    BY SymbolStateIs
  <2> QED
    BY <2>2, <2>3, <2>4
<1>3. IsCall(c, m) /\ Packed(t, n, m) /\ Prefix(t, m)
  BY DEF State
<1>4. adding[p] = IF d > Own(c) THEN InitialCount ELSE Asked(c)
  BY <1>1 DEF State, Enough
<1>5. Asked(c) \in Nat
  BY <1>3, WantedIs
<1>6. adding[p] <= n - 1 - m
  BY <1>1, <1>2, <1>3, <1>4, <1>5, PackedRoom
<1> HIDE DEF c
<1>7. Q <= n - 1 - m
  <2>1. CASE m < InitialCount
    <3>1. d > Own(c) /\ m = 0
      BY <1>1, <2>1 DEF State, InOrder, c
    <3>2. PICK k \in Nat : n = growSize(k)
      BY <1>1, <2>1 DEF State, Enough
    <3>3. n > InitialCount
      BY <1>2, <1>4, <1>6, <3>1
    <3>4. IsCall(c, 0) /\ RoomAfter(k)
      BY <1>3, <3>1
    <3>5. Cardinality(Missing(c, t, 0)) <= n - 1
      BY <3>2, <3>3, <3>4, MissingAtFirst
    <3> QED
      BY <3>1, <3>5, <1>2
  <2>2. CASE m >= InitialCount /\ d > Own(c)
    BY <1>1, <2>2 DEF State, Enough, c
  <2>3. CASE m >= InitialCount /\ ~(d > Own(c))
    <3>1. Q <= Asked(c)
      BY <1>2, <1>3, <2>3, MissingAsked
    <3>2. Q \in Nat
      BY <1>3, MissingIs
    <3> QED
      BY <3>1, <3>2, <1>2, <1>4, <1>5, <1>6, <2>3
  <2> QED
    BY <2>1, <2>2, <2>3, <1>2
<1>8. Enough("body", c, t, n, m, d, adding[p])
  BY <1>7 DEF Enough
<1>9. Stack("body", c, t, m, d, x)
  BY <1>1 DEF State, Stack, c
<1>10. InOrder("body", c, m, d, x)
  BY <1>1, <1>2 DEF State, InOrder, c
<1>11. Pending("body", c, t, n, m, d, x, position[p])
  BY DEF State, Pending
<1>12. Reply("body", c, m, answer[p])
  BY <1>1 DEF State, Reply, c
<1>13. Taking("body", treap, t, m, StringAt(c, d, x))
  BY <1>2 DEF Taking
<1>14. loads[p] = Nested(c, d, x)
  BY DEF State, c
<1> QED
  BY <1>1, <1>3, <1>8, <1>9, <1>10, <1>11, <1>12, <1>13, <1>14 DEF State

(* What stays as it is when a call goes from one place to the next. *)
LEMMA SameNames ==
  ASSUME NEW t, NEW v, NEW n, NEW m, Moved(t, v, n, m)
  PROVE  /\ NamesIn(v, m) = NamesIn(t, m)
         /\ \A c : Missing(c, v, m) = Missing(c, t, m)
         /\ Prefix(t, m) => Prefix(v, m)
<1>1. NamesIn(v, m) = NamesIn(t, m)
  BY DEF NamesIn, Moved
<1> QED
  BY <1>1 DEF Missing, Prefix, Moved

(* allocTreap enlarges the memory and starts to load the initial strings. *)
LEMMA EnlargementKeeps ==
  ASSUME NEW p, Procs = {p}, Arrays, \A k \in Nat : RoomAfter(k), allocTreap(p),
         NEW t, NEW n, NEW m, NEW d, NEW x, State(p, t, n, m, d, x)
  PROVE  /\ State(p, resize(t, growSize(n)), growSize(n), m, d + 1, 1)'
         /\ Elements(treap) = n /\ growSize(n) > n
<1> DEFINE c == call[p]
           z == growSize(n)
           v == resize(t, z)
<1>1. /\ pc[p] = "room" /\ pc'[p] = "room" /\ call'[p] = c /\ adding'[p] = InitialCount
      /\ loads'[p] = Append(loads[p], Load(initialSymbolStrings)) /\ answer'[p] = answer[p]
      /\ position'[p] = position[p] /\ treap' = resize(treap, growSize(Elements(treap)))
  BY DEF allocTreap, Arrays, InitialCount
<1>2. /\ n \in Nat /\ m \in Nat /\ m < n /\ d \in Nat /\ treap = t
      /\ InitialCount \in Nat \ {0} /\ Own(c) \in {0, 1}
  BY <1>1, SymbolStateIs
<1>3. IsCall(c, m) /\ Packed(t, n, m) /\ Prefix(t, m) /\ Stack("room", c, t, m, d, x)
      /\ InOrder("room", c, m, d, x) /\ Enough("room", c, t, n, m, d, adding[p])
      /\ Pending("room", c, t, n, m, d, x, position[p]) /\ Reply("room", c, m, answer[p])
      /\ loads[p] = Nested(c, d, x)
  BY <1>1 DEF State
<1>4. x = 1 /\ d >= Own(c)
  BY <1>3 DEF Stack
<1>5. Elements(treap) = n
  BY <1>2, <1>3, PackedFacts
<1>6. z \in Nat /\ z > n
  BY <1>2, GrowSizeIsLarger
<1>7. treap' = v
  BY <1>1, <1>2, <1>5
<1>8. Moved(t, v, z, m)
  <2> HIDE DEF z
  <2> QED
    BY <1>3, <1>6, PackedMoved
<1> HIDE DEF c, v
<1>9. Packed(v, z, m) /\ Prefix(v, m) /\ Missing(c, v, m) = Missing(c, t, m)
  <2> HIDE DEF z
  <2> QED
    BY <1>3, <1>8, SameNames DEF Moved
<1>10. loads'[p] = Nested(c, d + 1, 1)
  BY <1>1, <1>2, <1>3, <1>4, LoadStarted DEF SameLoads
<1>11. Stack("room", c, v, m, d + 1, 1)
  <2>1. Len(ListAt(c, d + 1)) \in Nat
    BY <1>2, <1>3, SomeList
  <2> QED
    BY <1>2, <1>4, <2>1 DEF Stack
<1>12. InOrder("room", c, m, d + 1, 1)
  BY <1>2, <1>3, <1>4 DEF InOrder
<1>13. Pending("room", c, v, z, m, d + 1, 1, position[p])
  <2>1. position[p] \in Memory(n)
    BY <1>3 DEF Pending
  <2>2. position[p] \in Memory(z)
    BY <2>1, <1>2, <1>6, MemorySize
  <2> QED
    BY <2>2 DEF Pending
<1>14. Enough("room", c, v, z, m, d + 1, InitialCount)
  <2>1. d + 1 > Own(c)
    BY <1>2, <1>4
  <2>2. m < InitialCount => \E k \in Nat : z = growSize(k)
    BY <1>2
  <2>3. ASSUME m >= InitialCount PROVE Cardinality(Missing(c, v, m)) <= z - 1 - m
    <3> DEFINE Q == Cardinality(Missing(c, t, m))
    <3>1. Q \in Nat
      BY <1>3, MissingIs
    <3>2. CASE d > Own(c)
      <4>1. Q <= n - 1 - m
        BY <1>3, <2>3, <3>2 DEF Enough
      <4> QED
        BY <4>1, <3>1, <1>2, <1>6, <1>9
    <3>3. CASE d = Own(c)
      <4>1. Q <= Asked(c) /\ Asked(c) \in Nat
        BY <1>2, <1>3, <2>3, MissingAsked, WantedIs
      <4>2. Asked(c) <= z - 1 - m
        <5>1. CASE c.op = "load"
          <6>1. RoomAfter(n)
            BY <1>2
          <6>2. c.arg \in Loads /\ Asked(c) = Len(c.arg) /\ Len(c.arg) \in Nat
            BY <5>1, <1>3, <4>1, CallIs DEF Asked
          <6>3. Len(c.arg) <= z - n
            <7>1. n > InitialCount /\ growSize(n) > InitialCount
              BY <1>2, <1>6, <2>3
            <7>2. \A list \in Loads : Len(list) <= growSize(n) - n
              BY <6>1, <7>1 DEF RoomAfter, InitialCount
            <7> QED
              BY <6>2, <7>2
          <6> QED
            BY <6>2, <6>3, <1>2, <1>6
        <5>2. CASE c.op # "load"
          BY <5>2, <1>2, <1>6 DEF Asked
        <5> QED
          BY <5>1, <5>2
      <4> QED
        BY <4>1, <4>2, <3>1, <1>2, <1>6, <1>9
    <3> QED
      BY <3>2, <3>3, <1>2, <1>4
  <2> QED
    BY <2>1, <2>2, <2>3 DEF Enough
<1>15. Reply("room", c, m, answer[p])
  BY <1>3
<1>16. Taking("room", v, v, m, StringAt(c, d + 1, 1))
  BY DEF Taking
<1>17. State(p, v, z, m, d + 1, 1)'
  BY <1>1, <1>3, <1>7, <1>9, <1>10, <1>11, <1>12, <1>13, <1>14, <1>15, <1>16 DEF State, c
<1> QED
  BY <1>5, <1>6, <1>17 DEF v

(* The first memory. *)
LEMMA FirstEnlargement ==
  ASSUME NEW p, Procs = {p}, Arrays, allocTreap(p), Unused(p)
  PROVE  /\ State(p, resize(NoMemory, growSize(0)), growSize(0), 0, Own(call[p]) + 1, 1)'
         /\ Elements(treap) = 0 /\ growSize(0) > 0
<1> DEFINE c == call[p]
           z == growSize(0)
           d == Own(c)
           v == resize(NoMemory, z)
<1>1. /\ pc[p] = "room" /\ pc'[p] = "room" /\ call'[p] = c /\ adding'[p] = InitialCount
      /\ loads'[p] = Append(loads[p], Load(initialSymbolStrings)) /\ answer'[p] = answer[p]
      /\ position'[p] = position[p] /\ treap' = resize(treap, growSize(Elements(treap)))
  BY DEF allocTreap, Arrays, InitialCount
<1>2. /\ treap = NoMemory /\ position[p] = 0 /\ IsCall(c, 0) /\ loads[p] = Nested(c, d, 1)
      /\ answer[p] = NoAnswer
  BY <1>1 DEF Unused
<1>3. Elements(treap) = 0
  <2>1. Positions(treap) = {}
    BY <1>2 DEF Positions, NoMemory
  <2> QED
    BY <2>1, FS_EmptySet DEF Elements
<1>4. z \in Nat /\ z > 0
  BY GrowSizeIsLarger
<1>5. d \in {0, 1} /\ d \in Nat /\ d + 1 \in Nat \ {0} /\ InitialCount \in Nat \ {0}
  BY InitialStrings DEF Own
<1>6. treap' = v
  BY <1>1, <1>2, <1>3
<1>7. Packed(v, z, 0)
  <2> HIDE DEF z
  <2> QED
    BY <1>4, PackedFirst
<1> HIDE DEF c, v
<1>8. Prefix(v, 0)
  BY DEF Prefix
<1>9. loads'[p] = Nested(c, d + 1, 1)
  BY <1>1, <1>2, <1>5, LoadStarted DEF SameLoads
<1>10. Stack("room", c, v, 0, d + 1, 1)
  <2>1. Len(ListAt(c, d + 1)) \in Nat
    BY <1>2, <1>5, SomeList
  <2> QED
    BY <1>5, <2>1 DEF Stack
<1>11. InOrder("room", c, 0, d + 1, 1)
  BY <1>5 DEF InOrder
<1>12. Pending("room", c, v, z, 0, d + 1, 1, 0)
  BY <1>4, MemorySize DEF Pending
<1>13. Enough("room", c, v, z, 0, d + 1, InitialCount)
  BY <1>5 DEF Enough
<1>14. Reply("room", c, 0, NoAnswer)
  BY DEF Reply
<1>15. Taking("room", v, v, 0, StringAt(c, d + 1, 1))
  BY DEF Taking
<1>16. State(p, v, z, 0, d + 1, 1)'
  BY <1>1, <1>2, <1>6, <1>7, <1>8, <1>9, <1>10, <1>11, <1>12, <1>13, <1>14, <1>15 DEF State, c
<1> QED
  BY <1>3, <1>4, <1>16 DEF v, c

(* A symbol stays one when there are more. *)
LEMMA CallStays ==
  ASSUME NEW c, NEW k \in Nat, NEW m \in Nat, k <= m, IsCall(c, k)
  PROVE  IsCall(c, m)
<1>1. Known(k) \in Nat /\ Known(m) \in Nat /\ Known(k) <= Known(m)
  BY InitialStrings DEF Known
<1>2. Symbols(Known(k)) \subseteq Symbols(Known(m))
  BY <1>1 DEF Symbols
<1> QED
  BY <1>2 DEF IsCall

(* There is a string to intern. *)
HasString(c, d, x) == IF d = 0 THEN c.op = "intern" ELSE x <= Len(ListAt(c, d))

(* The string to be interned is one of those wanted. *)
LEMMA StringIs ==
  ASSUME NEW c, NEW m, IsCall(c, m), NEW d \in Nat, NEW x \in Nat \ {0}, HasString(c, d, x)
  PROVE  /\ StringAt(c, d, x) \in Strings
         /\ StringAt(c, d, x) \in Wanted(c) \cup StringsOf(initialSymbolStrings)
         /\ d <= Own(c) => StringAt(c, d, x) \in Wanted(c)
         /\ d > Own(c) => /\ x \in 1 .. InitialCount /\ StringAt(c, d, x) = initialSymbolStrings[x]
                          /\ StringAt(c, d, x) \in StringsOf(initialSymbolStrings)
<1>1. CASE d = 0
  <2>1. c.op = "intern" /\ c.arg \in Strings
    BY <1>1, CallIs DEF HasString
  <2>2. Own(c) = 0 /\ Wanted(c) = {c.arg}
    BY <2>1 DEF Own, Wanted
  <2> QED
    BY <1>1, <2>1, <2>2 DEF StringAt
<1>2. CASE d > 0
  <2>1. ListAt(c, d) \in Seq(Strings) /\ x \in 1 .. Len(ListAt(c, d))
    BY <1>2, SomeList DEF HasString
  <2>2. StringAt(c, d, x) = ListAt(c, d)[x]
    BY <1>2 DEF StringAt
  <2>3. StringAt(c, d, x) \in StringsOf(ListAt(c, d)) /\ StringAt(c, d, x) \in Strings
    BY <2>1, <2>2, StringsAreFew
  <2>4. CASE d <= Own(c)
    <3>1. c.op = "load" /\ ListAt(c, d) = c.arg
      BY <2>4, <1>2 DEF Own, ListAt
    <3> QED
      BY <3>1, <2>3, <2>4 DEF Wanted, Own
  <2>5. CASE d > Own(c)
    <3>1. ListAt(c, d) = initialSymbolStrings
      BY <2>5 DEF Own, ListAt
    <3> QED
      BY <3>1, <2>1, <2>2, <2>3, <2>5 DEF InitialCount, Own
  <2> QED
    BY <2>4, <2>5 DEF Own
<1> QED
  BY <1>1, <1>2

(* Where the code interns there is a string to intern. *)
LEMMA InterningHasString ==
  ASSUME NEW p, NEW t, NEW n, NEW m, NEW d, NEW x, State(p, t, n, m, d, x), Interning(p)
  PROVE  HasString(call[p], d, x)
BY SymbolStateIs DEF Interning, Loading, HasString

(* promoteTo fails for the string that is to be interned. *)
LEMMA MovesIs ==
  ASSUME NEW p, NEW t, NEW n, NEW m, NEW d, NEW x, State(p, t, n, m, d, x), pc[p] = "body",
         Interning(p)
  PROVE  Moves(p) <=> MovesAt(call[p], d, x)
<1>1. /\ d \in Nat /\ x \in Nat \ {0} /\ (loads[p] = <<>> <=> d = 0) /\ Len(loads[p]) = d
      /\ d > 0 => Innermost(p).next = x
  BY SymbolStateIs
<1>2. d = 0 => x = 1
  BY DEF State, Stack
<1>3. Own(call[p]) = IF call[p].op = "load" THEN 1 ELSE 0
  BY DEF Own
<1>4. CASE d = 0
  BY <1>1, <1>2, <1>3, <1>4 DEF Moves, MovesAt
<1>5. CASE d # 0
  BY <1>1, <1>3, <1>5 DEF Moves, MovesAt
<1> QED
  BY <1>4, <1>5

(* Where lookup finds the string s among the first m. *)
LEMMA FoundAt ==
  ASSUME NEW t, NEW n, NEW m, Packed(t, n, m), NEW s \in Strings
  PROVE  IF lookup(t, s) = 0 THEN Lacks(t, 1 .. m, s) /\ s \notin NamesIn(t, m)
         ELSE lookup(t, s) \in 1 .. m /\ t.key[lookup(t, s)] = s /\ s \in NamesIn(t, m)
<1>1. s \in Nat
  BY SymbolTableAssumption
<1>2. IsPlace(t, 1 .. m, s, lookup(t, s))
  BY <1>1, PackedLookup
<1> DEFINE q == lookup(t, s)
<1> HIDE DEF q
<1>3. IsPlace(t, 1 .. m, s, q)
  BY <1>2 DEF q
<1>4. IF q = 0 THEN Lacks(t, 1 .. m, s) /\ s \notin NamesIn(t, m)
      ELSE q \in 1 .. m /\ t.key[q] = s /\ s \in NamesIn(t, m)
  BY <1>3 DEF IsPlace, Lacks, NamesIn
<1> QED
  BY <1>4 DEF q

(* The symbol of a string in the table. *)
LEMMA SymbolOfPosition ==
  ASSUME NEW m \in Nat, NEW pos \in 1 .. m, treap.key[pos] \in Strings
  PROVE  SymbolAt(pos) \in Symbols(m)
<1>1. Arity[treap.key[pos]] \in 0 .. 15
  BY SymbolTableAssumption
<1> QED
  BY <1>1 DEF SymbolAt, Symbols

(* A call returns. *)
LEMMA ReturnKeeps ==
  ASSUME NEW p, Procs = {p}, Arrays, NEW a, Return(p, a), UNCHANGED <<treap, call, adding, position>>,
         NEW t, NEW n, NEW m, NEW d, NEW x, State(p, t, n, m, d, x), pc[p] = "body",
         m >= InitialCount, Reply("idle", call[p], m, a), loads'[p] = Nested(call[p], 0, 1)
  PROVE  State(p, t, n, m, 0, 1)'
<1>1. pc'[p] = "idle" /\ call'[p] = call[p] /\ answer'[p] = a /\ position'[p] = position[p]
      /\ treap' = treap /\ adding'[p] = adding[p]
  BY DEF Return, Goto, Arrays
<1>2. n \in Nat /\ m \in Nat /\ InitialCount \in Nat /\ treap = t
  BY SymbolStateIs
<1>3. Stack("idle", call[p], t, m, 0, 1)
  BY DEF Stack
<1>4. InOrder("idle", call[p], m, 0, 1)
  BY <1>2 DEF InOrder
<1>5. Pending("idle", call[p], t, n, m, 0, 1, position[p])
  BY DEF State, Pending
<1>6. Enough("idle", call[p], t, n, m, 0, adding[p])
  BY DEF Enough
<1>7. Taking("idle", treap, t, m, StringAt(call[p], 0, 1))
  BY <1>2 DEF Taking
<1>8. IsCall(call[p], m) /\ Packed(t, n, m) /\ Prefix(t, m)
  BY DEF State
<1> QED
  BY <1>1, <1>3, <1>4, <1>5, <1>6, <1>7, <1>8 DEF State

(* After the string s was interned: v has it, and all that t has. *)
Gained(c, t, k, v, n, m, d, x, s) ==
  /\ Packed(v, n, m) /\ Prefix(v, m) /\ IsCall(c, m)
  /\ NamesIn(t, k) \subseteq NamesIn(v, m) /\ s \in NamesIn(v, m)
  /\ Cardinality(Missing(c, v, m)) <= n - 1 - m
  /\ m < InitialCount => d > Own(c) /\ x = m

(* internDirect is done with a string. *)
LEMMA InternedKeeps ==
  ASSUME NEW p, Procs = {p}, Arrays, NEW pos, Interned(p, pos), UNCHANGED <<call, adding, position>>,
         NEW t, NEW n, NEW k, NEW d, NEW x, State(p, t, n, k, d, x), pc[p] # "idle",
         HasString(call[p], d, x), NEW v, NEW m \in Nat, treap' = v,
         Gained(call[p], t, k, v, n, m, d, x, StringAt(call[p], d, x)),
         pos \in 1 .. m, treap.key[pos] \in Strings
  PROVE  /\ d = 0 => pc'[p] = "idle" /\ answer'[p] = SymbolAt(pos) /\ State(p, v, n, m, 0, 1)'
         /\ d > 0 => pc'[p] = "body" /\ answer'[p] = answer[p] /\ State(p, v, n, m, d, x + 1)'
<1> DEFINE c == call[p]
           s == StringAt(c, d, x)
<1>1. call'[p] = c /\ adding'[p] = adding[p] /\ position'[p] = position[p] /\ treap' = v
  OBVIOUS
<1>2. n \in Nat /\ d \in Nat /\ x \in Nat \ {0} /\ InitialCount \in Nat /\ Own(c) \in {0, 1}
      /\ (loads[p] = <<>> <=> d = 0) /\ Len(loads[p]) = d /\ loads[p] = Nested(c, d, x)
  BY SymbolStateIs DEF State
<1>3. /\ Packed(v, n, m) /\ Prefix(v, m) /\ IsCall(c, m)
      /\ NamesIn(t, k) \subseteq NamesIn(v, m) /\ s \in NamesIn(v, m)
      /\ Cardinality(Missing(c, v, m)) <= n - 1 - m
      /\ m < InitialCount => d > Own(c) /\ x = m
  BY DEF Gained
<1>4. Stack(pc[p], c, t, k, d, x) /\ pc[p] # "idle" /\ Reply(pc[p], c, k, answer[p])
      /\ HasString(c, d, x) /\ position[p] \in Memory(n)
  BY DEF State, Pending
<1> HIDE DEF c, s
<1>5. ASSUME d = 0 PROVE pc'[p] = "idle" /\ answer'[p] = SymbolAt(pos) /\ State(p, v, n, m, 0, 1)'
  <2>1. pc'[p] = "idle" /\ answer'[p] = SymbolAt(pos) /\ loads'[p] = Nested(c, 0, 1)
    <3>1. x = 1
      BY <1>4, <1>5 DEF Stack
    <3> QED
      BY <1>2, <1>5, <3>1 DEF Interned, Return, Goto, Arrays
  <2>2. SymbolAt(pos) \in Symbols(m) /\ c.op = "intern"
    BY <1>4, <1>5, SymbolOfPosition DEF HasString
  <2>3. Stack("idle", c, v, m, 0, 1)
    BY DEF Stack
  <2>4. InOrder("idle", c, m, 0, 1)
    BY <1>2, <1>3, <1>5 DEF InOrder
  <2>5. Pending("idle", c, v, n, m, 0, 1, position[p])
    BY <1>4 DEF Pending
  <2>6. Enough("idle", c, v, n, m, 0, adding[p])
    BY DEF Enough
  <2>7. Reply("idle", c, m, SymbolAt(pos))
    BY <2>2 DEF Reply
  <2>8. Taking("idle", v, v, m, StringAt(c, 0, 1))
    BY DEF Taking
  <2> QED
    BY <1>1, <1>3, <2>1, <2>3, <2>4, <2>5, <2>6, <2>7, <2>8 DEF State
<1>6. ASSUME d > 0 PROVE pc'[p] = "body" /\ answer'[p] = answer[p] /\ State(p, v, n, m, d, x + 1)'
  <2>1. pc'[p] = "body" /\ answer'[p] = answer[p]
        /\ loads'[p] = [loads[p] EXCEPT ![d].next = loads[p][d].next + 1]
    <3>1. pc' = [pc EXCEPT ![p] = "body"] /\ answer' = answer
          /\ loads' = [loads EXCEPT ![p][Len(loads[p])].next = @ + 1]
      BY <1>2, <1>6 DEF Interned, Goto
    <3>2. loads'[p] = [loads[p] EXCEPT ![d].next = loads[p][d].next + 1]
      BY <1>2, <3>1 DEF Arrays
    <3> QED
      BY <3>1, <3>2 DEF Arrays
  <2>2. loads'[p] = Nested(c, d, x + 1)
    <3>3. d \in Nat \ {0} /\ d \in Nat /\ d > 0 /\ x \in Nat
      BY <1>2, <1>6
    <3>4. Nested(c, d, x)[d].next = x
      BY <3>3 DEF Nested, LoadAt
    <3>1. loads[p][d].next = x
      BY <1>2, <3>4
    <3>2. loads'[p] = [Nested(c, d, x) EXCEPT ![d].next = x + 1]
      BY <1>2, <2>1, <3>1
    <3> QED
      <4>1. SameLoads([Nested(c, d, x) EXCEPT ![d].next = x + 1], c, d, x + 1)
        BY <3>3, LoadAdvanced
      <4> QED
        BY <3>2, <4>1 DEF SameLoads
  <2>3. Stack("body", c, v, m, d, x + 1)
    <3>1. d >= Own(c)
          /\ \A j \in 1 .. x - 1 : ListAt(c, d)[j] \in NamesIn(t, k) \/ MovesAt(c, d, j)
      BY <1>4, <1>6 DEF Stack
    <3>2. x <= Len(ListAt(c, d)) /\ Len(ListAt(c, d)) \in Nat
      BY <1>2, <1>3, <1>4, <1>6, SomeList DEF HasString
    <3>3. s = ListAt(c, d)[x]
      BY <1>6 DEF s, StringAt
    <3>4. ASSUME NEW j \in 1 .. x + 1 - 1
          PROVE  ListAt(c, d)[j] \in NamesIn(v, m) \/ MovesAt(c, d, j)
      <4>1. j = x \/ j \in 1 .. x - 1
        BY <1>2
      <4> QED
        BY <4>1, <3>1, <3>3, <1>3
    <3> QED
      BY <1>2, <1>6, <3>1, <3>2, <3>4 DEF Stack
  <2>4. InOrder("body", c, m, d, x + 1)
    BY <1>2, <1>3 DEF InOrder
  <2>5. Pending("body", c, v, n, m, d, x + 1, position[p])
    BY <1>4 DEF Pending
  <2>6. Enough("body", c, v, n, m, d, adding[p])
    BY <1>3 DEF Enough
  <2>7. Reply("body", c, m, answer[p])
    BY <1>4 DEF Reply
  <2>8. Taking("body", v, v, m, StringAt(c, d, x + 1))
    BY DEF Taking
  <2> QED
    BY <1>1, <1>3, <2>1, <2>2, <2>3, <2>4, <2>5, <2>6, <2>7, <2>8 DEF State
<1> QED
  BY <1>5, <1>6

(* What a string that is interned still lacks was missing before. *)
LEMMA StringMissing ==
  ASSUME NEW p, NEW t, NEW n, NEW m, NEW d, NEW x, State(p, t, n, m, d, x),
         HasString(call[p], d, x), StringAt(call[p], d, x) \notin NamesIn(t, m)
  PROVE  StringAt(call[p], d, x) \in Missing(call[p], t, m)
<1>1. IsCall(call[p], m) /\ d \in Nat /\ x \in Nat \ {0}
  BY SymbolStateIs DEF State
<1> QED
  BY <1>1, StringIs DEF Missing

(* The initial strings come in their order: one that is there is not loaded  *)
(* before all are, and one that is not there is the next.                    *)
LEMMA InitialInOrder ==
  ASSUME NEW p, NEW t, NEW n, NEW m, NEW d, NEW x, State(p, t, n, m, d, x), pc[p] # "room",
         HasString(call[p], d, x)
  PROVE  /\ StringAt(call[p], d, x) \in NamesIn(t, m) => m >= InitialCount
         /\ StringAt(call[p], d, x) \notin NamesIn(t, m) /\ d > Own(call[p]) => m < InitialCount
         /\ m < InitialCount => /\ d > Own(call[p]) /\ x = m + 1
                                /\ StringAt(call[p], d, x) = initialSymbolStrings[m + 1]
<1> DEFINE c == call[p]
           s == StringAt(c, d, x)
<1>1. IsCall(c, m) /\ Prefix(t, m) /\ d \in Nat /\ x \in Nat \ {0} /\ m \in Nat
      /\ InitialCount \in Nat
  BY SymbolStateIs DEF State
<1>2. m < InitialCount => d > Own(c) /\ x = m + 1
  BY DEF State, InOrder
<1>3. d > Own(c) => x \in 1 .. InitialCount /\ s = initialSymbolStrings[x]
                    /\ s \in StringsOf(initialSymbolStrings)
  BY <1>1, StringIs
<1> HIDE DEF c, s
<1>4. ASSUME s \in NamesIn(t, m), m < InitialCount PROVE FALSE
  <2>1. PICK q \in 1 .. m : t.key[q] = s
    BY <1>4 DEF NamesIn
  <2>2. q \in 1 .. InitialCount /\ t.key[q] = initialSymbolStrings[q]
    BY <1>1, <1>4 DEF Prefix
  <2>3. m + 1 \in 1 .. InitialCount /\ s = initialSymbolStrings[m + 1]
    BY <1>1, <1>2, <1>3, <1>4
  <2>4. q = m + 1
    BY <2>1, <2>2, <2>3, InitialStrings
  <2> QED
    BY <2>1, <2>4, <1>1
<1>5. ASSUME s \notin NamesIn(t, m), d > Own(c) PROVE m < InitialCount
  BY <1>1, <1>3, <1>5, MissingAsked
<1> QED
  BY <1>1, <1>2, <1>3, <1>4, <1>5 DEF c, s

(* Hit: the string is there. *)
LEMMA HitKeeps ==
  ASSUME NEW p, Procs = {p}, Arrays, Hit(p),
         NEW t, NEW n, NEW m, NEW d, NEW x, State(p, t, n, m, d, x)
  PROVE  \E pos \in 1 .. m :
           /\ t.key[pos] = StringAt(call[p], d, x) /\ treap' = t /\ call' = call
           /\ d = 0 => /\ m >= InitialCount /\ call[p].op = "intern"
                       /\ answer'[p] = SymbolAt(pos) /\ State(p, t, n, m, 0, 1)'
           /\ d > 0 => answer'[p] = answer[p] /\ State(p, t, n, m, d, x + 1)'
<1> DEFINE c == call[p]
           s == StringAt(c, d, x)
           pos == lookup(treap, string(p))
<1>1. /\ pc[p] = "body" /\ Interning(p) /\ pos # 0 /\ Interned(p, pos)
      /\ treap' = treap /\ call' = call /\ UNCHANGED <<call, adding, position>>
  BY DEF Hit
<1>2. /\ n \in Nat /\ m \in Nat /\ d \in Nat /\ x \in Nat \ {0} /\ treap = t /\ string(p) = s
      /\ IsCall(c, m) /\ Packed(t, n, m) /\ Prefix(t, m)
  BY <1>1, SymbolStateIs DEF State
<1>3. HasString(c, d, x)
  BY <1>1, InterningHasString
<1>4. s \in Strings
  BY <1>2, <1>3, StringIs
<1>5. pos \in 1 .. m /\ t.key[pos] = s /\ s \in NamesIn(t, m)
  BY <1>1, <1>2, <1>4, FoundAt
<1>6. m >= InitialCount
  BY <1>1, <1>3, <1>5, InitialInOrder
<1>7. Cardinality(Missing(c, t, m)) <= n - 1 - m
  BY <1>1 DEF State, Enough
<1> HIDE DEF pos
<1>8. Gained(c, t, m, t, n, m, d, x, s)
  BY <1>2, <1>5, <1>6, <1>7, InitialStrings DEF Gained
<1>9. /\ d = 0 => pc'[p] = "idle" /\ answer'[p] = SymbolAt(pos) /\ State(p, t, n, m, 0, 1)'
      /\ d > 0 => pc'[p] = "body" /\ answer'[p] = answer[p] /\ State(p, t, n, m, d, x + 1)'
  BY <1>1, <1>2, <1>3, <1>4, <1>5, <1>8, InternedKeeps
<1>10. d = 0 => c.op = "intern"
  BY <1>3 DEF HasString
<1> QED
  BY <1>1, <1>2, <1>5, <1>6, <1>9, <1>10

(* Miss: the string is not there, and there is an element for it. *)
LEMMA MissKeeps ==
  ASSUME NEW p, Procs = {p}, Arrays, Miss(p),
         NEW t, NEW n, NEW m, NEW d, NEW x, State(p, t, n, m, d, x)
  PROVE  State(p, t, n, m, d, x)'
<1> DEFINE c == call[p]
           s == StringAt(c, d, x)
<1>1. /\ pc[p] = "body" /\ Interning(p) /\ lookup(treap, string(p)) = 0 /\ treap' = treap
      /\ pc'[p] = "take" /\ position'[p] = free(treap) /\ call'[p] = c /\ adding'[p] = adding[p]
      /\ loads'[p] = loads[p] /\ answer'[p] = answer[p]
  BY DEF Miss, NoSymbol, Goto, Arrays
<1>2. /\ n \in Nat /\ m \in Nat /\ m < n /\ d \in Nat /\ x \in Nat \ {0} /\ treap = t
      /\ string(p) = s /\ IsCall(c, m) /\ Packed(t, n, m) /\ Prefix(t, m)
      /\ loads[p] = Nested(c, d, x)
  <2>1. /\ n \in Nat /\ m \in Nat /\ m < n /\ d \in Nat /\ x \in Nat \ {0} /\ treap = t
        /\ string(p) = s
    BY <1>1, SymbolStateIs
  <2>2. IsCall(c, m) /\ Packed(t, n, m) /\ Prefix(t, m) /\ loads[p] = Nested(c, d, x)
    BY DEF State
  <2> QED
    BY <2>1, <2>2
<1>3. HasString(c, d, x)
  BY <1>1, InterningHasString
<1>4. s \in Strings
  BY <1>2, <1>3, StringIs
<1>5. Lacks(t, 1 .. m, s) /\ s \notin NamesIn(t, m)
  BY <1>1, <1>2, <1>4, FoundAt
<1>6. m + 1 < n
  <2>1. Cardinality(Missing(c, t, m)) <= n - 1 - m
    BY <1>1 DEF State, Enough
  <2>2. s \in Missing(c, t, m)
    BY <1>3, <1>5, StringMissing
  <2>3. Cardinality(Missing(c, t, m)) \in Nat /\ Cardinality(Missing(c, t, m)) >= 1
    BY <1>2, <2>2, MissingIs
  <2> QED
    BY <1>2, <2>1, <2>3
<1>7. free(treap) = m + 1
  BY <1>2, <1>6, PackedFacts
<1>8. Pending("take", c, t, n, m, d, x, m + 1)
  <2>1. m + 1 \in Memory(n)
    BY <1>2, <1>6, MemorySize
  <2>2. ~MovesAt(c, d, x)
    BY <1>1, MovesIs DEF Miss
  <2> QED
    BY <2>1, <2>2, <1>3, <1>5, <1>6 DEF Pending, HasString
<1> HIDE DEF c, s
<1>9. Stack("body", c, t, m, d, x) /\ InOrder("body", c, m, d, x)
      /\ Enough("body", c, t, n, m, d, adding[p]) /\ Reply("body", c, m, answer[p])
  BY <1>1 DEF State, c
<1>10. Stack("take", c, t, m, d, x)
  BY <1>9 DEF Stack
<1>11. InOrder("take", c, m, d, x)
  BY <1>9 DEF InOrder
<1>12. Enough("take", c, t, n, m, d, adding[p])
  BY <1>9 DEF Enough
<1>13. Reply("take", c, m, answer[p])
  BY <1>9 DEF Reply
<1>14. Taking("take", t, t, m, s)
  BY DEF Taking
<1> QED
  BY <1>1, <1>2, <1>7, <1>8, <1>10, <1>11, <1>12, <1>13, <1>14 DEF State, s

(* Unreachable: intern ends nowhere. *)
LEMMA UnreachableKeeps ==
  ASSUME NEW p, Procs = {p}, Arrays, Unreachable(p),
         NEW t, NEW n, NEW m, NEW d, NEW x, State(p, t, n, m, d, x)
  PROVE  State(p, t, n, m, d, x)'
<1> DEFINE c == call[p]
<1>1. /\ pc[p] = "body" /\ pc'[p] = "unreachable" /\ treap' = treap /\ position'[p] = position[p]
      /\ call'[p] = c /\ adding'[p] = adding[p] /\ loads'[p] = loads[p] /\ answer'[p] = answer[p]
  BY DEF Unreachable, NoSymbol, Goto, Arrays
<1>2. treap = t
  BY <1>1, SymbolStateIs
<1>3. IsCall(c, m) /\ Packed(t, n, m) /\ Prefix(t, m) /\ loads[p] = Nested(c, d, x)
      /\ Stack("body", c, t, m, d, x) /\ InOrder("body", c, m, d, x)
      /\ Pending("body", c, t, n, m, d, x, position[p]) /\ Reply("body", c, m, answer[p])
  BY <1>1 DEF State
<1> HIDE DEF c
<1>4. Stack("unreachable", c, t, m, d, x)
  BY <1>3 DEF Stack
<1>5. InOrder("unreachable", c, m, d, x)
  BY <1>3 DEF InOrder
<1>6. Pending("unreachable", c, t, n, m, d, x, position[p])
  BY <1>3 DEF Pending
<1>7. Enough("unreachable", c, t, n, m, d, adding[p])
  BY DEF Enough
<1>8. Reply("unreachable", c, m, answer[p])
  BY <1>3 DEF Reply
<1>9. Taking("unreachable", t, t, m, StringAt(c, d, x))
  BY DEF Taking
<1> QED
  BY <1>1, <1>2, <1>3, <1>4, <1>5, <1>6, <1>7, <1>8, <1>9 DEF State

(* Skip: a load goes on without the string. *)
LEMMA SkipKeeps ==
  ASSUME NEW p, Procs = {p}, Arrays, Skip(p),
         NEW t, NEW n, NEW m, NEW d, NEW x, State(p, t, n, m, d, x)
  PROVE  State(p, t, n, m, d, x + 1)'
<1> DEFINE c == call[p]
<1>1. /\ pc[p] = "body" /\ pc'[p] = "body" /\ treap' = treap /\ position'[p] = position[p]
      /\ call'[p] = c /\ adding'[p] = adding[p] /\ answer'[p] = answer[p]
      /\ loads' = [loads EXCEPT ![p][Len(loads[p])].next = @ + 1]
      /\ Interning(p) /\ loads[p] # <<>>
  BY DEF Skip, NoSymbol, Arrays
<1>2. /\ treap = t /\ d \in Nat \ {0} /\ d \in Nat /\ d > 0 /\ x \in Nat \ {0} /\ x \in Nat
      /\ Len(loads[p]) = d /\ m \in Nat /\ InitialCount \in Nat
  BY <1>1, SymbolStateIs
<1>3. IsCall(c, m) /\ Packed(t, n, m) /\ Prefix(t, m) /\ loads[p] = Nested(c, d, x)
      /\ Stack("body", c, t, m, d, x) /\ InOrder("body", c, m, d, x)
      /\ Pending("body", c, t, n, m, d, x, position[p]) /\ Reply("body", c, m, answer[p])
      /\ Enough("body", c, t, n, m, d, adding[p])
  BY <1>1 DEF State
<1>4. MovesAt(c, d, x)
  BY <1>1, MovesIs DEF Skip
<1>5. x <= Len(ListAt(c, d))
  BY <1>1, <1>2, InterningHasString DEF HasString
<1>6. Len(ListAt(c, d)) \in Nat
  BY <1>2, <1>3, SomeList
<1> HIDE DEF c
<1>7. loads'[p] = Nested(c, d, x + 1)
  <2>1. loads'[p] = [loads[p] EXCEPT ![d].next = loads[p][d].next + 1]
    BY <1>1, <1>2 DEF Arrays
  <2>2. Nested(c, d, x)[d].next = x
    BY <1>2 DEF Nested, LoadAt
  <2>3. loads'[p] = [Nested(c, d, x) EXCEPT ![d].next = x + 1]
    BY <1>3, <2>1, <2>2
  <2>4. SameLoads([Nested(c, d, x) EXCEPT ![d].next = x + 1], c, d, x + 1)
    BY <1>2, LoadAdvanced
  <2> QED
    BY <2>3, <2>4 DEF SameLoads
<1>8. Stack("body", c, t, m, d, x + 1)
  <2>1. d >= Own(c) /\ \A j \in 1 .. x - 1 : ListAt(c, d)[j] \in NamesIn(t, m) \/ MovesAt(c, d, j)
    BY <1>2, <1>3 DEF Stack
  <2>2. ASSUME NEW j \in 1 .. x + 1 - 1
        PROVE  ListAt(c, d)[j] \in NamesIn(t, m) \/ MovesAt(c, d, j)
    <3>1. j = x \/ j \in 1 .. x - 1
      BY <1>2
    <3> QED
      BY <3>1, <2>1, <1>4
  <2> QED
    BY <1>2, <1>5, <1>6, <2>1, <2>2 DEF Stack
<1>9. InOrder("body", c, m, d, x + 1)
  <2>1. d <= Own(c)
    BY <1>4 DEF MovesAt
  <2>2. Own(c) \in Nat
    BY DEF Own
  <2> QED
    BY <1>2, <1>3, <2>1, <2>2 DEF InOrder
<1>10. Pending("body", c, t, n, m, d, x + 1, position[p])
  BY <1>3 DEF Pending
<1>11. Taking("body", t, t, m, StringAt(c, d, x + 1))
  BY DEF Taking
<1> QED
  BY <1>1, <1>2, <1>3, <1>7, <1>8, <1>9, <1>10, <1>11 DEF State

(* Take: the element gets the string. *)
LEMMA TakeKeeps ==
  ASSUME NEW p, Procs = {p}, Arrays, Take(p),
         NEW t, NEW n, NEW m, NEW d, NEW x, State(p, t, n, m, d, x)
  PROVE  State(p, t, n, m, d, x)'
<1> DEFINE c == call[p]
           s == StringAt(c, d, x)
           u == WithString(t, m, s)
<1>1. /\ pc[p] = "take"
      /\ treap' = TakenFor(treap, position[p], string(p))
      /\ pc'[p] = "link" /\ position'[p] = position[p] /\ call'[p] = c /\ adding'[p] = adding[p]
      /\ loads'[p] = loads[p] /\ answer'[p] = answer[p]
  BY DEF Take, Goto, Arrays, TakenFor
<1>2. /\ n \in Nat /\ m \in Nat /\ m < n /\ d \in Nat /\ x \in Nat \ {0} /\ treap = t
      /\ string(p) = s /\ IsCall(c, m) /\ Packed(t, n, m) /\ Prefix(t, m)
      /\ loads[p] = Nested(c, d, x)
  <2>1. /\ n \in Nat /\ m \in Nat /\ m < n /\ d \in Nat /\ x \in Nat \ {0} /\ treap = t
        /\ string(p) = s
    BY <1>1, SymbolStateIs
  <2>2. IsCall(c, m) /\ Packed(t, n, m) /\ Prefix(t, m) /\ loads[p] = Nested(c, d, x)
    BY DEF State
  <2> QED
    BY <2>1, <2>2
<1>3. position[p] = m + 1 /\ m + 1 < n /\ HasString(c, d, x)
      /\ Pending("take", c, t, n, m, d, x, position[p])
  BY <1>1 DEF State, Pending, HasString
<1>4. s \in Strings
  BY <1>2, <1>3, StringIs
<1>5. TakenFor(t, m + 1, s) = u
  <2> HIDE DEF s
  <2> QED
    BY <1>2, <1>3, <1>4, PackedBetween
<1>6. treap' = u
  BY <1>1, <1>2, <1>3, <1>5
<1> HIDE DEF c, s, u
<1>7. Stack("take", c, t, m, d, x) /\ InOrder("take", c, m, d, x)
      /\ Enough("take", c, t, n, m, d, adding[p]) /\ Reply("take", c, m, answer[p])
  BY <1>1 DEF State, c
<1>8. Stack("link", c, t, m, d, x)
  BY <1>7 DEF Stack
<1>9. InOrder("link", c, m, d, x)
  BY <1>7 DEF InOrder
<1>10. Pending("link", c, t, n, m, d, x, position[p])
  BY <1>3 DEF Pending
<1>11. Enough("link", c, t, n, m, d, adding[p])
  BY <1>7 DEF Enough
<1>12. Reply("link", c, m, answer[p])
  BY <1>7 DEF Reply
<1>13. Taking("link", u, t, m, s)
  BY DEF Taking, u
<1> QED
  BY <1>1, <1>2, <1>6, <1>8, <1>9, <1>10, <1>11, <1>12, <1>13 DEF State, s

(* Link: the tree gets the element. *)
LEMMA LinkKeeps ==
  ASSUME NEW p, Procs = {p}, Arrays, Link(p),
         NEW t, NEW n, NEW m, NEW d, NEW x, State(p, t, n, m, d, x)
  PROVE  \E v :
           /\ Joined(t, v, n, m, StringAt(call[p], d, x)) /\ treap' = v /\ call' = call
           /\ StringAt(call[p], d, x) \notin NamesIn(t, m) /\ HasString(call[p], d, x)
           /\ d = 0 => /\ m >= InitialCount /\ call[p].op = "intern"
                       /\ answer'[p] = SymbolAt(m + 1) /\ State(p, v, n, m + 1, 0, 1)'
           /\ d > 0 => answer'[p] = answer[p] /\ State(p, v, n, m + 1, d, x + 1)'
<1> DEFINE c == call[p]
           s == StringAt(c, d, x)
           u == WithString(t, m, s)
<1>0. PICK v : v = inserted(t, s)
  OBVIOUS
<1>1. /\ pc[p] = "link" /\ Interned(p, position[p]) /\ call' = call
      /\ UNCHANGED <<call, adding, position>>
      /\ treap' = setRoot(insertElement(treap, position[p], root(treap)).tree,
                          insertElement(treap, position[p], root(treap)).top)
  BY DEF Link
<1>2. /\ n \in Nat /\ m \in Nat /\ m < n /\ d \in Nat /\ x \in Nat \ {0}
      /\ IsCall(c, m) /\ Packed(t, n, m) /\ Prefix(t, m) /\ InitialCount \in Nat
  <2>1. n \in Nat /\ m \in Nat /\ m < n /\ d \in Nat /\ x \in Nat \ {0} /\ InitialCount \in Nat
    BY SymbolStateIs
  <2>2. IsCall(c, m) /\ Packed(t, n, m) /\ Prefix(t, m)
    BY DEF State
  <2> QED
    BY <2>1, <2>2
<1>3. /\ position[p] = m + 1 /\ m + 1 < n /\ HasString(c, d, x) /\ Lacks(t, 1 .. m, s)
      /\ treap = u
  BY <1>1 DEF State, Pending, HasString, Taking
<1>4. s \in Strings
  BY <1>2, <1>3, StringIs
<1>5. s \notin NamesIn(t, m)
  BY <1>3 DEF Lacks, NamesIn
<1>6. Between(t, u, n, m, s)
  <2> HIDE DEF s, c
  <2> QED
    BY <1>2, <1>3, <1>4, PackedBetween
<1>7. Joined(t, v, n, m, s)
  <2> HIDE DEF s, c
  <2> QED
    BY <1>0, <1>2, <1>3, <1>4, PackedJoined
<1> HIDE DEF u
<1>8. treap' = v
  BY <1>0, <1>1, <1>3, <1>6 DEF Between
<1>9. treap.key[m + 1] = s
  <2>1. /\ u.key = [t.key EXCEPT ![m + 1] = s] /\ m + 1 \in Memory(n)
        /\ t.key \in [Memory(n) -> Strings \cup {empty}]
    BY <1>2, <1>6, PackedFacts DEF Between
  <2> QED
    BY <2>1, <1>3
<1>10. /\ m < InitialCount => d > Own(c) /\ x = m + 1 /\ s = initialSymbolStrings[m + 1]
  BY <1>1, <1>3, InitialInOrder
<1>11. Packed(v, n, m + 1) /\ v.key[m + 1] = s /\ \A q \in 1 .. m : v.key[q] = t.key[q]
  BY <1>7 DEF Joined
<1> HIDE DEF s, c
<1>12. Prefix(v, m + 1)
  <2>1. ASSUME NEW q \in 1 .. m + 1, q <= InitialCount PROVE v.key[q] = initialSymbolStrings[q]
    <3>1. CASE q = m + 1
      BY <3>1, <2>1, <1>2, <1>10, <1>11
    <3>2. CASE q # m + 1
      <4>1. q \in 1 .. m
        BY <3>2, <1>2
      <4> QED
        BY <4>1, <2>1, <1>2, <1>11 DEF Prefix
    <3> QED
      BY <3>1, <3>2
  <2> QED
    BY <2>1 DEF Prefix
<1>13. NamesIn(v, m + 1) = NamesIn(t, m) \cup {s}
       /\ Cardinality(Missing(c, v, m + 1)) = Cardinality(Missing(c, t, m)) - 1
  <2>1. s \in Missing(c, t, m)
    BY <1>3, <1>5, StringMissing DEF s, c
  <2> QED
    BY <2>1, <1>2, <1>7, MissingLess
<1>14. Cardinality(Missing(c, t, m)) <= n - 1 - m /\ Cardinality(Missing(c, t, m)) \in Nat
  <2>1. Enough("link", c, t, n, m, d, adding[p])
    BY <1>1 DEF State, c
  <2> QED
    BY <2>1, <1>2, MissingIs DEF Enough
<1>15. IsCall(c, m + 1)
  BY <1>2, CallStays
<1>16. Gained(c, t, m, v, n, m + 1, d, x, s)
  <2>1. m + 1 < InitialCount => d > Own(c) /\ x = m + 1
    BY <1>2, <1>10
  <2>2. Cardinality(Missing(c, v, m + 1)) <= n - 1 - (m + 1)
    BY <1>2, <1>13, <1>14
  <2> QED
    BY <2>1, <2>2, <1>11, <1>12, <1>13, <1>15 DEF Gained
<1>17. /\ d = 0 => pc'[p] = "idle" /\ answer'[p] = SymbolAt(m + 1) /\ State(p, v, n, m + 1, 0, 1)'
       /\ d > 0 => pc'[p] = "body" /\ answer'[p] = answer[p] /\ State(p, v, n, m + 1, d, x + 1)'
  <2>1. PICK k \in Nat : k = m + 1
    BY <1>2
  <2>2. Interned(p, k) /\ treap.key[k] \in Strings /\ k \in 1 .. k /\ pc[p] # "idle"
    BY <2>1, <1>1, <1>2, <1>3, <1>4, <1>9
  <2>3. Gained(call[p], t, m, v, n, k, d, x, StringAt(call[p], d, x)) /\ HasString(call[p], d, x)
    BY <2>1, <1>3, <1>16 DEF s, c
  <2>4. UNCHANGED <<call, adding, position>> /\ treap' = v
    BY <1>1, <1>8
  <2>5. /\ d = 0 => pc'[p] = "idle" /\ answer'[p] = SymbolAt(k) /\ State(p, v, n, k, 0, 1)'
        /\ d > 0 => pc'[p] = "body" /\ answer'[p] = answer[p] /\ State(p, v, n, k, d, x + 1)'
    BY <2>2, <2>3, <2>4, InternedKeeps
  <2> QED
    BY <2>1, <2>5
<1>18. d = 0 => m >= InitialCount /\ c.op = "intern"
  BY <1>2, <1>3, <1>10 DEF HasString, Own
<1>19. /\ Joined(t, v, n, m, s) /\ treap' = v /\ call' = call /\ s \notin NamesIn(t, m)
       /\ HasString(c, d, x)
  BY <1>1, <1>3, <1>5, <1>7, <1>8
<1>20. /\ d = 0 => /\ m >= InitialCount /\ c.op = "intern"
                   /\ answer'[p] = SymbolAt(m + 1) /\ State(p, v, n, m + 1, 0, 1)'
       /\ d > 0 => answer'[p] = answer[p] /\ State(p, v, n, m + 1, d, x + 1)'
  BY <1>17, <1>18
<1> QED
  BY <1>19, <1>20 DEF s, c

(* A load is done: the enlargement it was part of is, or the call.           *)
EndsCall(p) == Len(loads[p]) = 1 /\ call[p].op = "load"

(* Loaded: all strings of a load are there but those that may move. *)
LEMMA LoadedKeeps ==
  ASSUME NEW p, Procs = {p}, Arrays, Loaded(p),
         NEW t, NEW n, NEW m, NEW d, NEW x, State(p, t, n, m, d, x)
  PROVE  /\ treap' = t /\ call' = call /\ m >= InitialCount
         /\ EndsCall(p) => /\ Promised(call[p].arg, call[p].moving) \subseteq NamesIn(t, m)
                           /\ answer'[p] = 0 /\ State(p, t, n, m, 0, 1)'
         /\ ~EndsCall(p) => answer' = answer /\ State(p, t, n, m, d - 1, 1)'
<1> DEFINE c == call[p]
<1>1. /\ pc[p] = "body" /\ loads[p] # <<>> /\ ~Loading(p) /\ treap' = treap /\ call' = call
      /\ UNCHANGED <<treap, call, adding, position>>
      /\ loads' = [loads EXCEPT ![p] = SubSeq(@, 1, Len(@) - 1)]
      /\ IF EndsCall(p) THEN Return(p, 0) ELSE UNCHANGED <<pc, answer>>
  BY DEF Loaded, EndsCall
<1>2. n \in Nat /\ m \in Nat /\ m < n /\ d \in Nat /\ x \in Nat \ {0} /\ InitialCount \in Nat
      /\ treap = t /\ Len(loads[p]) = d /\ d > 0
  BY <1>1, SymbolStateIs
<1>3. IsCall(c, m) /\ Packed(t, n, m) /\ Prefix(t, m) /\ Stack("body", c, t, m, d, x)
      /\ InOrder("body", c, m, d, x) /\ Pending("body", c, t, n, m, d, x, position[p])
      /\ Enough("body", c, t, n, m, d, adding[p]) /\ Reply("body", c, m, answer[p])
  BY <1>1 DEF State
<1>4. loads[p] = Nested(c, d, x)
  BY DEF State
<1>5. x = Len(ListAt(c, d)) + 1
  <2>1. ~(x <= Len(ListAt(c, d)))
    BY <1>1, <1>2, SymbolStateIs DEF Loading
  <2>2. x <= Len(ListAt(c, d)) + 1 /\ Len(ListAt(c, d)) \in Nat
    BY <1>2, <1>3, SomeList DEF Stack
  <2> QED
    BY <2>1, <2>2, <1>2
<1>6. m >= InitialCount
  <2>1. ASSUME m < InitialCount PROVE FALSE
    <3>1. d > Own(c) /\ x = m + 1
      BY <1>3, <2>1 DEF InOrder
    <3>2. ListAt(c, d) = initialSymbolStrings
      BY <3>1, <1>2 DEF ListAt, Own
    <3> QED
      BY <3>1, <3>2, <2>1, <1>2, <1>5 DEF InitialCount
  <2> QED
    BY <2>1, <1>2
<1>7. loads'[p] = Nested(c, d - 1, 1)
  <2>1. loads'[p] = SubSeq(loads[p], 1, Len(loads[p]) - 1)
    BY <1>1 DEF Arrays
  <2>2. d \in Nat \ {0} /\ x \in Nat
    BY <1>2
  <2>3. SameLoads(SubSeq(Nested(c, d, x), 1, Len(Nested(c, d, x)) - 1), c, d - 1, 1)
    BY <2>2, LoadEnded
  <2> QED
    BY <2>1, <2>3, <1>4 DEF SameLoads
<1>8. ASSUME EndsCall(p)
      PROVE  /\ Promised(c.arg, c.moving) \subseteq NamesIn(t, m) /\ answer'[p] = 0
             /\ State(p, t, n, m, 0, 1)'
  <2>1. d = 1 /\ c.op = "load"
    BY <1>2, <1>8 DEF EndsCall
  <2>2. ListAt(c, d) = c.arg /\ c.arg \in Seq(Strings)
    <3>1. ListAt(c, d) = c.arg
      BY <2>1 DEF ListAt, Own
    <3>2. IsCall(c, m)
      BY <1>3
    <3> QED
      BY <2>1, <3>1, <3>2, CallIs
  <2>3. Promised(c.arg, c.moving) \subseteq NamesIn(t, m)
    <3>1. DOMAIN c.arg = 1 .. x - 1
      BY <2>2, <1>5, LenProperties
    <3>2. \A j \in 1 .. x - 1 : c.arg[j] \in NamesIn(t, m) \/ j \in c.moving
      BY <1>2, <1>3, <2>2 DEF Stack, MovesAt
    <3> QED
      BY <3>1, <3>2 DEF Promised
  <2>4. Return(p, 0)
    BY <1>1, <1>8
  <2>5. answer'[p] = 0
    BY <2>4 DEF Return, Arrays
  <2>6. Reply("idle", c, m, 0)
    BY <2>1 DEF Reply
  <2>7. loads'[p] = Nested(c, 0, 1)
    BY <1>7, <2>1
  <2>8. State(p, t, n, m, 0, 1)'
    <3> HIDE DEF c
    <3> QED
      BY <1>1, <1>6, <2>4, <2>6, <2>7, ReturnKeeps DEF c
  <2> QED
    BY <2>3, <2>5, <2>8
<1>9. ASSUME ~EndsCall(p) PROVE answer' = answer /\ State(p, t, n, m, d - 1, 1)'
  <2>1. pc' = pc /\ answer' = answer
    BY <1>1, <1>9
  <2> HIDE DEF c
  <2>2. d >= Own(c) /\ (c.op = "load" => d # 1) /\ Own(c) = IF c.op = "load" THEN 1 ELSE 0
    BY <1>2, <1>3, <1>9 DEF Stack, EndsCall, c, Own
  <2>3. d - 1 \in Nat /\ d - 1 >= Own(c)
    BY <2>2, <1>2
  <2>4. Stack("body", c, t, m, d - 1, 1)
    <3>1. d - 1 > 0 => Len(ListAt(c, d - 1)) \in Nat
      BY <2>3, <1>3, SomeList
    <3> QED
      BY <2>3, <3>1 DEF Stack
  <2>5. InOrder("body", c, m, d - 1, 1)
    BY <1>2, <1>6 DEF InOrder
  <2>6. Pending("body", c, t, n, m, d - 1, 1, position[p])
    BY <1>3 DEF Pending
  <2>7. Enough("body", c, t, n, m, d - 1, adding[p])
    BY <1>3 DEF Enough
  <2>8. Taking("body", t, t, m, StringAt(c, d - 1, 1))
    BY DEF Taking
  <2>9. pc'[p] = "body" /\ call'[p] = c /\ adding'[p] = adding[p] /\ position'[p] = position[p]
        /\ answer'[p] = answer[p] /\ treap' = t
    BY <1>1, <1>2, <2>1 DEF c
  <2> QED
    BY <1>3, <1>7, <2>1, <2>4, <2>5, <2>6, <2>7, <2>8, <2>9 DEF State
<1> QED
  BY <1>1, <1>2, <1>6, <1>8, <1>9

(* What lookup answers. *)
LEMMA LookupKeeps ==
  ASSUME NEW p, Procs = {p}, Arrays, Lookup(p),
         NEW t, NEW n, NEW m, NEW d, NEW x, State(p, t, n, m, d, x)
  PROVE  /\ treap' = t /\ call' = call /\ m >= InitialCount /\ State(p, t, n, m, 0, 1)'
         /\ call[p].op = "lookup"
         /\ \/ answer'[p] = Nil /\ call[p].arg \notin NamesIn(t, m)
            \/ \E pos \in 1 .. m : t.key[pos] = call[p].arg /\ answer'[p] = SymbolAt(pos)
<1> DEFINE c == call[p]
           pos == lookup(treap, c.arg)
           a == IF pos = 0 THEN Nil ELSE SymbolAt(pos)
<1>1. /\ pc[p] = "body" /\ loads[p] = <<>> /\ c.op = "lookup" /\ treap' = treap /\ call' = call
      /\ UNCHANGED <<treap, call, adding, position>> /\ loads' = loads /\ Return(p, a)
  BY DEF Lookup
<1>2. m \in Nat /\ treap = t /\ d = 0 /\ x \in Nat
  BY <1>1, SymbolStateIs
<1>3. IsCall(c, m) /\ Packed(t, n, m) /\ loads[p] = Nested(c, d, x) /\ Stack("body", c, t, m, d, x)
  BY <1>1 DEF State
<1>4. x = 1 /\ loads'[p] = Nested(c, 0, 1)
  BY <1>1, <1>2, <1>3 DEF Stack
<1>5. m >= InitialCount
  BY <1>2, InitialsAreThere DEF Own
<1>6. c.arg \in Strings
  BY <1>1, <1>3, CallIs
<1>7. answer'[p] = a
  BY <1>1 DEF Return, Arrays
<1>8. IF pos = 0 THEN c.arg \notin NamesIn(t, m) ELSE pos \in 1 .. m /\ t.key[pos] = c.arg
  BY <1>2, <1>3, <1>6, FoundAt
<1> HIDE DEF pos
<1>9. pos # 0 => SymbolAt(pos) \in Symbols(m)
  BY <1>2, <1>6, <1>8, SymbolOfPosition
<1>10. Reply("idle", c, m, a)
  BY <1>1, <1>9 DEF Reply
<1> HIDE DEF a
<1>11. State(p, t, n, m, 0, 1)'
  BY <1>1, <1>4, <1>5, <1>10, ReturnKeeps
<1> QED
  BY <1>1, <1>2, <1>5, <1>7, <1>8, <1>11 DEF a

(* What getKey answers. *)
LEMMA GetKeyKeeps ==
  ASSUME NEW p, Procs = {p}, Arrays, GetKey(p),
         NEW t, NEW n, NEW m, NEW d, NEW x, State(p, t, n, m, d, x)
  PROVE  /\ treap' = t /\ call' = call /\ m >= InitialCount /\ State(p, t, n, m, 0, 1)'
         /\ call[p].op = "at" /\ call[p].arg \in Symbols(m)
         /\ answer'[p] = t.key[symbolIndex(call[p].arg)]
<1> DEFINE c == call[p]
           pos == symbolIndex(c.arg)
<1>1. /\ pc[p] = "body" /\ loads[p] = <<>> /\ c.op = "at" /\ treap' = treap /\ call' = call
      /\ UNCHANGED <<treap, call, adding, position>> /\ loads' = loads
      /\ pos \in Positions(treap) /\ Return(p, treap.key[pos])
  BY DEF GetKey
<1>2. m \in Nat /\ treap = t /\ d = 0 /\ x \in Nat
  BY <1>1, SymbolStateIs
<1>3. IsCall(c, m) /\ Packed(t, n, m) /\ loads[p] = Nested(c, d, x) /\ Stack("body", c, t, m, d, x)
  BY <1>1 DEF State
<1>4. x = 1 /\ loads'[p] = Nested(c, 0, 1)
  BY <1>1, <1>2, <1>3 DEF Stack
<1>5. m >= InitialCount /\ Known(m) = m
  BY <1>2, InitialsAreThere DEF Own
<1>6. c.arg \in Symbols(m)
  BY <1>1, <1>3, <1>5, CallIs
<1>7. answer'[p] = t.key[pos]
  BY <1>1, <1>2 DEF Return, Arrays
<1> HIDE DEF pos
<1>8. t.key[pos] \in Nat
  <2>1. pos \in Memory(n) /\ t.key \in [Memory(n) -> Strings \cup {empty}]
    BY <1>1, <1>2, <1>3, PackedFacts
  <2>2. Strings \subseteq Nat /\ empty \in Nat
    BY SymbolTableAssumption DEF empty
  <2> QED
    BY <2>1, <2>2
<1>9. Reply("idle", c, m, t.key[pos])
  BY <1>1, <1>8 DEF Reply
<1>10. State(p, t, n, m, 0, 1)'
  BY <1>1, <1>2, <1>4, <1>5, <1>9, ReturnKeeps
<1> QED
  BY <1>1, <1>2, <1>5, <1>6, <1>7, <1>10 DEF pos

(* The variables stay functions of the processes. *)
LEMMA ArraysStay ==
  ASSUME NEW p, Procs = {p}, Arrays, [SymbolsNext]_symbolVars
  PROVE  Arrays'
<1>1. CASE UNCHANGED symbolVars
  BY <1>1 DEF symbolVars, Arrays
<1>2. ASSUME NEW c, NEW k, NEW l, Begin(p, c, k, l) PROVE Arrays'
  BY <1>2 DEF Begin, Goto, Arrays
<1>3. CASE intern(p) \/ lookupSymbol(p) \/ asString(p) \/ loadSymbols(p)
  BY <1>2, <1>3 DEF intern, lookupSymbol, asString, loadSymbols
<1>4. CASE theTreap(p)
  BY <1>4 DEF theTreap, Goto, Arrays
<1>5. CASE allocTreap(p)
  BY <1>5 DEF allocTreap, Arrays
<1>6. ASSUME NEW pos, Interned(p, pos), UNCHANGED <<call, adding, position>> PROVE Arrays'
  <2>1. CASE loads[p] = <<>>
    BY <1>6, <2>1 DEF Interned, Return, Goto, Arrays
  <2>2. CASE loads[p] # <<>>
    <3> DEFINE l == [loads[p] EXCEPT ![Len(loads[p])].next = @ + 1]
    <3>1. pc' = [pc EXCEPT ![p] = "body"] /\ answer' = answer /\ loads' = [loads EXCEPT ![p] = l]
      BY <1>6, <2>2 DEF Interned, Goto
    <3> HIDE DEF l
    <3> QED
      BY <1>6, <3>1 DEF Arrays
  <2> QED
    BY <2>1, <2>2
<1>7. CASE Hit(p)
  BY <1>6, <1>7 DEF Hit
<1>8. CASE Link(p)
  BY <1>6, <1>8 DEF Link
<1>9. CASE Miss(p)
  BY <1>9 DEF Miss, Goto, Arrays
<1>14. CASE Unreachable(p)
  BY <1>14 DEF Unreachable, Goto, Arrays
<1>15. CASE Skip(p)
  <2> DEFINE l == [loads[p] EXCEPT ![Len(loads[p])].next = @ + 1]
  <2>1. loads' = [loads EXCEPT ![p] = l] /\ UNCHANGED <<treap, pc, call, adding, position, answer>>
    BY <1>15 DEF Skip
  <2> HIDE DEF l
  <2> QED
    BY <2>1 DEF Arrays
<1>10. CASE Take(p)
  BY <1>10 DEF Take, Goto, Arrays
<1>11. CASE Loaded(p)
  BY <1>11 DEF Loaded, Return, Goto, Arrays
<1>12. CASE Lookup(p)
  BY <1>12 DEF Lookup, Return, Goto, Arrays
<1>13. CASE GetKey(p)
  BY <1>13 DEF GetKey, Return, Goto, Arrays
<1> QED
  BY <1>1, <1>3, <1>4, <1>5, <1>7, <1>8, <1>9, <1>10, <1>11, <1>12, <1>13, <1>14, <1>15
     DEF SymbolsNext, Step

(* Each way to begin a call is one. *)
LEMMA CallBegins ==
  ASSUME NEW p, Arrays, intern(p) \/ lookupSymbol(p) \/ asString(p) \/ loadSymbols(p)
  PROVE  /\ Unused(p) => Begins(p, 0)
         /\ \A t, n, m, d, x : State(p, t, n, m, d, x) => Begins(p, m)
<1>1. pc[p] = "idle"
  BY DEF intern, lookupSymbol, asString, loadSymbols, Begin
<1>2. ASSUME Unused(p) PROVE Begins(p, 0)
  <2>1. CASE intern(p) \/ lookupSymbol(p) \/ loadSymbols(p)
    BY <2>1, AllBegin
  <2>2. CASE asString(p)
    <3>1. call[p].op # "intern"
      BY <1>1, <1>2 DEF Unused, Asks
    <3>2. \E y \in Symbols(Known(0)) : Begin(p, Asks(y), 0, <<>>)
      BY <2>2, <3>1, PredefinedAreSymbols DEF asString
    <3> QED
      BY <3>2, AllBegin
  <2> QED
    BY <2>1, <2>2
<1>3. ASSUME NEW t, NEW n, NEW m, NEW d, NEW x, State(p, t, n, m, d, x) PROVE Begins(p, m)
  <2>1. m \in Nat /\ m >= InitialCount /\ Known(m) = m
    <3>1. d = 0 /\ Own(call[p]) \in Nat
      BY <1>1, <1>3 DEF State, Stack, Own
    <3> QED
      BY <1>3, <3>1, SymbolStateIs, InitialsAreThere
  <2>2. CASE intern(p) \/ lookupSymbol(p) \/ loadSymbols(p)
    BY <2>1, <2>2, AllBegin
  <2>3. CASE asString(p)
    <3>1. CASE \E i \in DOMAIN initialSymbolStrings : Begin(p, Asks(symbols(i)), 0, <<>>)
      <4>1. \E y \in Symbols(Known(m)) : Begin(p, Asks(y), 0, <<>>)
        BY <2>1, <3>1, PredefinedAreSymbols
      <4> QED
        BY <2>1, <4>1, AllBegin
    <3>2. CASE call[p].op = "intern" /\ Begin(p, Asks(answer[p]), 0, <<>>)
      <4>1. answer[p] \in Symbols(Known(m))
        BY <1>1, <1>3, <2>1, <3>2 DEF State, Reply
      <4> QED
        BY <2>1, <3>2, <4>1, AllBegin
    <3> QED
      BY <2>3, <3>1, <3>2 DEF asString
  <2> QED
    BY <2>2, <2>3, intern(p) \/ lookupSymbol(p) \/ asString(p) \/ loadSymbols(p)
<1> QED
  BY <1>2, <1>3

(* Before there is memory, a call can only ask for it. *)
LEMMA FirstIsEnlargement ==
  ASSUME NEW p, Unused(p), Step(p)
  PROVE  allocTreap(p)
<1>1. pc[p] \in {"idle", "room"} /\ treap = NoMemory
  BY DEF Unused
<1>2. Elements(treap) = 0
  <2>1. Positions(treap) = {}
    BY <1>1 DEF Positions, NoMemory
  <2> QED
    BY <2>1, FS_EmptySet DEF Elements
<1>3. ~theTreap(p)
  BY <1>2 DEF theTreap, hasRoom
<1> QED
  BY <1>1, <1>3 DEF Step, Hit, Unreachable, Skip, NoSymbol, Miss, Take, Link, Loaded, Lookup, GetKey

Working(p) == \E t, n, m, d, x : State(p, t, n, m, d, x)

(* Each step of a call leads to a state of a call. *)
LEMMA StepKeeps ==
  ASSUME NEW p, Procs = {p}, \A k \in Nat : RoomAfter(k), Arrays,
         NEW t, NEW n, NEW m, NEW d, NEW x, State(p, t, n, m, d, x), Step(p)
  PROVE  Working(p)'
<1>1. CASE theTreap(p)
  BY <1>1, RoomKeeps DEF Working
<1>2. CASE allocTreap(p)
  BY <1>2, EnlargementKeeps DEF Working
<1>3. CASE Hit(p)
  BY <1>3, HitKeeps, SymbolStateIs DEF Working
<1>4. CASE Miss(p)
  BY <1>4, MissKeeps DEF Working
<1>5. CASE Take(p)
  BY <1>5, TakeKeeps DEF Working
<1>6. CASE Link(p)
  BY <1>6, LinkKeeps, SymbolStateIs DEF Working
<1>7. CASE Loaded(p)
  BY <1>7, LoadedKeeps DEF Working
<1>8. CASE Lookup(p)
  BY <1>8, LookupKeeps DEF Working
<1>9. CASE GetKey(p)
  BY <1>9, GetKeyKeeps DEF Working
<1>10. CASE Unreachable(p)
  BY <1>10, UnreachableKeeps DEF Working
<1>11. CASE Skip(p)
  BY <1>11, SkipKeeps DEF Working
<1> QED
  BY <1>1, <1>2, <1>3, <1>4, <1>5, <1>6, <1>7, <1>8, <1>9, <1>10, <1>11 DEF Step

(* The table has no lock (symbol.zig:175): one process uses it. *)
OneProcess == \E p : Procs = {p}

(* Room that the code relies on without a check, see RoomAfter.              *)
EnoughRoom == \A k \in Nat : RoomAfter(k)

SymbolsInv == Arrays /\ \A p \in Procs : Unused(p) \/ Working(p)

(* The invariant of the symbol table. *)
LEMMA SymbolsInvInit ==
  ASSUME SymbolsInit
  PROVE  SymbolsInv
BY DEF SymbolsInit, SymbolsInv, Arrays, Unused

LEMMA SymbolsInvNext ==
  ASSUME NEW p, Procs = {p}, \A k \in Nat : RoomAfter(k), SymbolsInv, [SymbolsNext]_symbolVars
  PROVE  SymbolsInv'
<1>1. Arrays'
  BY ArraysStay DEF SymbolsInv
<1>2. Arrays
  BY DEF SymbolsInv
<1>3. CASE UNCHANGED symbolVars
  <2>1. CASE Unused(p)
    <3>1. Unused(p)'
      BY <1>3, <2>1 DEF symbolVars, Unused
    <3> QED
      BY <1>1, <3>1 DEF SymbolsInv
  <2>2. CASE Working(p)
    <3>1. PICK t, n, m, d, x : State(p, t, n, m, d, x)
      BY <2>2 DEF Working
    <3>2. State(p, t, n, m, d, x)'
      BY <1>3, <3>1 DEF symbolVars, State
    <3> QED
      BY <1>1, <3>2 DEF SymbolsInv, Working
  <2> QED
    BY <2>1, <2>2 DEF SymbolsInv
<1>4. CASE intern(p) \/ lookupSymbol(p) \/ asString(p) \/ loadSymbols(p)
  <2>1. CASE Unused(p)
    <3>1. PICK c, l : Begin(p, c, Asked(c), l) /\ SameLoads(l, c, Own(c), 1) /\ IsCall(c, 0)
      BY <1>2, <1>4, <2>1, CallBegins DEF Begins
    <3>2. Unused(p)'
      BY <1>2, <2>1, <3>1, FirstBegin
    <3> QED
      BY <1>1, <3>2 DEF SymbolsInv
  <2>2. CASE Working(p)
    <3>1. PICK t, n, m, d, x : State(p, t, n, m, d, x)
      BY <2>2 DEF Working
    <3>2. PICK c, l : Begin(p, c, Asked(c), l) /\ SameLoads(l, c, Own(c), 1) /\ IsCall(c, m)
      BY <1>2, <1>4, <3>1, CallBegins DEF Begins
    <3>3. State(p, t, n, m, Own(c), 1)'
      BY <1>2, <3>1, <3>2, BeginKeeps
    <3> QED
      BY <1>1, <3>3 DEF SymbolsInv, Working
  <2> QED
    BY <2>1, <2>2 DEF SymbolsInv
<1>5. CASE Step(p)
  <2>1. CASE Unused(p)
    <3>1. allocTreap(p)
      BY <1>5, <2>1, FirstIsEnlargement
    <3>2. State(p, resize(NoMemory, growSize(0)), growSize(0), 0, Own(call[p]) + 1, 1)'
      BY <1>2, <2>1, <3>1, FirstEnlargement
    <3> QED
      BY <1>1, <3>2 DEF SymbolsInv, Working
  <2>2. CASE Working(p)
    <3>1. PICK t, n, m, d, x : State(p, t, n, m, d, x)
      BY <2>2 DEF Working
    <3>2. Working(p)'
      BY <1>2, <1>5, <3>1, StepKeeps
    <3> QED
      BY <1>1, <3>2 DEF SymbolsInv
  <2> QED
    BY <2>1, <2>2 DEF SymbolsInv
<1> QED
  BY <1>3, <1>4, <1>5 DEF SymbolsNext

LEMMA SymbolsInvHolds ==
  ASSUME OneProcess, EnoughRoom
  PROVE  SymbolsSpec => []SymbolsInv
<1>1. SymbolsInit => SymbolsInv
  BY SymbolsInvInit DEF OneProcess
<1>2. SymbolsInv /\ [SymbolsNext]_symbolVars => SymbolsInv'
  BY SymbolsInvNext DEF OneProcess, EnoughRoom
<1> QED
  BY <1>1, <1>2, PTL DEF SymbolsSpec

(* Memory is only replaced by larger memory. *)
LEMMA EnlargementIsLarger ==
  ASSUME NEW p, Procs = {p}, \A k \in Nat : RoomAfter(k), Arrays, Unused(p) \/ Working(p),
         allocTreap(p)
  PROVE  Elements(treap') > Elements(treap)
<1>1. ASSUME NEW z, NEW v, NEW m, NEW d, treap' = v, Packed(v, z, m) PROVE Elements(treap') = z
  BY <1>1, PackedFacts
<1>2. pc[p] = "room" /\ pc'[p] = "room" /\ treap' = resize(treap, growSize(Elements(treap)))
  BY DEF allocTreap
<1>3. CASE Unused(p)
  <2>1. /\ State(p, resize(NoMemory, growSize(0)), growSize(0), 0, Own(call[p]) + 1, 1)'
        /\ Elements(treap) = 0 /\ growSize(0) > 0
    BY <1>3, FirstEnlargement
  <2>2. treap' = resize(NoMemory, growSize(0))
    BY <1>2, <1>3, <2>1 DEF Unused
  <2>3. Packed(resize(NoMemory, growSize(0)), growSize(0), 0)
    BY <2>1 DEF State
  <2> QED
    BY <1>1, <2>1, <2>2, <2>3
<1>4. CASE Working(p)
  <2>1. PICK t, n, m, d, x : State(p, t, n, m, d, x)
    BY <1>4 DEF Working
  <2>2. /\ State(p, resize(t, growSize(n)), growSize(n), m, d + 1, 1)'
        /\ Elements(treap) = n /\ growSize(n) > n
    BY <2>1, EnlargementKeeps
  <2>3. treap = t
    BY <1>2, <2>1, SymbolStateIs
  <2>4. treap' = resize(t, growSize(n))
    BY <1>2, <2>2, <2>3
  <2>5. Packed(resize(t, growSize(n)), growSize(n), m)
    BY <2>2 DEF State
  <2> QED
    BY <1>1, <2>2, <2>4, <2>5
<1> QED
  BY <1>3, <1>4

(* The invariant implies what the run checks. *)
LEMMA StateWellFormed ==
  ASSUME NEW p, Procs = {p}, SymbolsInv
  PROVE  SymbolsWellFormed
<1>1. ASSUME Arrays, Unused(p) PROVE SymbolsWellFormed
  <2>1. /\ treap = NoMemory /\ position[p] = 0 /\ pc[p] \in {"idle", "room"}
    BY <1>1 DEF Unused
  <2>2. Positions(treap) = {} /\ treap.key = <<>> /\ treap.left = <<>> /\ treap.right = <<>>
    BY <2>1 DEF Positions, NoMemory
  <2>3. Elements(treap) = 0 /\ Memory(Elements(treap)) = {}
    BY <2>2, FS_EmptySet DEF Elements, Memory
  <2>4. pc \in [Procs -> {"idle", "room", "body", "take", "link", "unreachable"}]
        /\ position \in [Procs -> Positions(treap) \cup {0}]
    BY <1>1, <2>1 DEF Arrays
  <2>5. \A V : <<>> \in [{} -> V]
    OBVIOUS
  <2>6. SymbolsTypeOK
    BY <2>1, <2>2, <2>3, <2>4, <2>5 DEF SymbolsTypeOK
  <2> QED
    BY <2>1, <2>6 DEF SymbolsWellFormed, NeverOutOfSpace
<1>2. ASSUME Arrays, Working(p) PROVE SymbolsWellFormed
  <2>1. PICK t, n, m, d, x : State(p, t, n, m, d, x)
    BY <1>2 DEF Working
  <2>2. /\ n \in Nat /\ m \in Nat /\ m < n /\ d \in Nat /\ x \in Nat \ {0} /\ Packed(t, n, m)
        /\ IsCall(call[p], m)
    BY <2>1, SymbolStateIs DEF State
  <2>3. treap \in TableOver(Memory(n)) /\ treap.key \in [Memory(n) -> Strings \cup {empty}]
    <3>1. CASE pc[p] # "link"
      BY <2>1, <2>2, <3>1, SymbolStateIs, PackedFacts
    <3>2. CASE pc[p] = "link"
      <4> DEFINE s == StringAt(call[p], d, x)
      <4>1. treap = WithString(t, m, s) /\ m + 1 < n /\ HasString(call[p], d, x)
        BY <2>1, <3>2 DEF State, Taking, Pending, HasString
      <4>2. s \in Strings
        BY <2>2, <4>1, StringIs
      <4> HIDE DEF s
      <4>3. Between(t, treap, n, m, s)
        BY <2>2, <4>1, <4>2, PackedBetween
      <4>4. t.key \in [Memory(n) -> Strings \cup {empty}]
        BY <2>2, PackedFacts
      <4> QED
        BY <4>2, <4>3, <4>4 DEF Between
    <3> QED
      BY <3>1, <3>2
  <2>4. Positions(treap) = Memory(n) /\ Elements(treap) = n
    <3>1. Positions(treap) = Memory(n)
      BY <2>3 DEF Positions
    <3> QED
      BY <3>1, <2>2, MemorySize DEF Elements
  <2>5. pc[p] \in {"idle", "room", "body", "take", "link", "unreachable"} /\ position[p] \in Memory(n)
        /\ (pc[p] = "take" => position[p] = m + 1)
    BY <2>1 DEF State, Pending
  <2>6. pc \in [Procs -> {"idle", "room", "body", "take", "link", "unreachable"}]
        /\ position \in [Procs -> Positions(treap) \cup {0}]
    BY <1>2, <2>4, <2>5 DEF Arrays
  <2>7. treap.left \in [Memory(n) -> Memory(n)] /\ treap.right \in [Memory(n) -> Memory(n)]
    BY <2>3 DEF TableOver
  <2>8. SymbolsTypeOK
    BY <2>2, <2>3, <2>4, <2>6, <2>7 DEF SymbolsTypeOK
  <2>9. NeverOutOfSpace
    BY <2>2, <2>5 DEF NeverOutOfSpace
  <2> QED
    BY <2>8, <2>9 DEF SymbolsWellFormed
<1> QED
  BY <1>1, <1>2 DEF SymbolsInv

(* The memory is as the treap needs it, each position read is in it, and a   *)
(* string that asked for room has an element when it is taken, also after    *)
(* the loads nested in an enlargement have taken theirs (symbol.zig:173-218).*)
THEOREM SymbolTableWellFormed ==
  ASSUME OneProcess, EnoughRoom
  PROVE  SymbolsSpec => []SymbolsWellFormed
<1>1. SymbolsInv => SymbolsWellFormed
  BY StateWellFormed DEF OneProcess
<1> QED
  BY <1>1, SymbolsInvHolds, PTL

(* Each enlargement makes the memory larger, so that Treap.resize never      *)
(* links its free list behind the end (treap.zig:61, 76).                    *)
THEOREM MemoryOnlyGrows ==
  ASSUME OneProcess, EnoughRoom
  PROVE  SymbolsSpec => MemoryGrows
<1>1. SymbolsInv /\ [SymbolsNext]_symbolVars
      => [\A p \in Procs :
            Len(loads'[p]) > Len(loads[p]) /\ pc[p] = "room" => Elements(treap') > Elements(treap)]_symbolVars
  <2> PICK q : Procs = {q}
    BY DEF OneProcess
  <2>1. SUFFICES ASSUME SymbolsInv, SymbolsNext, Len(loads'[q]) > Len(loads[q]), pc[q] = "room"
                 PROVE  Elements(treap') > Elements(treap)
    OBVIOUS
  <2>2. Len(loads[q]) \in Nat
    <3>1. CASE Unused(q)
      <4>1. loads[q] = Nested(call[q], Own(call[q]), 1) /\ Own(call[q]) \in Nat
        BY <2>1, <3>1 DEF Unused, Own
      <4> QED
        BY <4>1, NestedIs
    <3>2. CASE Working(q)
      BY <3>2, SymbolStateIs DEF Working
    <3> QED
      BY <2>1, <3>1, <3>2 DEF SymbolsInv
  <2>3. CASE allocTreap(q)
    BY <2>1, <2>3, EnlargementIsLarger DEF SymbolsInv, EnoughRoom
  <2>4. CASE theTreap(q)
    <3>1. loads' = loads
      BY <2>4 DEF theTreap
    <3> QED
      BY <2>1, <2>2, <3>1
  <2> QED
    BY <2>1, <2>3, <2>4 DEF SymbolsNext, Step, intern, lookupSymbol, asString, loadSymbols,
       Begin, Hit, Unreachable, Skip, NoSymbol, Miss, Take, Link, Loaded, Lookup, GetKey
<1> QED
  BY <1>1, SymbolsInvHolds, PTL DEF MemoryGrows, SymbolsSpec

(* Every string has a symbol of its own as long as the positions, of which   *)
(* each string takes one, fit the 24 bits of a symbol's hash.                *)
FewStrings == IsFiniteSet(Strings) /\ Cardinality(Strings) < Wrap24

(* The table that users see when the first m positions of t have a string.   *)
Naming(t, m) == IF m < InitialCount THEN initialSymbolStrings ELSE [i \in 1 .. m |-> t.key[i]]

LinkedIn(tr, l, pos) ==
  {q \in 1 .. Elements(tr) - 1 : tr.key[q] # empty /\ (l = "link" => pos # q)}

NamesAt(tr, l, pos) ==
  IF Cardinality(LinkedIn(tr, l, pos)) < InitialCount THEN initialSymbolStrings
  ELSE [i \in 1 .. Cardinality(LinkedIn(tr, l, pos)) |-> tr.key[i]]

RequestOf(c) ==
  [op |-> c.op,
   arg |-> CASE c.op = "at" -> symbolIndex(c.arg) - 1
             [] c.op = "load" -> Promised(c.arg, c.moving)
             [] OTHER -> c.arg]

(* The index of a symbol with the arity of the string it was asked for. *)
AnswerOf(c, a) ==
  IF /\ c.op \in {"intern", "lookup"} /\ a \notin {NoAnswer, Nil}
     /\ a.arity = Arity[c.arg]
  THEN symbolIndex(a) - 1 ELSE a

(* What users see of the calls, by process. *)
LEMMA CallsShown ==
  ASSUME NEW p, Procs = {p}
  PROVE  /\ Requested[p] = RequestOf(call[p]) /\ Answered[p] = AnswerOf(call[p], answer[p])
         /\ Requested' = [Requested EXCEPT ![p] = RequestOf(call'[p])]
         /\ Answered' = [Answered EXCEPT ![p] = AnswerOf(call'[p], answer'[p])]
<1>1. Requested = [q \in {p} |-> RequestOf(call[q])]
  BY DEF Requested, RequestOf
<1>2. Requested' = [q \in {p} |-> RequestOf(call'[q])]
  BY DEF Requested, RequestOf
<1>3. Answered = [q \in {p} |-> AnswerOf(call[q], answer[q])]
  BY DEF Answered, AnswerOf, IndexAnswered
<1>4. Answered' = [q \in {p} |-> AnswerOf(call'[q], answer'[q])]
  BY DEF Answered, AnswerOf, IndexAnswered
<1>5. Requested[p] = RequestOf(call[p]) /\ Answered[p] = AnswerOf(call[p], answer[p])
  BY <1>1, <1>3
<1>6. Requested' = [Requested EXCEPT ![p] = RequestOf(call'[p])]
  BY <1>1, <1>2
<1>7. Answered' = [Answered EXCEPT ![p] = AnswerOf(call'[p], answer'[p])]
  BY <1>3, <1>4
<1> QED
  BY <1>5, <1>6, <1>7

(* What users see of the table depends on the step of the process in it. *)
LEMMA TableShown ==
  ASSUME NEW p, Procs = {p}
  PROVE  /\ TableNames = NamesAt(treap, pc[p], position[p])
         /\ TableNames' = NamesAt(treap', pc'[p], position'[p])
<1>1. Linked = LinkedIn(treap, pc[p], position[p])
  BY DEF Linked, LinkedIn
<1>2. Linked' = LinkedIn(treap', pc'[p], position'[p])
  BY DEF Linked, LinkedIn
<1> QED
  BY <1>1, <1>2 DEF TableNames, NamesAt, InitialCount

(* The string that is taken but not yet in the tree is not shown. *)
LEMMA NamesShown ==
  ASSUME NEW t, NEW n, NEW m, Packed(t, n, m), NEW l, NEW tr, NEW pos, NEW s,
         Taking(l, tr, t, m, s), l = "link" => pos = m + 1 /\ m + 1 < n /\ s \in Strings
  PROVE  NamesAt(tr, l, pos) = Naming(t, m)
<1>1. /\ n \in Nat /\ m \in Nat /\ m < n /\ Elements(t) = n
      /\ t.key \in [Memory(n) -> Strings \cup {empty}]
      /\ \A q \in 1 .. m : t.key[q] \in Nat \ {empty}
  BY PackedFacts
<1>2. \A q \in Memory(n) \ (1 .. m) : t.key[q] = empty
  BY DEF Packed
<1>3. /\ Elements(tr) = n
      /\ \A q \in Memory(n) : tr.key[q] = IF l = "link" /\ q = m + 1 THEN s ELSE t.key[q]
  <2>1. CASE l # "link"
    BY <1>1, <2>1 DEF Taking
  <2>2. CASE l = "link"
    <3>1. tr = WithString(t, m, s)
      BY <2>2 DEF Taking
    <3>2. Between(t, tr, n, m, s)
      BY <2>2, <3>1, PackedBetween
    <3>3. tr \in TableOver(Memory(n)) /\ tr.key = [t.key EXCEPT ![m + 1] = s]
      BY <3>2 DEF Between
    <3>4. Positions(tr) = Memory(n)
      BY <3>3 DEF Positions, TableOver
    <3>5. Elements(tr) = n
      BY <1>1, <3>4, MemorySize DEF Elements
    <3> QED
      BY <1>1, <2>2, <3>3, <3>5
  <2> QED
    BY <2>1, <2>2
<1>4. LinkedIn(tr, l, pos) = 1 .. m
  <2>1. \A q \in 1 .. n - 1 : q \in Memory(n)
    BY <1>1 DEF Memory
  <2>2. 1 .. m \subseteq 1 .. n - 1
    BY <1>1
  <2>3. ASSUME NEW q \in 1 .. m PROVE q \in LinkedIn(tr, l, pos)
    <3>1. q \in 1 .. n - 1 /\ q # m + 1 /\ t.key[q] # empty
      BY <1>1, <2>2
    <3>2. tr.key[q] # empty
      BY <1>3, <2>1, <3>1
    <3> QED
      BY <1>3, <3>1, <3>2 DEF LinkedIn
  <2>4. ASSUME NEW q \in LinkedIn(tr, l, pos) PROVE q \in 1 .. m
    <3>1. q \in 1 .. n - 1 /\ tr.key[q] # empty /\ (l = "link" => q # m + 1)
      BY <1>3 DEF LinkedIn
    <3>2. t.key[q] # empty /\ q \in Memory(n)
      BY <1>3, <2>1, <3>1
    <3> QED
      BY <1>2, <3>2
  <2> QED
    BY <2>3, <2>4
<1>5. Cardinality(1 .. m) = m
  BY <1>1, FS_Interval
<1>6. \A q \in 1 .. m : tr.key[q] = t.key[q]
  <2>1. \A q \in 1 .. m : q \in Memory(n) /\ q # m + 1
    BY <1>1 DEF Memory
  <2> QED
    BY <1>3, <2>1
<1> QED
  BY <1>4, <1>5, <1>6 DEF NamesAt, Naming

(* The table shown in a state, and in the next one. *)
LEMMA ShownNow ==
  ASSUME NEW p, Procs = {p}, NEW t, NEW n, NEW m, NEW d, NEW x, State(p, t, n, m, d, x)
  PROVE  TableNames = Naming(t, m)
<1> DEFINE s == StringAt(call[p], d, x)
<1>1. Packed(t, n, m) /\ Taking(pc[p], treap, t, m, s) /\ d \in Nat /\ x \in Nat \ {0}
      /\ IsCall(call[p], m)
  BY DEF State, Stack
<1>2. pc[p] = "link" => position[p] = m + 1 /\ m + 1 < n /\ HasString(call[p], d, x)
  BY DEF State, Pending, HasString
<1>3. pc[p] = "link" => s \in Strings
  BY <1>1, <1>2, StringIs
<1> HIDE DEF s
<1> QED
  BY <1>1, <1>2, <1>3, NamesShown, TableShown

LEMMA ShownNext ==
  ASSUME NEW p, Procs = {p}, NEW t, NEW n, NEW m, NEW d, NEW x, State(p, t, n, m, d, x)'
  PROVE  TableNames' = Naming(t, m)
<1>1. PICK s : s = StringAt(call'[p], d, x)
  OBVIOUS
<1>2. PICK c : c = call'[p]
  OBVIOUS
<1>3. Packed(t, n, m) /\ Taking(pc'[p], treap', t, m, s) /\ d \in Nat /\ x \in Nat \ {0}
      /\ IsCall(c, m) /\ Pending(pc'[p], c, t, n, m, d, x, position'[p])
  BY <1>1, <1>2 DEF State, Stack
<1>4. pc'[p] = "link" => position'[p] = m + 1 /\ m + 1 < n /\ HasString(c, d, x)
  BY <1>3 DEF Pending, HasString
<1>5. pc'[p] = "link" => s \in Strings
  <2>1. s = StringAt(c, d, x)
    BY <1>1, <1>2
  <2> QED
    BY <1>3, <1>4, <2>1, StringIs
<1> QED
  BY <1>3, <1>4, <1>5, NamesShown, TableShown

(* The table shown is a sequence of strings. *)
LEMMA NamingIs ==
  ASSUME NEW t, NEW n, NEW m, Packed(t, n, m)
  PROVE  /\ Naming(t, m) \in Seq(Strings) /\ Len(Naming(t, m)) = Known(m)
         /\ m >= InitialCount => /\ Known(m) = m /\ DOMAIN Naming(t, m) = 1 .. m
                                 /\ \A i \in 1 .. m : Naming(t, m)[i] = t.key[i]
<1>1. m \in Nat /\ \A q \in 1 .. m : t.key[q] \in Strings
  BY PackedFacts
<1>2. initialSymbolStrings \in Seq(Strings) /\ InitialCount \in Nat
      /\ Len(initialSymbolStrings) = InitialCount
  BY InitialStrings DEF InitialCount
<1>3. CASE m < InitialCount
  BY <1>1, <1>2, <1>3 DEF Naming, Known
<1>4. CASE m >= InitialCount
  <2>1. Naming(t, m) = [i \in 1 .. m |-> t.key[i]] /\ Known(m) = m
    BY <1>1, <1>2, <1>4 DEF Naming, Known
  <2>2. [i \in 1 .. m |-> t.key[i]] \in Seq(Strings)
    BY <1>1
  <2> QED
    BY <1>1, <2>1, <2>2
<1> QED
  BY <1>1, <1>2, <1>3, <1>4

(* A string is in the table that users see, or it is not, as it is in the treap. *)
LEMMA NamesThere ==
  ASSUME NEW t, NEW n, NEW m, Packed(t, n, m), m >= InitialCount, NEW s
  PROVE  s \in NamesIn(t, m) <=> \E i \in DOMAIN Naming(t, m) : Naming(t, m)[i] = s
BY NamingIs DEF NamesIn

(* Enlargements do not show. *)
LEMMA SameNaming ==
  ASSUME NEW t, NEW v, NEW n, NEW m, Moved(t, v, n, m)
  PROVE  Naming(v, m) = Naming(t, m)
BY DEF Naming, Moved

(* A new string shows at the end. *)
LEMMA NamingGrows ==
  ASSUME NEW t, NEW k, NEW m, Packed(t, k, m), NEW v, NEW n, NEW s, Joined(t, v, n, m, s),
         m >= InitialCount
  PROVE  Naming(v, m + 1) = Append(Naming(t, m), s)
<1>1. m \in Nat /\ Packed(v, n, m + 1) /\ v.key[m + 1] = s
      /\ \A q \in 1 .. m : v.key[q] = t.key[q]
  BY PackedFacts DEF Joined
<1>2. InitialCount \in Nat
  BY InitialStrings
<1>3. /\ Naming(t, m) \in Seq(Strings) /\ Len(Naming(t, m)) = m
      /\ \A i \in 1 .. m : Naming(t, m)[i] = t.key[i]
  BY NamingIs
<1>4. PICK w : w = m + 1
  OBVIOUS
<1>5. w >= InitialCount /\ Packed(v, n, w)
  BY <1>1, <1>2, <1>4
<1>6. /\ Naming(v, w) \in Seq(Strings) /\ Len(Naming(v, w)) = w
      /\ \A i \in 1 .. w : Naming(v, w)[i] = v.key[i]
  BY <1>5, NamingIs
<1>7. s \in Strings
  BY <1>1, <1>4, <1>5, PackedFacts
<1>8. PICK a, b : a = Naming(t, m) /\ b = Naming(v, w)
  OBVIOUS
<1>9. a \in Seq(Strings) /\ b \in Seq(Strings) /\ Len(a) = m /\ Len(b) = m + 1
      /\ b[m + 1] = s /\ \A i \in 1 .. m : b[i] = a[i]
  BY <1>1, <1>3, <1>4, <1>6, <1>8
<1>10. b = Append(a, s)
  BY <1>1, <1>7, <1>9
<1> QED
  BY <1>4, <1>8, <1>10

(* The initial strings are shown before they are there. *)
LEMMA InitialNaming ==
  ASSUME NEW t, NEW k, NEW m, Packed(t, k, m), NEW v, NEW n, NEW s, Joined(t, v, n, m, s),
         m < InitialCount, Prefix(v, m + 1)
  PROVE  Naming(v, m + 1) = Naming(t, m)
<1>1. m \in Nat /\ InitialCount \in Nat
  BY PackedFacts, InitialStrings
<1>2. CASE m + 1 < InitialCount
  BY <1>2 DEF Naming
<1>3. CASE m + 1 = InitialCount
  <2>1. Naming(v, m + 1) = [i \in 1 .. InitialCount |-> v.key[i]]
    BY <1>1, <1>3 DEF Naming
  <2>2. \A i \in 1 .. InitialCount : v.key[i] = initialSymbolStrings[i]
    BY <1>1, <1>3 DEF Prefix
  <2>3. [i \in 1 .. InitialCount |-> v.key[i]] = initialSymbolStrings
    <3>1. initialSymbolStrings = [i \in 1 .. InitialCount |-> initialSymbolStrings[i]]
      BY InitialStrings DEF InitialCount
    <3> QED
      BY <2>2, <3>1
  <2> QED
    BY <2>1, <2>3 DEF Naming
<1> QED
  BY <1>1, <1>2, <1>3

(* There are at most as many positions as strings. *)
LEMMA PositionsAreFew ==
  ASSUME FewStrings, NEW t, NEW n, NEW m, Packed(t, n, m)
  PROVE  \A i \in 1 .. Known(m) : i \in Bits24
<1>1. m \in Nat /\ 1 .. m \subseteq Memory(n) /\ IsFiniteSet(Memory(n))
      /\ \A q \in 1 .. m : t.key[q] \in Strings
  BY PackedFacts DEF Packed, Laid
<1>2. \A a, b \in 1 .. m : t.key[a] = t.key[b] => a = b
  BY <1>1, KeysDiffer DEF Packed, Laid
<1>3. InitialCount \in Nat /\ IsFiniteSet(Strings) /\ Cardinality(Strings) \in Nat
      /\ Cardinality(Strings) < Wrap24
  BY InitialStrings, FS_CardinalityType DEF FewStrings
<1>4. ASSUME NEW k \in Nat, NEW f \in [1 .. k -> Strings],
             \A a, b \in 1 .. k : f[a] = f[b] => a = b
      PROVE  k <= Cardinality(Strings)
  <2>1. f \in Injection(1 .. k, Strings)
    BY <1>4 DEF Injection, IsInjective
  <2>2. IsFiniteSet(1 .. k) /\ Cardinality(1 .. k) = k
    BY FS_Interval
  <2> QED
    BY <1>3, <2>1, <2>2, FS_Injection
<1>5. m <= Cardinality(Strings)
  <2> DEFINE f == [q \in 1 .. m |-> t.key[q]]
  <2>1. f \in [1 .. m -> Strings] /\ \A a, b \in 1 .. m : f[a] = f[b] => a = b
    BY <1>1, <1>2
  <2> HIDE DEF f
  <2> QED
    BY <1>1, <1>4, <2>1
<1>6. InitialCount <= Cardinality(Strings)
  <2> DEFINE f == [q \in 1 .. InitialCount |-> initialSymbolStrings[q]]
  <2>1. f \in [1 .. InitialCount -> Strings]
        /\ \A a, b \in 1 .. InitialCount : f[a] = f[b] => a = b
    BY InitialStrings
  <2> HIDE DEF f
  <2> QED
    BY <1>3, <1>4, <2>1
<1>7. Known(m) \in Nat /\ Known(m) <= Cardinality(Strings)
  BY <1>1, <1>3, <1>5, <1>6 DEF Known
<1>8. ASSUME NEW i \in 1 .. Known(m) PROVE i \in Bits24
  <2> DEFINE w == Wrap24
  <2>1. w \in Nat
    BY SMT DEF Wrap24
  <2>2. i \in Nat /\ i <= Cardinality(Strings) /\ Cardinality(Strings) < w
    BY <1>3, <1>7
  <2> HIDE DEF w
  <2>3. i < w
    BY <1>3, <2>1, <2>2
  <2> QED
    BY <2>2, <2>3 DEF Bits24, w
<1> QED
  BY <1>8

(* A position is found again from its symbol, which is no other answer. *)
LEMMA IndexOfSymbol ==
  ASSUME FewStrings, NEW t, NEW n, NEW m, Packed(t, n, m), NEW i \in 1 .. Known(m), NEW a \in 0 .. 15
  PROVE  symbolIndex(symbol_of(i, a)) = i /\ symbol_of(i, a) \notin {Nil, NoAnswer}
<1>1. i \in Bits24
  BY PositionsAreFew
<1>2. symbolIndex(symbol_of(i, a)) = i /\ symbol_of(i, a).hash \in Nat
  BY <1>1, SymbolIndexUndone
<1>3. symbol_of(i, a) \in [hash : Nat, arity : 0 .. 15]
  BY <1>2 DEF symbol_of
<1> QED
  BY <1>2, <1>3, SymbolTableAssumption

(* The answer shown for the symbol at a position. *)
LEMMA PositionShown ==
  ASSUME FewStrings, NEW t, NEW n, NEW m, Packed(t, n, m), m >= InitialCount, NEW pos \in 1 .. m,
         treap.key[pos] \in Strings, NEW c, c.op \in {"intern", "lookup"},
         c.arg = treap.key[pos]
  PROVE  AnswerOf(c, SymbolAt(pos)) = pos - 1
<1>1. Known(m) = m
  BY NamingIs
<1>2. Arity[treap.key[pos]] \in 0 .. 15
  BY SymbolTableAssumption
<1>3. symbolIndex(SymbolAt(pos)) = pos /\ SymbolAt(pos) \notin {Nil, NoAnswer}
  BY <1>1, <1>2, IndexOfSymbol DEF SymbolAt
<1>4. SymbolAt(pos).arity = Arity[c.arg]
  BY DEF SymbolAt, symbol_of
<1> QED
  BY <1>3, <1>4 DEF AnswerOf

(* The position of a known symbol. *)
LEMMA IndexShown ==
  ASSUME FewStrings, NEW t, NEW n, NEW m, Packed(t, n, m), NEW y \in Symbols(Known(m))
  PROVE  symbolIndex(y) \in 1 .. Known(m) /\ y \notin {Nil, NoAnswer}
<1>1. PICK i \in 1 .. Known(m), a \in 0 .. 15 : y = symbol_of(i, a)
  BY DEF Symbols
<1> QED
  BY <1>1, IndexOfSymbol

(* A process inside a call is seen to wait. *)
LEMMA WaitsShown ==
  ASSUME NEW p, Procs = {p}, NEW t, NEW n, NEW m, NEW d, NEW x, State(p, t, n, m, d, x),
         pc[p] # "idle"
  PROVE  /\ Abstract!Waits(p, call[p].op)
         /\ call[p].op \in {"intern", "lookup"} => Requested[p].arg = call[p].arg
         /\ call[p].op = "load" => Requested[p].arg = Promised(call[p].arg, call[p].moving)
         /\ call[p].op = "at" => Requested[p].arg = symbolIndex(call[p].arg) - 1
<1>1. answer[p] = NoAnswer
  BY DEF State, Reply
<1>2. Answered[p] = NoAnswer /\ Requested[p] = RequestOf(call[p])
  BY <1>1, CallsShown DEF AnswerOf
<1>3. RequestOf(call[p]).op = call[p].op
  BY DEF RequestOf
<1> QED
  BY <1>2, <1>3 DEF RequestOf, Abstract!Waits

(* A return shows as an answer. *)
LEMMA ReturnShown ==
  ASSUME NEW p, Procs = {p}, call' = call, NEW a, AnswerOf(call[p], answer'[p]) = a
  PROVE  Abstract!Answer(p, a)
<1>1. Answered' = [Answered EXCEPT ![p] = a]
  BY CallsShown
<1>2. UNCHANGED Requested
  BY DEF Requested
<1> QED
  BY <1>1, <1>2 DEF Abstract!Answer

(* A step that leaves table, call and answer does not show. *)
LEMMA NothingShown ==
  ASSUME NEW p, Procs = {p}, call' = call, answer'[p] = answer[p], TableNames' = TableNames
  PROVE  UNCHANGED Abstract!vars
<1>1. Answered = [q \in {p} |-> AnswerOf(call[q], answer[q])]
  BY DEF Answered, AnswerOf, IndexAnswered
<1>2. Answered' = [q \in {p} |-> AnswerOf(call'[q], answer'[q])]
  BY DEF Answered, AnswerOf, IndexAnswered
<1>3. UNCHANGED Answered
  BY <1>1, <1>2
<1>4. UNCHANGED Requested
  BY DEF Requested
<1> QED
  BY <1>3, <1>4 DEF Abstract!vars

(* Between a call and its return nothing shows but the strings of a load. *)
LEMMA SilentShown ==
  ASSUME NEW p, Procs = {p}, NEW t, NEW n, NEW m, NEW d, NEW x, State(p, t, n, m, d, x),
         NEW v, NEW k, NEW l, NEW e, NEW y, State(p, v, k, l, e, y)', Naming(v, l) = Naming(t, m),
         call' = call, answer'[p] = answer[p]
  PROVE  UNCHANGED Abstract!vars
<1>1. TableNames = Naming(t, m)
  BY ShownNow
<1>2. TableNames' = Naming(v, l)
  BY ShownNext
<1> QED
  BY <1>1, <1>2, NothingShown

(* What the loads of the interner are. *)
PromisedLoads == UNION {{Promised(list, m) : m \in SUBSET DOMAIN list} : list \in Loads}

(* A call is requested with an argument the interner allows. *)
LEMMA CallAllowed ==
  ASSUME FewStrings, NEW t, NEW n, NEW m, Packed(t, n, m), NEW c, IsCall(c, m)
  PROVE  RequestOf(c) \in {Abstract!Interns(s) : s \in Strings} \cup {Abstract!Looks(s) : s \in Strings}
           \cup {Abstract!Asks(i) : i \in 0 .. Len(Naming(t, m)) - 1}
           \cup {Abstract!LoadsAll(keys) : keys \in PromisedLoads}
<1>1. ASSUME NEW s \in Strings, NEW v, c = Interns(s, v) PROVE RequestOf(c) = Abstract!Interns(s)
  BY <1>1 DEF RequestOf, Interns, Abstract!Interns
<1>2. ASSUME NEW s \in Strings, c = Looks(s) PROVE RequestOf(c) = Abstract!Looks(s)
  BY <1>2 DEF RequestOf, Looks, Abstract!Looks
<1>3. ASSUME NEW list \in Loads, NEW v \in SUBSET DOMAIN list, c = LoadsAll(list, v)
      PROVE  \E keys \in PromisedLoads : RequestOf(c) = Abstract!LoadsAll(keys)
  <2>1. Promised(list, v) \in PromisedLoads
    BY DEF PromisedLoads
  <2>2. RequestOf(c) = Abstract!LoadsAll(Promised(list, v))
    BY <1>3 DEF RequestOf, LoadsAll, Abstract!LoadsAll
  <2> QED
    BY <2>1, <2>2
<1>4. ASSUME NEW y \in Symbols(Known(m)), c = Asks(y)
      PROVE  \E i \in 0 .. Len(Naming(t, m)) - 1 : RequestOf(c) = Abstract!Asks(i)
  <2>1. symbolIndex(y) \in 1 .. Known(m)
    BY IndexShown
  <2>2. Len(Naming(t, m)) = Known(m) /\ Known(m) \in Nat
    BY NamingIs, PackedFacts, InitialStrings DEF Known
  <2>3. symbolIndex(y) - 1 \in 0 .. Len(Naming(t, m)) - 1
    BY <2>1, <2>2
  <2>4. RequestOf(c) = Abstract!Asks(symbolIndex(y) - 1)
    BY <1>4 DEF RequestOf, Asks, Abstract!Asks
  <2> QED
    BY <2>3, <2>4
<1> QED
  BY <1>1, <1>2, <1>3, <1>4 DEF IsCall

(* A process that has returned has an answer. *)
LEMMA AnswerGiven ==
  ASSUME NEW p, Procs = {p}, FewStrings, NEW t, NEW n, NEW m, NEW d, NEW x, State(p, t, n, m, d, x),
         pc[p] = "idle"
  PROVE  Answered[p] # NoAnswer
<1> DEFINE c == call[p]
           a == answer[p]
<1>1. Packed(t, n, m) /\ Reply("idle", c, m, a) /\ d <= Own(c) /\ IsCall(c, m)
  <2>1. d = 0 /\ Packed(t, n, m) /\ Reply("idle", c, m, a) /\ IsCall(c, m)
    BY DEF State, Stack
  <2> QED
    BY <2>1 DEF Own
<1>2. m >= InitialCount /\ Known(m) = m
  BY <1>1, InitialsAreThere
<1>3. Answered[p] = AnswerOf(c, a)
  BY CallsShown
<1>4. NoAnswer \notin Nat /\ Nil # NoAnswer
  BY SymbolTableAssumption
<1>5. CASE a \in Symbols(m) /\ c.op \in {"intern", "lookup"}
  <2>1. symbolIndex(a) \in 1 .. Known(m) /\ a \notin {Nil, NoAnswer}
    BY <1>1, <1>2, <1>5, IndexShown
  <2>2. AnswerOf(c, a) \in {symbolIndex(a) - 1, a}
    BY DEF AnswerOf
  <2>3. symbolIndex(a) - 1 \in Nat
    BY <1>2, <2>1
  <2> QED
    BY <1>3, <1>4, <2>1, <2>2, <2>3
<1>6. CASE a = Nil
  BY <1>3, <1>4, <1>6 DEF AnswerOf
<1>7. CASE a \in Nat /\ c.op \notin {"intern", "lookup"}
  BY <1>3, <1>4, <1>7 DEF AnswerOf
<1> QED
  BY <1>1, <1>5, <1>6, <1>7 DEF Reply

(* The state before the first memory shows the initial strings. *)
LEMMA UnusedShown ==
  ASSUME NEW p, Procs = {p}, treap = NoMemory
  PROVE  TableNames = initialSymbolStrings
<1>1. Positions(treap) = {}
  BY DEF Positions, NoMemory
<1>2. Elements(treap) = 0
  BY <1>1, FS_EmptySet DEF Elements
<1>3. Linked = {}
  BY <1>2 DEF Linked
<1> QED
  BY <1>3, FS_EmptySet, InitialStrings DEF TableNames, InitialCount

LEMMA UnusedShownNext ==
  ASSUME NEW p, Procs = {p}, treap' = NoMemory
  PROVE  TableNames' = initialSymbolStrings
<1>1. Positions(treap') = {}
  BY DEF Positions, NoMemory
<1>2. Elements(treap') = 0
  BY <1>1, FS_EmptySet DEF Elements
<1>3. Linked' = {}
  BY <1>2 DEF Linked
<1> QED
  BY <1>3, FS_EmptySet, InitialStrings DEF TableNames, InitialCount

(* The initial state shows the initial strings and no call. *)
LEMMA SymbolsInitRefines ==
  ASSUME OneProcess, SymbolsInit
  PROVE  Abstract!Init
<1>1. PICK p : Procs = {p}
  BY DEF OneProcess
<1>2. TableNames = initialSymbolStrings
  BY <1>1, UnusedShown DEF SymbolsInit
<1>3. Answered = [q \in Procs |-> 0]
  BY DEF Answered, IndexAnswered, SymbolsInit, Asks
<1>4. \A q \in Procs : call[q] = Asks(symbols(1))
  BY DEF SymbolsInit
<1>5. symbolIndex(symbols(1)) = 1
  <2>1. 1 \in Bits24
    BY SMT DEF Bits24, Wrap24
  <2> QED
    BY <2>1, SymbolIndexUndone DEF symbols
<1> QED
  BY <1>2, <1>3, <1>4, <1>5 DEF Abstract!Init, Abstract!Asks, Requested, Asks

(* The begin of a call shows as a request. *)
LEMMA RequestShown ==
  ASSUME NEW p, Procs = {p}, Arrays, FewStrings, NEW c, NEW a, NEW l, Begin(p, c, a, l),
         Answered[p] # NoAnswer,
         NEW t, NEW n, NEW m, Packed(t, n, m), IsCall(c, m),
         TableNames = Naming(t, m), TableNames' = Naming(t, m)
  PROVE  Abstract!Request(p)
<1> DEFINE R == {Abstract!Interns(s) : s \in Strings} \cup {Abstract!Looks(s) : s \in Strings}
                  \cup {Abstract!Asks(i) : i \in 0 .. Len(TableNames) - 1}
                  \cup {Abstract!LoadsAll(keys) : keys \in PromisedLoads}
<1>1. call'[p] = c /\ answer'[p] = NoAnswer
  BY DEF Begin, Arrays
<1>2. RequestOf(c) \in R
  BY CallAllowed
<1> HIDE DEF R
<1>3. Requested' = [Requested EXCEPT ![p] = RequestOf(c)]
  BY <1>1, CallsShown
<1>4. Answered' = [Answered EXCEPT ![p] = NoAnswer]
  <2>1. AnswerOf(c, NoAnswer) = NoAnswer
    BY DEF AnswerOf
  <2> QED
    BY <1>1, <2>1, CallsShown
<1>5. \E r \in R : Requested' = [Requested EXCEPT ![p] = r]
  BY <1>2, <1>3
<1> QED
  BY <1>4, <1>5 DEF Abstract!Request, R, PromisedLoads

LEMMA CallRefines ==
  ASSUME NEW p, Procs = {p}, FewStrings, SymbolsInv,
         intern(p) \/ lookupSymbol(p) \/ asString(p) \/ loadSymbols(p)
  PROVE  Abstract!Request(p)
<1>1. Arrays /\ (Unused(p) \/ Working(p))
  BY DEF SymbolsInv
<1>2. CASE Unused(p)
  <2>1. PICK c, l : Begin(p, c, Asked(c), l) /\ SameLoads(l, c, Own(c), 1) /\ IsCall(c, 0)
    BY <1>1, <1>2, CallBegins DEF Begins
  <2>2. PICK t : t = resize(NoMemory, 1)
    OBVIOUS
  <2>3. Packed(t, 1, 0)
    BY <2>2, PackedFirst
  <2>4. Naming(t, 0) = initialSymbolStrings
    BY InitialStrings DEF Naming
  <2>5. treap = NoMemory /\ treap' = NoMemory /\ pc[p] = "idle"
    BY <1>2, <2>1 DEF Unused, Begin
  <2>6. TableNames = Naming(t, 0) /\ TableNames' = Naming(t, 0)
    BY <2>4, <2>5, UnusedShown, UnusedShownNext
  <2>7. Answered[p] # NoAnswer
    <3>1. call[p].op = "at" /\ answer[p] = 0
      BY <1>2, <2>5 DEF Unused, Asks
    <3>2. AnswerOf(call[p], answer[p]) = 0
      BY <3>1 DEF AnswerOf
    <3>3. 0 # NoAnswer
      BY SymbolTableAssumption
    <3> QED
      BY <3>2, <3>3, CallsShown
  <2> QED
    BY <1>1, <2>1, <2>3, <2>6, <2>7, RequestShown
<1>3. CASE Working(p)
  <2>1. PICK t, n, m, d, x : State(p, t, n, m, d, x)
    BY <1>3 DEF Working
  <2>2. PICK c, l : Begin(p, c, Asked(c), l) /\ SameLoads(l, c, Own(c), 1) /\ IsCall(c, m)
    BY <1>1, <2>1, CallBegins DEF Begins
  <2>3. State(p, t, n, m, Own(c), 1)'
    BY <1>1, <2>1, <2>2, BeginKeeps
  <2>4. TableNames = Naming(t, m)
    BY <2>1, ShownNow
  <2>5. TableNames' = Naming(t, m)
    BY <2>3, ShownNext
  <2>6. pc[p] = "idle"
    BY <2>2 DEF Begin
  <2>7. Answered[p] # NoAnswer
    BY <2>1, <2>6, AnswerGiven
  <2>8. Packed(t, n, m)
    BY <2>1 DEF State
  <2> QED
    BY <1>1, <2>2, <2>4, <2>5, <2>7, <2>8, RequestShown
<1> QED
  BY <1>1, <1>2, <1>3

(* allocTreap does not show. *)
LEMMA EnlargementRefines ==
  ASSUME NEW p, Procs = {p}, EnoughRoom, SymbolsInv, allocTreap(p)
  PROVE  UNCHANGED Abstract!vars
<1>1. Arrays /\ (Unused(p) \/ Working(p))
  BY DEF SymbolsInv
<1>2. call' = call /\ answer' = answer
  BY DEF allocTreap
<1>3. CASE Unused(p)
  <2>1. PICK v, z, d : State(p, v, z, 0, d, 1)'
    BY <1>1, <1>3, FirstEnlargement
  <2>2. TableNames' = Naming(v, 0)
    BY <2>1, ShownNext
  <2>3. Naming(v, 0) = initialSymbolStrings
    BY InitialStrings DEF Naming
  <2>4. TableNames = initialSymbolStrings
    BY <1>3, UnusedShown DEF Unused
  <2> QED
    BY <1>2, <2>2, <2>3, <2>4, NothingShown
<1>4. CASE Working(p)
  <2>1. PICK t, n, m, d, x : State(p, t, n, m, d, x)
    BY <1>4 DEF Working
  <2>2. PICK z : z = growSize(n)
    OBVIOUS
  <2>3. State(p, resize(t, z), z, m, d + 1, 1)' /\ z > n
    BY <1>1, <2>1, <2>2, EnlargementKeeps DEF EnoughRoom
  <2>4. Packed(t, n, m) /\ z \in Nat
    <3>1. Packed(t, n, m) /\ Packed(resize(t, z), z, m)
      BY <2>1, <2>3 DEF State
    <3> QED
      BY <3>1 DEF Packed
  <2>5. Moved(t, resize(t, z), z, m)
    <3>1. n \in Nat /\ n < z
      BY <2>3, <2>4 DEF Packed
    <3> QED
      BY <2>4, <3>1, PackedMoved
  <2>6. Naming(resize(t, z), m) = Naming(t, m)
    BY <2>5, SameNaming
  <2> QED
    BY <1>2, <2>1, <2>3, <2>6, SilentShown
<1> QED
  BY <1>1, <1>3, <1>4

(* Of a string that has a symbol: the call returns it, or its load goes on.  *)
LEMMA HitShows ==
  ASSUME NEW p, Procs = {p}, FewStrings, Arrays, Hit(p),
         NEW t, NEW n, NEW m, NEW d, NEW x, State(p, t, n, m, d, x)
  PROVE  Abstract!OldIndex(p) \/ UNCHANGED Abstract!vars
<1>1. PICK pos \in 1 .. m :
        /\ t.key[pos] = StringAt(call[p], d, x) /\ treap' = t /\ call' = call
        /\ d = 0 => /\ m >= InitialCount /\ call[p].op = "intern"
                    /\ answer'[p] = SymbolAt(pos) /\ State(p, t, n, m, 0, 1)'
        /\ d > 0 => answer'[p] = answer[p] /\ State(p, t, n, m, d, x + 1)'
  BY HitKeeps
<1>2. d \in Nat /\ pc[p] = "body" /\ treap = t /\ Packed(t, n, m)
  BY SymbolStateIs DEF State, Hit
<1>3. CASE d > 0
  BY <1>1, <1>3, SilentShown
<1>4. CASE d = 0
  <2>1. TableNames = Naming(t, m)
    BY ShownNow
  <2>2. TableNames' = Naming(t, m)
    BY <1>1, <1>4, ShownNext
  <2>3. Abstract!Waits(p, "intern") /\ Requested[p].arg = call[p].arg
    BY <1>1, <1>2, <1>4, WaitsShown
  <2>4. pos \in DOMAIN Naming(t, m) /\ Naming(t, m)[pos] = call[p].arg
    BY <1>1, <1>2, <1>4, NamingIs DEF StringAt
  <2>5. AnswerOf(call[p], SymbolAt(pos)) = pos - 1
    <3>1. treap.key[pos] \in Strings /\ call[p].arg = treap.key[pos]
      BY <1>1, <1>2, <1>4, PackedFacts DEF StringAt
    <3> QED
      BY <1>1, <1>2, <1>4, <3>1, PositionShown
  <2>6. Abstract!Answer(p, pos - 1)
    BY <1>1, <1>4, <2>5, ReturnShown
  <2> QED
    BY <2>1, <2>2, <2>3, <2>4, <2>6 DEF Abstract!OldIndex
<1> QED
  BY <1>2, <1>3, <1>4

(* Of a new string: the call returns a new symbol, the load of a list goes   *)
(* on, or one more of the initial strings, which users see from the start,   *)
(* is there.                                                                 *)
LEMMA LinkShows ==
  ASSUME NEW p, Procs = {p}, FewStrings, Arrays, Link(p),
         NEW t, NEW n, NEW m, NEW d, NEW x, State(p, t, n, m, d, x)
  PROVE  Abstract!NewIndex(p) \/ Abstract!LoadNext(p) \/ UNCHANGED Abstract!vars
<1>1. PICK s : s = StringAt(call[p], d, x)
  OBVIOUS
<1>2. PICK v :
        /\ Joined(t, v, n, m, s) /\ treap' = v /\ call' = call
        /\ s \notin NamesIn(t, m) /\ HasString(call[p], d, x)
        /\ d = 0 => /\ m >= InitialCount /\ call[p].op = "intern"
                    /\ answer'[p] = SymbolAt(m + 1) /\ State(p, v, n, m + 1, 0, 1)'
        /\ d > 0 => answer'[p] = answer[p] /\ State(p, v, n, m + 1, d, x + 1)'
  BY <1>1, LinkKeeps
<1>3. PICK w : w = m + 1
  OBVIOUS
<1>4. /\ d \in Nat /\ x \in Nat \ {0} /\ m \in Nat /\ pc[p] = "link" /\ Packed(t, n, m)
      /\ IsCall(call[p], m) /\ InitialCount \in Nat
  BY SymbolStateIs DEF State, Link
<1>5. TableNames = Naming(t, m)
  BY ShownNow
<1>6. ASSUME m >= InitialCount
      PROVE  /\ Naming(v, w) = Append(Naming(t, m), s) /\ Len(Naming(t, m)) = m
             /\ \A i \in DOMAIN Naming(t, m) : Naming(t, m)[i] # s
  <2>1. Naming(v, m + 1) = Append(Naming(t, m), s)
    BY <1>2, <1>4, <1>6, NamingGrows
  <2>2. Len(Naming(t, m)) = m
    BY <1>4, <1>6, NamingIs
  <2>3. \A i \in DOMAIN Naming(t, m) : Naming(t, m)[i] # s
    BY <1>2, <1>4, <1>6, NamesThere
  <2> QED
    BY <1>3, <2>1, <2>2, <2>3
<1>7. CASE d = 0
  <2>1. State(p, v, n, w, 0, 1)'
    BY <1>2, <1>3, <1>7
  <2>2. TableNames' = Naming(v, w)
    BY <2>1, ShownNext
  <2>3. Abstract!Waits(p, "intern") /\ Requested[p].arg = call[p].arg /\ call[p].arg = s
    BY <1>1, <1>2, <1>4, <1>7, WaitsShown DEF StringAt
  <2>4. AnswerOf(call[p], SymbolAt(w)) = w - 1
    <3>1. treap = WithString(t, m, s) /\ m + 1 < n /\ s \in Strings
      <4>1. treap = WithString(t, m, s) /\ m + 1 < n
        BY <1>1, <1>4 DEF State, Taking, Pending
      <4> QED
        BY <1>1, <1>2, <1>4, <4>1, StringIs
    <3>2. Between(t, treap, n, m, s)
      BY <1>4, <3>1, PackedBetween
    <3>3. treap.key[w] = s
      <4>1. t.key \in [Memory(n) -> Strings \cup {empty}]
        BY <1>4, PackedFacts
      <4> QED
        BY <1>3, <3>2, <4>1 DEF Between
    <3>4. Packed(v, n, w) /\ w \in 1 .. w /\ w >= InitialCount
      BY <1>2, <1>3, <1>4, <1>7 DEF Joined
    <3> QED
      BY <1>2, <1>7, <2>3, <3>1, <3>3, <3>4, PositionShown
  <2>5. Abstract!Answer(p, m)
    <3>1. AnswerOf(call[p], answer'[p]) = m
      BY <1>2, <1>3, <1>4, <1>7, <2>4
    <3> QED
      BY <1>2, <3>1, ReturnShown
  <2> QED
    BY <1>2, <1>5, <1>6, <1>7, <2>2, <2>3, <2>5 DEF Abstract!NewIndex
<1>8. CASE d > 0
  <2>1. State(p, v, n, w, d, x + 1)' /\ answer'[p] = answer[p]
    BY <1>2, <1>3, <1>8
  <2>2. TableNames' = Naming(v, w)
    BY <2>1, ShownNext
  <2>3. CASE d > Own(call[p])
    <3>1. m < InitialCount
      BY <1>1, <1>2, <1>4, <2>3, InitialInOrder
    <3>2. Prefix(v, m + 1)
      BY <1>3, <2>1 DEF State
    <3>3. Naming(v, w) = Naming(t, m)
      BY <1>2, <1>3, <1>4, <3>1, <3>2, InitialNaming
    <3> QED
      BY <1>2, <2>1, <3>3, SilentShown
  <2>4. CASE d <= Own(call[p])
    <3>1. m >= InitialCount
      BY <2>4, InitialsAreThere
    <3>2. call[p].op = "load" /\ d = 1
      BY <1>4, <1>8, <2>4 DEF Own
    <3>4. Abstract!Waits(p, "load") /\ Requested[p].arg = Promised(call[p].arg, call[p].moving)
      BY <1>4, <3>2, WaitsShown
    <3>5. UNCHANGED <<Requested, Answered>>
      <4>1. Answered = [q \in {p} |-> AnswerOf(call[q], answer[q])]
        BY DEF Answered, AnswerOf, IndexAnswered
      <4>2. Answered' = [q \in {p} |-> AnswerOf(call'[q], answer'[q])]
        BY DEF Answered, AnswerOf, IndexAnswered
      <4>3. UNCHANGED Requested
        BY <1>2 DEF Requested
      <4> QED
        BY <1>2, <2>1, <4>1, <4>2, <4>3
    <3>6. s \in Promised(call[p].arg, call[p].moving)
      <4>1. d = 1 /\ ListAt(call[p], d) = call[p].arg /\ call[p].arg \in Seq(Strings)
        <5>1. ListAt(call[p], d) = call[p].arg
          BY <2>4 DEF ListAt
        <5> QED
          BY <1>4, <3>2, <5>1, CallIs
      <4>2. x \in DOMAIN call[p].arg /\ s = call[p].arg[x]
        BY <1>1, <1>2, <1>4, <4>1, LenProperties DEF HasString, StringAt
      <4>3. ~MovesAt(call[p], d, x)
        BY <1>4 DEF State, Pending
      <4> QED
        BY <2>4, <4>2, <4>3 DEF MovesAt, Promised
    <3> QED
      BY <1>5, <1>6, <2>2, <3>1, <3>4, <3>5, <3>6 DEF Abstract!LoadNext
  <2> QED
    BY <1>4, <2>3, <2>4 DEF Own
<1> QED
  BY <1>4, <1>7, <1>8

(* A load is done once all its strings are there that do not move. *)
LEMMA LoadedShows ==
  ASSUME NEW p, Procs = {p}, Arrays, Loaded(p),
         NEW t, NEW n, NEW m, NEW d, NEW x, State(p, t, n, m, d, x)
  PROVE  Abstract!LoadDone(p) \/ UNCHANGED Abstract!vars
<1>1. /\ treap' = t /\ call' = call /\ m >= InitialCount
      /\ EndsCall(p) => /\ Promised(call[p].arg, call[p].moving) \subseteq NamesIn(t, m)
                        /\ answer'[p] = 0 /\ State(p, t, n, m, 0, 1)'
      /\ ~EndsCall(p) => answer' = answer /\ State(p, t, n, m, d - 1, 1)'
  BY LoadedKeeps
<1>2. CASE ~EndsCall(p)
  BY <1>1, <1>2, SilentShown
<1>3. CASE EndsCall(p)
  <2>1. TableNames = Naming(t, m)
    BY ShownNow
  <2>2. TableNames' = Naming(t, m)
    BY <1>1, <1>3, ShownNext
  <2>3. call[p].op = "load" /\ pc[p] = "body" /\ Packed(t, n, m)
    BY <1>3 DEF EndsCall, Loaded, State
  <2>4. Abstract!Waits(p, "load") /\ Requested[p].arg = Promised(call[p].arg, call[p].moving)
    BY <2>3, WaitsShown
  <2>5. ASSUME NEW s \in Promised(call[p].arg, call[p].moving)
        PROVE  \E i \in DOMAIN Naming(t, m) : Naming(t, m)[i] = s
    <3>1. s \in NamesIn(t, m)
      BY <1>1, <1>3
    <3> QED
      BY <1>1, <2>3, <3>1, NamesThere
  <2>6. Abstract!Answer(p, 0)
    <3>1. AnswerOf(call[p], answer'[p]) = 0
      BY <1>1, <1>3, <2>3 DEF AnswerOf
    <3> QED
      BY <1>1, <3>1, ReturnShown
  <2> QED
    BY <2>1, <2>2, <2>4, <2>5, <2>6 DEF Abstract!LoadDone
<1> QED
  BY <1>2, <1>3

(* A string looked up has its index or none. *)
LEMMA LookupShows ==
  ASSUME NEW p, Procs = {p}, FewStrings, Arrays, Lookup(p),
         NEW t, NEW n, NEW m, NEW d, NEW x, State(p, t, n, m, d, x)
  PROVE  Abstract!OldIndex(p) \/ Abstract!NoIndex(p)
<1>1. /\ treap' = t /\ call' = call /\ m >= InitialCount /\ State(p, t, n, m, 0, 1)'
      /\ call[p].op = "lookup"
      /\ \/ answer'[p] = Nil /\ call[p].arg \notin NamesIn(t, m)
         \/ \E pos \in 1 .. m : t.key[pos] = call[p].arg /\ answer'[p] = SymbolAt(pos)
  BY LookupKeeps
<1>2. TableNames = Naming(t, m)
  BY ShownNow
<1>3. TableNames' = Naming(t, m)
  BY <1>1, ShownNext
<1>4. pc[p] = "body" /\ Packed(t, n, m) /\ treap = t
  BY SymbolStateIs DEF Lookup, State
<1>5. Abstract!Waits(p, "lookup") /\ Requested[p].arg = call[p].arg
  BY <1>1, <1>4, WaitsShown
<1>6. CASE answer'[p] = Nil /\ call[p].arg \notin NamesIn(t, m)
  <2>1. \A i \in DOMAIN Naming(t, m) : Naming(t, m)[i] # call[p].arg
    BY <1>1, <1>4, <1>6, NamesThere
  <2>2. AnswerOf(call[p], answer'[p]) = Nil
    BY <1>6 DEF AnswerOf
  <2>3. Abstract!Answer(p, Nil)
    BY <1>1, <2>2, ReturnShown
  <2> QED
    BY <1>2, <1>3, <1>5, <2>1, <2>3 DEF Abstract!NoIndex
<1>7. CASE \E pos \in 1 .. m : t.key[pos] = call[p].arg /\ answer'[p] = SymbolAt(pos)
  <2>1. PICK pos \in 1 .. m : t.key[pos] = call[p].arg /\ answer'[p] = SymbolAt(pos)
    BY <1>7
  <2>2. pos \in DOMAIN Naming(t, m) /\ Naming(t, m)[pos] = call[p].arg
    BY <1>1, <1>4, <2>1, NamingIs
  <2>3. AnswerOf(call[p], SymbolAt(pos)) = pos - 1
    <3>1. treap.key[pos] \in Strings /\ call[p].arg = treap.key[pos]
      BY <1>4, <2>1, PackedFacts
    <3>2. Packed(t, n, m) /\ m >= InitialCount /\ call[p].op \in {"intern", "lookup"}
      BY <1>1, <1>4
    <3> QED
      BY <3>1, <3>2, PositionShown
  <2>4. Abstract!Answer(p, pos - 1)
    BY <1>1, <2>1, <2>3, ReturnShown
  <2> QED
    BY <1>2, <1>3, <1>5, <2>2, <2>4 DEF Abstract!OldIndex
<1> QED
  BY <1>1, <1>6, <1>7

(* A symbol gives its string. *)
LEMMA GetKeyShows ==
  ASSUME NEW p, Procs = {p}, FewStrings, Arrays, GetKey(p),
         NEW t, NEW n, NEW m, NEW d, NEW x, State(p, t, n, m, d, x)
  PROVE  Abstract!Name(p)
<1>1. /\ treap' = t /\ call' = call /\ m >= InitialCount /\ State(p, t, n, m, 0, 1)'
      /\ call[p].op = "at" /\ call[p].arg \in Symbols(m)
      /\ answer'[p] = t.key[symbolIndex(call[p].arg)]
  BY GetKeyKeeps
<1>2. TableNames = Naming(t, m)
  BY ShownNow
<1>3. TableNames' = Naming(t, m)
  BY <1>1, ShownNext
<1>4. pc[p] = "body" /\ Packed(t, n, m)
  BY DEF GetKey, State
<1>5. Abstract!Waits(p, "at") /\ Requested[p].arg = symbolIndex(call[p].arg) - 1
  BY <1>1, <1>4, WaitsShown
<1>6. PICK i : i = symbolIndex(call[p].arg)
  OBVIOUS
<1>7. i \in 1 .. m /\ Naming(t, m)[i] = t.key[i]
  <2>1. Known(m) = m /\ \A k \in 1 .. m : Naming(t, m)[k] = t.key[k]
    BY <1>1, <1>4, NamingIs
  <2>2. i \in 1 .. m
    BY <1>1, <1>4, <1>6, <2>1, IndexShown
  <2> QED
    BY <2>1, <2>2
<1>8. Naming(t, m)[Requested[p].arg + 1] = t.key[i]
  <2>1. (i - 1) + 1 = i
    BY <1>7
  <2> QED
    BY <1>5, <1>6, <1>7, <2>1
<1>9. Abstract!Answer(p, t.key[i])
  <2>1. AnswerOf(call[p], answer'[p]) = t.key[i]
    BY <1>1, <1>6 DEF AnswerOf
  <2> QED
    BY <1>1, <2>1, ReturnShown
<1> QED
  BY <1>2, <1>3, <1>5, <1>8, <1>9 DEF Abstract!Name

(* Steps that users see nothing of. *)
LEMMA InnerShows ==
  ASSUME NEW p, Procs = {p}, EnoughRoom, Arrays,
         theTreap(p) \/ Miss(p) \/ Take(p) \/ Unreachable(p) \/ Skip(p),
         NEW t, NEW n, NEW m, NEW d, NEW x, State(p, t, n, m, d, x)
  PROVE  UNCHANGED Abstract!vars
<1>1. State(p, t, n, m, d, x)' \/ State(p, t, n, m, d, x + 1)'
  BY RoomKeeps, MissKeeps, TakeKeeps, UnreachableKeeps, SkipKeeps DEF EnoughRoom
<1>2. call' = call /\ answer' = answer
  BY DEF theTreap, Miss, Take, Unreachable, Skip
<1> QED
  BY <1>1, <1>2, SilentShown

(* Each step is one of the interner, or does not show. *)
LEMMA SymbolsNextRefines ==
  ASSUME OneProcess, EnoughRoom, FewStrings, SymbolsInv, [SymbolsNext]_symbolVars
  PROVE  [Abstract!Next]_Abstract!vars
<1>1. PICK p : Procs = {p}
  BY DEF OneProcess
<1>2. Arrays /\ (Unused(p) \/ Working(p))
  BY <1>1 DEF SymbolsInv
<1>3. CASE UNCHANGED symbolVars
  <2>1. UNCHANGED TableNames
    BY <1>3 DEF symbolVars, TableNames, Linked
  <2>2. call' = call /\ answer'[p] = answer[p]
    BY <1>3 DEF symbolVars
  <2> QED
    BY <1>1, <2>1, <2>2, NothingShown
<1>4. CASE intern(p) \/ lookupSymbol(p) \/ asString(p) \/ loadSymbols(p)
  BY <1>1, <1>4, CallRefines DEF Abstract!Next
<1>5. CASE allocTreap(p)
  BY <1>1, <1>5, EnlargementRefines
<1>6. CASE Step(p) /\ ~allocTreap(p)
  <2>1. Working(p)
    BY <1>2, <1>6, FirstIsEnlargement
  <2>2. PICK t, n, m, d, x : State(p, t, n, m, d, x)
    BY <2>1 DEF Working
  <2>3. CASE Hit(p)
    BY <1>1, <1>2, <2>2, <2>3, HitShows DEF Abstract!Next
  <2>4. CASE Link(p)
    BY <1>1, <1>2, <2>2, <2>4, LinkShows DEF Abstract!Next
  <2>5. CASE Loaded(p)
    BY <1>1, <1>2, <2>2, <2>5, LoadedShows DEF Abstract!Next
  <2>6. CASE Lookup(p)
    BY <1>1, <1>2, <2>2, <2>6, LookupShows DEF Abstract!Next
  <2>7. CASE GetKey(p)
    BY <1>1, <1>2, <2>2, <2>7, GetKeyShows DEF Abstract!Next
  <2>8. CASE theTreap(p) \/ Miss(p) \/ Take(p) \/ Unreachable(p) \/ Skip(p)
    BY <1>1, <1>2, <2>2, <2>8, InnerShows
  <2> QED
    BY <1>6, <2>3, <2>4, <2>5, <2>6, <2>7, <2>8 DEF Step
<1> QED
  BY <1>1, <1>3, <1>4, <1>5, <1>6 DEF SymbolsNext

(* Users of the symbol table see each string with one symbol for good, which *)
(* has the string's position and arity, and the initial strings from the     *)
(* start, whatever is enlarged and loaded within a call; intern and          *)
(* loadSymbols give each string a symbol but one that may move, which is     *)
(* passed over or not answered (symbol.zig:160-226).                         *)
THEOREM SymbolTableIsAnInterner ==
  ASSUME OneProcess, EnoughRoom, FewStrings
  PROVE  SymbolsSpec => ImplementsInterner
<1>1. SymbolsInit => Abstract!Init
  BY SymbolsInitRefines
<1>2. SymbolsInv /\ [SymbolsNext]_symbolVars => [Abstract!Next]_Abstract!vars
  BY SymbolsNextRefines
<1> QED
  BY <1>1, <1>2, SymbolsInvHolds, PTL DEF SymbolsSpec, Abstract!Spec, ImplementsInterner
=============================================================================

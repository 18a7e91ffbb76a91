------------------------- MODULE LockingTreapProofs -------------------------
(***************************************************************************)
(* The interner of the Rust VM is correct for any keys, initial keys and   *)
(* threads: its treap stays a search tree and a heap through every         *)
(* rotation, no key is inserted twice, and its users see the interner with *)
(* atomic calls that Interner describes.                                   *)
(*                                                                         *)
(* The code descends the tree by recursion.  A property of all subtrees is *)
(* proved here with the set of the positions that have it: if such a set   *)
(* has the position of a tree whenever it has those of its two children,   *)
(* it has every position (SubtreeInduction).                               *)
(***************************************************************************)
EXTENDS LockingTreap, FiniteSetTheorems, TLAPS

(* Treaps whose positions are those of P, of any shape. *)
TreapOver(P) ==
  [value : [P -> Int], left : [P -> P \cup {Nowhere}], right : [P -> P \cup {Nowhere}],
   root : P \cup {Nowhere}, free : Nat]

(* Each position of E is the top of a search tree of positions of E; those   *)
(* of the tree with top p are the set below[p].                              *)
Subtrees(t, E, below) ==
  /\ below \in [E \cup {Nowhere} -> SUBSET E]
  /\ below[Nowhere] = {}
  /\ \A p \in E :
       /\ t.value[p] \in Int
       /\ t.left[p] \in E \cup {Nowhere} /\ t.right[p] \in E \cup {Nowhere}
       /\ below[p] = {p} \cup below[t.left[p]] \cup below[t.right[p]]
       /\ \A q \in below[t.left[p]] : t.value[q] < t.value[p]
       /\ \A q \in below[t.right[p]] : t.value[p] < t.value[q]

(* Nothing in a tree outranks its top.                                       *)
Heap(E, below) == \A p \in E : \A q \in below[p] : ~Outranks(q, p)

IsTreap(t, E, below) == Subtrees(t, E, below) /\ Heap(E, below)

-----------------------------------------------------------------------------
(* Priorities are ordered, and Nowhere has the lowest. *)

LEMMA PriorityType == \A p \in Int : priority(p) \in Int \X Int
  BY DEF priority

LEMMA NowhereIsLast ==
  ASSUME NEW p \in Int
  PROVE  ~Outranks(Nowhere, p)
<1> DEFINE low == (p + 1) * 37861
<1>1. \A n \in Int : n % 65536 >= 0
  OBVIOUS
<1>2. low \in Int /\ (p + 1) * 30517 + low \div 65536 \in Int
  OBVIOUS
<1>3. priority(p) = <<((p + 1) * 30517 + low \div 65536) % 65536, low % 65536>>
  BY DEF priority
<1>4. PICK a \in Int, b \in Int : priority(p) = <<a, b>> /\ a >= 0 /\ b >= 0
  <2> HIDE DEF low
  <2> QED
    BY <1>1, <1>2, <1>3
<1>5. priority(Nowhere) = <<0, 0>>
  <2>1. (Nowhere + 1) * 37861 = 0 /\ (Nowhere + 1) * 30517 = 0
    BY DEF Nowhere
  <2>2. 0 \div 65536 = 0 /\ 0 % 65536 = 0 /\ 0 + 0 = 0
    OBVIOUS
  <2> QED
    BY <2>1, <2>2 DEF priority
<1> QED
  BY <1>4, <1>5 DEF Outranks

LEMMA RankOrder ==
  ASSUME NEW p \in Int, NEW q \in Int, NEW r \in Int
  PROVE  /\ ~Outranks(p, p)
         /\ ~Outranks(p, q) /\ ~Outranks(q, r) => ~Outranks(p, r)
         /\ Outranks(p, q) => ~Outranks(q, p)
<1>1. PICK a1 \in Int, a2 \in Int : priority(p) = <<a1, a2>>
  BY PriorityType
<1>2. PICK b1 \in Int, b2 \in Int : priority(q) = <<b1, b2>>
  BY PriorityType
<1>3. PICK c1 \in Int, c2 \in Int : priority(r) = <<c1, c2>>
  BY PriorityType
<1> QED
  BY <1>1, <1>2, <1>3 DEF Outranks

-----------------------------------------------------------------------------
(* Induction over subtrees, and functions defined by recursion on them. *)

LEMMA SmallestOf ==
  ASSUME NEW E, IsFiniteSet(E), NEW T, T \subseteq SUBSET E, T # {}
  PROVE  \E x \in T : \A y \in T : ~(y \subseteq x /\ y # x)
<1>1. IsWellFoundedOn(StrictSubsetOrdering(E), SUBSET E)
  BY FS_StrictSubsetOrderingWellFounded, FS_FiniteSubsetsOfFinite
<1>2. PICK x \in T : \A y \in T : <<y, x>> \notin StrictSubsetOrdering(E)
  BY <1>1, WFMin
<1> QED
  BY <1>2 DEF StrictSubsetOrdering

LEMMA SubtreeInduction ==
  ASSUME NEW t, NEW E, IsFiniteSet(E), Nowhere \notin E, NEW below, Subtrees(t, E, below),
         NEW Good, Nowhere \in Good,
         \A p \in E : t.left[p] \in Good /\ t.right[p] \in Good => p \in Good
  PROVE  E \subseteq Good
<1> DEFINE Bad == { below[p] : p \in E \ Good }
<1> SUFFICES ASSUME Bad # {} PROVE FALSE
  OBVIOUS
<1>1. Bad \subseteq SUBSET E
  BY DEF Subtrees
<1>2. PICK x \in Bad : \A y \in Bad : ~(y \subseteq x /\ y # x)
  <2> HIDE DEF Bad
  <2> QED BY <1>1, SmallestOf
<1>3. PICK p \in E \ Good : x = below[p]
  BY <1>2
<1>4. ASSUME NEW c \in E, c = t.left[p] \/ c = t.right[p]
      PROVE  c \in Good
  <2>1. p \notin below[c]
    <3>1. /\ p \in below[t.left[p]] => t.value[p] < t.value[p]
          /\ p \in below[t.right[p]] => t.value[p] < t.value[p]
          /\ t.value[p] \in Int
      BY DEF Subtrees
    <3>2. ~(t.value[p] < t.value[p])
      BY <3>1
    <3> QED
      BY <1>4, <3>1, <3>2
  <2>2. below[c] \subseteq below[p] /\ p \in below[p]
    BY <1>4 DEF Subtrees
  <2> QED
    BY <1>2, <1>3, <2>1, <2>2
<1>5. t.left[p] \in E \cup {Nowhere} /\ t.right[p] \in E \cup {Nowhere}
  BY DEF Subtrees
<1> QED
  BY <1>4, <1>5

(* A tree has the trees of all its positions.                                *)
LEMMA BelowIsClosed ==
  ASSUME NEW t, NEW E, IsFiniteSet(E), Nowhere \notin E, NEW below, Subtrees(t, E, below)
  PROVE  \A p \in E : \A q \in below[p] : below[q] \subseteq below[p]
<1> DEFINE Good == { p \in E \cup {Nowhere} : \A q \in below[p] : below[q] \subseteq below[p] }
<1>1. Nowhere \in Good
  BY DEF Subtrees
<1>2. ASSUME NEW p \in E, t.left[p] \in Good, t.right[p] \in Good
      PROVE  p \in Good
  BY <1>2 DEF Subtrees
<1>3. E \subseteq Good
  <2> HIDE DEF Good
  <2> QED BY <1>1, <1>2, SubtreeInduction
<1> QED
  BY <1>3

(* A position is in its own tree and in neither of its children's, and no    *)
(* position is in the trees of both.                                         *)
LEMMA BelowIsSplit ==
  ASSUME NEW t, NEW E, NEW below, Subtrees(t, E, below), NEW p \in E
  PROVE  /\ p \in below[p] /\ p \notin below[t.left[p]] /\ p \notin below[t.right[p]]
         /\ below[t.left[p]] \cap below[t.right[p]] = {}
         /\ below[t.left[p]] \subseteq E /\ below[t.right[p]] \subseteq E /\ below[p] \subseteq E
<1>1. /\ p \in below[t.left[p]] => t.value[p] < t.value[p]
      /\ p \in below[t.right[p]] => t.value[p] < t.value[p]
      /\ t.value[p] \in Int
  BY DEF Subtrees
<1>2. below[t.left[p]] \subseteq E /\ below[t.right[p]] \subseteq E /\ below[p] \subseteq E
  BY DEF Subtrees
<1>3. ASSUME NEW q \in below[t.left[p]], q \in below[t.right[p]]
      PROVE  FALSE
  <2>1. t.value[q] < t.value[p] /\ t.value[p] < t.value[q]
    BY <1>3 DEF Subtrees
  <2>2. t.value[q] \in Int
    BY <1>2 DEF Subtrees
  <2> QED
    BY <1>1, <2>1, <2>2
<1>4. p \notin below[t.left[p]] /\ p \notin below[t.right[p]]
  BY <1>1
<1>5. p \in below[p]
  BY DEF Subtrees
<1> QED
  BY <1>2, <1>3, <1>4, <1>5

(* child chooses one of the two children of each position.                   *)
Descends(t, E, child) ==
  /\ child \in [E -> E \cup {Nowhere}]
  /\ \A p \in E : child[p] = t.left[p] \/ child[p] = t.right[p]

(* f is the function with the value base at Nowhere that at each position    *)
(* takes a step from its value at the child.                                 *)
Recurs(E, child, Values, base, step, f) ==
  /\ f \in [E \cup {Nowhere} -> Values]
  /\ f[Nowhere] = base
  /\ \A p \in E : f[p] = step[p][f[child[p]]]

(* There is such a function.                                                 *)
LEMMA RecursionOnSubtrees ==
  ASSUME NEW t, NEW E, IsFiniteSet(E), Nowhere \notin E, NEW below, Subtrees(t, E, below),
         NEW child, Descends(t, E, child),
         NEW Values, NEW base, base \in Values,
         NEW step, step \in [E -> [Values -> Values]]
  PROVE  \E f : Recurs(E, child, Values, base, step, f)
<1>0. /\ child \in [E -> E \cup {Nowhere}]
      /\ \A p \in E : child[p] = t.left[p] \/ child[p] = t.right[p]
  BY DEF Descends
<1> DEFINE Fits(f, D) ==
      /\ f \in [E \cup {Nowhere} -> Values]
      /\ f[Nowhere] = base
      /\ \A p \in D : f[p] = step[p][f[child[p]]]
      Closed(D) == \A p \in D : {t.left[p], t.right[p]} \subseteq D \cup {Nowhere}
      Partial == { D \in SUBSET E : Closed(D) /\ \E f : Fits(f, D) }
      Rest == { E \ D : D \in Partial }
<1>1. Rest # {}
  <2>1. Fits([p \in E \cup {Nowhere} |-> base], {})
    OBVIOUS
  <2>2. {} \in Partial
    BY <2>1
  <2>3. E \ {} \in Rest
    BY <2>2
  <2> QED
    BY <2>3
<1>2. PICK D \in Partial : \A C \in Partial : ~(E \ C \subseteq E \ D /\ E \ C # E \ D)
  <2>1. Rest \subseteq SUBSET E
    OBVIOUS
  <2>2. PICK x \in Rest : \A y \in Rest : ~(y \subseteq x /\ y # x)
    <3> HIDE DEF Rest
    <3> QED BY <1>1, <2>1, SmallestOf
  <2>3. PICK D \in Partial : x = E \ D
    OBVIOUS
  <2>4. \A C \in Partial : E \ C \in Rest
    OBVIOUS
  <2> HIDE DEF Partial, Rest
  <2>5. \A C \in Partial : ~(E \ C \subseteq x /\ E \ C # x)
    BY <2>2, <2>4, Zenon
  <2> QED
    BY <2>3, <2>5, Zenon
<1>3. PICK f : Fits(f, D)
  BY <1>2
<1>4. Closed(D) /\ D \subseteq E
  BY <1>2
<1>5. ASSUME NEW p \in E, p \notin D, t.left[p] \in D \cup {Nowhere}, t.right[p] \in D \cup {Nowhere}
      PROVE  FALSE
  <2> DEFINE g == [f EXCEPT ![p] = step[p][f[child[p]]]]
             C == D \cup {p}
  <2>1. p # Nowhere /\ child[p] # p
    BY <1>0, <1>5
  <2>2. \A q \in D : child[q] # p /\ q # p /\ child[q] \in E \cup {Nowhere}
    BY <1>0, <1>4, <1>5, <2>1
  <2>3. g \in [E \cup {Nowhere} -> Values]
    BY <1>0, <1>3
  <2>4. g[Nowhere] = base
    BY <1>3, <2>1
  <2>5. \A q \in D : g[q] = step[q][g[child[q]]]
    BY <1>3, <1>4, <2>2
  <2>6. g[p] = step[p][g[child[p]]]
    BY <1>0, <1>3, <2>1
  <2>7. Fits(g, C)
    <3> HIDE DEF g
    <3> QED BY <2>3, <2>4, <2>5, <2>6
  <2>8. Closed(C) /\ C \subseteq E
    BY <1>4, <1>5
  <2>9. C \in Partial
    <3> HIDE DEF Fits, Closed, C
    <3> QED BY <2>7, <2>8
  <2> HIDE DEF Partial
  <2> QED
    BY <1>2, <1>4, <1>5, <2>9
<1>6. E \subseteq D \cup {Nowhere}
  <2> DEFINE Good == D \cup {Nowhere}
  <2>1. \A p \in E : t.left[p] \in Good /\ t.right[p] \in Good => p \in Good
    BY <1>5
  <2>2. Nowhere \in Good
    OBVIOUS
  <2> HIDE DEF Good
  <2>3. E \subseteq Good
    BY <2>1, <2>2, SubtreeInduction
  <2> QED
    BY <2>3 DEF Good
<1>7. D = E
  BY <1>4, <1>6
<1> QED
  BY <1>3, <1>7 DEF Recurs

-----------------------------------------------------------------------------
(* Keys differ, and the search finds each of them. *)

LEMMA KeysDiffer ==
  ASSUME NEW t, NEW E, IsFiniteSet(E), Nowhere \notin E, NEW below, Subtrees(t, E, below)
  PROVE  \A p \in E : \A i, j \in below[p] : t.value[i] = t.value[j] => i = j
<1> DEFINE Good == { p \in E \cup {Nowhere} :
                       \A i, j \in below[p] : t.value[i] = t.value[j] => i = j }
<1>1. Nowhere \in Good
  BY DEF Subtrees
<1>2. ASSUME NEW p \in E, t.left[p] \in Good, t.right[p] \in Good
      PROVE  p \in Good
  <2>1. below[p] = {p} \cup below[t.left[p]] \cup below[t.right[p]]
    BY DEF Subtrees
  <2>2. \A i \in below[p] : t.value[i] \in Int
    BY BelowIsSplit DEF Subtrees
  <2>3. /\ \A i \in below[t.left[p]] : t.value[i] < t.value[p]
        /\ \A i \in below[t.right[p]] : t.value[p] < t.value[i]
    BY DEF Subtrees
  <2>4. p \in below[p]
    BY BelowIsSplit
  <2>5. ASSUME NEW i \in below[p], NEW j \in below[p], t.value[i] = t.value[j]
        PROVE  i = j
    BY <1>2, <2>1, <2>2, <2>3, <2>4, <2>5
  <2> QED
    BY <2>5
<1>3. E \subseteq Good
  <2> HIDE DEF Good
  <2> QED BY <1>1, <1>2, SubtreeInduction
<1> QED
  BY <1>3

(* The function that lookup recurs on.                                       *)
IsUnder(t, key, f) ==
  f = [r \in {Nowhere} \cup DOMAIN t.value |->
         IF r = Nowhere \/ t.value[r] = key THEN r
         ELSE f[IF t.value[r] < key THEN t.right[r] ELSE t.left[r]]]

LEMMA LookupSearches ==
  ASSUME NEW P, IsFiniteSet(P), Nowhere \notin P, treap \in TreapOver(P),
         NEW below, Subtrees(treap, P, below), NEW key \in Int
  PROVE  \E f : IsUnder(treap, key, f) /\ lookup(key) = f[treap.root]
<1> DEFINE under == CHOOSE f : IsUnder(treap, key, f)
           child == [p \in P |-> IF treap.value[p] < key THEN treap.right[p] ELSE treap.left[p]]
           Values == P \cup {Nowhere}
           step == [p \in P |-> [v \in Values |-> IF treap.value[p] = key THEN p ELSE v]]
<1>1. Descends(treap, P, child)
  BY DEF TreapOver, Descends
<1>2. step \in [P -> [Values -> Values]] /\ Nowhere \in Values
  OBVIOUS
<1>3. PICK f : Recurs(P, child, Values, Nowhere, step, f)
  <2> HIDE DEF child, step, Values
  <2> QED BY <1>1, <1>2, RecursionOnSubtrees
<1>4. DOMAIN treap.value = P
  BY DEF TreapOver
<1>5. \A p \in P : f[p] = IF treap.value[p] = key THEN p
                         ELSE f[IF treap.value[p] < key THEN treap.right[p] ELSE treap.left[p]]
  BY <1>3 DEF TreapOver, Recurs
<1>6. IsUnder(treap, key, f)
  BY <1>3, <1>4, <1>5 DEF IsUnder, Recurs
<1>7. IsUnder(treap, key, under)
  <2> HIDE DEF child, step, Values
  <2> QED BY <1>6, Zenon
<1>8. lookup(key) = under[treap.root]
  BY DEF lookup, IsUnder
<1> QED
  BY <1>7, <1>8

(* lookup finds the position of a key, and nothing if there is none.         *)
LEMMA LookupFinds ==
  ASSUME NEW P, IsFiniteSet(P), Nowhere \notin P, treap \in TreapOver(P),
         NEW below, Subtrees(treap, P, below), below[treap.root] = P, NEW key \in Int
  PROVE  \/ lookup(key) \in P /\ treap.value[lookup(key)] = key
         \/ lookup(key) = Nowhere /\ \A i \in P : treap.value[i] # key
<1>1. PICK f : IsUnder(treap, key, f) /\ lookup(key) = f[treap.root]
  BY LookupSearches
<1>2. DOMAIN treap.value = P
  BY DEF TreapOver
<1>3. f[Nowhere] = Nowhere
  BY <1>1 DEF IsUnder
<1>4. \A p \in P : f[p] = IF treap.value[p] = key THEN p
                         ELSE f[IF treap.value[p] < key THEN treap.right[p] ELSE treap.left[p]]
  BY <1>1, <1>2 DEF IsUnder
<1> DEFINE Good == { p \in P \cup {Nowhere} :
                       \/ f[p] \in below[p] /\ treap.value[f[p]] = key
                       \/ f[p] = Nowhere /\ \A i \in below[p] : treap.value[i] # key }
<1>5. Nowhere \in Good
  BY <1>3 DEF Subtrees
<1>6. ASSUME NEW p \in P, treap.left[p] \in Good, treap.right[p] \in Good
      PROVE  p \in Good
  <2>1. below[p] = {p} \cup below[treap.left[p]] \cup below[treap.right[p]] /\ p \in below[p]
    BY BelowIsSplit DEF Subtrees
  <2>2. \A i \in below[p] : treap.value[i] \in Int
    BY BelowIsSplit DEF Subtrees
  <2>3. /\ \A i \in below[treap.left[p]] : treap.value[i] < treap.value[p]
        /\ \A i \in below[treap.right[p]] : treap.value[p] < treap.value[i]
    BY DEF Subtrees
  <2>4. CASE treap.value[p] = key
    BY <1>4, <2>1, <2>4
  <2>5. CASE treap.value[p] < key
    <3>1. f[p] = f[treap.right[p]]
      BY <1>4, <2>1, <2>2, <2>5
    <3>2. \A i \in below[treap.left[p]] \cup {p} : treap.value[i] # key
      BY <2>1, <2>2, <2>3, <2>5
    <3> QED
      BY <1>6, <2>1, <3>1, <3>2
  <2>6. CASE key < treap.value[p]
    <3>1. f[p] = f[treap.left[p]]
      BY <1>4, <2>1, <2>2, <2>6
    <3>2. \A i \in below[treap.right[p]] \cup {p} : treap.value[i] # key
      BY <2>1, <2>2, <2>3, <2>6
    <3> QED
      BY <1>6, <2>1, <3>1, <3>2
  <2> QED
    BY <2>1, <2>2, <2>4, <2>5, <2>6
<1>7. P \subseteq Good
  <2>1. \A p \in P : treap.left[p] \in Good /\ treap.right[p] \in Good => p \in Good
    BY <1>6
  <2> HIDE DEF Good
  <2>2. \A G : (\A p \in P : treap.left[p] \in G /\ treap.right[p] \in G => p \in G) /\ Nowhere \in G => P \subseteq G
    BY SubtreeInduction
  <2> QED BY <1>5, <2>1, <2>2, Zenon
<1>8. treap.root \in Good
  BY <1>5, <1>7 DEF TreapOver
<1> QED
  BY <1>1, <1>8

-----------------------------------------------------------------------------
(* Insertion. *)

(* u is t after target has gone into the tree with top r: nothing else is    *)
(* touched, and what was below r is a treap together with target.            *)
Inserted(t, P, below, target, r, u) ==
  /\ u \in TreapOver(P) /\ u.value = t.value /\ u.free = t.free
  /\ u.root \in P /\ (u.root = r \/ u.root = target)
  /\ \A p \in P \ (below[r] \cup {target}) : u.left[p] = t.left[p] /\ u.right[p] = t.right[p]
  /\ \E after : /\ IsTreap(u, below[r] \cup {target}, after)
                /\ after[u.root] = below[r] \cup {target}

(* A treap of P, with target not below r.                                    *)
Descent(t, P, below, target, r) ==
  /\ IsFiniteSet(P) /\ P \subseteq Int /\ Nowhere \notin P
  /\ t \in TreapOver(P) /\ IsTreap(t, P, below)
  /\ target \in P /\ r \in P /\ target \notin below[r]

LEMMA ChildrenBelow ==
  ASSUME NEW t, NEW E, IsFiniteSet(E), Nowhere \notin E, NEW below, Subtrees(t, E, below),
         NEW p \in E
  PROVE  \A q \in below[p] : /\ t.left[q] \in below[p] \cup {Nowhere}
                             /\ t.right[q] \in below[p] \cup {Nowhere}
<1> SUFFICES ASSUME NEW q \in below[p], NEW c \in {t.left[q], t.right[q]}, c # Nowhere
             PROVE  c \in below[p]
  OBVIOUS
<1>1. q \in E
  BY BelowIsSplit
<1>2. c \in E
  BY <1>1 DEF Subtrees
<1>3. c \in below[c] /\ below[c] \subseteq below[q]
  BY <1>1, <1>2, BelowIsSplit DEF Subtrees
<1>4. below[q] \subseteq below[p]
  BY BelowIsClosed
<1> QED
  BY <1>3, <1>4

(* The top of a tree of E is nobody's child in E. *)
LEMMA TopIsNoChild ==
  ASSUME NEW t, NEW E, NEW below, Subtrees(t, E, below), NEW top, below[top] = E, NEW p \in E
  PROVE  t.left[p] # top /\ t.right[p] # top
  BY BelowIsSplit

(* Below r there is the child c with target, a treap of u, and the other     *)
(* child o, as it was in t.                                                  *)
Parted(t, P, below, target, r, c, o, u, old) ==
  LET E == below[c] \cup {target}
  IN /\ P \subseteq Int /\ Nowhere \notin P /\ r \in P /\ target \in P /\ target # r
     /\ below[r] \cup {target} = {r} \cup E \cup below[o]
     /\ below[r] \cup {target} \subseteq P
     /\ r \notin E /\ r \notin below[o] /\ E \cap below[o] = {}
     /\ below[Nowhere] = {} /\ o \in below[o] \cup {Nowhere} /\ c \in below[c] \cup {Nowhere}
     /\ \A p \in below[o] :
          /\ below[p] \subseteq below[o]
          /\ t.left[p] \in below[o] \cup {Nowhere} /\ t.right[p] \in below[o] \cup {Nowhere}
     /\ u \in TreapOver(P) /\ u.value = t.value /\ u.free = t.free
     /\ u.root \in E /\ (u.root = c \/ u.root = target)
     /\ \A p \in P \ E : u.left[p] = t.left[p] /\ u.right[p] = t.right[p]
     /\ Subtrees(u, E, old) /\ Heap(E, old) /\ old[u.root] = E

(* c is the child of r on one side and o the one on the other.               *)
Children(t, r, c, o) ==
  \/ c = t.left[r] /\ o = t.right[r]
  \/ c = t.right[r] /\ o = t.left[r]

LEMMA Parting ==
  ASSUME NEW t, NEW P, NEW below, NEW target, NEW r, NEW c, NEW o, NEW u,
         Descent(t, P, below, target, r), Inserted(t, P, below, target, c, u),
         Children(t, r, c, o)
  PROVE  \E old : Parted(t, P, below, target, r, c, o, u, old)
<1> DEFINE E == below[c] \cup {target}
<1>1. PICK old : IsTreap(u, E, old) /\ old[u.root] = E
  BY DEF Inserted
<1>2. Subtrees(t, P, below) /\ Heap(P, below) /\ r \in P /\ target \in P /\ target \notin below[r]
      /\ IsFiniteSet(P) /\ P \subseteq Int /\ Nowhere \notin P
  BY DEF Descent, IsTreap
<1>3. Subtrees(u, E, old) /\ Heap(E, old)
  BY <1>1 DEF IsTreap
<1>4. /\ below[r] = {r} \cup below[c] \cup below[o] /\ below[Nowhere] = {}
      /\ c \in P \cup {Nowhere} /\ o \in P \cup {Nowhere}
  BY <1>2 DEF Subtrees, Children
<1>5. /\ r \in below[r] /\ r \notin below[c] /\ r \notin below[o]
      /\ below[c] \cap below[o] = {} /\ below[c] \subseteq P /\ below[o] \subseteq P
  <2>1. /\ r \in below[r] /\ r \notin below[t.left[r]] /\ r \notin below[t.right[r]]
        /\ below[t.left[r]] \cap below[t.right[r]] = {}
        /\ below[t.left[r]] \subseteq P /\ below[t.right[r]] \subseteq P
    BY <1>2, BelowIsSplit
  <2> QED
    BY <2>1 DEF Children
<1>6. ASSUME NEW d \in {c, o} PROVE d \in below[d] \cup {Nowhere}
  <2>1. d \in P => d \in below[d]
    BY <1>2, BelowIsSplit
  <2> QED
    BY <1>4, <2>1
<1>7. \A p \in below[o] :
        /\ below[p] \subseteq below[o]
        /\ t.left[p] \in below[o] \cup {Nowhere} /\ t.right[p] \in below[o] \cup {Nowhere}
  <2>1. o \in P => \A p \in below[o] : below[p] \subseteq below[o]
    BY <1>2, BelowIsClosed
  <2>2. o \in P => \A p \in below[o] :
                     t.left[p] \in below[o] \cup {Nowhere} /\ t.right[p] \in below[o] \cup {Nowhere}
    BY <1>2, ChildrenBelow
  <2> QED
    BY <1>4, <2>1, <2>2
<1>8. u \in TreapOver(P) /\ u.value = t.value /\ u.root \in P /\ (u.root = c \/ u.root = target)
      /\ u.free = t.free
      /\ \A p \in P \ E : u.left[p] = t.left[p] /\ u.right[p] = t.right[p]
  BY DEF Inserted
<1>9. u.root \in E
  BY <1>2, <1>6, <1>8
<1> QED
  BY <1>1, <1>2, <1>3, <1>4, <1>5, <1>6, <1>7, <1>8, <1>9 DEF Parted

(* What makes a treap, for one position.                                     *)
TreeAt(t, E, below, p) ==
  /\ t.value[p] \in Int
  /\ t.left[p] \in E \cup {Nowhere} /\ t.right[p] \in E \cup {Nowhere}
  /\ below[p] = {p} \cup below[t.left[p]] \cup below[t.right[p]]
  /\ \A q \in below[t.left[p]] : t.value[q] < t.value[p]
  /\ \A q \in below[t.right[p]] : t.value[p] < t.value[q]
  /\ \A q \in below[p] : ~Outranks(q, p)

LEMMA TreeAtEach ==
  ASSUME NEW t, NEW E, NEW below
  PROVE  IsTreap(t, E, below) <=>
           /\ below \in [E \cup {Nowhere} -> SUBSET E] /\ below[Nowhere] = {}
           /\ \A p \in E : TreeAt(t, E, below, p)
  BY DEF IsTreap, Subtrees, Heap, TreeAt

(* after gives the trees of w when top is the new root of what was below r;  *)
(* X is left below r if that is another position.  All other positions still *)
(* have their trees.                                                         *)
Regrown(w, below, old, target, r, c, o, top, X, after) ==
  LET E == below[c] \cup {target}
      Er == below[r] \cup {target}
  IN /\ after \in [Er \cup {Nowhere} -> SUBSET Er]
     /\ after[Nowhere] = {} /\ after[top] = Er /\ (r # top => after[r] = X)
     /\ \A p \in (E \cup {Nowhere}) \ {top} : after[p] = old[p]
     /\ \A p \in below[o] \cup {Nowhere} : after[p] = below[p]
     /\ \A p \in Er \ {r, top} : TreeAt(w, Er, after, p)

(* w is u with other links at r and at top only, one of them the old top.    *)
Rewired(P, r, top, u, w) ==
  /\ top = r \/ top = u.root
  /\ w.value = u.value
  /\ \A p \in P \ {r, top} : w.left[p] = u.left[p] /\ w.right[p] = u.right[p]

LEMMA Grafted ==
  ASSUME NEW t, NEW P, NEW below, NEW target, NEW r, NEW c, NEW o, NEW u, NEW old,
         Parted(t, P, below, target, r, c, o, u, old), IsTreap(t, P, below),
         NEW top, NEW w, Rewired(P, r, top, u, w),
         NEW X, X \subseteq below[r] \cup {target}
  PROVE  \E after : Regrown(w, below, old, target, r, c, o, top, X, after)
<1> DEFINE E == below[c] \cup {target}
           Er == below[r] \cup {target}
           after == [p \in Er \cup {Nowhere} |->
                       IF p = top THEN Er ELSE IF p = r THEN X
                       ELSE IF p \in E THEN old[p] ELSE below[p]]
<1>1. Er = {r} \cup E \cup below[o] /\ Er \subseteq P /\ r \notin E /\ r \notin below[o]
      /\ E \cap below[o] = {} /\ below[Nowhere] = {} /\ Nowhere \notin P /\ r \in P
  BY DEF Parted
<1>2. old \in [E \cup {Nowhere} -> SUBSET E] /\ old[Nowhere] = {}
  BY DEF Parted, Subtrees
<1>3. \A p \in below[o] :
        /\ below[p] \subseteq below[o]
        /\ t.left[p] \in below[o] \cup {Nowhere} /\ t.right[p] \in below[o] \cup {Nowhere}
  BY DEF Parted
<1>4. top \in E \cup {r} /\ u.value = t.value /\ w.value = t.value /\ (top = r \/ top = u.root)
  BY DEF Parted, Rewired
<1>5. Er \cup {Nowhere} = DOMAIN after
  OBVIOUS
<1>6. after[top] = Er /\ (r # top => after[r] = X)
  BY <1>1, <1>4
<1>7. ASSUME NEW p \in (E \cup {Nowhere}) \ {top} PROVE after[p] = old[p]
  <2>1. Nowhere \notin E /\ Nowhere # r /\ Nowhere # top
    BY <1>1, <1>4
  <2> QED
    BY <1>1, <1>2, <2>1
<1>8. ASSUME NEW p \in below[o] \cup {Nowhere} PROVE after[p] = below[p]
  <2>1. p \notin E /\ p # r /\ p # top
    BY <1>1, <1>4
  <2> QED
    BY <1>1, <2>1
<1>9. after \in [Er \cup {Nowhere} -> SUBSET Er]
  <2>1. ASSUME NEW p \in Er \cup {Nowhere} PROVE after[p] \in SUBSET Er
    <3>1. CASE p \in {r, top}
      BY <1>6, <3>1
    <3>2. CASE p \in E \ {top}
      BY <1>1, <1>2, <1>7, <3>2
    <3>3. CASE p \in below[o] \cup {Nowhere}
      BY <1>1, <1>3, <1>8, <3>3
    <3> QED
      BY <1>1, <3>1, <3>2, <3>3
  <2> QED
    BY <2>1
<1> HIDE DEF after
<1>10. after[Nowhere] = {}
  BY <1>1, <1>8
<1>11. ASSUME NEW p \in E \ {top}
       PROVE  TreeAt(w, Er, after, p)
  <2>1. p \in P /\ w.left[p] = u.left[p] /\ w.right[p] = u.right[p]
    BY <1>1 DEF Rewired
  <2>2. TreeAt(u, E, old, p)
    BY TreeAtEach DEF Parted, IsTreap
  <2>3. u.left[p] # top /\ u.right[p] # top
    <3>1. CASE top = r
      BY <1>1, <2>2, <3>1 DEF TreeAt
    <3>2. CASE top = u.root
      <4>1. Subtrees(u, E, old) /\ old[u.root] = E /\ p \in E
        BY DEF Parted
      <4> HIDE DEF E
      <4> QED
        BY <3>2, <4>1, TopIsNoChild
    <3> QED
      BY <1>4, <3>1, <3>2
  <2>4. after[p] = old[p] /\ after[w.left[p]] = old[u.left[p]] /\ after[w.right[p]] = old[u.right[p]]
    BY <1>7, <2>1, <2>2, <2>3 DEF TreeAt
  <2> QED
    BY <1>1, <1>4, <2>1, <2>2, <2>4 DEF TreeAt
<1>12. ASSUME NEW p \in below[o]
       PROVE  TreeAt(w, Er, after, p)
  <2>1. p \in P /\ p \notin {r, top} /\ p \in P \ E
    BY <1>1, <1>4
  <2>2. w.left[p] = t.left[p] /\ w.right[p] = t.right[p]
    BY <2>1 DEF Parted, Rewired
  <2>3. TreeAt(t, P, below, p)
    BY <2>1, TreeAtEach
  <2>4. after[p] = below[p] /\ after[w.left[p]] = below[t.left[p]] /\ after[w.right[p]] = below[t.right[p]]
    BY <1>3, <1>8, <2>2
  <2> QED
    BY <1>1, <1>3, <1>4, <2>2, <2>3, <2>4 DEF TreeAt
<1>13. \A p \in Er \ {r, top} : TreeAt(w, Er, after, p)
  BY <1>1, <1>11, <1>12
<1> QED
  BY <1>6, <1>7, <1>8, <1>9, <1>10, <1>13 DEF Regrown


(* target went to the left, and the new top there does not outrank r.         *)
LEMMA AttachLeft ==
  ASSUME NEW t, NEW P, NEW below, NEW target, NEW r, NEW u, NEW w,
         Descent(t, P, below, target, r), t.value[target] < t.value[r],
         Inserted(t, P, below, target, t.left[r], u), ~Outranks(u.root, r),
         w \in TreapOver(P), w.value = u.value, w.free = u.free, w.root = r,
         w.left = [u.left EXCEPT ![r] = u.root], w.right = u.right
  PROVE  Inserted(t, P, below, target, r, w)
<1> DEFINE c == t.left[r]
           o == t.right[r]
           E == below[c] \cup {target}
           Er == below[r] \cup {target}
<1>1. PICK old : Parted(t, P, below, target, r, c, o, u, old)
  <2>1. Children(t, r, c, o)
    BY DEF Children
  <2> HIDE DEF c, o
  <2>2. Inserted(t, P, below, target, c, u)
    BY DEF c
  <2> QED
    BY <2>1, <2>2, Parting
<1>2. IsTreap(t, P, below) /\ r \in P /\ target \notin below[r] /\ P \subseteq Int
  BY DEF Descent
<1>3. /\ Er = {r} \cup E \cup below[o] /\ Er \subseteq P /\ r \notin E /\ Nowhere \notin P
      /\ o \in below[o] \cup {Nowhere} /\ c \in below[c] \cup {Nowhere}
      /\ u.value = t.value /\ u.free = t.free /\ u.root \in E /\ (u.root = c \/ u.root = target)
      /\ old[u.root] = E /\ \A p \in P \ E : u.left[p] = t.left[p] /\ u.right[p] = t.right[p]
  BY <1>1 DEF Parted
<1>4. u \in TreapOver(P) /\ DOMAIN u.left = P
  BY <1>1 DEF Parted, TreapOver
<1>5. /\ w.left[r] = u.root /\ w.right[r] = o
      /\ \A p \in P \ {r} : w.left[p] = u.left[p] /\ w.right[p] = u.right[p]
  BY <1>2, <1>3, <1>4
<1>6. PICK after : Regrown(w, below, old, target, r, c, o, r, {}, after)
  <2>1. Rewired(P, r, r, u, w)
    BY <1>5 DEF Rewired
  <2>2. {} \subseteq below[r] \cup {target}
    OBVIOUS
  <2> HIDE DEF c, o
  <2> QED
    BY <1>1, <1>2, <2>1, <2>2, Grafted
<1>7. /\ after \in [Er \cup {Nowhere} -> SUBSET Er]
      /\ after[Nowhere] = {} /\ after[r] = Er
      /\ \A p \in (E \cup {Nowhere}) \ {r} : after[p] = old[p]
      /\ \A p \in below[o] \cup {Nowhere} : after[p] = below[p]
      /\ \A p \in Er \ {r} : TreeAt(w, Er, after, p)
  BY <1>6 DEF Regrown
<1>8. ~Outranks(target, r)
  <2>1. CASE u.root = target
    BY <2>1
  <2>2. CASE u.root = c
    <3>1. ~Outranks(target, c)
      BY <1>1, <1>3, <2>2 DEF Parted, Heap
    <3>2. target \in Int /\ c \in Int /\ r \in Int
      BY <1>2, <1>3, <2>2
    <3> QED
      BY <2>2, <3>1, <3>2, RankOrder
  <2> QED
    BY <1>3, <2>1, <2>2
<1>9. TreeAt(w, Er, after, r)
  <2>1. after[w.left[r]] = E /\ after[w.right[r]] = below[o]
    BY <1>3, <1>5, <1>7
  <2>2. TreeAt(t, P, below, r)
    BY <1>2, TreeAtEach
  <2>3. (\A q \in E : t.value[q] < t.value[r]) /\ \A q \in below[r] : ~Outranks(q, r)
    BY <2>2 DEF TreeAt
  <2> HIDE DEF c, o, E
  <2>4. \A q \in Er : ~Outranks(q, r)
    BY <1>8, <2>3
  <2> HIDE DEF Er
  <2> QED
    BY <1>3, <1>5, <1>7, <2>1, <2>2, <2>3, <2>4 DEF TreeAt
<1>10. IsTreap(w, Er, after)
  <2>2. \A p \in Er : TreeAt(w, Er, after, p)
    BY <1>9, <1>7
  <2> HIDE DEF Er
  <2> QED
    BY <1>7, <2>2, TreeAtEach
<1>11. \A p \in P \ Er : w.left[p] = t.left[p] /\ w.right[p] = t.right[p]
  BY <1>3, <1>5
<1> QED
  BY <1>2, <1>3, <1>10, <1>11, <1>7 DEF Inserted

(* target went to the right, and the new top there does not outrank r.        *)
LEMMA AttachRight ==
  ASSUME NEW t, NEW P, NEW below, NEW target, NEW r, NEW u, NEW w,
         Descent(t, P, below, target, r), t.value[r] < t.value[target],
         Inserted(t, P, below, target, t.right[r], u), ~Outranks(u.root, r),
         w \in TreapOver(P), w.value = u.value, w.free = u.free, w.root = r,
         w.right = [u.right EXCEPT ![r] = u.root], w.left = u.left
  PROVE  Inserted(t, P, below, target, r, w)
<1> DEFINE c == t.right[r]
           o == t.left[r]
           E == below[c] \cup {target}
           Er == below[r] \cup {target}
<1>1. PICK old : Parted(t, P, below, target, r, c, o, u, old)
  <2>1. Children(t, r, c, o)
    BY DEF Children
  <2> HIDE DEF c, o
  <2>2. Inserted(t, P, below, target, c, u)
    BY DEF c
  <2> QED
    BY <2>1, <2>2, Parting
<1>2. IsTreap(t, P, below) /\ r \in P /\ target \notin below[r] /\ P \subseteq Int
  BY DEF Descent
<1>3. /\ Er = {r} \cup E \cup below[o] /\ Er \subseteq P /\ r \notin E /\ Nowhere \notin P
      /\ o \in below[o] \cup {Nowhere} /\ c \in below[c] \cup {Nowhere}
      /\ u.value = t.value /\ u.free = t.free /\ u.root \in E /\ (u.root = c \/ u.root = target)
      /\ old[u.root] = E /\ \A p \in P \ E : u.left[p] = t.left[p] /\ u.right[p] = t.right[p]
  BY <1>1 DEF Parted
<1>4. u \in TreapOver(P) /\ DOMAIN u.right = P
  BY <1>1 DEF Parted, TreapOver
<1>5. /\ w.right[r] = u.root /\ w.left[r] = o
      /\ \A p \in P \ {r} : w.left[p] = u.left[p] /\ w.right[p] = u.right[p]
  BY <1>2, <1>3, <1>4
<1>6. PICK after : Regrown(w, below, old, target, r, c, o, r, {}, after)
  <2>1. Rewired(P, r, r, u, w)
    BY <1>5 DEF Rewired
  <2>2. {} \subseteq below[r] \cup {target}
    OBVIOUS
  <2> HIDE DEF c, o
  <2> QED
    BY <1>1, <1>2, <2>1, <2>2, Grafted
<1>7. /\ after \in [Er \cup {Nowhere} -> SUBSET Er]
      /\ after[Nowhere] = {} /\ after[r] = Er
      /\ \A p \in (E \cup {Nowhere}) \ {r} : after[p] = old[p]
      /\ \A p \in below[o] \cup {Nowhere} : after[p] = below[p]
      /\ \A p \in Er \ {r} : TreeAt(w, Er, after, p)
  BY <1>6 DEF Regrown
<1>8. ~Outranks(target, r)
  <2>1. CASE u.root = target
    BY <2>1
  <2>2. CASE u.root = c
    <3>1. ~Outranks(target, c)
      BY <1>1, <1>3, <2>2 DEF Parted, Heap
    <3>2. target \in Int /\ c \in Int /\ r \in Int
      BY <1>2, <1>3, <2>2
    <3> QED
      BY <2>2, <3>1, <3>2, RankOrder
  <2> QED
    BY <1>3, <2>1, <2>2
<1>9. TreeAt(w, Er, after, r)
  <2>1. after[w.right[r]] = E /\ after[w.left[r]] = below[o]
    BY <1>3, <1>5, <1>7
  <2>2. TreeAt(t, P, below, r)
    BY <1>2, TreeAtEach
  <2>3. (\A q \in E : t.value[r] < t.value[q]) /\ \A q \in below[r] : ~Outranks(q, r)
    BY <2>2 DEF TreeAt
  <2> HIDE DEF c, o, E
  <2>4. \A q \in Er : ~Outranks(q, r)
    BY <1>8, <2>3
  <2> HIDE DEF Er
  <2> QED
    BY <1>3, <1>5, <1>7, <2>1, <2>2, <2>3, <2>4 DEF TreeAt
<1>10. IsTreap(w, Er, after)
  <2>2. \A p \in Er : TreeAt(w, Er, after, p)
    BY <1>9, <1>7
  <2> HIDE DEF Er
  <2> QED
    BY <1>7, <2>2, TreeAtEach
<1>11. \A p \in P \ Er : w.left[p] = t.left[p] /\ w.right[p] = t.right[p]
  BY <1>3, <1>5
<1> QED
  BY <1>2, <1>3, <1>10, <1>11, <1>7 DEF Inserted

(* target went to the left, and outranks r: a rotation to the right.              *)
LEMMA RotateRight ==
  ASSUME NEW t, NEW P, NEW below, NEW target, NEW r, NEW u, NEW w,
         Descent(t, P, below, target, r), t.value[target] < t.value[r],
         Inserted(t, P, below, target, t.left[r], u), Outranks(u.root, r),
         w \in TreapOver(P), w.value = u.value, w.free = u.free, w.root = u.root,
         w.left = [u.left EXCEPT ![r] = u.right[u.root]], w.right = [u.right EXCEPT ![u.root] = r]
  PROVE  Inserted(t, P, below, target, r, w)
<1> DEFINE c == t.left[r]
           o == t.right[r]
           x == u.root
           m == u.right[x]
           E == below[c] \cup {target}
           Er == below[r] \cup {target}
<1>1. PICK old : Parted(t, P, below, target, r, c, o, u, old)
  <2>1. Children(t, r, c, o)
    BY DEF Children
  <2> HIDE DEF c, o
  <2>2. Inserted(t, P, below, target, c, u)
    BY DEF c
  <2> QED
    BY <2>1, <2>2, Parting
<1>2. IsTreap(t, P, below) /\ r \in P /\ target \notin below[r] /\ P \subseteq Int
  BY DEF Descent
<1>3. /\ Er = {r} \cup E \cup below[o] /\ Er \subseteq P /\ r \notin E /\ Nowhere \notin P
      /\ o \in below[o] \cup {Nowhere} /\ c \in below[c] \cup {Nowhere} /\ E \cap below[o] = {}
      /\ u.value = t.value /\ u.free = t.free /\ x \in E /\ (x = c \/ x = target)
      /\ old[x] = E /\ Subtrees(u, E, old) /\ Heap(E, old)
      /\ \A p \in P \ E : u.left[p] = t.left[p] /\ u.right[p] = t.right[p]
  BY <1>1 DEF Parted
<1>4. u \in TreapOver(P) /\ DOMAIN u.left = P /\ DOMAIN u.right = P
  BY <1>1 DEF Parted, TreapOver
<1>5. /\ TreeAt(t, P, below, r) /\ TreeAt(u, E, old, x)
      /\ x \notin old[u.left[x]] /\ x \notin old[u.right[x]]
      /\ old[u.left[x]] \subseteq E /\ old[u.right[x]] \subseteq E
  <2>1. IsTreap(u, E, old)
    BY <1>3 DEF IsTreap
  <2> HIDE DEF E, x
  <2>2. TreeAt(t, P, below, r)
    BY <1>2, TreeAtEach
  <2>3. TreeAt(u, E, old, x)
    BY <1>3, <2>1, TreeAtEach
  <2>4. /\ x \notin old[u.left[x]] /\ x \notin old[u.right[x]]
        /\ old[u.left[x]] \subseteq E /\ old[u.right[x]] \subseteq E
    BY <1>3, BelowIsSplit
  <2> QED
    BY <2>2, <2>3, <2>4
<1>6. u.left[x] # x /\ u.right[x] # x
  <2> HIDE DEF E, x
  <2> QED
    BY <1>3, TopIsNoChild
<1>7. /\ x = target /\ x # r
      /\ \A q \in E : t.value[q] < t.value[r] /\ (q # x => ~Outranks(q, r))
      /\ \A q \in below[o] : t.value[r] < t.value[q] /\ ~Outranks(q, r)
  <2> HIDE DEF E, x, c, o
  <2>1. /\ \A q \in below[c] : t.value[q] < t.value[r] /\ ~Outranks(q, r)
        /\ \A q \in below[o] : t.value[r] < t.value[q] /\ ~Outranks(q, r)
    BY <1>5 DEF TreeAt, c, o
  <2>2. x # c
    BY <1>3, <2>1 DEF x, E
  <2> QED
    BY <1>3, <2>1, <2>2 DEF E
<1>8. /\ w.left[r] = m /\ w.right[r] = o /\ w.left[x] = u.left[x] /\ w.right[x] = r
      /\ \A p \in P \ {r, x} : w.left[p] = u.left[p] /\ w.right[p] = u.right[p]
  <2> HIDE DEF E
  <2> QED
    BY <1>2, <1>3, <1>4, <1>7
<1> DEFINE X == {r} \cup old[m] \cup below[o]
<1>9. PICK after : Regrown(w, below, old, target, r, c, o, x, X, after)
  <2>1. Rewired(P, r, x, u, w)
    BY <1>8 DEF Rewired
  <2>2. X \subseteq below[r] \cup {target}
    <3> HIDE DEF E, c, o
    <3> QED
      BY <1>3, <1>5
  <2> HIDE DEF c, o, x, X
  <2> QED
    BY <1>1, <1>2, <2>1, <2>2, Grafted
<1>10. /\ after \in [Er \cup {Nowhere} -> SUBSET Er]
       /\ after[Nowhere] = {} /\ after[x] = Er /\ after[r] = X
       /\ \A p \in (E \cup {Nowhere}) \ {x} : after[p] = old[p]
       /\ \A p \in below[o] \cup {Nowhere} : after[p] = below[p]
       /\ \A p \in Er \ {r, x} : TreeAt(w, Er, after, p)
  BY <1>7, <1>9 DEF Regrown
<1>11. /\ m \in E \cup {Nowhere} /\ u.left[x] \in E \cup {Nowhere}
       /\ after[m] = old[m] /\ after[u.left[x]] = old[u.left[x]] /\ after[o] = below[o]
       /\ E = {x} \cup old[u.left[x]] \cup old[m]
       /\ t.value[x] \in Int /\ t.value[r] \in Int /\ (\A q \in E \cup below[o] : t.value[q] \in Int)
  <2>1. \A q \in P : t.value[q] \in Int
    BY <1>2, TreeAtEach DEF TreeAt
  <2>2. m \in E \cup {Nowhere} /\ u.left[x] \in E \cup {Nowhere} /\ E = {x} \cup old[u.left[x]] \cup old[m]
    <3> HIDE DEF E
    <3> QED
      BY <1>3, <1>5 DEF TreeAt
  <2> HIDE DEF E, Er, X, o, x
  <2> QED
    BY <1>2, <1>3, <1>6, <1>10, <2>1, <2>2
<1>12. TreeAt(w, Er, after, r)
  <2> HIDE DEF E, Er, c, o, x, m
  <2>1. \A q \in old[m] : q \in E /\ q # x
    BY <1>5 DEF m
  <2>2. ~Outranks(r, r)
    BY <1>2, RankOrder
  <2>3. /\ w.value = t.value
        /\ w.left[r] \in Er \cup {Nowhere} /\ w.right[r] \in Er \cup {Nowhere}
    BY <1>3, <1>8, <1>11
  <2>4. after[w.left[r]] = old[m] /\ after[w.right[r]] = below[o] /\ after[r] = X
    BY <1>8, <1>10, <1>11
  <2> QED
    BY <1>7, <1>11, <2>1, <2>2, <2>3, <2>4 DEF TreeAt
<1>13. TreeAt(w, Er, after, x)
  <2> HIDE DEF E, Er, c, o, m
  <2>1. ~Outranks(r, x) /\ \A q \in below[o] : ~Outranks(q, x)
    <3>1. r \in Int /\ x \in Int /\ below[o] \subseteq Int
      BY <1>2, <1>3
    <3>2. ~Outranks(r, x)
      BY <3>1, RankOrder
    <3> QED
      BY <1>7, <3>1, <3>2, RankOrder
  <2>2. \A q \in below[o] : t.value[x] < t.value[q]
    BY <1>3, <1>7, <1>11
  <2>3. /\ w.value = t.value /\ after[x] = Er
        /\ w.left[x] \in Er \cup {Nowhere} /\ w.right[x] \in Er \cup {Nowhere}
    BY <1>3, <1>8, <1>10, <1>11
  <2>4. after[w.left[x]] = old[u.left[x]] /\ after[w.right[x]] = X
    BY <1>8, <1>10, <1>11
  <2>5. /\ \A q \in old[u.left[x]] : t.value[q] < t.value[x]
        /\ \A q \in old[m] : t.value[x] < t.value[q]
        /\ \A q \in E : ~Outranks(q, x)
    BY <1>3, <1>5 DEF TreeAt, m
  <2> HIDE DEF x
  <2> QED
    BY <1>3, <1>7, <1>11, <2>1, <2>2, <2>3, <2>4, <2>5 DEF TreeAt
<1>14. IsTreap(w, Er, after)
  <2>1. \A p \in Er : TreeAt(w, Er, after, p)
    BY <1>10, <1>12, <1>13
  <2> HIDE DEF Er, X, x, E, o
  <2> QED
    BY <1>10, <2>1, TreeAtEach
<1>15. \A p \in P \ Er : w.left[p] = t.left[p] /\ w.right[p] = t.right[p]
  <2> HIDE DEF Er, E
  <2> QED
    BY <1>3, <1>8
<1> QED
  BY <1>2, <1>3, <1>7, <1>10, <1>14, <1>15 DEF Inserted

(* target went to the right, and outranks r: a rotation to the left.              *)
LEMMA RotateLeft ==
  ASSUME NEW t, NEW P, NEW below, NEW target, NEW r, NEW u, NEW w,
         Descent(t, P, below, target, r), t.value[r] < t.value[target],
         Inserted(t, P, below, target, t.right[r], u), Outranks(u.root, r),
         w \in TreapOver(P), w.value = u.value, w.free = u.free, w.root = u.root,
         w.right = [u.right EXCEPT ![r] = u.left[u.root]], w.left = [u.left EXCEPT ![u.root] = r]
  PROVE  Inserted(t, P, below, target, r, w)
<1> DEFINE c == t.right[r]
           o == t.left[r]
           x == u.root
           m == u.left[x]
           E == below[c] \cup {target}
           Er == below[r] \cup {target}
<1>1. PICK old : Parted(t, P, below, target, r, c, o, u, old)
  <2>1. Children(t, r, c, o)
    BY DEF Children
  <2> HIDE DEF c, o
  <2>2. Inserted(t, P, below, target, c, u)
    BY DEF c
  <2> QED
    BY <2>1, <2>2, Parting
<1>2. IsTreap(t, P, below) /\ r \in P /\ target \notin below[r] /\ P \subseteq Int
  BY DEF Descent
<1>3. /\ Er = {r} \cup E \cup below[o] /\ Er \subseteq P /\ r \notin E /\ Nowhere \notin P
      /\ o \in below[o] \cup {Nowhere} /\ c \in below[c] \cup {Nowhere} /\ E \cap below[o] = {}
      /\ u.value = t.value /\ u.free = t.free /\ x \in E /\ (x = c \/ x = target)
      /\ old[x] = E /\ Subtrees(u, E, old) /\ Heap(E, old)
      /\ \A p \in P \ E : u.left[p] = t.left[p] /\ u.right[p] = t.right[p]
  BY <1>1 DEF Parted
<1>4. u \in TreapOver(P) /\ DOMAIN u.left = P /\ DOMAIN u.right = P
  BY <1>1 DEF Parted, TreapOver
<1>5. /\ TreeAt(t, P, below, r) /\ TreeAt(u, E, old, x)
      /\ x \notin old[u.left[x]] /\ x \notin old[u.right[x]]
      /\ old[u.left[x]] \subseteq E /\ old[u.right[x]] \subseteq E
  <2>1. IsTreap(u, E, old)
    BY <1>3 DEF IsTreap
  <2> HIDE DEF E, x
  <2>2. TreeAt(t, P, below, r)
    BY <1>2, TreeAtEach
  <2>3. TreeAt(u, E, old, x)
    BY <1>3, <2>1, TreeAtEach
  <2>4. /\ x \notin old[u.left[x]] /\ x \notin old[u.right[x]]
        /\ old[u.left[x]] \subseteq E /\ old[u.right[x]] \subseteq E
    BY <1>3, BelowIsSplit
  <2> QED
    BY <2>2, <2>3, <2>4
<1>6. u.left[x] # x /\ u.right[x] # x
  <2> HIDE DEF E, x
  <2> QED
    BY <1>3, TopIsNoChild
<1>7. /\ x = target /\ x # r
      /\ \A q \in E : t.value[r] < t.value[q] /\ (q # x => ~Outranks(q, r))
      /\ \A q \in below[o] : t.value[q] < t.value[r] /\ ~Outranks(q, r)
  <2> HIDE DEF E, x, c, o
  <2>1. /\ \A q \in below[c] : t.value[r] < t.value[q] /\ ~Outranks(q, r)
        /\ \A q \in below[o] : t.value[q] < t.value[r] /\ ~Outranks(q, r)
    BY <1>5 DEF TreeAt, c, o
  <2>2. x # c
    BY <1>3, <2>1 DEF x, E
  <2> QED
    BY <1>3, <2>1, <2>2 DEF E
<1>8. /\ w.right[r] = m /\ w.left[r] = o /\ w.right[x] = u.right[x] /\ w.left[x] = r
      /\ \A p \in P \ {r, x} : w.left[p] = u.left[p] /\ w.right[p] = u.right[p]
  <2> HIDE DEF E
  <2> QED
    BY <1>2, <1>3, <1>4, <1>7
<1> DEFINE X == {r} \cup old[m] \cup below[o]
<1>9. PICK after : Regrown(w, below, old, target, r, c, o, x, X, after)
  <2>1. Rewired(P, r, x, u, w)
    BY <1>8 DEF Rewired
  <2>2. X \subseteq below[r] \cup {target}
    <3> HIDE DEF E, c, o
    <3> QED
      BY <1>3, <1>5
  <2> HIDE DEF c, o, x, X
  <2> QED
    BY <1>1, <1>2, <2>1, <2>2, Grafted
<1>10. /\ after \in [Er \cup {Nowhere} -> SUBSET Er]
       /\ after[Nowhere] = {} /\ after[x] = Er /\ after[r] = X
       /\ \A p \in (E \cup {Nowhere}) \ {x} : after[p] = old[p]
       /\ \A p \in below[o] \cup {Nowhere} : after[p] = below[p]
       /\ \A p \in Er \ {r, x} : TreeAt(w, Er, after, p)
  BY <1>7, <1>9 DEF Regrown
<1>11. /\ m \in E \cup {Nowhere} /\ u.right[x] \in E \cup {Nowhere}
       /\ after[m] = old[m] /\ after[u.right[x]] = old[u.right[x]] /\ after[o] = below[o]
       /\ E = {x} \cup old[u.right[x]] \cup old[m]
       /\ t.value[x] \in Int /\ t.value[r] \in Int /\ (\A q \in E \cup below[o] : t.value[q] \in Int)
  <2>1. \A q \in P : t.value[q] \in Int
    BY <1>2, TreeAtEach DEF TreeAt
  <2>2. m \in E \cup {Nowhere} /\ u.right[x] \in E \cup {Nowhere} /\ E = {x} \cup old[u.right[x]] \cup old[m]
    <3> HIDE DEF E
    <3> QED
      BY <1>3, <1>5 DEF TreeAt
  <2> HIDE DEF E, Er, X, o, x
  <2> QED
    BY <1>2, <1>3, <1>6, <1>10, <2>1, <2>2
<1>12. TreeAt(w, Er, after, r)
  <2> HIDE DEF E, Er, c, o, x, m
  <2>1. \A q \in old[m] : q \in E /\ q # x
    BY <1>5 DEF m
  <2>2. ~Outranks(r, r)
    BY <1>2, RankOrder
  <2>3. /\ w.value = t.value
        /\ w.left[r] \in Er \cup {Nowhere} /\ w.right[r] \in Er \cup {Nowhere}
    BY <1>3, <1>8, <1>11
  <2>4. after[w.right[r]] = old[m] /\ after[w.left[r]] = below[o] /\ after[r] = X
    BY <1>8, <1>10, <1>11
  <2> QED
    BY <1>7, <1>11, <2>1, <2>2, <2>3, <2>4 DEF TreeAt
<1>13. TreeAt(w, Er, after, x)
  <2> HIDE DEF E, Er, c, o, m
  <2>1. ~Outranks(r, x) /\ \A q \in below[o] : ~Outranks(q, x)
    <3>1. r \in Int /\ x \in Int /\ below[o] \subseteq Int
      BY <1>2, <1>3
    <3>2. ~Outranks(r, x)
      BY <3>1, RankOrder
    <3> QED
      BY <1>7, <3>1, <3>2, RankOrder
  <2>2. \A q \in below[o] : t.value[q] < t.value[x]
    BY <1>3, <1>7, <1>11
  <2>3. /\ w.value = t.value /\ after[x] = Er
        /\ w.left[x] \in Er \cup {Nowhere} /\ w.right[x] \in Er \cup {Nowhere}
    BY <1>3, <1>8, <1>10, <1>11
  <2>4. after[w.right[x]] = old[u.right[x]] /\ after[w.left[x]] = X
    BY <1>8, <1>10, <1>11
  <2>5. /\ \A q \in old[u.right[x]] : t.value[x] < t.value[q]
        /\ \A q \in old[m] : t.value[q] < t.value[x]
        /\ \A q \in E : ~Outranks(q, x)
    BY <1>3, <1>5 DEF TreeAt, m
  <2> HIDE DEF x
  <2> QED
    BY <1>3, <1>7, <1>11, <2>1, <2>2, <2>3, <2>4, <2>5 DEF TreeAt
<1>14. IsTreap(w, Er, after)
  <2>1. \A p \in Er : TreeAt(w, Er, after, p)
    BY <1>10, <1>12, <1>13
  <2> HIDE DEF Er, X, x, E, o
  <2> QED
    BY <1>10, <2>1, TreeAtEach
<1>15. \A p \in P \ Er : w.left[p] = t.left[p] /\ w.right[p] = t.right[p]
  <2> HIDE DEF Er, E
  <2> QED
    BY <1>3, <1>8
<1> QED
  BY <1>2, <1>3, <1>7, <1>10, <1>14, <1>15 DEF Inserted

(* w has the elements of u, in some tree of the same positions.               *)
SameKeys(P, u, w) == w \in TreapOver(P) /\ w.value = u.value /\ w.free = u.free

(* The links of r, and of the top u.root below it, when target is to the left. *)
AttachedLeft(u, r, w) ==
  w.root = r /\ w.left = [u.left EXCEPT ![r] = u.root] /\ w.right = u.right

RotatedLeft(u, r, w) ==
  /\ w.root = u.root
  /\ w.left = [u.left EXCEPT ![r] = u.right[u.root]]
  /\ w.right = [u.right EXCEPT ![u.root] = r]

LEMMA InsertedLeftEffect ==
  ASSUME NEW P, Nowhere \notin P, NEW u, u \in TreapOver(P), NEW r \in P,
         Outranks(u.root, r) => u.root \in P
  PROVE  /\ SameKeys(P, u, insertedLeft(u, r))
         /\ ~Outranks(u.root, r) => AttachedLeft(u, r, insertedLeft(u, r))
         /\ Outranks(u.root, r) /\ u.root # r => RotatedLeft(u, r, insertedLeft(u, r))
<1> DEFINE v == [u EXCEPT !.left[r] = u.root, !.root = r]
           w == insertedLeft(u, r)
<1>1. /\ u.value \in [P -> Int] /\ u.left \in [P -> P \cup {Nowhere}]
      /\ u.right \in [P -> P \cup {Nowhere}] /\ u.root \in P \cup {Nowhere} /\ u.free \in Nat
  BY DEF TreapOver
<1>2. u = [value |-> u.value, left |-> u.left, right |-> u.right, root |-> u.root, free |-> u.free]
  BY DEF TreapOver
<1>3. /\ v \in TreapOver(P) /\ v.left = [u.left EXCEPT ![r] = u.root] /\ v.right = u.right
      /\ v.value = u.value /\ v.free = u.free /\ v.root = r
  BY <1>1, <1>2 DEF TreapOver
<1>4. CASE ~Outranks(u.root, r)
  <2>1. w = v
    BY <1>4 DEF insertedLeft
  <2> HIDE DEF v, w
  <2> QED
    BY <1>3, <1>4, <2>1 DEF w, SameKeys, AttachedLeft
<1>5. CASE Outranks(u.root, r)
  <2>1. u.root \in P
    BY <1>5
  <2>2. w = rightRotate(v, r)
    BY <1>5 DEF insertedLeft
  <2> DEFINE f == [v.left EXCEPT ![r] = v.right[u.root]]
             g == [v.right EXCEPT ![u.root] = r]
  <2> HIDE DEF v, w
  <2>3. v.left[r] = u.root
    BY <1>1, <1>3
  <2>4. w = [[[v EXCEPT !.left = f] EXCEPT !.right = g] EXCEPT !.root = u.root]
    BY <2>2, <2>3 DEF rightRotate
  <2>5. v = [value |-> v.value, left |-> v.left, right |-> v.right, root |-> v.root, free |-> v.free]
    BY <1>3 DEF TreapOver
  <2>6. w = [value |-> v.value, left |-> f, right |-> g, root |-> u.root, free |-> v.free]
    <3> HIDE DEF f, g
    <3> QED
      BY <2>4, <2>5
  <2>7. /\ w.value = v.value /\ w.free = v.free /\ w.root = u.root /\ w.left = f /\ w.right = g
        /\ w = [value |-> w.value, left |-> w.left, right |-> w.right, root |-> w.root, free |-> w.free]
    <3> HIDE DEF f, g
    <3> QED
      BY <2>6
  <2>8. RotatedLeft(u, r, w) /\ w.value = u.value /\ w.free = u.free
    BY <1>1, <1>3, <2>7 DEF RotatedLeft
  <2>9. w.left \in [P -> P \cup {Nowhere}] /\ w.right \in [P -> P \cup {Nowhere}]
    BY <1>1, <2>1, <2>8 DEF RotatedLeft
  <2>10. SameKeys(P, u, w)
    BY <1>1, <2>1, <2>7, <2>8, <2>9 DEF TreapOver, SameKeys
  <2> QED
    BY <1>5, <2>8, <2>10 DEF w
<1> QED
  BY <1>4, <1>5

(* Below r, insertedLeft and insertedRight keep a treap a treap: left. *)
LEMMA InsertedLeftCorrect ==
  ASSUME NEW t, NEW P, NEW below, NEW target, NEW r, NEW u,
         Descent(t, P, below, target, r), t.value[target] < t.value[r],
         Inserted(t, P, below, target, t.left[r], u)
  PROVE  Inserted(t, P, below, target, r, insertedLeft(u, r))
<1>1. u \in TreapOver(P) /\ u.root \in P /\ r \in P /\ r \in Int /\ Nowhere \notin P
  BY DEF Inserted, Descent
<1> DEFINE w == insertedLeft(u, r)
<1>2. CASE ~Outranks(u.root, r)
  <2>1. SameKeys(P, u, w) /\ AttachedLeft(u, r, w)
    BY <1>1, <1>2, InsertedLeftEffect
  <2> HIDE DEF w
  <2>2. Inserted(t, P, below, target, r, w)
    BY <1>2, <2>1, AttachLeft DEF SameKeys, AttachedLeft
  <2> QED
    BY <2>2 DEF w
<1>3. CASE Outranks(u.root, r)
  <2>1. u.root # r
    BY <1>1, <1>3, RankOrder
  <2>2. SameKeys(P, u, w) /\ RotatedLeft(u, r, w)
    BY <1>1, <1>3, <2>1, InsertedLeftEffect
  <2> HIDE DEF w
  <2>3. Inserted(t, P, below, target, r, w)
    BY <1>3, <2>2, RotateRight DEF SameKeys, RotatedLeft
  <2> QED
    BY <2>3 DEF w
<1> QED
  BY <1>2, <1>3

(* The links of r, and of the top u.root below it, when target is to the right. *)
AttachedRight(u, r, w) ==
  w.root = r /\ w.right = [u.right EXCEPT ![r] = u.root] /\ w.left = u.left

RotatedRight(u, r, w) ==
  /\ w.root = u.root
  /\ w.right = [u.right EXCEPT ![r] = u.left[u.root]]
  /\ w.left = [u.left EXCEPT ![u.root] = r]

LEMMA InsertedRightEffect ==
  ASSUME NEW P, Nowhere \notin P, NEW u, u \in TreapOver(P), NEW r \in P,
         Outranks(u.root, r) => u.root \in P
  PROVE  /\ SameKeys(P, u, insertedRight(u, r))
         /\ ~Outranks(u.root, r) => AttachedRight(u, r, insertedRight(u, r))
         /\ Outranks(u.root, r) /\ u.root # r => RotatedRight(u, r, insertedRight(u, r))
<1> DEFINE v == [u EXCEPT !.right[r] = u.root, !.root = r]
           w == insertedRight(u, r)
<1>1. /\ u.value \in [P -> Int] /\ u.left \in [P -> P \cup {Nowhere}]
      /\ u.right \in [P -> P \cup {Nowhere}] /\ u.root \in P \cup {Nowhere} /\ u.free \in Nat
  BY DEF TreapOver
<1>2. u = [value |-> u.value, left |-> u.left, right |-> u.right, root |-> u.root, free |-> u.free]
  BY DEF TreapOver
<1>3. /\ v \in TreapOver(P) /\ v.right = [u.right EXCEPT ![r] = u.root] /\ v.left = u.left
      /\ v.value = u.value /\ v.free = u.free /\ v.root = r
  BY <1>1, <1>2 DEF TreapOver
<1>4. CASE ~Outranks(u.root, r)
  <2>1. w = v
    BY <1>4 DEF insertedRight
  <2> HIDE DEF v, w
  <2> QED
    BY <1>3, <1>4, <2>1 DEF w, SameKeys, AttachedRight
<1>5. CASE Outranks(u.root, r)
  <2>1. u.root \in P
    BY <1>5
  <2>2. w = leftRotate(v, r)
    BY <1>5 DEF insertedRight
  <2> DEFINE f == [v.right EXCEPT ![r] = v.left[u.root]]
             g == [v.left EXCEPT ![u.root] = r]
  <2> HIDE DEF v, w
  <2>3. v.right[r] = u.root
    BY <1>1, <1>3
  <2>4. w = [[[v EXCEPT !.right = f] EXCEPT !.left = g] EXCEPT !.root = u.root]
    BY <2>2, <2>3 DEF leftRotate
  <2>5. v = [value |-> v.value, left |-> v.left, right |-> v.right, root |-> v.root, free |-> v.free]
    BY <1>3 DEF TreapOver
  <2>6. w = [value |-> v.value, right |-> f, left |-> g, root |-> u.root, free |-> v.free]
    <3> HIDE DEF f, g
    <3> QED
      BY <2>4, <2>5
  <2>7. /\ w.value = v.value /\ w.free = v.free /\ w.root = u.root /\ w.right = f /\ w.left = g
        /\ w = [value |-> w.value, left |-> w.left, right |-> w.right, root |-> w.root, free |-> w.free]
    <3> HIDE DEF f, g
    <3> QED
      BY <2>6
  <2>8. RotatedRight(u, r, w) /\ w.value = u.value /\ w.free = u.free
    BY <1>1, <1>3, <2>7 DEF RotatedRight
  <2>9. w.left \in [P -> P \cup {Nowhere}] /\ w.right \in [P -> P \cup {Nowhere}]
    BY <1>1, <2>1, <2>8 DEF RotatedRight
  <2>10. SameKeys(P, u, w)
    BY <1>1, <2>1, <2>7, <2>8, <2>9 DEF TreapOver, SameKeys
  <2> QED
    BY <1>5, <2>8, <2>10 DEF w
<1> QED
  BY <1>4, <1>5

(* Below r, insertedLeft and insertedRight keep a treap a treap: right. *)
LEMMA InsertedRightCorrect ==
  ASSUME NEW t, NEW P, NEW below, NEW target, NEW r, NEW u,
         Descent(t, P, below, target, r), t.value[r] < t.value[target],
         Inserted(t, P, below, target, t.right[r], u)
  PROVE  Inserted(t, P, below, target, r, insertedRight(u, r))
<1>1. u \in TreapOver(P) /\ u.root \in P /\ r \in P /\ r \in Int /\ Nowhere \notin P
  BY DEF Inserted, Descent
<1> DEFINE w == insertedRight(u, r)
<1>2. CASE ~Outranks(u.root, r)
  <2>1. SameKeys(P, u, w) /\ AttachedRight(u, r, w)
    BY <1>1, <1>2, InsertedRightEffect
  <2> HIDE DEF w
  <2>2. Inserted(t, P, below, target, r, w)
    BY <1>2, <2>1, AttachRight DEF SameKeys, AttachedRight
  <2> QED
    BY <2>2 DEF w
<1>3. CASE Outranks(u.root, r)
  <2>1. u.root # r
    BY <1>1, <1>3, RankOrder
  <2>2. SameKeys(P, u, w) /\ RotatedRight(u, r, w)
    BY <1>1, <1>3, <2>1, InsertedRightEffect
  <2> HIDE DEF w
  <2>3. Inserted(t, P, below, target, r, w)
    BY <1>3, <2>2, RotateLeft DEF SameKeys, RotatedRight
  <2> QED
    BY <2>3 DEF w
<1> QED
  BY <1>2, <1>3

-----------------------------------------------------------------------------
(* The function that insert recurs on.                                       *)
IsInto(t, target, f) ==
  f = [r \in {Nowhere} \cup DOMAIN t.value |->
         IF r = Nowhere THEN [t EXCEPT !.root = target]
         ELSE IF t.value[target] < t.value[r]
         THEN insertedLeft(f[t.left[r]], r)
         ELSE insertedRight(f[t.right[r]], r)]

LEMMA InsertRecurs ==
  ASSUME NEW t, NEW P, IsFiniteSet(P), P \subseteq Int, Nowhere \notin P, t \in TreapOver(P),
         NEW below, Subtrees(t, P, below), NEW target \in P
  PROVE  \E f : IsInto(t, target, f) /\ insert(t, target) = f[t.root]
<1> DEFINE into == CHOOSE f : IsInto(t, target, f)
           left(p) == t.value[target] < t.value[p]
           child == [p \in P |-> IF left(p) THEN t.left[p] ELSE t.right[p]]
           Values == TreapOver(P)
           base == [t EXCEPT !.root = target]
           step == [p \in P |-> [u \in Values |-> IF left(p) THEN insertedLeft(u, p)
                                                  ELSE insertedRight(u, p)]]
<1>1. Descends(t, P, child) /\ base \in Values /\ DOMAIN t.value = P
  BY DEF TreapOver, Descends
<1>2. step \in [P -> [Values -> Values]]
  <2>1. ASSUME NEW u \in Values, NEW p \in P
        PROVE  insertedLeft(u, p) \in Values /\ insertedRight(u, p) \in Values
    <3>1. Outranks(u.root, p) => u.root \in P
      BY NowhereIsLast DEF TreapOver
    <3> HIDE DEF Values
    <3>2. u \in TreapOver(P)
      BY DEF Values
    <3> QED
      BY <3>1, <3>2, InsertedLeftEffect, InsertedRightEffect DEF Values, SameKeys
  <2> HIDE DEF Values, left
  <2> QED
    BY <2>1
<1>3. PICK f : Recurs(P, child, Values, base, step, f)
  <2> HIDE DEF child, step, Values, base
  <2> QED BY <1>1, <1>2, RecursionOnSubtrees
<1>4. f \in [P \cup {Nowhere} -> Values] /\ f[Nowhere] = base /\ \A p \in P : f[p] = step[p][f[child[p]]]
  BY <1>3 DEF Recurs
<1>5. \A p \in P : f[p] = IF left(p) THEN insertedLeft(f[t.left[p]], p) ELSE insertedRight(f[t.right[p]], p)
  <2>1. \A p \in P : child[p] \in P \cup {Nowhere}
    BY DEF TreapOver
  <2> HIDE DEF Values, left
  <2> QED
    BY <1>4, <2>1
<1>6. IsInto(t, target, f)
  <2> HIDE DEF Values, child, step
  <2> QED
    BY <1>1, <1>4, <1>5 DEF IsInto
<1>7. IsInto(t, target, into)
  <2> HIDE DEF child, step, Values, base, left
  <2> QED BY <1>6, Zenon
<1>8. insert(t, target) = into[t.root]
  BY DEF insert, IsInto
<1> QED
  BY <1>7, <1>8

(* A tree without the target and its key becomes one with them.              *)
LEMMA InsertCorrect ==
  ASSUME NEW t, NEW P, IsFiniteSet(P), P \subseteq Int, Nowhere \notin P, t \in TreapOver(P),
         NEW below, IsTreap(t, P, below),
         NEW target \in P, t.left[target] = Nowhere, t.right[target] = Nowhere,
         target \notin below[t.root], \A q \in below[t.root] : t.value[q] # t.value[target]
  PROVE  Inserted(t, P, below, target, t.root, insert(t, target))
<1>1. PICK f : IsInto(t, target, f) /\ insert(t, target) = f[t.root]
  BY InsertRecurs DEF IsTreap
<1>2. Subtrees(t, P, below) /\ DOMAIN t.value = P
  BY DEF IsTreap, TreapOver
<1>3. f[Nowhere] = [t EXCEPT !.root = target]
  BY <1>1 DEF IsInto
<1>4. \A p \in P : f[p] = IF t.value[target] < t.value[p] THEN insertedLeft(f[t.left[p]], p)
                         ELSE insertedRight(f[t.right[p]], p)
  BY <1>1, <1>2 DEF IsInto
<1> DEFINE Fresh(r) == target \notin below[r] /\ \A q \in below[r] : t.value[q] # t.value[target]
           Good == { r \in P \cup {Nowhere} : Fresh(r) => Inserted(t, P, below, target, r, f[r]) }
<1>5. Nowhere \in Good
  <2> DEFINE u == f[Nowhere]
             E == below[Nowhere] \cup {target}
             after == [p \in E \cup {Nowhere} |-> IF p = target THEN {target} ELSE {}]
  <2>1. E = {target} /\ target # Nowhere
    BY <1>2 DEF Subtrees
  <2>2. /\ u \in TreapOver(P) /\ u.value = t.value /\ u.left = t.left /\ u.right = t.right
        /\ u.free = t.free /\ u.root = target
    BY <1>3 DEF TreapOver
  <2>3. after \in [E \cup {Nowhere} -> SUBSET E] /\ after[Nowhere] = {} /\ after[target] = {target}
    BY <2>1
  <2>4. t.value[target] \in Int /\ ~Outranks(target, target)
    BY RankOrder DEF TreapOver
  <2> HIDE DEF u, after
  <2>5. TreeAt(u, E, after, target)
    BY <2>1, <2>2, <2>3, <2>4 DEF TreeAt
  <2>6. IsTreap(u, E, after)
    <3>1. \A p \in E : TreeAt(u, E, after, p)
      BY <2>1, <2>5
    <3> HIDE DEF E
    <3> QED
      BY <2>3, <3>1, TreeAtEach
  <2>7. Inserted(t, P, below, target, Nowhere, u)
    BY <2>1, <2>2, <2>3, <2>6 DEF Inserted
  <2> QED
    BY <2>7 DEF u
<1>6. ASSUME NEW p \in P, t.left[p] \in Good, t.right[p] \in Good, Fresh(p)
      PROVE  Inserted(t, P, below, target, p, f[p])
  <2>1. Descent(t, P, below, target, p)
    BY <1>6 DEF Descent
  <2>2. Inserted(t, P, below, target, t.left[p], f[t.left[p]])
        /\ Inserted(t, P, below, target, t.right[p], f[t.right[p]])
    BY <1>2, <1>6 DEF Subtrees
  <2>3. t.value[p] # t.value[target] /\ t.value[p] \in Int /\ t.value[target] \in Int
    BY <1>2, <1>6 DEF Subtrees
  <2> HIDE DEF Good
  <2>4. CASE t.value[target] < t.value[p]
    BY <1>4, <2>1, <2>2, <2>4, InsertedLeftCorrect
  <2>5. CASE t.value[p] < t.value[target]
    <3>1. f[p] = insertedRight(f[t.right[p]], p)
      BY <1>4, <2>3, <2>5
    <3> QED
      BY <2>1, <2>2, <2>5, <3>1, InsertedRightCorrect
  <2> QED
    BY <2>3, <2>4, <2>5
<1>7. P \subseteq Good
  <2>1. \A p \in P : t.left[p] \in Good /\ t.right[p] \in Good => p \in Good
    BY <1>6
  <2> HIDE DEF Good
  <2>2. \A G : (\A p \in P : t.left[p] \in G /\ t.right[p] \in G => p \in G) /\ Nowhere \in G => P \subseteq G
    BY <1>2, SubtreeInduction
  <2> QED BY <1>5, <2>1, <2>2, Zenon
<1>8. t.root \in Good
  BY <1>5, <1>7 DEF TreapOver
<1> QED
  BY <1>1, <1>8

-----------------------------------------------------------------------------
(* The table of the interner. *)

(* t is one treap of all its positions, which are 0 .. t.free - 1.           *)
Sound(t) ==
  /\ t.free \in Nat
  /\ t \in TreapOver(0 .. t.free - 1)
  /\ \E below : /\ IsTreap(t, 0 .. t.free - 1, below)
                /\ below[t.root] = 0 .. t.free - 1

LEMMA LookupFindsInTable ==
  ASSUME Sound(treap), NEW key \in Int
  PROVE  \/ lookup(key) \in Positions /\ treap.value[lookup(key)] = key
         \/ lookup(key) = Nowhere /\ \A i \in Positions : treap.value[i] # key
<1>1. PICK below : IsTreap(treap, Positions, below) /\ below[treap.root] = Positions
  BY DEF Sound, Positions
<1>2. treap.free \in Int /\ treap \in TreapOver(Positions) /\ Nowhere \notin Positions
  BY DEF Sound, Positions, Nowhere
<1>3. IsFiniteSet(Positions)
  BY <1>2, FS_Interval DEF Positions
<1> QED
  BY <1>1, <1>2, <1>3, LookupFinds DEF IsTreap

LEMMA SoundIsTreap ==
  ASSUME Sound(treap)
  PROVE  EveryKeyFound /\ HeapOrdered
<1>1. PICK below : IsTreap(treap, Positions, below) /\ below[treap.root] = Positions
  BY DEF Sound, Positions
<1>2. treap.free \in Int /\ treap \in TreapOver(Positions) /\ Nowhere \notin Positions
      /\ Positions \subseteq Int
  BY DEF Sound, Positions, Nowhere
<1>3. IsFiniteSet(Positions)
  BY <1>2, FS_Interval DEF Positions
<1>4. Subtrees(treap, Positions, below)
  BY <1>1 DEF IsTreap
<1>5. EveryKeyFound
  <2> SUFFICES ASSUME NEW i \in Positions
               PROVE  lookup(treap.value[i]) = i
    BY DEF EveryKeyFound
  <2>1. treap.value[i] \in Int
    BY <1>4 DEF Subtrees
  <2>2. lookup(treap.value[i]) \in Positions /\ treap.value[lookup(treap.value[i])] = treap.value[i]
    BY <2>1, LookupFindsInTable
  <2>3. treap.root \in Positions
    BY <1>1, <1>2, <1>4 DEF Subtrees, TreapOver
  <2> QED
    BY <1>1, <1>2, <1>3, <1>4, <2>2, <2>3, KeysDiffer
<1>6. HeapOrdered
  <2> SUFFICES ASSUME NEW i \in Positions, NEW c, c = treap.left[i] \/ c = treap.right[i]
               PROVE  ~Outranks(c, i)
    BY DEF HeapOrdered
  <2>1. TreeAt(treap, Positions, below, i)
    BY <1>1, TreeAtEach
  <2>2. CASE c = Nowhere
    BY <1>2, <2>2, NowhereIsLast
  <2>3. CASE c \in Positions
    BY <1>4, <2>1, <2>3, BelowIsSplit DEF TreeAt
  <2> QED
    BY <2>1, <2>2, <2>3 DEF TreeAt
<1> QED
  BY <1>5, <1>6

(* A key that is not in the table goes in behind the others.                 *)
LEMMA ExtendedIsSound ==
  ASSUME Sound(treap), NEW key \in Int, \A i \in Positions : treap.value[i] # key
  PROVE  /\ Sound(Extended(key))
         /\ Extended(key).free = treap.free + 1
         /\ Extended(key).value = Push(treap.value, key)
<1> DEFINE n == treap.free
           P == Positions \cup {n}
           t == [value |-> Push(treap.value, key), left |-> Push(treap.left, Nowhere),
                 right |-> Push(treap.right, Nowhere), root |-> treap.root, free |-> n + 1]
           u == insert(t, n)
<1>1. PICK below : IsTreap(treap, Positions, below) /\ below[treap.root] = Positions
  BY DEF Sound, Positions
<1>2. n \in Nat /\ treap \in TreapOver(Positions) /\ n \notin Positions /\ Nowhere \notin P
      /\ P \subseteq Int /\ P = 0 .. n /\ P = 0 .. (n + 1) - 1
  BY DEF Sound, Positions, Nowhere
<1>3. IsFiniteSet(P)
  <2> HIDE DEF P, n
  <2> QED
    BY <1>2, FS_Interval
<1>4. Subtrees(treap, Positions, below)
  BY <1>1 DEF IsTreap
<1>5. /\ treap.value \in [Positions -> Int] /\ treap.root \in Positions \cup {Nowhere}
      /\ treap.left \in [Positions -> Positions \cup {Nowhere}]
      /\ treap.right \in [Positions -> Positions \cup {Nowhere}]
  BY <1>2 DEF TreapOver
<1> HIDE DEF P
<1>6. /\ t.value \in [P -> Int] /\ t.left \in [P -> P \cup {Nowhere}] /\ t.right \in [P -> P \cup {Nowhere}]
      /\ t.value[n] = key /\ t.left[n] = Nowhere /\ t.right[n] = Nowhere
      /\ \A p \in Positions : /\ t.value[p] = treap.value[p]
                              /\ t.left[p] = treap.left[p] /\ t.right[p] = treap.right[p]
      /\ t.root = treap.root /\ t.free = n + 1 /\ t.value = Push(treap.value, key)
  BY <1>2, <1>5 DEF Push, P
<1>7. t \in TreapOver(P)
  BY <1>2, <1>5, <1>6 DEF TreapOver, P
<1> DEFINE after == [p \in P \cup {Nowhere} |-> IF p = n THEN {n} ELSE below[p]]
<1>8. IsTreap(t, P, after)
  <2>1. /\ after[n] = {n} /\ after[Nowhere] = {}
        /\ \A p \in Positions \cup {Nowhere} : after[p] = below[p] /\ below[p] \subseteq Positions
    BY <1>2, <1>4 DEF P, Subtrees
  <2>2. after \in [P \cup {Nowhere} -> SUBSET P]
    BY <2>1 DEF P
  <2> HIDE DEF t, after
  <2>3. ASSUME NEW p \in Positions PROVE TreeAt(t, P, after, p)
    <3>1. TreeAt(treap, Positions, below, p)
      BY <1>1, TreeAtEach
    <3> QED
      BY <1>6, <2>1, <3>1 DEF TreeAt, P
  <2>4. TreeAt(t, P, after, n)
    <3>1. ~Outranks(n, n)
      BY <1>2, RankOrder
    <3> QED
      BY <1>6, <2>1, <3>1 DEF TreeAt
  <2>5. \A p \in P : TreeAt(t, P, after, p)
    BY <2>3, <2>4 DEF P
  <2> QED
    BY <2>1, <2>2, <2>5, TreeAtEach
<1>9. after[t.root] = Positions
  BY <1>1, <1>2, <1>5 DEF P
<1> HIDE DEF t, after, n
<1>10. Inserted(t, P, after, n, t.root, u)
  <2>1. n \in P /\ n \notin after[t.root]
    BY <1>2, <1>9 DEF P
  <2>2. \A q \in after[t.root] : t.value[q] # t.value[n]
    BY <1>6, <1>9
  <2> QED
    BY <1>2, <1>3, <1>6, <1>7, <1>8, <2>1, <2>2, InsertCorrect
<1>11. Extended(key) = u
  BY DEF Extended, t, n
<1> HIDE DEF u
<1>12. u.free = n + 1 /\ u.value = t.value /\ u \in TreapOver(P)
       /\ \E b : IsTreap(u, P, b) /\ b[u.root] = P
  BY <1>6, <1>9, <1>10 DEF Inserted, P
<1>13. Sound(u)
  <2>1. P = 0 .. u.free - 1 /\ u.free \in Nat
    BY <1>2, <1>12
  <2> QED
    BY <1>12, <2>1 DEF Sound
<1> QED
  BY <1>6, <1>11, <1>12, <1>13 DEF n

-----------------------------------------------------------------------------
(* The invariant. *)

Labels == {"idle", "read", "reading", "write", "writing", "inserting"}

CallType ==
  /\ pc \in [Threads -> Labels]
  /\ call \in [Threads -> [op : {"intern"}, arg : Keys] \cup [op : {"at"}, arg : Nat]]
  /\ answer \in [Threads -> Int \cup {NoAnswer}]

(* A thread waits for an answer as long as it is in a call, and the index it *)
(* asks for is that of an initial key or of one that is there.               *)
CallsMakeSense ==
  \A th \in Threads :
    /\ answer[th] = NoAnswer <=> pc[th] # "idle"
    /\ call[th].op = "at" => call[th].arg < treap.free \/ call[th].arg < Len(InitKeys)

(* The initial keys come first, in their order.                              *)
InitKeysFirst == \A i \in Positions : i < Len(InitKeys) => treap.value[i] = InitKeys[i + 1]

(* What a thread inserts is not there, and the initial keys are.             *)
InsertsNew ==
  \A th \in Threads :
    pc[th] = "inserting" =>
      /\ checkInitialized /\ call[th].op = "intern"
      /\ \A i \in Positions : treap.value[i] # call[th].arg

IInv == Sound(treap) /\ TypeOK /\ CallType /\ CallsMakeSense /\ InitKeysFirst /\ InsertsNew

LEMMA InitKeysFacts ==
  /\ Len(InitKeys) \in Nat /\ Len(InitKeys) > 0
  /\ \A i \in 1 .. Len(InitKeys) : InitKeys[i] \in Keys /\ InitKeys[i] \in Int
  /\ InitKeys = [i \in 1 .. Len(InitKeys) |-> InitKeys[i]]
  BY KeysAssumption

(* What Extended does to the invariant, whoever extends.                     *)
LEMMA GrowthKeepsTable ==
  ASSUME IInv, NEW key \in Keys, \A i \in Positions : treap.value[i] # key,
         treap' = Extended(key),
         treap.free < Len(InitKeys) => key = InitKeys[treap.free + 1]
  PROVE  /\ Sound(treap)' /\ InitKeysFirst'
         /\ treap'.free = treap.free + 1
         /\ treap'.value = Push(treap.value, key)
         /\ (treap.value \in [Positions -> Keys])'
         /\ (treap.left \in [Positions -> Positions \cup {Nowhere}])'
         /\ (treap.right \in [Positions -> Positions \cup {Nowhere}])'
         /\ (treap.root \in Positions \cup {Nowhere})'
<1>1. Sound(treap') /\ treap'.free = treap.free + 1 /\ treap'.value = Push(treap.value, key)
  BY ExtendedIsSound, KeysAssumption DEF IInv
<1>2. treap.free \in Nat /\ treap.value \in [Positions -> Keys] /\ InitKeysFirst
  BY DEF IInv, Sound, TypeOK
<1>3. Positions' = Positions \cup {treap.free} /\ treap.free \notin Positions
  BY <1>1, <1>2 DEF Positions
<1>4. /\ treap'.value[treap.free] = key
      /\ \A i \in Positions : treap'.value[i] = treap.value[i]
      /\ treap'.value \in [Positions' -> Keys]
  BY <1>1, <1>2, <1>3 DEF Push
<1>5. InitKeysFirst'
  BY <1>2, <1>3, <1>4 DEF InitKeysFirst
<1>6. treap' \in TreapOver(Positions')
  BY <1>1 DEF Sound, Positions
<1> QED
  BY <1>1, <1>4, <1>5, <1>6 DEF TreapOver

LEMMA InitIInv == Init => IInv
<1> SUFFICES ASSUME Init PROVE IInv
  OBVIOUS
<1> DEFINE below == [p \in {Nowhere} |-> {}]
<1>1. treap.free = 0 /\ treap.root = Nowhere /\ 0 .. treap.free - 1 = {} /\ Positions = {}
  BY DEF Init, EmptyTreap, Positions
<1>2. treap \in TreapOver({})
  BY DEF Init, EmptyTreap, TreapOver
<1>3. IsTreap(treap, {}, below) /\ below[treap.root] = {}
  BY <1>1 DEF IsTreap, Subtrees, Heap
<1>4. Sound(treap)
  <2> HIDE DEF below
  <2> QED
    BY <1>1, <1>2, <1>3 DEF Sound
<1>5. TypeOK
  <2>1. \A th \in Threads : writer # th /\ pc[th] = "idle"
    BY KeysAssumption DEF Init
  <2> QED
    BY <1>1, <2>1 DEF Init, TypeOK, EmptyTreap
<1>6. CallType
  BY DEF Init, CallType, Labels, Asks
<1>7. CallsMakeSense /\ InitKeysFirst /\ InsertsNew
  BY <1>1, InitKeysFacts, KeysAssumption DEF Init, CallsMakeSense, InitKeysFirst, InsertsNew, Asks
<1> QED
  BY <1>4, <1>5, <1>6, <1>7 DEF IInv

(* The answer from a table that has one.                                     *)
LEMMA FoundResult ==
  ASSUME IInv, NEW th \in Threads, Found(th)
  PROVE  Result(th) \in Int
<1>1. CASE call[th].op = "at"
  <2>1. call[th].arg \in Positions
    BY <1>1, InitKeysFacts DEF IInv, Found, checkInitialized, CallsMakeSense, CallType, Positions, Sound
  <2> QED
    BY <1>1, <2>1, KeysAssumption DEF IInv, TypeOK, Result
<1>2. CASE call[th].op # "at"
  <2>1. call[th].op = "intern" /\ call[th].arg \in Int
    BY <1>2, KeysAssumption DEF IInv, CallType
  <2>2. lookup(call[th].arg) \in Positions
    BY <2>1, LookupFindsInTable DEF IInv, Found
  <2> QED
    BY <1>2, <2>2 DEF Result, IInv, Sound, Positions
<1> QED
  BY <1>1, <1>2

(* A key that is not found is not there.                                     *)
LEMMA MissIsNew ==
  ASSUME IInv, NEW th \in Threads, checkInitialized, ~Found(th)
  PROVE  /\ call[th].op = "intern" /\ call[th].arg \in Keys
         /\ \A i \in Positions : treap.value[i] # call[th].arg
<1>1. call[th].op = "intern" /\ call[th].arg \in Keys /\ lookup(call[th].arg) = Nowhere
  BY DEF Found, IInv, CallType
<1>2. Nowhere \notin Positions
  BY DEF Positions, Nowhere, IInv, Sound
<1> QED
  BY <1>1, <1>2, LookupFindsInTable, KeysAssumption DEF IInv

(* An iteration of ensureInitialized puts in an initial key that is new.     *)
LEMMA InitializationGrows ==
  ASSUME IInv, NEW th \in Threads, EnsureInitialized(th)
  PROVE  /\ Sound(treap)' /\ InitKeysFirst' /\ treap'.free = treap.free + 1
         /\ (treap.value \in [Positions -> Keys])'
         /\ (treap.left \in [Positions -> Positions \cup {Nowhere}])'
         /\ (treap.right \in [Positions -> Positions \cup {Nowhere}])'
         /\ (treap.root \in Positions \cup {Nowhere})'
<1> DEFINE key == InitKeys[treap.free + 1]
<1>1. treap.free \in Nat /\ treap.free < Len(InitKeys) /\ treap.free + 1 \in 1 .. Len(InitKeys)
  BY InitKeysFacts DEF EnsureInitialized, checkInitialized, IInv, Sound
<1>2. key \in Keys /\ \A i \in Positions : treap.value[i] # key
  <2> SUFFICES ASSUME NEW i \in Positions PROVE treap.value[i] # key
    BY <1>1, InitKeysFacts
  <2>1. i \in Nat /\ i < treap.free /\ i < Len(InitKeys)
    BY <1>1, InitKeysFacts DEF Positions
  <2>2. treap.value[i] = InitKeys[i + 1]
    BY <2>1 DEF IInv, InitKeysFirst
  <2>3. i + 1 \in DOMAIN InitKeys /\ treap.free + 1 \in DOMAIN InitKeys /\ i + 1 # treap.free + 1
    BY <1>1, <2>1, InitKeysFacts
  <2> QED
    BY <2>2, <2>3, KeysAssumption
<1> QED
  BY <1>2, GrowthKeepsTable DEF EnsureInitialized

(* A step that leaves the treap alone.                                       *)
LEMMA SameTable ==
  ASSUME IInv, UNCHANGED treap, TypeOK', CallType', CallsMakeSense', InsertsNew'
  PROVE  IInv'
  BY DEF IInv, InitKeysFirst, Positions

LEMMA NextIInv == IInv /\ [Next]_vars => IInv'
<1> SUFFICES ASSUME IInv, [Next]_vars PROVE IInv'
  OBVIOUS
<1> USE DEF Goto
<1>1. ASSUME NEW th \in Threads, Call(th) PROVE IInv'
  <2>1. UNCHANGED treap /\ TypeOK'
    BY <1>1 DEF Call, IInv, TypeOK, CallType, Labels, Positions, lockVars
  <2>2. CallType' /\ CallsMakeSense'
    <3>1. treap.free \in Nat /\ DOMAIN treap.value = 0 .. treap.free - 1
      BY DEF IInv, TypeOK, Positions, Sound
    <3> DEFINE Sensible(c) ==
          /\ c \in [op : {"intern"}, arg : Keys] \cup [op : {"at"}, arg : Nat]
          /\ c.op = "at" => c.arg < treap.free \/ c.arg < Len(InitKeys)
    <3>2. \A k \in Keys : Sensible(Interns(k))
      BY DEF Interns
    <3>3. \A i \in DOMAIN treap.value \cup 0 .. Len(InitKeys) - 1 : Sensible(Asks(i))
      BY <3>1, InitKeysFacts DEF Asks
    <3>4. PICK c : call' = [call EXCEPT ![th] = c] /\ Sensible(c)
      <4> HIDE DEF Sensible
      <4> QED
        BY <1>1, <3>2, <3>3 DEF Call
    <3> QED
      BY <1>1, <3>4 DEF Call, IInv, CallType, CallsMakeSense, Labels
  <2>3. InsertsNew'
    BY <1>1 DEF Call, IInv, InsertsNew, CallType, checkInitialized, Positions
  <2> QED
    BY <2>1, <2>2, <2>3, SameTable
<1>2. ASSUME NEW th \in Threads, ReadLock(th) PROVE IInv'
  <2>1. UNCHANGED treap /\ TypeOK'
    BY <1>2 DEF ReadLock, IInv, TypeOK, CallType, Labels, Positions
  <2>2. CallType' /\ CallsMakeSense' /\ InsertsNew'
    BY <1>2 DEF ReadLock, IInv, CallType, CallsMakeSense, InsertsNew, Labels, checkInitialized, Positions
  <2> QED
    BY <2>1, <2>2, SameTable
<1>3. ASSUME NEW th \in Threads, ReadHit(th) PROVE IInv'
  <2>1. UNCHANGED treap /\ TypeOK'
    BY <1>3 DEF ReadHit, IInv, TypeOK, CallType, Labels, Positions
  <2>2. Result(th) \in Int
    BY <1>3, FoundResult DEF ReadHit
  <2>3. CallType' /\ CallsMakeSense' /\ InsertsNew'
    BY <1>3, <2>2, KeysAssumption
       DEF ReadHit, IInv, CallType, CallsMakeSense, InsertsNew, Labels, checkInitialized, Positions
  <2> QED
    BY <2>1, <2>3, SameTable
<1>4. ASSUME NEW th \in Threads, ReadMiss(th) PROVE IInv'
  <2>1. UNCHANGED treap /\ TypeOK'
    BY <1>4 DEF ReadMiss, IInv, TypeOK, CallType, Labels, Positions
  <2>2. CallType' /\ CallsMakeSense' /\ InsertsNew'
    BY <1>4 DEF ReadMiss, IInv, CallType, CallsMakeSense, InsertsNew, Labels, checkInitialized, Positions
  <2> QED
    BY <2>1, <2>2, SameTable
<1>5. ASSUME NEW th \in Threads, WriteLock(th) PROVE IInv'
  <2>1. UNCHANGED treap /\ TypeOK'
    BY <1>5, KeysAssumption DEF WriteLock, IInv, TypeOK, CallType, Labels, Positions
  <2>2. CallType' /\ CallsMakeSense' /\ InsertsNew'
    BY <1>5 DEF WriteLock, IInv, CallType, CallsMakeSense, InsertsNew, Labels, checkInitialized, Positions
  <2> QED
    BY <2>1, <2>2, SameTable
<1>6. ASSUME NEW th \in Threads, EnsureInitialized(th) PROVE IInv'
  <2>1. treap.free < Len(InitKeys)
    BY <1>6, InitKeysFacts DEF EnsureInitialized, checkInitialized, IInv, Sound
  <2>2. treap.free \in Nat
    BY DEF IInv, Sound
  <2>3. /\ Sound(treap)' /\ InitKeysFirst' /\ treap'.free = treap.free + 1
        /\ (treap.value \in [Positions -> Keys])'
        /\ (treap.left \in [Positions -> Positions \cup {Nowhere}])'
        /\ (treap.right \in [Positions -> Positions \cup {Nowhere}])'
        /\ (treap.root \in Positions \cup {Nowhere})'
    BY <1>6, InitializationGrows
  <2>4. TypeOK'
    BY <1>6, <2>3 DEF EnsureInitialized, IInv, TypeOK, lockVars
  <2>5. CallType' /\ CallsMakeSense'
    BY <1>6, <2>1, <2>2, <2>3, InitKeysFacts DEF EnsureInitialized, IInv, CallType, CallsMakeSense
  <2>6. InsertsNew'
    BY <1>6 DEF EnsureInitialized, IInv, InsertsNew
  <2> QED
    BY <2>3, <2>4, <2>5, <2>6 DEF IInv
<1>7. ASSUME NEW th \in Threads, WriteHit(th) PROVE IInv'
  <2>1. UNCHANGED treap /\ TypeOK'
    BY <1>7, KeysAssumption DEF WriteHit, IInv, TypeOK, CallType, Labels, Positions
  <2>2. Result(th) \in Int
    BY <1>7, FoundResult DEF WriteHit
  <2>3. CallType' /\ CallsMakeSense' /\ InsertsNew'
    BY <1>7, <2>2, KeysAssumption
       DEF WriteHit, IInv, CallType, CallsMakeSense, InsertsNew, Labels, checkInitialized, Positions
  <2> QED
    BY <2>1, <2>3, SameTable
<1>8. ASSUME NEW th \in Threads, WriteMiss(th) PROVE IInv'
  <2>1. UNCHANGED treap /\ TypeOK'
    BY <1>8 DEF WriteMiss, IInv, TypeOK, CallType, Labels, Positions, lockVars
  <2>2. CallType' /\ CallsMakeSense'
    BY <1>8 DEF WriteMiss, IInv, CallType, CallsMakeSense, Labels, lockVars
  <2>3. call[th].op = "intern" /\ \A i \in Positions : treap.value[i] # call[th].arg
    BY <1>8, MissIsNew DEF WriteMiss
  <2>4. InsertsNew'
    BY <1>8, <2>3 DEF WriteMiss, IInv, CallType, InsertsNew, checkInitialized, Positions, lockVars
  <2> QED
    BY <2>1, <2>2, <2>4, SameTable
<1>9. ASSUME NEW th \in Threads, InsertElement(th) PROVE IInv'
  <2>1. /\ checkInitialized /\ call[th].op = "intern" /\ call[th].arg \in Keys
        /\ \A i \in Positions : treap.value[i] # call[th].arg
    BY <1>9 DEF InsertElement, IInv, InsertsNew, CallType
  <2>2. treap.free \in Nat /\ ~(treap.free < Len(InitKeys))
    BY <2>1, InitKeysFacts DEF checkInitialized, IInv, Sound
  <2>3. /\ Sound(treap)' /\ InitKeysFirst' /\ treap'.free = treap.free + 1
        /\ (treap.value \in [Positions -> Keys])'
        /\ (treap.left \in [Positions -> Positions \cup {Nowhere}])'
        /\ (treap.right \in [Positions -> Positions \cup {Nowhere}])'
        /\ (treap.root \in Positions \cup {Nowhere})'
    BY <1>9, <2>1, <2>2, GrowthKeepsTable DEF InsertElement
  <2>4. writer = th /\ \A o \in Threads : o # th => pc[o] \notin {"writing", "inserting"}
    BY <1>9 DEF InsertElement, IInv, TypeOK
  <2>5. TypeOK'
    BY <1>9, <2>3, <2>4, KeysAssumption DEF InsertElement, IInv, TypeOK, CallType, Labels
  <2>6. CallType' /\ CallsMakeSense'
    BY <1>9, <2>2, <2>3, InitKeysFacts, KeysAssumption
       DEF InsertElement, IInv, CallType, CallsMakeSense, Labels
  <2>7. InsertsNew'
    BY <1>9, <2>4 DEF InsertElement, IInv, InsertsNew, CallType
  <2> QED
    BY <2>3, <2>5, <2>6, <2>7 DEF IInv
<1>10. CASE UNCHANGED vars
  BY <1>10, SameTable
     DEF vars, lockVars, IInv, TypeOK, CallType, CallsMakeSense, InsertsNew, checkInitialized, Positions
<1> QED
  BY <1>1, <1>2, <1>3, <1>4, <1>5, <1>6, <1>7, <1>8, <1>9, <1>10 DEF Next

(* The invariant holds in every state, for any keys, initial keys and        *)
(* threads.                                                                  *)
THEOREM Invariance == Spec => []IInv
  BY InitIInv, NextIInv, PTL DEF Spec

(* The table is a treap in which lookup finds every key, no element          *)
(* outranks its parent, and the lock lets in many readers or one writer,     *)
(* none of whom waits for itself.                                            *)
THEOREM TreapIsWellFormed == Spec => []WellFormed
<1>1. IInv => WellFormed
  BY SoundIsTreap DEF IInv, WellFormed
<1> QED
  BY <1>1, Invariance, PTL

(* insert never meets the key it inserts: its panic is unreachable.          *)
THEOREM NoKeyTwice == Spec => []NoExistingKey
<1>1. IInv => NoExistingKey
  <2> SUFFICES ASSUME IInv, NEW th \in Threads, pc[th] = "inserting"
               PROVE  lookup(call[th].arg) = Nowhere
    BY DEF NoExistingKey
  <2>1. call[th].arg \in Int /\ \A i \in Positions : treap.value[i] # call[th].arg
    BY KeysAssumption DEF IInv, InsertsNew, CallType
  <2> QED
    BY <2>1, LookupFindsInTable DEF IInv
<1> QED
  BY <1>1, Invariance, PTL

-----------------------------------------------------------------------------
(* The refinement. *)

(* The names are the keys of the table in their order, or the initial keys.  *)
LEMMA NamesFacts ==
  ASSUME IInv
  PROVE  /\ Names \in Seq(Int)
         /\ checkInitialized => /\ Len(Names) = treap.free /\ DOMAIN Names = 1 .. treap.free
                                /\ \A i \in Positions : Names[i + 1] = treap.value[i]
         /\ ~checkInitialized => Names = InitKeys
<1>1. treap.free \in Nat /\ treap.value \in [Positions -> Int]
  BY DEF IInv, Sound, TreapOver, Positions
<1>2. CASE checkInitialized
  <2> DEFINE n == treap.free
             s == [i \in 1 .. n |-> treap.value[i - 1]]
  <2>1. Names = s
    BY <1>2 DEF Names
  <2>2. \A i \in 1 .. n : treap.value[i - 1] \in Int
    BY <1>1 DEF Positions
  <2>3. s \in [1 .. n -> Int] /\ n \in Nat
    BY <1>1, <2>2
  <2>4. \A i \in Positions : i + 1 \in 1 .. n /\ (i + 1) - 1 = i
    BY <1>1 DEF Positions
  <2>5. \A i \in Positions : s[i + 1] = treap.value[i]
    BY <2>4
  <2> HIDE DEF s, n
  <2>6. s \in Seq(Int) /\ Len(s) = n /\ DOMAIN s = 1 .. n
    BY <2>3
  <2> QED
    BY <1>2, <2>1, <2>5, <2>6 DEF n
<1>3. CASE ~checkInitialized
  <2>1. InitKeys \in [1 .. Len(InitKeys) -> Int]
    BY InitKeysFacts
  <2>2. InitKeys \in Seq(Int)
    BY <2>1, InitKeysFacts
  <2> QED
    BY <1>3, <2>2 DEF Names
<1> QED
  BY <1>2, <1>3

LEMMA InitRefines == Init => Abstract!Init
<1> SUFFICES ASSUME Init PROVE Abstract!Init
  OBVIOUS
<1>1. ~checkInitialized
  BY InitKeysFacts DEF Init, EmptyTreap, checkInitialized
<1>2. call \in [Threads -> {Abstract!Asks(0)}] /\ answer \in [Threads -> {0}]
  BY DEF Init, Asks, Abstract!Asks
<1> QED
  BY <1>1, <1>2 DEF Abstract!Init, Names

(* An answer from the table is the answer the interner gives.                *)
LEMMA HitRefines ==
  ASSUME IInv, NEW th \in Threads, Found(th), answer[th] = NoAnswer,
         answer' = [answer EXCEPT ![th] = Result(th)], UNCHANGED <<treap, call>>
  PROVE  Abstract!Name(th) \/ Abstract!OldIndex(th)
<1>1. UNCHANGED Names
  BY DEF Names, checkInitialized
<1>2. checkInitialized /\ treap.free \in Nat
  BY DEF Found, IInv, Sound
<1>3. CASE call[th].op = "at"
  <2>1. call[th].arg \in Positions
    BY <1>2, <1>3, InitKeysFacts DEF IInv, checkInitialized, CallsMakeSense, CallType, Positions
  <2>2. Names[call[th].arg + 1] = treap.value[call[th].arg]
    BY <1>2, <2>1, NamesFacts
  <2> QED
    BY <1>1, <1>3, <2>2 DEF Abstract!Name, Abstract!Waits, Abstract!Answer, Result
<1>4. CASE call[th].op # "at"
  <2>1. call[th].op = "intern" /\ call[th].arg \in Int
    BY <1>4, KeysAssumption DEF IInv, CallType
  <2> DEFINE i == lookup(call[th].arg)
  <2>2. i \in Positions /\ treap.value[i] = call[th].arg
    BY <2>1, LookupFindsInTable DEF IInv, Found
  <2>3. Result(th) = i
    BY <1>4 DEF Result
  <2> HIDE DEF i
  <2>4. i \in Int /\ i + 1 \in DOMAIN Names /\ Names[i + 1] = call[th].arg /\ (i + 1) - 1 = i
    BY <1>2, <2>2, NamesFacts DEF Positions
  <2>5. answer' = [answer EXCEPT ![th] = (i + 1) - 1]
    BY <2>3, <2>4
  <2> QED
    BY <1>1, <2>1, <2>4, <2>5 DEF Abstract!OldIndex, Abstract!Waits, Abstract!Answer
<1> QED
  BY <1>3, <1>4

LEMMA NextRefines == IInv /\ IInv' /\ [Next]_vars => [Abstract!Next]_Abstract!vars
<1> SUFFICES ASSUME IInv, IInv', [Next]_vars PROVE [Abstract!Next]_Abstract!vars
  OBVIOUS
<1>1. ASSUME UNCHANGED <<treap, call, answer>> PROVE UNCHANGED Abstract!vars
  BY <1>1 DEF Abstract!vars, Names, checkInitialized
<1>2. ASSUME NEW th \in Threads, Call(th) PROVE Abstract!Request(th)
  <2>1. UNCHANGED Names
    BY <1>2 DEF Call, Names, checkInitialized
  <2>2. answer[th] # NoAnswer
    BY <1>2 DEF Call, IInv, CallsMakeSense
  <2>3. answer' = [answer EXCEPT ![th] = NoAnswer]
    BY <1>2 DEF Call
  <2> DEFINE Requests == {Abstract!Interns(k) : k \in Keys} \cup {Abstract!Looks(k) : k \in Keys}
              \cup {Abstract!Asks(i) : i \in 0 .. Len(Names) - 1}
              \cup {Abstract!LoadsAll(l) : l \in {}}
  <2>4. \A k \in Keys : Interns(k) \in Requests
    BY DEF Interns, Abstract!Interns
  <2>5. ASSUME NEW i \in DOMAIN treap.value \cup 0 .. Len(InitKeys) - 1
        PROVE  Asks(i) \in Requests
    <3>1. treap.free \in Nat /\ DOMAIN treap.value = 0 .. treap.free - 1
      BY DEF IInv, TypeOK, Positions, Sound
    <3>2. i \in 0 .. Len(Names) - 1
      BY <3>1, InitKeysFacts, NamesFacts DEF checkInitialized
    <3>3. Asks(i) = Abstract!Asks(i)
      BY DEF Asks, Abstract!Asks
    <3> QED
      BY <3>2, <3>3
  <2>6. \E r \in Requests : call' = [call EXCEPT ![th] = r]
    <3> HIDE DEF Requests
    <3> QED
      BY <1>2, <2>4, <2>5 DEF Call
  <2> QED
    BY <2>1, <2>2, <2>3, <2>6 DEF Abstract!Request
<1>3. ASSUME NEW th \in Threads, ReadHit(th) PROVE Abstract!Name(th) \/ Abstract!OldIndex(th)
  <2>1. answer[th] = NoAnswer
    BY <1>3 DEF ReadHit, IInv, CallsMakeSense
  <2> QED
    BY <1>3, <2>1, HitRefines DEF ReadHit
<1>4. ASSUME NEW th \in Threads, WriteHit(th) PROVE Abstract!Name(th) \/ Abstract!OldIndex(th)
  <2>1. answer[th] = NoAnswer
    BY <1>4 DEF WriteHit, IInv, CallsMakeSense
  <2> QED
    BY <1>4, <2>1, HitRefines DEF WriteHit
<1>5. ASSUME NEW th \in Threads, EnsureInitialized(th) PROVE UNCHANGED Abstract!vars
  <2>1. Names = InitKeys /\ treap.free \in Nat /\ treap.free < Len(InitKeys)
    BY <1>5, NamesFacts, InitKeysFacts DEF EnsureInitialized, checkInitialized, IInv, Sound
  <2>2. Names' = InitKeys
    <3>1. CASE checkInitialized'
      <4>1. treap'.free = Len(InitKeys)
        <5>1. treap'.free = treap.free + 1
          BY <1>5, InitializationGrows
        <5> QED
          BY <2>1, <3>1, <5>1, InitKeysFacts DEF checkInitialized
      <4>2. \A i \in 1 .. Len(InitKeys) : i - 1 \in Positions' /\ treap'.value[i - 1] = InitKeys[(i - 1) + 1]
        BY <4>1, InitKeysFacts DEF IInv, InitKeysFirst, Positions
      <4>3. \A i \in 1 .. Len(InitKeys) : treap'.value[i - 1] = InitKeys[i]
        BY <4>2, InitKeysFacts
      <4> QED
        BY <3>1, <4>1, <4>3, InitKeysFacts DEF Names
    <3>2. CASE ~checkInitialized'
      BY <3>2 DEF Names
    <3> QED
      BY <3>1, <3>2
  <2> QED
    BY <1>5, <2>1, <2>2 DEF EnsureInitialized, Abstract!vars
<1>6. ASSUME NEW th \in Threads, InsertElement(th) PROVE Abstract!NewIndex(th)
  <2> DEFINE key == call[th].arg
  <2>1. /\ checkInitialized /\ call[th].op = "intern" /\ key \in Keys /\ key \in Int
        /\ \A i \in Positions : treap.value[i] # key
    BY <1>6, KeysAssumption DEF InsertElement, IInv, InsertsNew, CallType
  <2>2. treap.free \in Nat /\ ~(treap.free < Len(InitKeys))
    BY <2>1, InitKeysFacts DEF checkInitialized, IInv, Sound
  <2>3. treap'.free = treap.free + 1 /\ treap'.value = Push(treap.value, key)
    BY <1>6, <2>1, <2>2, GrowthKeepsTable DEF InsertElement
  <2>4. Names \in Seq(Int) /\ Len(Names) = treap.free /\ DOMAIN Names = 1 .. treap.free
        /\ \A i \in 1 .. treap.free : Names[i] = treap.value[i - 1]
    BY <2>1, <2>2, NamesFacts DEF Names
  <2>5. \A i \in DOMAIN Names : Names[i] # key
    BY <2>1, <2>2, <2>4 DEF Positions
  <2>6. Names' = Append(Names, key)
    <3>1. checkInitialized'
      BY <2>2, <2>3, InitKeysFacts DEF checkInitialized
    <3>2. Names' = [i \in 1 .. treap.free + 1 |-> treap'.value[i - 1]]
      BY <2>3, <3>1 DEF Names
    <3>3. \A i \in 1 .. treap.free + 1 :
            treap'.value[i - 1] = IF i = treap.free + 1 THEN key ELSE Names[i]
      <4>1. treap.value \in [0 .. treap.free - 1 -> Keys]
        BY DEF IInv, TypeOK, Positions
      <4>2. treap'.value[treap.free] = key
            /\ \A i \in 0 .. treap.free - 1 : treap'.value[i] = treap.value[i]
        BY <2>2, <2>3, <4>1 DEF Push
      <4> QED
        BY <2>2, <2>4, <4>2
    <3>4. Append(Names, key) = [i \in 1 .. Len(Names) + 1 |-> IF i = Len(Names) + 1 THEN key ELSE Names[i]]
      BY <2>1, <2>4
    <3> QED
      BY <2>4, <3>2, <3>3, <3>4
  <2>7. answer[th] = NoAnswer /\ answer' = [answer EXCEPT ![th] = Len(Names)] /\ UNCHANGED call
    BY <1>6, <2>4 DEF InsertElement, IInv, CallsMakeSense
  <2> QED
    BY <2>1, <2>5, <2>6, <2>7 DEF Abstract!NewIndex, Abstract!Waits, Abstract!Answer
<1>7. ASSUME NEW th \in Threads,
             ReadLock(th) \/ ReadMiss(th) \/ WriteLock(th) \/ WriteMiss(th)
      PROVE  UNCHANGED <<treap, call, answer>>
  BY <1>7 DEF ReadLock, ReadMiss, WriteLock, WriteMiss
<1>8. CASE UNCHANGED vars
  BY <1>1, <1>8 DEF vars
<1> QED
  BY <1>1, <1>2, <1>3, <1>4, <1>5, <1>6, <1>7, <1>8 DEF Next, Abstract!Next

(* The users of the interner see calls answered in one atomic step, each key *)
(* with one index for good and the initial keys from the start.              *)
THEOREM IsAnInterner == Spec => ImplementsInterner
  BY InitRefines, NextRefines, Invariance, PTL DEF Spec, Abstract!Spec, ImplementsInterner
=============================================================================

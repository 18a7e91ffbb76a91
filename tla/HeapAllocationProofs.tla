------------------------ MODULE HeapAllocationProofs ------------------------
(***************************************************************************)
(* Proofs about the heap of the global arena, for any number of processes, *)
(* any size of heap and header, and any requests that have a list.         *)
(***************************************************************************)
EXTENDS HeapAllocation, FiniteSetTheorems, WellFoundedInduction, TLAPS

(* A process searches lists whose blocks are larger than its request. *)
Searching == {"scan"} \cup Popping

Fits ==
  \A p \in Procs : pc[p] \in Searching =>
    index[p] > 0 /\ aI[p].words < BlockSize[index[p]]

(* What a process is about to put back is a range of the heap. *)
HandsOK ==
  \A p \in Procs : pc[p] \in Putting =>
    /\ HeaderSize <= start[p] /\ start[p] <= to[p] /\ to[p] <= Size
    /\ pc[p] \in {"countUp", "countDown"} => freeIndex[p] = 0 /\ start[p] < to[p]

BlocksOK ==
  \A a \in Words : age[a] # "none" => length[a] > 0 /\ a + length[a] <= Size

(* NoOverlap word by word. *)
Covers(a, w) == age[a] # "none" /\ a <= w /\ w < a + length[a]
Holds(p, w) == pc[p] \in Putting /\ start[p] <= w /\ w < to[p]

CoversNext(a, w) == age'[a] # "none" /\ a <= w /\ w < a + length'[a]
HoldsNext(p, w) == pc'[p] \in Putting /\ start'[p] <= w /\ w < to'[p]

OneOwner ==
  \A w \in Words :
    /\ \A a, b \in Words : Covers(a, w) /\ Covers(b, w) => a = b
    /\ \A p \in Procs, a \in Words : ~(Holds(p, w) /\ Covers(a, w))
    /\ \A p, q \in Procs : Holds(p, w) /\ Holds(q, w) => p = q

EveryWordOwned ==
  \A w \in Words :
    (\E a \in Words : Covers(a, w)) \/ (\E p \in Procs : Holds(p, w))

(* The links of free blocks stay on the list, and no two blocks, nor a block *)
(* and the list head, point to the same block.                               *)
Listed(a, i) == age[a] = "free" /\ length[a] = BlockSize[i]

ListsLinked ==
  \A i \in Lists : i > 0 =>
    /\ list[i] # Null => Listed(list[i], i)
    /\ \A a \in Words : Listed(a, i) /\ next[a] # Null =>
         /\ Listed(next[a], i)
         /\ next[a] # list[i]
         /\ \A b \in Words : Listed(b, i) /\ next[b] = next[a] => a = b

(* A block read from a list is still the block it was, or an object now.     *)
Snapshots ==
  \A p \in Procs : pc[p] \in Popping =>
    /\ fle[p] \in Words
    /\ age[fle[p]] # "none"
    /\ age[fle[p]] = "free" =>
         /\ length[fle[p]] = BlockSize[index[p]]
         /\ pc[p] = "cas" => link[p] = next[fle[p]]

Owners == HandsOK /\ BlocksOK /\ OneOwner /\ EveryWordOwned

Inv == TypeOK /\ Fits /\ Owners /\ ListsLinked /\ Snapshots

-----------------------------------------------------------------------------
LEMMA Sizes ==
  /\ Size \in Nat /\ HeaderSize \in Nat /\ HeaderSize > 0 /\ HeaderSize <= Size
  /\ NFreeLists \in Nat /\ NFreeLists > 0
  /\ Creator \in Procs
  BY HeapAssumption

LEMMA WordRange ==
  /\ \A w \in Words : w \in Nat /\ HeaderSize <= w /\ w < Size /\ w # Null
  /\ \A w \in Nat : HeaderSize <= w /\ w < Size => w \in Words
  BY Sizes DEF Words, Null

LEMMA ListRange ==
  /\ \A i \in Lists : i \in Nat /\ i < NFreeLists
  /\ \A i \in Nat : i < NFreeLists => i \in Lists
  /\ 0 \in Lists
  BY Sizes DEF Lists

LEMMA BlockSizes ==
  /\ \A i \in Lists : BlockSize[i] \in Nat /\ BlockSize[i] > 0
  /\ BlockSize[0] = 1
  /\ \A i, j \in Lists : i < j => BlockSize[i] < BlockSize[j]
  BY HeapAssumption

LEMMA DistinctSizes ==
  ASSUME NEW i \in Lists, NEW j \in Lists, BlockSize[i] = BlockSize[j]
  PROVE  i = j
<1>1. BlockSize[i] \in Nat /\ BlockSize[j] \in Nat
  BY BlockSizes
<1>2. ~(i < j) /\ ~(j < i)
  BY <1>1, BlockSizes
<1> QED
  BY <1>2, ListRange

(* The list a request starts at exists, is not the counter of single words,  *)
(* and its blocks are larger than the request.                               *)
LEMMA FirstList ==
  ASSUME NEW r \in Requests
  PROVE  /\ r.words \in Nat /\ r.words > 0
         /\ bitsToRepresent(r.words) \in Lists
         /\ bitsToRepresent(r.words) > 0
         /\ r.words < BlockSize[bitsToRepresent(r.words)]
<1> DEFINE P(i) == FirstLarger(r.words, i)
<1>1. \E i \in Lists : P(i)
  BY HeapAssumption
<1>2. bitsToRepresent(r.words) \in Lists /\ P(bitsToRepresent(r.words))
  <2> HIDE DEF P
  <2>1. bitsToRepresent(r.words) = CHOOSE i \in Lists : P(i)
    BY DEF bitsToRepresent, P
  <2> QED
    BY <1>1, <2>1
<1>3. r.words \in Nat /\ r.words > 0
  BY HeapAssumption
<1>4. r.words < BlockSize[bitsToRepresent(r.words)]
  BY <1>2 DEF FirstLarger
<1>5. bitsToRepresent(r.words) # 0
  BY <1>3, <1>4, BlockSizes
<1> QED
  BY <1>2, <1>3, <1>4, <1>5, ListRange

LEMMA InvInit == Init => Inv
<1> SUFFICES ASSUME Init PROVE Inv
  OBVIOUS
<1> USE DEF Init
<1>1. AnyInfo \in Requests
  BY HeapAssumption DEF AnyInfo
<1>2. TypeOK
  <2>1. /\ list \in [Lists -> Nat]
        /\ \A i \in Lists : i > 0 => list[i] \in Words \cup {Null}
    BY DEF Null
  <2>2. pc \in [Procs -> Labels]
    BY DEF Labels, Putting
  <2>3. start \in [Procs -> Nat] /\ to \in [Procs -> Nat]
    BY Sizes
  <2> QED
    BY <1>1, <2>1, <2>2, <2>3, ListRange DEF TypeOK
<1>3. Fits /\ Snapshots
  BY DEF Fits, Snapshots, Searching, Popping
<1>4. HandsOK /\ BlocksOK
  BY Sizes DEF HandsOK, BlocksOK, Putting
<1>5. OneOwner
  BY DEF OneOwner, Covers, Holds, Putting
<1>6. EveryWordOwned
  <2>1. \A w \in Words : Holds(Creator, w)
    BY Sizes, WordRange DEF Holds, Putting
  <2> QED
    BY <2>1, Sizes DEF EveryWordOwned
<1>7. ListsLinked
  BY WordRange DEF ListsLinked, Listed
<1> QED
  BY <1>2, <1>3, <1>4, <1>5, <1>6, <1>7 DEF Inv, Owners

-----------------------------------------------------------------------------
(* What a process puts back is unowned by blocks, so its first word has no   *)
(* header.                                                                   *)
LEMMA FirstWordIsBare ==
  ASSUME Inv, NEW p \in Procs, pc[p] \in Putting, start[p] < to[p]
  PROVE  start[p] \in Words /\ age[start[p]] = "none"
<1>1. start[p] \in Nat /\ to[p] \in Nat
  BY DEF Inv, TypeOK
<1>2. HeaderSize <= start[p] /\ to[p] <= Size
  BY DEF Inv, Owners, HandsOK
<1>3. start[p] \in Words /\ Holds(p, start[p])
  BY <1>1, <1>2, Sizes, WordRange DEF Holds
<1>4. ASSUME age[start[p]] # "none" PROVE FALSE
  <2>1. length[start[p]] > 0 /\ length[start[p]] \in Nat
    BY <1>3, <1>4 DEF Inv, Owners, BlocksOK, TypeOK
  <2>2. Covers(start[p], start[p])
    BY <1>1, <1>4, <2>1 DEF Covers
  <2> QED
    BY <1>3, <2>2 DEF Inv, Owners, OneOwner
<1> QED
  BY <1>3, <1>4

(* Steps that neither write headers nor change what a process holds. *)
LEMMA OwnersKept ==
  ASSUME Inv, UNCHANGED <<age, length>>,
         \A p \in Procs :
           /\ pc'[p] \in Putting => pc[p] \in Putting
                                    /\ start'[p] = start[p] /\ to'[p] = to[p]
           /\ pc[p] \in Putting /\ pc'[p] \notin Putting => start[p] >= to[p]
           /\ pc'[p] \in {"countUp", "countDown"} =>
                freeIndex'[p] = 0 /\ start[p] < to[p]
  PROVE  Owners'
<1>1. HandsOK' /\ BlocksOK'
  BY DEF Inv, Owners, HandsOK, BlocksOK
<1>2. \A w \in Words, a \in Words : Covers(a, w)' <=> Covers(a, w)
  BY DEF Covers
<1>3. ASSUME NEW p \in Procs, NEW w \in Words
      PROVE  Holds(p, w)' <=> Holds(p, w)
  <2>1. start[p] \in Nat /\ to[p] \in Nat /\ w \in Nat
    BY WordRange DEF Inv, TypeOK
  <2> QED
    BY <2>1 DEF Holds
<1>4. OneOwner' /\ EveryWordOwned'
  BY <1>2, <1>3 DEF Inv, Owners, OneOwner, EveryWordOwned
<1> QED
  BY <1>1, <1>4 DEF Owners

(* When words go from block f or process p to f and p, and no other block or *)
(* process is concerned, every word still has one owner.                     *)
LEMMA OwnersMove ==
  ASSUME Owners, NEW f \in Words, NEW p \in Procs,
         \A w \in Words :
           /\ \A a \in Words : a # f => (CoversNext(a, w) <=> Covers(a, w))
           /\ \A q \in Procs : q # p => (HoldsNext(q, w) <=> Holds(q, w))
           /\ CoversNext(f, w) \/ HoldsNext(p, w) <=> Covers(f, w) \/ Holds(p, w)
           /\ ~(CoversNext(f, w) /\ HoldsNext(p, w))
  PROVE  OneOwner' /\ EveryWordOwned'
<1>1. OneOwner'
  <2> SUFFICES ASSUME NEW w \in Words
               PROVE  /\ \A a, b \in Words : CoversNext(a, w) /\ CoversNext(b, w) => a = b
                      /\ \A q \in Procs, a \in Words : ~(HoldsNext(q, w) /\ CoversNext(a, w))
                      /\ \A q, r \in Procs : HoldsNext(q, w) /\ HoldsNext(r, w) => q = r
    BY DEF OneOwner, Covers, Holds, CoversNext, HoldsNext
  <2>1. /\ \A a, b \in Words : Covers(a, w) /\ Covers(b, w) => a = b
        /\ \A q \in Procs, a \in Words : ~(Holds(q, w) /\ Covers(a, w))
        /\ \A q, r \in Procs : Holds(q, w) /\ Holds(r, w) => q = r
    BY DEF Owners, OneOwner
  <2> QED
    BY <2>1
<1>2. EveryWordOwned'
  <2> SUFFICES ASSUME NEW w \in Words
               PROVE  (\E a \in Words : CoversNext(a, w)) \/ (\E q \in Procs : HoldsNext(q, w))
    BY DEF EveryWordOwned, Covers, Holds, CoversNext, HoldsNext
  <2>1. (\E a \in Words : Covers(a, w)) \/ (\E q \in Procs : Holds(q, w))
    BY DEF Owners, EveryWordOwned
  <2> QED
    BY <2>1
<1> QED
  BY <1>1, <1>2

(* A push: the first words a process holds become a free block. *)
LEMMA OwnersPush ==
  ASSUME Inv, NEW p \in Procs, NEW n \in Nat, n > 0,
         pc[p] \in Putting, start[p] + n <= to[p],
         age' = [age EXCEPT ![start[p]] = "free"],
         length' = [length EXCEPT ![start[p]] = n],
         start' = [start EXCEPT ![p] = @ + n], to' = to,
         pc'[p] \in Putting \ {"countUp", "countDown"},
         \A q \in Procs : q # p => pc'[q] = pc[q] /\ freeIndex'[q] = freeIndex[q]
  PROVE  Owners'
<1> DEFINE s == start[p]
           e == to[p]
<1>1. s \in Nat /\ e \in Nat /\ s + n <= e /\ s < e
  BY DEF Inv, TypeOK
<1>2. s \in Words /\ age[s] = "none"
  BY <1>1, FirstWordIsBare
<1>3. /\ age'[s] = "free" /\ length'[s] = n
      /\ \A a \in Words : a # s => age'[a] = age[a] /\ length'[a] = length[a]
  BY <1>2 DEF Inv, TypeOK
<1>4. /\ start'[p] = s + n /\ to'[p] = e
      /\ \A q \in Procs : q # p => start'[q] = start[q] /\ to'[q] = to[q]
  BY DEF Inv, TypeOK
<1>5. e <= Size /\ HeaderSize <= s
  BY DEF Inv, Owners, HandsOK
<1> HIDE DEF s, e
<1>6. HandsOK'
  <2> SUFFICES ASSUME NEW q \in Procs, pc'[q] \in Putting
               PROVE  /\ HeaderSize <= start'[q] /\ start'[q] <= to'[q] /\ to'[q] <= Size
                      /\ pc'[q] \in {"countUp", "countDown"} =>
                           freeIndex'[q] = 0 /\ start'[q] < to'[q]
    BY DEF HandsOK
  <2>1. CASE q = p
    BY <2>1, <1>1, <1>4, <1>5, Sizes
  <2>2. CASE q # p
    BY <2>2, <1>4 DEF HandsOK, Inv, Owners
  <2> QED
    BY <2>1, <2>2
<1>7. BlocksOK'
  <2> SUFFICES ASSUME NEW a \in Words, age'[a] # "none"
               PROVE  length'[a] > 0 /\ a + length'[a] <= Size
    BY DEF BlocksOK
  <2>1. CASE a = s
    BY <2>1, <1>1, <1>3, <1>5, Sizes
  <2>2. CASE a # s
    BY <2>2, <1>3 DEF BlocksOK, Inv, Owners
  <2> QED
    BY <2>1, <2>2
<1>8. ASSUME NEW w \in Words
      PROVE  /\ CoversNext(s, w) <=> (s <= w /\ w < s + n)
             /\ ~Covers(s, w)
             /\ Holds(p, w) <=> (s <= w /\ w < e)
             /\ HoldsNext(p, w) <=> (s + n <= w /\ w < e)
  <2>1. CoversNext(s, w) <=> (s <= w /\ w < s + n)
    BY <1>3 DEF Covers, CoversNext
  <2>2. ~Covers(s, w)
    BY <1>2 DEF Covers, CoversNext
  <2>3. Holds(p, w) <=> (s <= w /\ w < e)
    BY DEF Holds, s, e
  <2>4. HoldsNext(p, w) <=> (s + n <= w /\ w < e)
    BY <1>4 DEF Holds, HoldsNext
  <2> QED
    BY <2>1, <2>2, <2>3, <2>4
<1>9. \A w \in Words :
        /\ \A a \in Words : a # s => (CoversNext(a, w) <=> Covers(a, w))
        /\ \A q \in Procs : q # p => (HoldsNext(q, w) <=> Holds(q, w))
        /\ CoversNext(s, w) \/ HoldsNext(p, w) <=> Covers(s, w) \/ Holds(p, w)
        /\ ~(CoversNext(s, w) /\ HoldsNext(p, w))
  <2> SUFFICES ASSUME NEW w \in Words
               PROVE  /\ \A a \in Words : a # s => (CoversNext(a, w) <=> Covers(a, w))
                      /\ \A q \in Procs : q # p => (HoldsNext(q, w) <=> Holds(q, w))
                      /\ CoversNext(s, w) \/ HoldsNext(p, w) <=> Covers(s, w) \/ Holds(p, w)
                      /\ ~(CoversNext(s, w) /\ HoldsNext(p, w))
    OBVIOUS
  <2>1. \A a \in Words : a # s => (CoversNext(a, w) <=> Covers(a, w))
    BY <1>3 DEF Covers, CoversNext
  <2>2. \A q \in Procs : q # p => (HoldsNext(q, w) <=> Holds(q, w))
    BY <1>4 DEF Holds, HoldsNext
  <2>3. w \in Nat
    BY WordRange
  <2>4. /\ CoversNext(s, w) \/ HoldsNext(p, w) <=> Covers(s, w) \/ Holds(p, w)
        /\ ~(CoversNext(s, w) /\ HoldsNext(p, w))
    BY <2>3, <1>1, <1>8
  <2> QED
    BY <2>1, <2>2, <2>4
<1>10. OneOwner' /\ EveryWordOwned'
  <2>1. Owners
    BY DEF Inv
  <2> QED
    BY <2>1, <1>2, <1>9, OwnersMove
<1> QED
  BY <1>6, <1>7, <1>10 DEF Owners

(* The block a successful exchange takes. *)
LEMMA TakenBlock ==
  ASSUME Inv, NEW p \in Procs, pc[p] = "cas", list[index[p]] = fle[p]
  PROVE  /\ index[p] \in Lists /\ index[p] > 0
         /\ fle[p] \in Words /\ Listed(fle[p], index[p])
         /\ BlockSize[index[p]] \in Nat
         /\ aI[p] \in Requests
         /\ aI[p].words \in Nat /\ aI[p].words > 0
         /\ aI[p].words < BlockSize[index[p]]
         /\ fle[p] + BlockSize[index[p]] <= Size
<1>1. index[p] \in Lists /\ aI[p] \in Requests
  BY DEF Inv, TypeOK
<1>2. index[p] > 0 /\ aI[p].words < BlockSize[index[p]]
  BY DEF Inv, Fits, Searching, Popping
<1>3. fle[p] \in Words
  BY DEF Inv, Snapshots, Popping
<1>4. Listed(fle[p], index[p])
  BY <1>1, <1>2, <1>3, WordRange DEF Inv, ListsLinked
<1>5. fle[p] + BlockSize[index[p]] <= Size
  BY <1>3, <1>4 DEF Listed, Inv, Owners, BlocksOK
<1> QED
  BY <1>1, <1>2, <1>3, <1>4, <1>5, FirstList, BlockSizes

(* A pop: a free block becomes an object and words the process holds. *)
LEMMA OwnersTake ==
  ASSUME Inv, NEW p \in Procs, pc[p] = "cas", list[index[p]] = fle[p], Take(p)
  PROVE  Owners'
<1> DEFINE f == fle[p]
           n == aI[p].words
           e == fle[p] + BlockSize[index[p]]
<1>1. /\ f \in Words /\ f \in Nat /\ n \in Nat /\ n > 0 /\ e \in Nat
      /\ f + n < e /\ e <= Size /\ HeaderSize <= f
      /\ age[f] = "free" /\ f + length[f] = e
  BY TakenBlock, WordRange DEF Listed
<1>2. /\ age'[f] = "global" /\ length'[f] = n
      /\ \A a \in Words : a # f => age'[a] = age[a] /\ length'[a] = length[a]
  BY <1>1 DEF Inv, TypeOK, Take
<1>3. /\ start'[p] = f + n /\ to'[p] = e /\ pc'[p] = "up"
      /\ \A q \in Procs : q # p => /\ start'[q] = start[q] /\ to'[q] = to[q]
                                   /\ pc'[q] = pc[q] /\ freeIndex'[q] = freeIndex[q]
  BY DEF Inv, TypeOK, Take, remainder, sliceEnd, Goto
<1> HIDE DEF f, n, e
<1>4. HandsOK'
  <2> SUFFICES ASSUME NEW q \in Procs, pc'[q] \in Putting
               PROVE  /\ HeaderSize <= start'[q] /\ start'[q] <= to'[q] /\ to'[q] <= Size
                      /\ pc'[q] \in {"countUp", "countDown"} =>
                           freeIndex'[q] = 0 /\ start'[q] < to'[q]
    BY DEF HandsOK
  <2>1. CASE q = p
    BY <2>1, <1>1, <1>3, Sizes
  <2>2. CASE q # p
    BY <2>2, <1>3 DEF HandsOK, Inv, Owners
  <2> QED
    BY <2>1, <2>2
<1>5. BlocksOK'
  <2> SUFFICES ASSUME NEW a \in Words, age'[a] # "none"
               PROVE  length'[a] > 0 /\ a + length'[a] <= Size
    BY DEF BlocksOK
  <2>1. CASE a = f
    BY <2>1, <1>1, <1>2, Sizes
  <2>2. CASE a # f
    BY <2>2, <1>2 DEF BlocksOK, Inv, Owners
  <2> QED
    BY <2>1, <2>2
<1>6. ASSUME NEW w \in Words
      PROVE  /\ CoversNext(f, w) <=> (f <= w /\ w < f + n)
             /\ Covers(f, w) <=> (f <= w /\ w < e)
             /\ ~Holds(p, w)
             /\ HoldsNext(p, w) <=> (f + n <= w /\ w < e)
  <2>1. CoversNext(f, w) <=> (f <= w /\ w < f + n)
    BY <1>2 DEF Covers, CoversNext
  <2>2. Covers(f, w) <=> (f <= w /\ w < e)
    BY <1>1 DEF Covers, CoversNext
  <2>3. ~Holds(p, w)
    BY DEF Holds, HoldsNext, Putting
  <2>4. HoldsNext(p, w) <=> (f + n <= w /\ w < e)
    BY <1>3 DEF Holds, HoldsNext, Putting
  <2> QED
    BY <2>1, <2>2, <2>3, <2>4
<1>7. \A w \in Words :
        /\ \A a \in Words : a # f => (CoversNext(a, w) <=> Covers(a, w))
        /\ \A q \in Procs : q # p => (HoldsNext(q, w) <=> Holds(q, w))
        /\ CoversNext(f, w) \/ HoldsNext(p, w) <=> Covers(f, w) \/ Holds(p, w)
        /\ ~(CoversNext(f, w) /\ HoldsNext(p, w))
  <2> SUFFICES ASSUME NEW w \in Words
               PROVE  /\ \A a \in Words : a # f => (CoversNext(a, w) <=> Covers(a, w))
                      /\ \A q \in Procs : q # p => (HoldsNext(q, w) <=> Holds(q, w))
                      /\ CoversNext(f, w) \/ HoldsNext(p, w) <=> Covers(f, w) \/ Holds(p, w)
                      /\ ~(CoversNext(f, w) /\ HoldsNext(p, w))
    OBVIOUS
  <2>1. \A a \in Words : a # f => (CoversNext(a, w) <=> Covers(a, w))
    BY <1>2 DEF Covers, CoversNext
  <2>2. \A q \in Procs : q # p => (HoldsNext(q, w) <=> Holds(q, w))
    BY <1>3 DEF Holds, HoldsNext
  <2>3. w \in Nat
    BY WordRange
  <2>4. /\ CoversNext(f, w) \/ HoldsNext(p, w) <=> Covers(f, w) \/ Holds(p, w)
        /\ ~(CoversNext(f, w) /\ HoldsNext(p, w))
    BY <2>3, <1>1, <1>6
  <2> QED
    BY <2>1, <2>2, <2>4
<1>8. OneOwner' /\ EveryWordOwned'
  <2>1. Owners
    BY DEF Inv
  <2> QED
    BY <2>1, <1>1, <1>7, OwnersMove
<1> QED
  BY <1>4, <1>5, <1>8 DEF Owners

-----------------------------------------------------------------------------
(* The two additions of a block share what the lemmas about a push need. *)
LEMMA PushFacts ==
  ASSUME Inv, NEW p \in Procs, UpAdd(p) \/ DownAdd(p)
  PROVE  /\ freeIndex[p] \in Lists /\ freeIndex[p] > 0
         /\ freeBit(p) \in Nat /\ freeBit(p) > 0
         /\ start[p] \in Words /\ age[start[p]] = "none"
         /\ pc[p] \in Putting /\ start[p] + freeBit(p) <= to[p]
         /\ start[p] \in Nat /\ to[p] \in Nat
         /\ pc'[p] \in {"up", "down"}
         /\ \A q \in Procs : q # p => pc'[q] = pc[q] /\ freeIndex'[q] = freeIndex[q]
         /\ addToFree(p)
         /\ freeIndex' \in [Procs -> Lists] /\ pc' \in [Procs -> Labels]
         /\ UNCHANGED <<to, popVars, published>>
<1>1. freeIndex[p] \in Lists /\ freeIndex[p] > 0 /\ addToFree(p)
  BY DEF UpAdd, DownAdd, Inv, TypeOK
<1>2. freeBit(p) \in Nat /\ freeBit(p) > 0
  BY <1>1, BlockSizes DEF freeBit
<1>3. start[p] \in Nat /\ to[p] \in Nat
  BY DEF Inv, TypeOK
<1>4. pc[p] \in Putting /\ start[p] + freeBit(p) <= to[p]
  BY <1>2, <1>3 DEF UpAdd, DownAdd, UpFits, At, Putting
<1>5. start[p] \in Words /\ age[start[p]] = "none"
  BY <1>2, <1>3, <1>4, FirstWordIsBare
<1>6. freeIndex[p] < NFreeLists - 1 => freeIndex[p] + 1 \in Lists
  BY <1>1, ListRange, Sizes
<1>7. freeIndex[p] # NFreeLists - 1 => freeIndex[p] + 1 \in Lists
  BY <1>1, <1>6, ListRange, Sizes
<1>8. /\ pc'[p] \in {"up", "down"}
      /\ \A q \in Procs : q # p => pc'[q] = pc[q] /\ freeIndex'[q] = freeIndex[q]
      /\ freeIndex' \in [Procs -> Lists] /\ pc' \in [Procs -> Labels]
  <2>1. CASE UpAdd(p)
    <3>1. CASE freeIndex[p] = NFreeLists - 1
      BY <2>1, <3>1 DEF UpAdd, NextSize, Goto, Inv, TypeOK, Labels, Putting
    <3>2. CASE freeIndex[p] # NFreeLists - 1
      BY <2>1, <3>2, <1>7 DEF UpAdd, NextSize, Goto, Inv, TypeOK, Labels, Putting
    <3> QED
      BY <3>1, <3>2
  <2>2. CASE DownAdd(p)
    BY <2>2 DEF DownAdd, At, Inv, TypeOK
  <2> QED
    BY <2>1, <2>2
<1>9. UNCHANGED <<to, popVars, published>>
  BY DEF UpAdd, DownAdd
<1> QED
  BY <1>1, <1>2, <1>3, <1>4, <1>5, <1>8, <1>9

LEMMA CountFacts ==
  ASSUME Inv, NEW p \in Procs, CountWrite(p)
  PROVE  /\ freeIndex[p] = 0 /\ freeBit(p) = 1
         /\ start[p] \in Words /\ age[start[p]] = "none"
         /\ pc[p] \in Putting /\ start[p] + 1 <= to[p]
         /\ start[p] \in Nat /\ to[p] \in Nat
         /\ pc'[p] \in {"up", "down"}
         /\ \A q \in Procs : q # p => pc'[q] = pc[q] /\ freeIndex'[q] = freeIndex[q]
         /\ freeIndex' \in [Procs -> Lists] /\ pc' \in [Procs -> Labels]
<1>1. pc[p] \in {"countUp", "countDown"}
  BY DEF CountWrite, At
<1>2. pc[p] \in Putting /\ freeIndex[p] = 0 /\ start[p] < to[p]
  BY <1>1 DEF Inv, Owners, HandsOK, Putting
<1>3. start[p] \in Nat /\ to[p] \in Nat
  BY DEF Inv, TypeOK
<1>4. start[p] \in Words /\ age[start[p]] = "none"
  BY <1>2, FirstWordIsBare
<1>5. freeBit(p) = 1
  BY <1>2, BlockSizes DEF freeBit
<1>6. 0 # NFreeLists - 1 => 1 \in Lists
  BY Sizes, ListRange
<1>7. /\ pc'[p] \in {"up", "down"}
      /\ \A q \in Procs : q # p => pc'[q] = pc[q] /\ freeIndex'[q] = freeIndex[q]
      /\ freeIndex' \in [Procs -> Lists] /\ pc' \in [Procs -> Labels]
  <2>1. CASE NextSize(p)
    <3>1. CASE freeIndex[p] = NFreeLists - 1
      BY <2>1, <3>1 DEF NextSize, Goto, Inv, TypeOK, Labels, Putting
    <3>2. CASE freeIndex[p] # NFreeLists - 1
      BY <2>1, <3>2, <1>2, <1>6 DEF NextSize, Goto, Inv, TypeOK, Labels, Putting
    <3> QED
      BY <3>1, <3>2
  <2>2. CASE Goto(p, "down") /\ UNCHANGED freeIndex
    BY <2>2 DEF Goto, Inv, TypeOK, Labels, Putting
  <2> QED
    BY <2>1, <2>2 DEF CountWrite
<1> QED
  BY <1>2, <1>3, <1>4, <1>5, <1>7

-----------------------------------------------------------------------------
(* Every variable keeps its type; heads and links stay inside the heap       *)
(* because what is pushed is owned by the process that pushes it.            *)
LEMMA TypeStep ==
  ASSUME Inv, [Next]_vars
  PROVE  TypeOK'
<1> USE DEF TypeOK, memVars, popVars, putVars
<1>0. TypeOK
  BY DEF Inv
<1>1. ASSUME NEW p \in Procs, NEW r \in Requests, Alloc(p, r)
      PROVE  TypeOK'
  <2>1. pc' \in [Procs -> Labels]
    BY <1>0, <1>1 DEF Alloc, Goto, Labels
  <2> QED
    BY <2>1, <1>0, <1>1, FirstList DEF Alloc
<1>2. ASSUME NEW p \in Procs, Scan(p)
      PROVE  TypeOK'
  <2>1. pc' \in [Procs -> Labels]
    BY <1>0, <1>2 DEF Scan, Goto, Labels, Popping
  <2>2. index[p] > 0 /\ index[p] \in Lists
    BY <1>0, <1>2 DEF Inv, Fits, Searching, Scan, At
  <2>3. index[p] < NFreeLists - 1 => index[p] + 1 \in Lists
    BY <2>2, ListRange, Sizes
  <2>4. index' \in [Procs -> Lists]
    BY <1>0, <1>2, <2>3 DEF Scan
  <2>5. fle' \in [Procs -> Words \cup {Null}]
    BY <1>0, <1>2, <2>2 DEF Scan
  <2> QED
    BY <2>1, <2>4, <2>5, <1>0, <1>2 DEF Scan
<1>3. ASSUME NEW p \in Procs, ReadLink(p)
      PROVE  TypeOK'
  <2>1. pc' \in [Procs -> Labels]
    BY <1>0, <1>3 DEF ReadLink, Goto, Labels, Popping
  <2>2. fle[p] \in Words
    BY <1>3 DEF Inv, Snapshots, Popping, ReadLink, At
  <2>3. link' \in [Procs -> Words \cup {Null}]
    BY <1>0, <1>3, <2>2 DEF ReadLink
  <2> QED
    BY <2>1, <2>3, <1>0, <1>3 DEF ReadLink
<1>4. ASSUME NEW p \in Procs, Exchange(p)
      PROVE  TypeOK'
  <2>1. CASE list[index[p]] = fle[p] /\ Take(p)
    <3>1. pc[p] = "cas"
      BY <1>4 DEF Exchange, At
    <3>2. /\ index[p] \in Lists /\ index[p] > 0 /\ fle[p] \in Words
          /\ BlockSize[index[p]] \in Nat /\ aI[p].words \in Nat
      BY <2>1, <3>1, TakenBlock
    <3>3. fle[p] \in Nat
      BY <3>2, WordRange
    <3>4. link[p] \in Words \cup {Null} /\ link[p] \in Nat
      BY <1>0, WordRange DEF Null
    <3>5. /\ list' \in [Lists -> Nat]
          /\ \A i \in Lists : i > 0 => list'[i] \in Words \cup {Null}
      BY <1>0, <2>1, <3>4 DEF Take
    <3>6. pc' \in [Procs -> Labels]
      BY <1>0, <2>1 DEF Take, Goto, Labels, Putting
    <3>7. start' \in [Procs -> Nat] /\ to' \in [Procs -> Nat]
      BY <1>0, <2>1, <3>2, <3>3 DEF Take, remainder, sliceEnd
    <3>8. /\ age' \in [Words -> {"none", "free", "global"}]
          /\ length' \in [Words -> Nat]
          /\ freeIndex' \in [Procs -> Lists]
      BY <1>0, <2>1, <3>2, ListRange DEF Take
    <3> QED
      BY <1>0, <1>4, <3>5, <3>6, <3>7, <3>8 DEF Exchange
  <2>2. CASE Goto(p, "scan") /\ UNCHANGED <<list, age, length, start, to, freeIndex>>
    <3>1. pc' \in [Procs -> Labels]
      BY <1>0, <2>2 DEF Goto, Labels
    <3> QED
      BY <1>0, <1>4, <2>2, <3>1 DEF Exchange
  <2> QED
    BY <1>4, <2>1, <2>2 DEF Exchange
<1>5. ASSUME NEW p \in Procs, UpSkip(p)
      PROVE  TypeOK'
  <2>0. freeIndex[p] \in Lists
    BY <1>0
  <2>1. freeIndex[p] # NFreeLists - 1 => freeIndex[p] + 1 \in Lists
    BY <2>0, Sizes DEF Lists
  <2>2. pc' \in [Procs -> Labels] /\ freeIndex' \in [Procs -> Lists]
    <3>1. CASE freeIndex[p] = NFreeLists - 1
      BY <1>0, <1>5, <3>1 DEF UpSkip, NextSize, Goto, Labels, Putting
    <3>2. CASE freeIndex[p] # NFreeLists - 1
      BY <1>0, <1>5, <2>1, <3>2 DEF UpSkip, NextSize, Goto, Labels, Putting
    <3> QED
      BY <3>1, <3>2
  <2> QED
    BY <2>2, <1>0, <1>5 DEF UpSkip
<1>6. ASSUME NEW p \in Procs, UpAdd(p) \/ DownAdd(p)
      PROVE  TypeOK'
  <2>1. /\ freeIndex[p] \in Lists /\ freeBit(p) \in Nat
        /\ start[p] \in Words /\ start[p] \in Nat /\ freeIndex[p] > 0
        /\ addToFree(p)
        /\ freeIndex' \in [Procs -> Lists] /\ pc' \in [Procs -> Labels]
        /\ UNCHANGED <<to, popVars, published>>
    BY <1>6, PushFacts
  <2>2. list[freeIndex[p]] \in Words \cup {Null}
    BY <1>0, <2>1
  <2>3. /\ list' \in [Lists -> Nat]
        /\ \A i \in Lists : i > 0 => list'[i] \in Words \cup {Null}
        /\ next' \in [Words -> Words \cup {Null}]
    BY <1>0, <2>1, <2>2 DEF addToFree
  <2>4. /\ age' \in [Words -> {"none", "free", "global"}]
        /\ length' \in [Words -> Nat]
        /\ start' \in [Procs -> Nat]
        /\ count' = count
    BY <1>0, <2>1 DEF addToFree, MarkFree
  <2> QED
    BY <1>0, <2>1, <2>3, <2>4
<1>7. ASSUME NEW p \in Procs, UpDone(p)
      PROVE  TypeOK'
  <2>1. pc' \in [Procs -> Labels]
    BY <1>0, <1>7 DEF UpDone, Goto, Labels, Putting
  <2> QED
    BY <2>1, <1>0, <1>7 DEF UpDone
<1>8. ASSUME NEW p \in Procs, DownSkip(p)
      PROVE  TypeOK'
  <2>1. freeIndex[p] \in Lists /\ start[p] \in Nat /\ to[p] \in Nat
    BY <1>0
  <2>2. freeIndex[p] # 0
    BY <1>8, <2>1, BlockSizes DEF DownSkip, freeBit
  <2>3. freeIndex[p] - 1 \in Lists
    BY <2>1, <2>2, Sizes DEF Lists
  <2> QED
    BY <2>3, <1>0, <1>8 DEF DownSkip
<1>9. ASSUME NEW p \in Procs, CountRead(p)
      PROVE  TypeOK'
  <2>1. pc' \in [Procs -> Labels]
    BY <1>0, <1>9 DEF CountRead, Goto, Labels, Putting
  <2>2. list[0] \in Nat
    BY <1>0, ListRange
  <2> QED
    BY <2>1, <2>2, <1>0, <1>9 DEF CountRead
<1>10. ASSUME NEW p \in Procs, CountWrite(p)
       PROVE  TypeOK'
  <2>1. /\ freeBit(p) = 1 /\ start[p] \in Words /\ start[p] \in Nat
        /\ freeIndex' \in [Procs -> Lists] /\ pc' \in [Procs -> Labels]
    BY <1>10, CountFacts
  <2>2. /\ list' \in [Lists -> Nat]
        /\ \A i \in Lists : i > 0 => list'[i] \in Words \cup {Null}
    BY <1>0, <1>10, ListRange DEF CountWrite
  <2>3. /\ age' \in [Words -> {"none", "free", "global"}]
        /\ length' \in [Words -> Nat]
        /\ start' \in [Procs -> Nat]
    BY <1>0, <1>10, <2>1 DEF CountWrite, MarkFree
  <2> QED
    BY <1>0, <1>10, <2>1, <2>2, <2>3 DEF CountWrite
<1>11. ASSUME NEW p \in Procs, Return(p)
       PROVE  TypeOK'
  <2>1. pc' \in [Procs -> Labels]
    BY <1>0, <1>11 DEF Return, Goto, Labels
  <2>2. AnyInfo \in Requests
    BY HeapAssumption DEF AnyInfo
  <2>3. Size \in Nat
    BY Sizes
  <2> QED
    BY <2>1, <2>2, <2>3, <1>0, <1>11, ListRange DEF Return
<1>12. CASE UNCHANGED vars
  BY <1>0, <1>12 DEF vars
<1> QED
  BY <1>1, <1>2, <1>3, <1>4, <1>5, <1>6, <1>7, <1>8, <1>9, <1>10, <1>11, <1>12
  DEF Next, Step

-----------------------------------------------------------------------------
LEMMA FitsStep ==
  ASSUME Inv, [Next]_vars
  PROVE  Fits'
<1> USE DEF Fits, Searching, Popping
<1>0. Fits
  BY DEF Inv
<1>1. ASSUME NEW p \in Procs, NEW r \in Requests, Alloc(p, r)
      PROVE  Fits'
  <2>1. /\ index'[p] = bitsToRepresent(r.words) /\ aI'[p] = r
        /\ \A q \in Procs : q # p =>
             index'[q] = index[q] /\ aI'[q] = aI[q] /\ pc'[q] = pc[q]
    BY <1>1 DEF Alloc, Goto, Inv, TypeOK
  <2> QED
    BY <2>1, <1>0, FirstList
<1>2. ASSUME NEW p \in Procs, Scan(p)
      PROVE  Fits'
  <2>1. /\ index[p] \in Lists /\ index[p] > 0 /\ aI[p].words \in Nat
        /\ aI[p].words < BlockSize[index[p]]
    <3>1. pc[p] = "scan" /\ aI[p] \in Requests /\ index[p] \in Lists
      BY <1>2 DEF Scan, At, Inv, TypeOK
    <3> QED
      BY <3>1, <1>0, FirstList
  <2>2. CASE UNCHANGED index
    <3>1. \A q \in Procs : pc'[q] \in {"scan", "read", "cas"} =>
                             pc[q] \in {"scan", "read", "cas"}
      BY <1>2 DEF Scan, At, Goto, Inv, TypeOK
    <3> QED
      BY <1>0, <1>2, <2>2, <3>1 DEF Scan
  <2>3. CASE index[p] < NFreeLists - 1 /\ index' = [index EXCEPT ![p] = @ + 1]
             /\ UNCHANGED pc
    <3>1. index[p] + 1 \in Lists /\ index[p] + 1 > 0
      BY <2>1, <2>3, Sizes DEF Lists
    <3>2. BlockSize[index[p]] < BlockSize[index[p] + 1]
      BY <2>1, <3>1, BlockSizes, ListRange
    <3>3. aI[p].words < BlockSize[index[p] + 1]
      BY <2>1, <3>1, <3>2, BlockSizes
    <3>4. index'[p] = index[p] + 1 /\ \A q \in Procs : q # p => index'[q] = index[q]
      BY <2>3 DEF Inv, TypeOK
    <3> QED
      BY <1>0, <1>2, <2>3, <3>1, <3>3, <3>4 DEF Scan
  <2> QED
    BY <1>2, <2>2, <2>3 DEF Scan
<1>3. ASSUME NEW p \in Procs, ReadLink(p)
      PROVE  Fits'
  BY <1>0, <1>3 DEF ReadLink, At, Goto, Inv, TypeOK
<1>4. ASSUME NEW p \in Procs, Exchange(p)
      PROVE  Fits'
  BY <1>0, <1>4 DEF Exchange, Take, At, Goto, Inv, TypeOK, popVars
<1>5. ASSUME NEW p \in Procs, UpSkip(p)
      PROVE  Fits'
  BY <1>0, <1>5 DEF UpSkip, NextSize, Goto, Inv, TypeOK, popVars
<1>6. ASSUME NEW p \in Procs, UpAdd(p) \/ DownAdd(p)
      PROVE  Fits'
  BY <1>0, <1>6, PushFacts DEF popVars
<1>7. ASSUME NEW p \in Procs, UpDone(p)
      PROVE  Fits'
  BY <1>0, <1>7 DEF UpDone, Goto, Inv, TypeOK, popVars
<1>8. ASSUME NEW p \in Procs, DownSkip(p)
      PROVE  Fits'
  BY <1>0, <1>8 DEF DownSkip, popVars
<1>9. ASSUME NEW p \in Procs, CountRead(p)
      PROVE  Fits'
  BY <1>0, <1>9 DEF CountRead, Goto, Inv, TypeOK, popVars
<1>10. ASSUME NEW p \in Procs, CountWrite(p)
       PROVE  Fits'
  BY <1>0, <1>10, CountFacts DEF CountWrite, popVars
<1>11. ASSUME NEW p \in Procs, Return(p)
       PROVE  Fits'
  BY <1>0, <1>11 DEF Return, Goto, Inv, TypeOK
<1>12. CASE UNCHANGED vars
  BY <1>0, <1>12 DEF vars, popVars
<1> QED
  BY <1>1, <1>2, <1>3, <1>4, <1>5, <1>6, <1>7, <1>8, <1>9, <1>10, <1>11, <1>12
  DEF Next, Step

(* Every word keeps exactly one owner. *)
LEMMA OwnersStep ==
  ASSUME Inv, [Next]_vars
  PROVE  Owners'
<1> USE DEF memVars, putVars, Putting
<1>1. ASSUME NEW p \in Procs, NEW r \in Requests, Alloc(p, r)
      PROVE  Owners'
  <2>1. pc'[p] = "scan" /\ pc[p] = "idle" /\ \A q \in Procs : q # p => pc'[q] = pc[q]
    BY <1>1 DEF Alloc, At, Goto, Inv, TypeOK
  <2> QED
    BY <2>1, <1>1, OwnersKept DEF Alloc, Inv, Owners, HandsOK
<1>2. ASSUME NEW p \in Procs, Scan(p) \/ ReadLink(p)
      PROVE  Owners'
  <2>1. pc[p] \notin Putting /\ pc'[p] \notin Putting
        /\ \A q \in Procs : q # p => pc'[q] = pc[q]
    BY <1>2 DEF Scan, ReadLink, At, Goto, Inv, TypeOK
  <2> QED
    BY <2>1, <1>2, OwnersKept DEF Scan, ReadLink, Inv, Owners, HandsOK
<1>3. ASSUME NEW p \in Procs, Exchange(p)
      PROVE  Owners'
  <2>1. CASE list[index[p]] = fle[p] /\ Take(p)
    BY <2>1, <1>3, OwnersTake DEF Exchange, At
  <2>2. CASE Goto(p, "scan") /\ UNCHANGED <<list, age, length, start, to, freeIndex>>
    <3>1. pc[p] = "cas" /\ pc'[p] = "scan" /\ \A q \in Procs : q # p => pc'[q] = pc[q]
      BY <1>3, <2>2 DEF Exchange, At, Goto, Inv, TypeOK
    <3> QED
      BY <3>1, <2>2, OwnersKept DEF Inv, Owners, HandsOK
  <2> QED
    BY <1>3, <2>1, <2>2 DEF Exchange
<1>4. ASSUME NEW p \in Procs, UpSkip(p) \/ UpDone(p) \/ DownSkip(p)
      PROVE  Owners'
  <2>1. /\ pc[p] \in {"up", "down"} /\ pc'[p] \in {"up", "down"}
        /\ \A q \in Procs : q # p => pc'[q] = pc[q] /\ freeIndex'[q] = freeIndex[q]
        /\ UNCHANGED <<age, length, start, to>>
    BY <1>4 DEF UpSkip, UpDone, DownSkip, UpFits, NextSize, At, Goto, Inv, TypeOK
  <2> QED
    BY <2>1, OwnersKept DEF Inv, Owners, HandsOK
<1>5. ASSUME NEW p \in Procs, UpAdd(p) \/ DownAdd(p)
      PROVE  Owners'
  BY <1>5, PushFacts, OwnersPush DEF addToFree, MarkFree
<1>6. ASSUME NEW p \in Procs, CountRead(p)
      PROVE  Owners'
  <2>1. /\ pc[p] \in {"up", "down"} /\ pc'[p] \in {"countUp", "countDown"}
        /\ \A q \in Procs : q # p => pc'[q] = pc[q]
        /\ freeIndex[p] = 0
        /\ UNCHANGED <<age, length, start, to, freeIndex>>
    BY <1>6 DEF CountRead, UpFits, At, Goto, Inv, TypeOK
  <2>2. start[p] \in Nat /\ to[p] \in Nat
    BY DEF Inv, TypeOK
  <2>3. start[p] < to[p]
    BY <1>6, <2>1, <2>2, BlockSizes DEF CountRead, UpFits, freeBit
  <2> QED
    BY <2>1, <2>3, OwnersKept DEF Inv, Owners, HandsOK
<1>7. ASSUME NEW p \in Procs, CountWrite(p)
      PROVE  Owners'
  <2>1. MarkFree(p) /\ to' = to
    BY <1>7 DEF CountWrite
  <2> QED
    <3>1. /\ age' = [age EXCEPT ![start[p]] = "free"]
          /\ length' = [length EXCEPT ![start[p]] = 1]
          /\ start' = [start EXCEPT ![p] = @ + 1]
      BY <1>7, <2>1, CountFacts DEF MarkFree
    <3>2. /\ pc[p] \in Putting /\ start[p] + 1 <= to[p]
          /\ pc'[p] \in Putting \ {"countUp", "countDown"}
          /\ \A q \in Procs : q # p => pc'[q] = pc[q] /\ freeIndex'[q] = freeIndex[q]
      BY <1>7, CountFacts
    <3>3. 1 \in Nat /\ 1 > 0
      OBVIOUS
    <3> QED
      BY <2>1, <3>1, <3>2, <3>3, OwnersPush
<1>8. ASSUME NEW p \in Procs, Return(p)
      PROVE  Owners'
  <2>1. /\ pc[p] = "down" /\ pc'[p] \in {"external", "idle"} /\ start[p] >= to[p]
        /\ \A q \in Procs : q # p => /\ pc'[q] = pc[q] /\ start'[q] = start[q]
                                     /\ to'[q] = to[q] /\ freeIndex'[q] = freeIndex[q]
        /\ UNCHANGED <<age, length>>
    BY <1>8 DEF Return, At, Goto, Inv, TypeOK
  <2> QED
    BY <2>1, OwnersKept DEF Inv, Owners, HandsOK
<1>9. CASE UNCHANGED vars
  BY <1>9, OwnersKept DEF vars, Inv, Owners, HandsOK
<1> QED
  BY <1>1, <1>2, <1>3, <1>4, <1>5, <1>6, <1>7, <1>8, <1>9 DEF Next, Step

-----------------------------------------------------------------------------
(* A push puts a block in front of its list: nothing pointed to it before.   *)
LEMMA ListsPush ==
  ASSUME Inv, NEW p \in Procs, UpAdd(p) \/ DownAdd(p)
  PROVE  ListsLinked'
<1> DEFINE s == start[p]
           k == freeIndex[p]
<1>1. /\ k \in Lists /\ k > 0 /\ s \in Words /\ age[s] = "none"
      /\ addToFree(p)
  BY PushFacts
<1>2. /\ age'[s] = "free" /\ length'[s] = BlockSize[k] /\ next'[s] = list[k]
      /\ \A a \in Words : a # s =>
           age'[a] = age[a] /\ length'[a] = length[a] /\ next'[a] = next[a]
      /\ list'[k] = s /\ \A i \in Lists : i # k => list'[i] = list[i]
  BY <1>1 DEF addToFree, MarkFree, freeBit, Inv, TypeOK
<1> HIDE DEF s, k
<1> SUFFICES ASSUME NEW i \in Lists, i > 0
             PROVE  /\ list'[i] # Null =>
                         age'[list'[i]] = "free" /\ length'[list'[i]] = BlockSize[i]
                    /\ \A a \in Words :
                         age'[a] = "free" /\ length'[a] = BlockSize[i] /\ next'[a] # Null =>
                         /\ age'[next'[a]] = "free" /\ length'[next'[a]] = BlockSize[i]
                         /\ next'[a] # list'[i]
                         /\ \A b \in Words :
                              age'[b] = "free" /\ length'[b] = BlockSize[i]
                              /\ next'[b] = next'[a] => a = b
  BY DEF ListsLinked, Listed
<1>3. /\ list[i] # Null => age[list[i]] = "free" /\ length[list[i]] = BlockSize[i]
      /\ \A a \in Words :
           age[a] = "free" /\ length[a] = BlockSize[i] /\ next[a] # Null =>
           /\ age[next[a]] = "free" /\ length[next[a]] = BlockSize[i]
           /\ next[a] # list[i]
           /\ \A b \in Words :
                age[b] = "free" /\ length[b] = BlockSize[i] /\ next[b] = next[a] => a = b
  BY DEF Inv, ListsLinked, Listed
<1>4. /\ list[i] \in Words \cup {Null}
      /\ \A a \in Words : next[a] \in Words \cup {Null}
  BY DEF Inv, TypeOK
<1>5. CASE i = k
  BY <1>1, <1>2, <1>3, <1>4, <1>5
<1>6. CASE i # k
  <2>1. BlockSize[i] # BlockSize[k]
    BY <1>1, <1>6, DistinctSizes
  <2> QED
    BY <1>1, <1>2, <1>3, <1>4, <1>6, <2>1
<1> QED
  BY <1>5, <1>6

(* A single word counted in list 0 is on no other list. *)
LEMMA ListsCount ==
  ASSUME Inv, NEW p \in Procs, CountWrite(p)
  PROVE  ListsLinked'
<1> DEFINE s == start[p]
<1>1. s \in Words /\ age[s] = "none" /\ freeBit(p) = 1
  BY CountFacts
<1>2. /\ age'[s] = "free" /\ length'[s] = 1 /\ next' = next
      /\ \A a \in Words : a # s => age'[a] = age[a] /\ length'[a] = length[a]
      /\ \A i \in Lists : i # 0 => list'[i] = list[i]
  BY <1>1 DEF CountWrite, MarkFree, Inv, TypeOK
<1> HIDE DEF s
<1> SUFFICES ASSUME NEW i \in Lists, i > 0
             PROVE  /\ list'[i] # Null =>
                         age'[list'[i]] = "free" /\ length'[list'[i]] = BlockSize[i]
                    /\ \A a \in Words :
                         age'[a] = "free" /\ length'[a] = BlockSize[i] /\ next'[a] # Null =>
                         /\ age'[next'[a]] = "free" /\ length'[next'[a]] = BlockSize[i]
                         /\ next'[a] # list'[i]
                         /\ \A b \in Words :
                              age'[b] = "free" /\ length'[b] = BlockSize[i]
                              /\ next'[b] = next'[a] => a = b
  BY DEF ListsLinked, Listed
<1>3. /\ list[i] # Null => age[list[i]] = "free" /\ length[list[i]] = BlockSize[i]
      /\ \A a \in Words :
           age[a] = "free" /\ length[a] = BlockSize[i] /\ next[a] # Null =>
           /\ age[next[a]] = "free" /\ length[next[a]] = BlockSize[i]
           /\ next[a] # list[i]
           /\ \A b \in Words :
                age[b] = "free" /\ length[b] = BlockSize[i] /\ next[b] = next[a] => a = b
  BY DEF Inv, ListsLinked, Listed
<1>4. /\ list[i] \in Words \cup {Null}
      /\ \A a \in Words : next[a] \in Words \cup {Null}
  BY DEF Inv, TypeOK
<1>5. BlockSize[i] # 1 /\ i # 0
  BY BlockSizes, ListRange
<1> QED
  BY <1>1, <1>2, <1>3, <1>4, <1>5

(* A successful exchange unlinks the first block and no other. *)
LEMMA ListsTake ==
  ASSUME Inv, NEW p \in Procs, pc[p] = "cas", list[index[p]] = fle[p], Take(p),
         UNCHANGED next
  PROVE  ListsLinked'
<1> DEFINE f == fle[p]
           k == index[p]
<1>1. /\ k \in Lists /\ k > 0 /\ f \in Words /\ age[f] = "free"
      /\ length[f] = BlockSize[k] /\ list[k] = f
  BY TakenBlock DEF Listed
<1>2. link[p] = next[f]
  BY <1>1 DEF Inv, Snapshots, Popping
<1>3. /\ age'[f] = "global"
      /\ \A a \in Words : a # f => age'[a] = age[a] /\ length'[a] = length[a]
      /\ list'[k] = next[f] /\ \A i \in Lists : i # k => list'[i] = list[i]
  BY <1>1, <1>2 DEF Take, Inv, TypeOK
<1> HIDE DEF f, k
<1> SUFFICES ASSUME NEW i \in Lists, i > 0
             PROVE  /\ list'[i] # Null =>
                         age'[list'[i]] = "free" /\ length'[list'[i]] = BlockSize[i]
                    /\ \A a \in Words :
                         age'[a] = "free" /\ length'[a] = BlockSize[i] /\ next'[a] # Null =>
                         /\ age'[next'[a]] = "free" /\ length'[next'[a]] = BlockSize[i]
                         /\ next'[a] # list'[i]
                         /\ \A b \in Words :
                              age'[b] = "free" /\ length'[b] = BlockSize[i]
                              /\ next'[b] = next'[a] => a = b
  BY DEF ListsLinked, Listed
<1>4. /\ list[i] # Null => age[list[i]] = "free" /\ length[list[i]] = BlockSize[i]
      /\ \A a \in Words :
           age[a] = "free" /\ length[a] = BlockSize[i] /\ next[a] # Null =>
           /\ age[next[a]] = "free" /\ length[next[a]] = BlockSize[i]
           /\ next[a] # list[i]
           /\ \A b \in Words :
                age[b] = "free" /\ length[b] = BlockSize[i] /\ next[b] = next[a] => a = b
  BY DEF Inv, ListsLinked, Listed
<1>5. /\ list[i] \in Words \cup {Null}
      /\ \A a \in Words : next[a] \in Words \cup {Null}
  BY DEF Inv, TypeOK
<1>6. CASE i = k
  BY <1>1, <1>3, <1>4, <1>5, <1>6
<1>7. CASE i # k
  <2>1. BlockSize[i] # BlockSize[k]
    BY <1>1, <1>7, DistinctSizes
  <2> QED
    BY <1>1, <1>3, <1>4, <1>5, <1>7, <2>1
<1> QED
  BY <1>6, <1>7

LEMMA ListsStep ==
  ASSUME Inv, [Next]_vars
  PROVE  ListsLinked'
<1>1. ASSUME UNCHANGED memVars
      PROVE  ListsLinked'
  BY <1>1 DEF memVars, Inv, ListsLinked, Listed
<1>2. ASSUME NEW p \in Procs, Exchange(p)
      PROVE  ListsLinked'
  <2>1. CASE list[index[p]] = fle[p] /\ Take(p)
    BY <2>1, <1>2, ListsTake DEF Exchange, At
  <2>2. CASE UNCHANGED <<list, age, length, start, to, freeIndex>>
    BY <1>1, <1>2, <2>2 DEF Exchange, memVars
  <2> QED
    BY <1>2, <2>1, <2>2 DEF Exchange
<1>3. ASSUME NEW p \in Procs,
             \/ \E r \in Requests : Alloc(p, r)
             \/ Scan(p) \/ ReadLink(p) \/ UpSkip(p) \/ UpDone(p) \/ DownSkip(p)
             \/ CountRead(p) \/ Return(p)
      PROVE  UNCHANGED memVars
  BY <1>3 DEF Alloc, Scan, ReadLink, UpSkip, UpDone, DownSkip, CountRead, Return
<1>4. UNCHANGED vars => UNCHANGED memVars
  BY DEF vars
<1> QED
  BY <1>1, <1>2, <1>3, <1>4, ListsPush, ListsCount DEF Next, Step

(* What a process read of a list element stays true while it is on the list. *)
LEMMA SnapshotsStep ==
  ASSUME Inv, [Next]_vars
  PROVE  Snapshots'
<1> USE DEF Snapshots, Popping
<1>0. Snapshots /\ TypeOK
  BY DEF Inv
<1>1. ASSUME NEW p \in Procs, Scan(p)
      PROVE  Snapshots'
  <2>1. pc[p] = "scan" /\ index[p] \in Lists /\ index[p] > 0
    BY <1>1 DEF Scan, At, Inv, TypeOK, Fits, Searching
  <2>2. CASE /\ list[index[p]] # Null
             /\ fle' = [fle EXCEPT ![p] = list[index[p]]]
             /\ Goto(p, "read") /\ UNCHANGED index
    <3>1. list[index[p]] \in Words /\ Listed(list[index[p]], index[p])
      BY <2>1, <2>2 DEF Inv, TypeOK, ListsLinked
    <3>2. fle'[p] = list[index[p]] /\ pc'[p] = "read"
          /\ \A q \in Procs : q # p => fle'[q] = fle[q] /\ pc'[q] = pc[q]
      BY <2>2 DEF Goto, Inv, TypeOK
    <3> QED
      BY <1>0, <1>1, <2>2, <3>1, <3>2 DEF Scan, memVars, Listed
  <2>3. CASE pc'[p] \notin Popping /\ UNCHANGED fle
             /\ \A q \in Procs : q # p => pc'[q] = pc[q] /\ index'[q] = index[q]
    BY <1>0, <1>1, <2>3 DEF Scan, memVars
  <2>4. CASE \/ index' = [index EXCEPT ![p] = @ + 1] /\ UNCHANGED <<pc, fle>>
             \/ Goto(p, "exhausted") /\ UNCHANGED <<index, fle>>
    BY <2>1, <2>3, <2>4 DEF Goto, Inv, TypeOK
  <2> QED
    BY <1>1, <2>2, <2>4 DEF Scan
<1>2. ASSUME NEW p \in Procs, ReadLink(p)
      PROVE  Snapshots'
  <2>1. pc[p] = "read" /\ pc'[p] = "cas" /\ \A q \in Procs : q # p => pc'[q] = pc[q]
    BY <1>2 DEF ReadLink, At, Goto, Inv, TypeOK
  <2>2. /\ \A q \in Procs : q # p => link'[q] = link[q]
        /\ age[fle[p]] = "free" => link'[p] = next[fle[p]]
    BY <1>0, <1>2 DEF ReadLink, TypeOK
  <2> QED
    BY <1>0, <1>2, <2>1, <2>2 DEF ReadLink, memVars
<1>3. ASSUME NEW p \in Procs, Exchange(p)
      PROVE  Snapshots'
  <2>1. /\ pc[p] = "cas" /\ pc'[p] \in {"up", "scan"}
        /\ \A q \in Procs : q # p => pc'[q] = pc[q]
        /\ UNCHANGED <<next, popVars>>
    BY <1>3 DEF Exchange, Take, At, Goto, Inv, TypeOK
  <2>2. CASE list[index[p]] = fle[p] /\ Take(p)
    <3>1. fle[p] \in Words
      BY <1>0, <2>1
    <3>2. age'[fle[p]] = "global"
          /\ \A a \in Words : a # fle[p] => age'[a] = age[a] /\ length'[a] = length[a]
      BY <1>0, <2>2, <3>1 DEF Take, TypeOK
    <3> QED
      BY <1>0, <2>1, <3>2 DEF popVars
  <2>3. CASE UNCHANGED <<age, length>>
    BY <1>0, <2>1, <2>3 DEF popVars
  <2> QED
    BY <1>3, <2>2, <2>3 DEF Exchange
<1>4. ASSUME NEW p \in Procs, UpAdd(p) \/ DownAdd(p)
      PROVE  Snapshots'
  <2>1. /\ start[p] \in Words /\ age[start[p]] = "none" /\ addToFree(p)
        /\ pc[p] \in Putting /\ pc'[p] \in {"up", "down"}
        /\ \A q \in Procs : q # p => pc'[q] = pc[q]
        /\ UNCHANGED popVars
    BY <1>4, PushFacts
  <2>2. \A a \in Words : a # start[p] =>
          age'[a] = age[a] /\ length'[a] = length[a] /\ next'[a] = next[a]
    BY <1>0, <2>1 DEF addToFree, MarkFree, TypeOK
  <2> QED
    BY <1>0, <2>1, <2>2 DEF popVars
<1>5. ASSUME NEW p \in Procs, CountWrite(p)
      PROVE  Snapshots'
  <2>1. /\ start[p] \in Words /\ age[start[p]] = "none"
        /\ pc'[p] \in {"up", "down"}
        /\ \A q \in Procs : q # p => pc'[q] = pc[q]
        /\ UNCHANGED <<next, popVars>>
    BY <1>5, CountFacts DEF CountWrite
  <2>2. \A a \in Words : a # start[p] => age'[a] = age[a] /\ length'[a] = length[a]
    BY <1>0, <1>5, <2>1 DEF CountWrite, MarkFree, TypeOK
  <2> QED
    BY <1>0, <2>1, <2>2 DEF popVars
<1>6. ASSUME NEW p \in Procs,
             \/ \E r \in Requests : Alloc(p, r)
             \/ UpSkip(p) \/ UpDone(p) \/ DownSkip(p) \/ CountRead(p) \/ Return(p)
      PROVE  /\ pc'[p] \notin Popping
             /\ \A q \in Procs : q # p =>
                  /\ pc'[q] = pc[q] /\ fle'[q] = fle[q] /\ link'[q] = link[q]
                  /\ index'[q] = index[q]
             /\ UNCHANGED <<next, age, length>>
  BY <1>0, <1>6
  DEF Alloc, UpSkip, UpDone, DownSkip, CountRead, Return, UpFits, NextSize, At, Goto,
      TypeOK, memVars, popVars
<1>7. ASSUME NEW p \in Procs,
             /\ pc'[p] \notin Popping
             /\ \A q \in Procs : q # p =>
                  /\ pc'[q] = pc[q] /\ fle'[q] = fle[q] /\ link'[q] = link[q]
                  /\ index'[q] = index[q]
             /\ UNCHANGED <<next, age, length>>
      PROVE  Snapshots'
  BY <1>0, <1>7
<1>8. CASE UNCHANGED vars
  BY <1>0, <1>8 DEF vars, memVars, popVars
<1> QED
  BY <1>1, <1>2, <1>3, <1>4, <1>5, <1>6, <1>7, <1>8 DEF Next, Step

-----------------------------------------------------------------------------
LEMMA InvStep == Inv /\ [Next]_vars => Inv'
  BY TypeStep, FitsStep, OwnersStep, ListsStep, SnapshotsStep DEF Inv

LEMMA Invariance == Spec => []Inv
  BY InvInit, InvStep, PTL DEF Spec

(* allocBlock and putInFreeLists keep every variable in its type: no list    *)
(* head, link or header is ever outside the heap or inside its header.       *)
THEOREM TypeCorrect == Spec => []TypeOK
<1>1. Inv => TypeOK
  BY DEF Inv
<1> QED
  BY Invariance, <1>1, PTL

LEMMA OwnersApart == Inv => NoOverlap
<1> SUFFICES ASSUME Inv PROVE NoOverlap
  OBVIOUS
<1>1. ASSUME NEW a \in Blocks
      PROVE  length[a] > 0 /\ length[a] \in Nat /\ a \in Words /\ a \in Nat
             /\ Extent(a) \subseteq Words
             /\ \A w \in Extent(a) : Covers(a, w)
  <2>1. a \in Words /\ age[a] # "none" /\ length[a] \in Nat
    BY DEF Blocks, Inv, TypeOK
  <2>2. length[a] > 0 /\ a + length[a] <= Size
    BY <2>1 DEF Inv, Owners, BlocksOK
  <2>3. a \in Nat /\ HeaderSize <= a
    BY <2>1, WordRange
  <2>4. ASSUME NEW w \in Extent(a) PROVE w \in Words /\ Covers(a, w)
    <3>1. w \in Nat /\ a <= w /\ w < a + length[a]
      BY <2>1, <2>3, <2>4 DEF Extent
    <3>2. HeaderSize <= w /\ w < Size
      BY <2>1, <2>2, <2>3, <3>1, Sizes
    <3> QED
      BY <2>1, <3>1, <3>2, WordRange DEF Covers
  <2> QED
    BY <2>1, <2>2, <2>3, <2>4
<1>2. ASSUME NEW p \in Procs
      PROVE  InHand(p) \subseteq Words /\ \A w \in InHand(p) : Holds(p, w)
  <2> SUFFICES ASSUME NEW w \in InHand(p) PROVE w \in Words /\ Holds(p, w)
    OBVIOUS
  <2>1. pc[p] \in Putting /\ w \in start[p] .. to[p] - 1
    BY DEF InHand
  <2>2. start[p] \in Nat /\ to[p] \in Nat
    BY DEF Inv, TypeOK
  <2>3. HeaderSize <= start[p] /\ to[p] <= Size
    BY <2>1 DEF Inv, Owners, HandsOK
  <2>4. w \in Nat /\ start[p] <= w /\ w < to[p]
    BY <2>1, <2>2
  <2>5. HeaderSize <= w /\ w < Size
    BY <2>2, <2>3, <2>4, Sizes
  <2> QED
    BY <2>1, <2>4, <2>5, WordRange DEF Holds
<1>3. ASSUME NEW a \in Blocks, NEW b \in Blocks, a # b
      PROVE  Extent(a) \cap Extent(b) = {}
  BY <1>1, <1>3 DEF Inv, Owners, OneOwner
<1>4. ASSUME NEW p \in Procs, NEW a \in Blocks
      PROVE  InHand(p) \cap Extent(a) = {}
  BY <1>1, <1>2 DEF Inv, Owners, OneOwner
<1>5. ASSUME NEW p \in Procs, NEW q \in Procs, p # q
      PROVE  InHand(p) \cap InHand(q) = {}
  BY <1>2, <1>5 DEF Inv, Owners, OneOwner
<1> QED
  BY <1>1, <1>2, <1>3, <1>4, <1>5 DEF NoOverlap

(* allocBlock is correct without a lock: two processes never get hold of one *)
(* word, and no object overlaps a free block.                                *)
THEOREM WordsExclusive == Spec => []NoOverlap
  BY Invariance, OwnersApart, PTL

LEMMA OwnersComplete == Inv => NothingLost
<1> SUFFICES ASSUME Inv, NEW w \in Words
             PROVE  \/ \E a \in Blocks : w \in Extent(a)
                    \/ \E p \in Procs : w \in InHand(p)
  BY DEF NothingLost
<1>0. w \in Nat
  BY WordRange
<1>1. ASSUME NEW a \in Words, Covers(a, w)
      PROVE  a \in Blocks /\ w \in Extent(a)
  <2>1. a \in Nat /\ length[a] \in Nat
    BY WordRange DEF Inv, TypeOK
  <2> QED
    BY <1>0, <1>1, <2>1 DEF Covers, Blocks, Extent
<1>2. ASSUME NEW p \in Procs, Holds(p, w)
      PROVE  w \in InHand(p)
  <2>1. start[p] \in Nat /\ to[p] \in Nat
    BY DEF Inv, TypeOK
  <2> QED
    BY <1>0, <1>2, <2>1 DEF Holds, InHand
<1> QED
  BY <1>1, <1>2 DEF Inv, Owners, EveryWordOwned

(* No interleaving of pops and pushes leaks a word of the heap.              *)
THEOREM WordsConserved == Spec => []NothingLost
  BY Invariance, OwnersComplete, PTL

LEMMA SnapshotsFresh == Inv => NoStaleLink
<1> SUFFICES ASSUME Inv, NEW p \in Procs, pc[p] = "cas", list[index[p]] = fle[p]
             PROVE  link[p] = next[fle[p]]
  BY DEF NoStaleLink
<1>1. age[fle[p]] = "free"
  BY TakenBlock DEF Listed
<1> QED
  BY <1>1 DEF Inv, Snapshots, Popping

(* The free lists have no ABA problem: a successful exchange stores the link *)
(* the block has at that moment.                                             *)
THEOREM LinksFresh == Spec => []NoStaleLink
  BY Invariance, SnapshotsFresh, PTL

-----------------------------------------------------------------------------
(* Only a successful exchange makes an object, and it is apart from others.  *)
LEMMA ArenaStep ==
  ASSUME Inv, Inv', [Next]_vars
  PROVE  [Arena!Next]_Objects
<1>1. ASSUME UNCHANGED <<age, length>>
      PROVE  UNCHANGED Objects
  BY <1>1 DEF Objects
<1>2. ASSUME NEW p \in Procs, NEW s \in Words, age[s] = "none",
             age' = [age EXCEPT ![s] = "free"],
             \A a \in Words : a # s => length'[a] = length[a]
      PROVE  UNCHANGED Objects
  <2>1. \A b \in Words : age'[b] = "global" <=> age[b] = "global"
    BY <1>2 DEF Inv, TypeOK
  <2>2. \A b \in Words : age[b] = "global" => length'[b] = length[b]
    BY <1>2
  <2> QED
    BY <2>1, <2>2 DEF Objects
<1>3. ASSUME NEW p \in Procs, UpAdd(p) \/ DownAdd(p) \/ CountWrite(p)
      PROVE  UNCHANGED Objects
  <2>1. start[p] \in Words /\ age[start[p]] = "none" /\ MarkFree(p)
    BY <1>3, PushFacts, CountFacts DEF addToFree, CountWrite
  <2>2. /\ age' = [age EXCEPT ![start[p]] = "free"]
        /\ \A a \in Words : a # start[p] => length'[a] = length[a]
    BY <2>1 DEF MarkFree, Inv, TypeOK
  <2> QED
    BY <2>1, <2>2, <1>2
<1>4. ASSUME NEW p \in Procs, Exchange(p), list[index[p]] = fle[p], Take(p)
      PROVE  Arena!Next
  <2> DEFINE new == [at |-> fle[p], words |-> aI[p].words]
  <2>1. /\ fle[p] \in Words /\ Listed(fle[p], index[p]) /\ aI[p] \in Requests
    BY <1>4, TakenBlock DEF Exchange, At
  <2>2. /\ age'[fle[p]] = "global" /\ length'[fle[p]] = aI[p].words
        /\ \A b \in Words : b # fle[p] => age'[b] = age[b] /\ length'[b] = length[b]
        /\ age[fle[p]] = "free"
    BY <1>4, <2>1 DEF Take, Listed, Inv, TypeOK
  <2>3. Objects' = Objects \cup {new}
    BY <2>1, <2>2 DEF Objects
  <2>4. NoOverlap'
    BY OwnersApart, PTL
  <2>5. \A b \in Words : age'[b] # "none" =>
          /\ b .. b + length'[b] - 1 \subseteq Words
          /\ \A c \in Words : age'[c] # "none" /\ b # c =>
               (b .. b + length'[b] - 1) \cap (c .. c + length'[c] - 1) = {}
    BY <2>4 DEF NoOverlap, Blocks, Extent
  <2>6. Arena!WordsOf(new) = fle[p] .. fle[p] + length'[fle[p]] - 1
    BY <2>2 DEF Arena!WordsOf
  <2>7. Arena!WordsOf(new) \subseteq HeaderSize .. Size - 1
    BY <2>1, <2>2, <2>5, <2>6 DEF Words
  <2>8. ASSUME NEW o \in Objects
        PROVE  Arena!WordsOf(new) \cap Arena!WordsOf(o) = {}
    <3>1. PICK b \in Words : age[b] = "global" /\ o = [at |-> b, words |-> length[b]]
      BY <2>8 DEF Objects
    <3>2. b # fle[p] /\ age'[b] = "global" /\ length'[b] = length[b]
      BY <2>2, <3>1
    <3>3. Arena!WordsOf(o) = b .. b + length'[b] - 1
      BY <3>1, <3>2 DEF Arena!WordsOf
    <3> QED
      BY <2>1, <2>2, <2>5, <2>6, <3>2, <3>3
  <2>9. fle[p] \in HeaderSize .. Size - 1
    BY <2>1 DEF Words
  <2>10. Arena!Allocate(new)
    BY <2>3, <2>7, <2>8 DEF Arena!Allocate
  <2> QED
    BY <2>1, <2>9, <2>10 DEF Arena!Next
<1>5. ASSUME NEW p \in Procs,
             \/ \E r \in Requests : Alloc(p, r)
             \/ Scan(p) \/ ReadLink(p) \/ UpSkip(p) \/ UpDone(p) \/ DownSkip(p)
             \/ CountRead(p) \/ Return(p)
      PROVE  UNCHANGED <<age, length>>
  BY <1>5
  DEF Alloc, Scan, ReadLink, UpSkip, UpDone, DownSkip, CountRead, Return, memVars
<1>6. ASSUME NEW p \in Procs, Exchange(p)
      PROVE  [Arena!Next]_Objects
  BY <1>1, <1>4, <1>6 DEF Exchange
<1>7. UNCHANGED vars => UNCHANGED <<age, length>>
  BY DEF vars, memVars
<1> QED
  BY <1>1, <1>3, <1>5, <1>6, <1>7 DEF Next, Step

(* The heap implements the abstract arena: every allocation appears to its   *)
(* users as one step that takes unused words, and objects never move.        *)
THEOREM ImplementsAbstractArena == Spec => ImplementsArena
<1>1. Init => Arena!Init
  BY DEF Init, Arena!Init, Objects
<1>2. Inv /\ Inv' /\ [Next]_vars => [Arena!Next]_Objects
  BY ArenaStep
<1> QED
  BY <1>1, <1>2, Invariance, PTL DEF Spec, ImplementsArena, Arena!Spec

(* Every word of the heap is in exactly one object, free block or hand, for  *)
(* any heap size and any number of processes (globalArena.zig:174-182).      *)
THEOREM HeapWellFormed == Spec => []WellFormed
  BY TypeCorrect, WordsExclusive, WordsConserved, PTL DEF WellFormed


-----------------------------------------------------------------------------
(* Blocks are aligned: each at a multiple of a power of two that holds it. *)

(* A set with 0 and with the successor of each of its members.               *)
LEMMA NatInSet ==
  ASSUME NEW G, 0 \in G, \A n \in Nat : n \in G => n + 1 \in G
  PROVE  Nat \subseteq G
<1> SUFFICES ASSUME Nat \ G # {} PROVE FALSE
  OBVIOUS
<1>1. PICK n \in Nat \ G : \A m \in Nat \ G : <<m, n>> \notin OpToRel(<, Nat)
  <2>1. IsWellFoundedOn(OpToRel(<, Nat), Nat)
    BY NatLessThanWellFounded
  <2> DEFINE R == OpToRel(<, Nat)
  <2> HIDE DEF R
  <2>2. IsWellFoundedOn(R, Nat)
    BY <2>1 DEF R
  <2>3. \E x \in Nat \ G : \A y \in Nat \ G : <<y, x>> \notin R
    BY <2>2, WFMin
  <2> QED
    BY <2>3 DEF R
<1>2. \A m \in Nat \ G : ~(m < n)
  BY <1>1 DEF OpToRel
<1>3. n \in Nat /\ n \notin G /\ n # 0
  BY <1>1
<1>4. n - 1 \in Nat /\ (n - 1) + 1 = n /\ n - 1 < n
  BY <1>3
<1> QED
  BY <1>2, <1>3, <1>4

LEMMA MultipleHasNoRest ==
  ASSUME NEW s \in Nat, NEW c \in Nat, c > 0, NEW h \in Nat, s = c * h
  PROVE  s % c = 0
<1> DEFINE q == s \div c
           r == s % c
           d == h - q
<1>1. s = c * q + r /\ r >= 0 /\ r < c /\ q \in Int /\ r \in Int
  OBVIOUS
<1> HIDE DEF q, r
<1>2. d \in Int /\ r = c * d
  BY <1>1
<1> HIDE DEF d
<1>3. ~(d >= 1)
  <2> SUFFICES ASSUME d >= 1 PROVE FALSE
    OBVIOUS
  <2>1. c * d >= c
    BY <1>2
  <2> QED
    BY <1>1, <1>2, <2>1
<1>4. ~(d <= -1)
  <2> SUFFICES ASSUME d <= -1 PROVE FALSE
    OBVIOUS
  <2>1. c * d < 0
    BY <1>2
  <2> QED
    BY <1>1, <1>2, <2>1
<1>5. d = 0
  BY <1>2, <1>3, <1>4
<1>6. r = 0
  BY <1>2, <1>5
<1> QED
  BY <1>6 DEF r

(* The next bit of a multiple of b decides whether it is one of 2 * b.       *)
LEMMA NextBit ==
  ASSUME NEW s \in Nat, NEW b \in Nat, b > 0, s % b = 0
  PROVE  /\ (s \div b) % 2 # 1 => s % (2 * b) = 0
         /\ (s \div b) % 2 = 1 => (s + b) % (2 * b) = 0
<1> DEFINE q == s \div b
           c == 2 * b
<1>1. s = b * q /\ q \in Nat
  OBVIOUS
<1> HIDE DEF q
<1>2. c \in Nat /\ c > 0
  OBVIOUS
<1>3. ASSUME q % 2 # 1 PROVE s % c = 0
  <2>1. PICK h \in Nat : q = 2 * h
    BY <1>1, <1>3
  <2>2. s = c * h
    BY <1>1, <2>1
  <2> HIDE DEF c
  <2> QED
    BY <1>2, <2>2, MultipleHasNoRest
<1>4. ASSUME q % 2 = 1 PROVE (s + b) % c = 0
  <2>1. PICK h \in Nat : q = 2 * h + 1
    BY <1>1, <1>4
  <2> DEFINE e == h + 1
             t == s + b
  <2>2. t = c * e /\ e \in Nat /\ t \in Nat
    BY <1>1, <2>1
  <2> HIDE DEF c, e, t
  <2>3. t % c = 0
    BY <1>2, <2>2, MultipleHasNoRest
  <2> QED
    BY <2>3 DEF t
<1> QED
  BY <1>3, <1>4 DEF q

LEMMA SizesDivide ==
  ASSUME NEW i \in Lists
  PROVE  \A k \in Lists : i <= k => \E m \in Nat : BlockSize[k] = BlockSize[i] * m
<1> DEFINE G == { k \in Nat : k \in Lists /\ i <= k =>
                                \E m \in Nat : BlockSize[k] = BlockSize[i] * m }
<1>1. ASSUME NEW k \in Lists, k = i PROVE k \in G
  <2>1. BlockSize[k] = BlockSize[i] * 1
    BY <1>1, BlockSizes
  <2> QED
    BY <2>1, ListRange
<1>2. 0 \in G
  BY <1>1, ListRange
<1>3. ASSUME NEW n \in Nat, n \in G PROVE n + 1 \in G
  <2> SUFFICES ASSUME n + 1 \in Lists, i <= n + 1, i # n + 1
               PROVE  \E m \in Nat : BlockSize[n + 1] = BlockSize[i] * m
    BY <1>1
  <2>0. i \in Nat /\ n + 1 < NFreeLists
    BY ListRange
  <2>1. n \in Lists /\ i <= n /\ i \in Nat
    BY <2>0, Sizes, ListRange
  <2>2. PICK m \in Nat : BlockSize[n] = BlockSize[i] * m
    BY <1>3, <2>1
  <2>3. BlockSize[n + 1] = 2 * BlockSize[n]
    <3>1. (n + 1) - 1 = n /\ n + 1 > 0
      OBVIOUS
    <3> QED
      BY <3>1, HeapAssumption
  <2>4. BlockSize[n + 1] = BlockSize[i] * (2 * m) /\ 2 * m \in Nat
    BY <2>2, <2>3, BlockSizes
  <2> QED
    BY <2>4
<1>4. Nat \subseteq G
  <2> HIDE DEF G
  <2> QED
    BY <1>2, <1>3, NatInSet
<1> QED
  BY <1>4, ListRange

Aligned(s, k) == \A i \in Lists : i <= k => s % BlockSize[i] = 0

LEMMA AlignedFirst ==
  ASSUME NEW s \in Nat
  PROVE  Aligned(s, 0)
<1>1. s % 1 = 0
  OBVIOUS
<1> QED
  BY <1>1, ListRange, BlockSizes DEF Aligned

(* A block at an aligned word leaves an aligned word behind it.              *)
LEMMA AlignedBehind ==
  ASSUME NEW s \in Nat, NEW k \in Lists, Aligned(s, k)
  PROVE  Aligned(s + BlockSize[k], k)
<1> SUFFICES ASSUME NEW i \in Lists, i <= k
             PROVE  (s + BlockSize[k]) % BlockSize[i] = 0
  BY DEF Aligned
<1> DEFINE b == BlockSize[i]
           t == s + BlockSize[k]
           q == s \div b
<1>1. PICK m \in Nat : BlockSize[k] = b * m
  BY SizesDivide
<1>2. b \in Nat /\ b > 0 /\ s % b = 0 /\ BlockSize[k] \in Nat
  BY BlockSizes DEF Aligned
<1> HIDE DEF b
<1>3. s = b * q /\ q \in Nat
  BY <1>2
<1> HIDE DEF q
<1>4. t = b * (q + m) /\ t \in Nat /\ q + m \in Nat
  BY <1>1, <1>2, <1>3
<1> HIDE DEF t
<1>5. t % b = 0
  <2> DEFINE e == q + m
  <2>1. t = b * e /\ e \in Nat
    BY <1>4
  <2> HIDE DEF e
  <2> QED
    BY <1>2, <1>4, <2>1, MultipleHasNoRest
<1> QED
  BY <1>5 DEF t, b

(* After the size whose bit was clear, or was made clear by a block of that  *)
(* size, a word is aligned to the next size.                                 *)
LEMMA AlignedNext ==
  ASSUME NEW s \in Nat, NEW k \in Nat, k \in Lists, k + 1 \in Lists, Aligned(s, k)
  PROVE  /\ ~BitIsSet(s, k) => Aligned(s, k + 1)
         /\ BitIsSet(s, k) => Aligned(s + BlockSize[k], k + 1)
<1> DEFINE b == BlockSize[k]
<1>1. BlockSize[k + 1] = 2 * b /\ b \in Nat /\ b > 0 /\ k \in Nat
  <2>1. k + 1 > 0 /\ (k + 1) - 1 = k
    OBVIOUS
  <2>2. BlockSize[k + 1] = 2 * BlockSize[(k + 1) - 1]
    BY <2>1, HeapAssumption
  <2> QED
    BY <2>1, <2>2, BlockSizes
<1>2. s % b = 0
  BY <1>1 DEF Aligned
<1> HIDE DEF b
<1>3. /\ (s \div b) % 2 # 1 => s % BlockSize[k + 1] = 0
      /\ (s \div b) % 2 = 1 => (s + b) % BlockSize[k + 1] = 0
  BY <1>1, <1>2, NextBit
<1>4. \A i \in Lists : i <= k + 1 => i <= k \/ i = k + 1
  BY <1>1, ListRange
<1>5. Aligned(s + b, k)
  BY AlignedBehind DEF b
<1> QED
  BY <1>3, <1>4, <1>5 DEF BitIsSet, Aligned, b

(* What a process puts back starts at a word aligned to the size it tries,   *)
(* and a single word is only cut off an odd one on the way up.               *)
HandAligned(p) ==
  /\ pc[p] \in Putting => Aligned(start[p], freeIndex[p])
  /\ pc[p] = "countUp" => BitIsSet(start[p], 0)

BlockAligned(a) ==
  age[a] # "none" => \E k \in Lists : length[a] <= BlockSize[k] /\ Aligned(a, k)

Alignment == (\A p \in Procs : HandAligned(p)) /\ (\A a \in Words : BlockAligned(a))

LEMMA AlignmentInit == Init => Alignment
<1> SUFFICES ASSUME Init PROVE Alignment
  OBVIOUS
<1>1. \A p \in Procs : start[p] \in Nat /\ freeIndex[p] = 0 /\ pc[p] # "countUp"
  BY Sizes DEF Init
<1>2. \A p \in Procs : HandAligned(p)
  BY <1>1, AlignedFirst DEF HandAligned
<1>3. \A a \in Words : BlockAligned(a)
  BY DEF Init, BlockAligned
<1> QED
  BY <1>2, <1>3 DEF Alignment

(* The size tried next.                                                      *)
LEMMA NextSizeAligned ==
  ASSUME Inv, NEW p \in Procs, NextSize(p), start'[p] \in Nat,
         Aligned(start'[p], freeIndex[p]),
         freeIndex[p] + 1 \in Lists => Aligned(start'[p], freeIndex[p] + 1)
  PROVE  HandAligned(p)'
<1>1. freeIndex[p] \in Lists
  BY DEF Inv, TypeOK
<1>2. CASE freeIndex[p] = NFreeLists - 1
  BY <1>2 DEF NextSize, Goto, Inv, TypeOK, HandAligned, Aligned
<1>3. CASE freeIndex[p] # NFreeLists - 1
  <2>1. freeIndex[p] + 1 \in Lists
    BY <1>1, <1>3, ListRange, Sizes
  <2>2. freeIndex'[p] = freeIndex[p] + 1 /\ pc'[p] = "up"
    BY <1>3 DEF NextSize, Goto, Inv, TypeOK
  <2> QED
    BY <2>1, <2>2 DEF HandAligned, Aligned
<1> QED
  BY <1>2, <1>3

LEMMA AlignmentStep ==
  ASSUME Inv, Alignment, Inv', [Next]_vars
  PROVE  Alignment'
<1>0. /\ start \in [Procs -> Nat] /\ start' \in [Procs -> Nat]
      /\ freeIndex \in [Procs -> Lists] /\ freeIndex' \in [Procs -> Lists]
      /\ pc \in [Procs -> Labels] /\ BlockSize[0] = 1
      /\ age \in [Words -> {"none", "free", "global"}] /\ length \in [Words -> Nat]
  BY BlockSizes DEF Inv, TypeOK
(* A step that writes no header. *)
<1>1. ASSUME NEW p \in Procs, UNCHANGED <<age, length>>, HandAligned(p)',
             \A q \in Procs : q # p => /\ pc'[q] = pc[q] /\ start'[q] = start[q]
                                       /\ freeIndex'[q] = freeIndex[q]
      PROVE  Alignment'
  <2>1. \A a \in Words : BlockAligned(a)'
    BY <1>1 DEF Alignment, BlockAligned, Aligned
  <2>2. \A q \in Procs : HandAligned(q)'
    BY <1>1 DEF Alignment, HandAligned, Aligned, BitIsSet
  <2> QED
    BY <2>1, <2>2 DEF Alignment
(* A step that writes one, at word a. *)
<1>2. ASSUME NEW p \in Procs, NEW a \in Words, HandAligned(p)', BlockAligned(a)',
             \A b \in Words : b # a => age'[b] = age[b] /\ length'[b] = length[b],
             \A q \in Procs : q # p => /\ pc'[q] = pc[q] /\ start'[q] = start[q]
                                       /\ freeIndex'[q] = freeIndex[q]
      PROVE  Alignment'
  <2>1. \A b \in Words : BlockAligned(b)'
    BY <1>2 DEF Alignment, BlockAligned, Aligned
  <2>2. \A q \in Procs : HandAligned(q)'
    BY <1>2 DEF Alignment, HandAligned, Aligned, BitIsSet
  <2> QED
    BY <2>1, <2>2 DEF Alignment
<1>3. ASSUME NEW p \in Procs,
             (\E r \in Requests : Alloc(p, r)) \/ Scan(p) \/ ReadLink(p) \/ Return(p)
      PROVE  Alignment'
  <2>1. /\ UNCHANGED <<age, length>> /\ pc'[p] \notin Putting
        /\ \A q \in Procs : q # p => /\ pc'[q] = pc[q] /\ start'[q] = start[q]
                                     /\ freeIndex'[q] = freeIndex[q]
    BY <1>0, <1>3 DEF Alloc, Scan, ReadLink, Return, At, Goto, Putting, memVars, putVars
  <2> QED
    BY <1>1, <2>1 DEF HandAligned, Putting
<1>4. ASSUME NEW p \in Procs, Exchange(p)
      PROVE  Alignment'
  <2>1. CASE list[index[p]] = fle[p] /\ Take(p)
    <3>0. PICK f \in Words : f = fle[p]
      BY <1>4, <2>1, TakenBlock DEF Exchange, At
    <3> DEFINE k == index[p]
    <3>1. /\ k \in Lists /\ f \in Words /\ f \in Nat /\ age[f] = "free"
          /\ length[f] = BlockSize[k] /\ aI[p].words \in Nat /\ aI[p].words < BlockSize[k]
      BY <1>4, <2>1, <3>0, TakenBlock, WordRange DEF Exchange, At, Listed
    <3>2. /\ length'[f] = aI[p].words
          /\ \A b \in Words : b # f => age'[b] = age[b] /\ length'[b] = length[b]
          /\ pc'[p] = "up" /\ freeIndex'[p] = 0
          /\ \A q \in Procs : q # p => /\ pc'[q] = pc[q] /\ start'[q] = start[q]
                                       /\ freeIndex'[q] = freeIndex[q]
      BY <1>0, <2>1, <3>0, <3>1 DEF Take, Goto
    <3>3. HandAligned(p)'
      BY <1>0, <3>2, AlignedFirst DEF HandAligned, Aligned
    <3>4. BlockAligned(f)'
      <4>1. PICK i \in Lists : length[f] <= BlockSize[i] /\ Aligned(f, i)
        BY <3>1 DEF Alignment, BlockAligned
      <4>2. length'[f] <= BlockSize[i]
        BY <3>1, <3>2, <4>1, BlockSizes
      <4> QED
        BY <4>1, <4>2 DEF BlockAligned, Aligned
    <3> QED
      BY <1>2, <3>1, <3>2, <3>3, <3>4
  <2>2. CASE Goto(p, "scan") /\ UNCHANGED <<list, age, length, start, to, freeIndex>>
    <3>1. pc'[p] = "scan" /\ \A q \in Procs : q # p => pc'[q] = pc[q]
      BY <1>0, <2>2 DEF Goto
    <3> QED
      BY <1>1, <2>2, <3>1 DEF HandAligned, Putting
  <2> QED
    BY <1>4, <2>1, <2>2 DEF Exchange
<1>5. ASSUME NEW p \in Procs, UpSkip(p)
      PROVE  Alignment'
  <2>1. /\ pc[p] = "up" /\ ~BitIsSet(start[p], freeIndex[p]) /\ NextSize(p)
        /\ UNCHANGED <<age, length, start>>
    BY <1>5 DEF UpSkip, UpFits, At, memVars
  <2>2. Aligned(start[p], freeIndex[p])
    BY <2>1 DEF Alignment, HandAligned, Putting
  <2>3. freeIndex[p] + 1 \in Lists => Aligned(start[p], freeIndex[p] + 1)
    BY <1>0, <2>1, <2>2, AlignedNext, ListRange
  <2>4. start'[p] = start[p]
    BY <2>1
  <2>5. HandAligned(p)'
    BY <1>0, <2>1, <2>2, <2>3, <2>4, NextSizeAligned
  <2>6. \A q \in Procs : q # p => pc'[q] = pc[q] /\ freeIndex'[q] = freeIndex[q]
    BY <1>0, <2>1 DEF NextSize, Goto
  <2> QED
    BY <1>1, <2>1, <2>5, <2>6
<1>6. ASSUME NEW p \in Procs, UpAdd(p) \/ DownAdd(p)
      PROVE  Alignment'
  <2>0. PICK s \in Words : s = start[p]
    BY <1>6, PushFacts
  <2> DEFINE k == freeIndex[p]
  <2>1. /\ k \in Lists /\ s \in Words /\ s \in Nat /\ pc[p] \in Putting /\ addToFree(p)
        /\ BlockSize[k] \in Nat
        /\ \A q \in Procs : q # p => pc'[q] = pc[q] /\ freeIndex'[q] = freeIndex[q]
    BY <1>6, <2>0, PushFacts DEF freeBit
  <2>2. /\ age'[s] = "free" /\ length'[s] = BlockSize[k] /\ start'[p] = s + BlockSize[k]
        /\ \A b \in Words : b # s => age'[b] = age[b] /\ length'[b] = length[b]
        /\ \A q \in Procs : q # p => start'[q] = start[q]
    BY <1>0, <2>0, <2>1 DEF addToFree, MarkFree, freeBit
  <2>3. Aligned(s, k)
    BY <2>0, <2>1 DEF Alignment, HandAligned
  <2>4. Aligned(start'[p], k)
    BY <2>1, <2>2, <2>3, AlignedBehind
  <2>5. HandAligned(p)'
    <3>1. CASE UpAdd(p)
      <4>1. BitIsSet(s, k) /\ NextSize(p)
        BY <2>0, <3>1 DEF UpAdd
      <4>2. k + 1 \in Lists => Aligned(start'[p], k + 1)
        BY <2>1, <2>2, <2>3, <4>1, AlignedNext, ListRange
      <4> QED
        BY <1>0, <2>4, <4>1, <4>2, NextSizeAligned
    <3>2. CASE DownAdd(p)
      <4>1. freeIndex'[p] = k /\ pc'[p] = "down"
        BY <3>2 DEF DownAdd, At
      <4> QED
        BY <2>4, <4>1 DEF HandAligned, Aligned
    <3> QED
      BY <1>6, <3>1, <3>2
  <2>6. BlockAligned(s)'
    <3>1. length'[s] <= BlockSize[k]
      BY <2>1, <2>2
    <3> QED
      BY <2>0, <2>1, <2>3, <3>1 DEF BlockAligned, Aligned
  <2> QED
    BY <1>2, <2>1, <2>2, <2>5, <2>6
<1>7. ASSUME NEW p \in Procs, CountWrite(p)
      PROVE  Alignment'
  <2>0. PICK s \in Words : s = start[p]
    BY <1>7, CountFacts
  <2>1. /\ freeIndex[p] = 0 /\ freeBit(p) = 1 /\ s \in Words /\ s \in Nat /\ pc[p] \in Putting
        /\ \A q \in Procs : q # p => pc'[q] = pc[q] /\ freeIndex'[q] = freeIndex[q]
        /\ 0 \in Lists
    BY <1>7, <2>0, CountFacts, ListRange
  <2>2. /\ age'[s] = "free" /\ length'[s] = 1 /\ start'[p] = s + 1
        /\ \A b \in Words : b # s => age'[b] = age[b] /\ length'[b] = length[b]
        /\ \A q \in Procs : q # p => start'[q] = start[q]
    BY <1>0, <1>7, <2>0, <2>1 DEF CountWrite, MarkFree
  <2>3. Aligned(s, 0) /\ Aligned(start'[p], 0)
    BY <2>1, <2>2, AlignedFirst
  <2>4. HandAligned(p)'
    <3>1. CASE At(p, "countUp") /\ NextSize(p)
      <4>1. BitIsSet(s, 0)
        BY <2>0, <3>1 DEF At, Alignment, HandAligned
      <4>2. 0 + 1 \in Lists => Aligned(start'[p], 0 + 1)
        <5>1. s + BlockSize[0] = start'[p]
          BY <1>0, <2>2
        <5> QED
          BY <2>1, <2>3, <4>1, <5>1, AlignedNext, ListRange
      <4> QED
        BY <1>0, <2>1, <2>3, <3>1, <4>2, NextSizeAligned
    <3>2. CASE Goto(p, "down") /\ UNCHANGED freeIndex
      <4>1. pc'[p] = "down" /\ freeIndex'[p] = 0
        BY <1>0, <2>1, <3>2 DEF Goto
      <4> QED
        BY <2>3, <4>1 DEF HandAligned, Aligned
    <3> QED
      BY <1>7, <3>1, <3>2 DEF CountWrite
  <2>5. BlockAligned(s)'
    <3>1. length'[s] <= BlockSize[0]
      BY <1>0, <2>2
    <3> QED
      BY <2>0, <2>1, <2>3, <3>1 DEF BlockAligned, Aligned
  <2> QED
    BY <1>2, <2>1, <2>2, <2>4, <2>5
<1>8. ASSUME NEW p \in Procs, UpDone(p) \/ CountRead(p)
      PROVE  Alignment'
  <2>1. /\ UNCHANGED <<age, length, start, freeIndex>> /\ pc[p] \in Putting
        /\ \A q \in Procs : q # p => pc'[q] = pc[q]
        /\ pc'[p] = "countUp" => BitIsSet(start[p], 0)
    BY <1>0, <1>8 DEF UpDone, CountRead, UpFits, At, Goto, Putting, memVars, putVars
  <2> QED
    BY <1>1, <2>1 DEF Alignment, HandAligned, Aligned, BitIsSet
<1>9. ASSUME NEW p \in Procs, DownSkip(p)
      PROVE  Alignment'
  <2>1. /\ UNCHANGED <<age, length, start, pc>> /\ pc[p] = "down"
        /\ freeIndex'[p] = freeIndex[p] - 1 /\ freeIndex[p] \in Nat
        /\ \A q \in Procs : q # p => freeIndex'[q] = freeIndex[q]
    BY <1>0, <1>9, ListRange DEF DownSkip, At, memVars
  <2>2. Aligned(start[p], freeIndex[p])
    BY <2>1 DEF Alignment, HandAligned, Putting
  <2>3. \A i \in Lists : i <= freeIndex'[p] => i <= freeIndex[p]
    BY <2>1, ListRange
  <2>4. HandAligned(p)'
    BY <2>1, <2>2, <2>3 DEF HandAligned, Aligned
  <2> QED
    BY <1>1, <2>1, <2>4
<1>10. CASE UNCHANGED vars
  BY <1>10 DEF vars, memVars, putVars, Alignment, HandAligned, BlockAligned, Aligned, BitIsSet
<1> QED
  BY <1>3, <1>4, <1>5, <1>6, <1>7, <1>8, <1>9, <1>10 DEF Next, Step

LEMMA AlignedOnBoundaries == Inv /\ Alignment => OnBoundaries
<1> SUFFICES ASSUME Inv, Alignment, NEW a \in Blocks, NEW i \in Lists,
                    length[a] <= BlockSize[i], i > 0 => BlockSize[i - 1] < length[a]
             PROVE  a % BlockSize[i] = 0
  BY DEF OnBoundaries
<1>1. PICK k \in Lists : length[a] <= BlockSize[k] /\ Aligned(a, k)
  BY DEF Blocks, Alignment, BlockAligned
<1>2. i <= k
  <2>0. i \in Nat /\ k \in Nat
    BY <1>1, ListRange
  <2> SUFFICES ASSUME k < i PROVE FALSE
    BY <2>0
  <2>1. i - 1 \in Nat /\ i - 1 < NFreeLists /\ k <= i - 1 /\ i > 0
    BY <2>0, ListRange, Sizes
  <2>2. i - 1 \in Lists
    BY <2>1, ListRange
  <2>3. BlockSize[k] <= BlockSize[i - 1]
    <3>1. k = i - 1 \/ k < i - 1
      BY <2>0, <2>1
    <3> QED
      BY <2>2, <3>1, BlockSizes
  <2> QED
    BY <2>2, <2>3, <1>1, <2>1, <2>2, BlockSizes DEF Blocks, Inv, TypeOK
<1> QED
  BY <1>1, <1>2 DEF Aligned

-----------------------------------------------------------------------------
(* Free lists are complete: every free block is reached from the head.       *)

(* Words with the head of list i and with what follows a block of the list.  *)
Chained(T, i) ==
  /\ list[i] # Null => list[i] \in T
  /\ \A a \in T : Listed(a, i) /\ next[a] # Null => next[a] \in T

Connected ==
  \A i \in Lists : i > 0 =>
    \A T \in SUBSET Words : Chained(T, i) => \A a \in Words : Listed(a, i) => a \in T

LEMMA ConnectedInit == Init => Connected
  BY DEF Init, Connected, Listed

(* A step that leaves a list, its blocks and their links alone. *)
LEMMA ConnectedKept ==
  ASSUME NEW i \in Lists, i > 0, Connected, list'[i] = list[i],
         \A a \in Words : Listed(a, i)' <=> Listed(a, i),
         \A a \in Words : Listed(a, i) => next'[a] = next[a],
         NEW T \in SUBSET Words, Chained(T, i)'
  PROVE  \A a \in Words : Listed(a, i)' => a \in T
<1>1. Chained(T, i)
  <2>1. list[i] # Null => list[i] \in T
    BY DEF Chained
  <2>2. ASSUME NEW a \in T, Listed(a, i), next[a] # Null PROVE next[a] \in T
    <3>1. Listed(a, i)' /\ next'[a] = next[a]
      BY <2>2
    <3> QED
      BY <2>2, <3>1 DEF Chained
  <2> QED
    BY <2>1, <2>2 DEF Chained
<1> QED
  BY <1>1 DEF Connected

LEMMA ConnectedPush ==
  ASSUME Inv, Connected, NEW p \in Procs, UpAdd(p) \/ DownAdd(p)
  PROVE  Connected'
<1> DEFINE k == freeIndex[p]
<1>0. PICK s \in Words : s = start[p]
  BY PushFacts
<1>1. /\ k \in Lists /\ k > 0 /\ age[s] = "none"
      /\ addToFree(p) /\ s # Null
  BY <1>0, PushFacts, WordRange
<1>2. /\ age'[s] = "free" /\ length'[s] = BlockSize[k] /\ next'[s] = list[k]
      /\ \A a \in Words : a # s =>
           age'[a] = age[a] /\ length'[a] = length[a] /\ next'[a] = next[a]
      /\ list'[k] = s /\ \A i \in Lists : i # k => list'[i] = list[i]
  BY <1>0, <1>1 DEF addToFree, MarkFree, freeBit, Inv, TypeOK
<1> SUFFICES ASSUME NEW i \in Lists, i > 0, NEW T \in SUBSET Words, Chained(T, i)'
             PROVE  \A a \in Words : Listed(a, i)' => a \in T
  BY DEF Connected
<1>3. \A a \in Words : Listed(a, i) => a # s
  BY <1>1 DEF Listed
<1>4. \A a \in Words : Listed(a, i) => Listed(a, i)' /\ next'[a] = next[a]
  BY <1>2, <1>3 DEF Listed
<1>5. CASE i # k
  <2>1. BlockSize[i] # BlockSize[k]
    BY <1>1, <1>5, DistinctSizes
  <2>2. \A a \in Words : Listed(a, i)' => Listed(a, i)
    BY <1>2, <2>1 DEF Listed
  <2>3. list'[i] = list[i]
    BY <1>2, <1>5
  <2> QED
    BY <1>4, <2>2, <2>3, ConnectedKept
<1>6. CASE i = k
  <2>1. list'[i] = s /\ next'[s] = list[i] /\ Listed(s, i)'
    BY <1>2, <1>6 DEF Listed
  <2>2. s \in T /\ (list[i] # Null => list[i] \in T)
    BY <1>1, <2>1 DEF Chained
  <2>3. ASSUME NEW a \in T, Listed(a, i), next[a] # Null PROVE next[a] \in T
    <3>1. Listed(a, i)' /\ next'[a] = next[a]
      BY <1>4, <2>3
    <3> QED
      BY <2>3, <3>1 DEF Chained
  <2>4. \A a \in Words : Listed(a, i) => a \in T
    BY <2>2, <2>3 DEF Connected, Chained
  <2>5. \A a \in Words : a # s /\ Listed(a, i)' => Listed(a, i)
    BY <1>2 DEF Listed
  <2> QED
    BY <2>2, <2>4, <2>5
<1> QED
  BY <1>5, <1>6

LEMMA ConnectedCount ==
  ASSUME Inv, Connected, NEW p \in Procs, CountWrite(p)
  PROVE  Connected'
<1>0. PICK s \in Words : s = start[p]
  BY CountFacts
<1>1. age[s] = "none" /\ freeBit(p) = 1
  BY <1>0, CountFacts
<1>2. /\ age'[s] = "free" /\ length'[s] = 1 /\ next' = next
      /\ \A a \in Words : a # s => age'[a] = age[a] /\ length'[a] = length[a]
      /\ \A i \in Lists : i # 0 => list'[i] = list[i]
  BY <1>0, <1>1 DEF CountWrite, MarkFree, Inv, TypeOK
<1> SUFFICES ASSUME NEW i \in Lists, i > 0, NEW T \in SUBSET Words, Chained(T, i)'
             PROVE  \A a \in Words : Listed(a, i)' => a \in T
  BY DEF Connected
<1>3. BlockSize[i] # 1 /\ i # 0
  BY BlockSizes, ListRange
<1>4. \A a \in Words : Listed(a, i)' <=> Listed(a, i)
  BY <1>1, <1>2, <1>3 DEF Listed
<1>5. list'[i] = list[i]
  BY <1>2, <1>3
<1> QED
  BY <1>2, <1>4, <1>5, ConnectedKept

LEMMA ConnectedTake ==
  ASSUME Inv, Connected, NEW p \in Procs, pc[p] = "cas", list[index[p]] = fle[p], Take(p),
         UNCHANGED next
  PROVE  Connected'
<1> DEFINE k == index[p]
<1>0. PICK f \in Words : f = fle[p]
  BY TakenBlock
<1>1. /\ k \in Lists /\ k > 0 /\ age[f] = "free"
      /\ length[f] = BlockSize[k] /\ list[k] = f
  BY <1>0, TakenBlock DEF Listed
<1>2. link[p] = next[f]
  BY <1>0, <1>1 DEF Inv, Snapshots, Popping
<1>3. /\ age'[f] = "global"
      /\ \A a \in Words : a # f => age'[a] = age[a] /\ length'[a] = length[a]
      /\ list'[k] = next[f] /\ \A i \in Lists : i # k => list'[i] = list[i]
  BY <1>0, <1>1, <1>2 DEF Take, Inv, TypeOK
<1> SUFFICES ASSUME NEW i \in Lists, i > 0, NEW T \in SUBSET Words, Chained(T, i)'
             PROVE  \A a \in Words : Listed(a, i)' => a \in T
  BY DEF Connected
<1>4. \A a \in Words : Listed(a, i)' => a # f /\ Listed(a, i)
  BY <1>3 DEF Listed
<1>5. CASE i # k
  <2>1. BlockSize[i] # BlockSize[k]
    BY <1>1, <1>5, DistinctSizes
  <2>2. \A a \in Words : Listed(a, i) => Listed(a, i)'
    BY <1>1, <1>3, <2>1 DEF Listed
  <2>3. list'[i] = list[i]
    BY <1>3, <1>5
  <2> QED
    BY <1>4, <2>2, <2>3, ConnectedKept
<1>6. CASE i = k
  <2> DEFINE U == T \cup {f}
  <2>1. U \in SUBSET Words /\ (list[i] # Null => list[i] \in U)
    BY <1>1, <1>6
  <2>2. ASSUME NEW a \in U, Listed(a, i), next[a] # Null PROVE next[a] \in U
    <3>1. CASE a = f
      BY <1>3, <1>6, <2>2, <3>1 DEF Chained
    <3>2. CASE a # f
      <4>1. Listed(a, i)' /\ next'[a] = next[a] /\ a \in T
        BY <1>3, <2>2, <3>2 DEF Listed
      <4> QED
        BY <2>2, <4>1 DEF Chained
    <3> QED
      BY <3>1, <3>2
  <2>3. Chained(U, i)
    BY <2>1, <2>2 DEF Chained
  <2>4. \A a \in Words : Listed(a, i) => a \in U
    <3> HIDE DEF U
    <3> QED
      BY <2>1, <2>3 DEF Connected
  <2> QED
    BY <1>4, <2>4
<1> QED
  BY <1>5, <1>6

LEMMA ConnectedStep ==
  ASSUME Inv, Connected, [Next]_vars
  PROVE  Connected'
<1>1. ASSUME UNCHANGED memVars
      PROVE  Connected'
  BY <1>1 DEF memVars, Connected, Chained, Listed
<1>2. ASSUME NEW p \in Procs, Exchange(p)
      PROVE  Connected'
  <2>1. CASE list[index[p]] = fle[p] /\ Take(p)
    BY <2>1, <1>2, ConnectedTake DEF Exchange, At
  <2>2. CASE UNCHANGED <<list, age, length, start, to, freeIndex>>
    BY <1>1, <1>2, <2>2 DEF Exchange, memVars
  <2> QED
    BY <1>2, <2>1, <2>2 DEF Exchange
<1>3. ASSUME NEW p \in Procs,
             \/ \E r \in Requests : Alloc(p, r)
             \/ Scan(p) \/ ReadLink(p) \/ UpSkip(p) \/ UpDone(p) \/ DownSkip(p)
             \/ CountRead(p) \/ Return(p)
      PROVE  UNCHANGED memVars
  BY <1>3 DEF Alloc, Scan, ReadLink, UpSkip, UpDone, DownSkip, CountRead, Return
<1>4. UNCHANGED vars => UNCHANGED memVars
  BY DEF vars
<1> QED
  BY <1>1, <1>2, <1>3, <1>4, ConnectedPush, ConnectedCount DEF Next, Step

(* The recursive function of OnList, up to m links from the head. *)
Follow(S) == S \cup ({next[a] : a \in S} \ {Null})

IsWithin(g, i, m) ==
  g = [n \in 0 .. m |-> IF n = 0 THEN {list[i]} \ {Null} ELSE Follow(g[n - 1])]

LEMMA WithinExists ==
  ASSUME NEW i, NEW m \in Nat
  PROVE  \E g : IsWithin(g, i, m)
<1> DEFINE G == { n \in Nat : \E g : IsWithin(g, i, n) }
<1>1. 0 \in G
  <2> DEFINE g == [n \in 0 .. 0 |-> {list[i]} \ {Null}]
  <2>1. IsWithin(g, i, 0)
    BY DEF IsWithin
  <2> QED
    BY <2>1
<1>2. ASSUME NEW n \in Nat, n \in G PROVE n + 1 \in G
  <2>1. PICK g : IsWithin(g, i, n)
    BY <1>2
  <2> DEFINE first == {list[i]} \ {Null}
             h == [x \in 0 .. n + 1 |-> IF x = n + 1 THEN Follow(g[n]) ELSE g[x]]
             r == [x \in 0 .. n + 1 |-> IF x = 0 THEN first ELSE Follow(h[x - 1])]
  <2>2. \A x \in 0 .. n : g[x] = IF x = 0 THEN first ELSE Follow(g[x - 1])
    BY <2>1 DEF IsWithin
  <2>3. \A x \in 0 .. n + 1 : x # 0 => x - 1 \in 0 .. n
    OBVIOUS
  <2>4. \A x \in 0 .. n : h[x] = g[x]
    OBVIOUS
  <2>5. ASSUME NEW x \in 0 .. n + 1
        PROVE  h[x] = IF x = 0 THEN first ELSE Follow(h[x - 1])
    <3>1. CASE x = n + 1
      <4>1. x # 0 /\ x - 1 = n /\ n \in 0 .. n
        BY <3>1
      <4>2. h[x - 1] = g[n] /\ h[x] = Follow(g[n])
        BY <2>4, <3>1, <4>1
      <4> HIDE DEF h
      <4> QED
        BY <4>1, <4>2
    <3>2. CASE x # n + 1
      <4>1. x \in 0 .. n
        BY <3>2
      <4>2. x # 0 => x - 1 \in 0 .. n
        BY <2>3
      <4> HIDE DEF h, first
      <4> QED
        BY <2>2, <2>4, <4>1, <4>2
    <3> QED
      BY <3>1, <3>2
  <2>6. h = r
    <3>1. \A x \in 0 .. n + 1 : h[x] = r[x]
      <4> HIDE DEF h, first
      <4> QED
        BY <2>5
    <3>2. h = [x \in 0 .. n + 1 |-> h[x]] /\ r = [x \in 0 .. n + 1 |-> r[x]]
      OBVIOUS
    <3> HIDE DEF h, r
    <3> QED
      BY <3>1, <3>2
  <2>7. IsWithin(h, i, n + 1)
    BY <2>6 DEF IsWithin
  <2> HIDE DEF h
  <2> QED
    BY <2>7
<1> HIDE DEF G
<1>3. Nat \subseteq G
  BY <1>1, <1>2, NatInSet
<1> QED
  BY <1>3 DEF G

LEMMA OnListFollows ==
  ASSUME NEW i, NEW m \in Nat, m = Cardinality(FreeBlocks(i))
  PROVE  \E g : IsWithin(g, i, m) /\ OnList(i) = g[m]
<1> DEFINE within == CHOOSE g : IsWithin(g, i, m)
<1>1. IsWithin(within, i, m)
  <2>1. PICK g : IsWithin(g, i, m)
    BY WithinExists
  <2> QED
    BY <2>1, Zenon
<1>2. OnList(i) = within[m]
  BY DEF OnList, IsWithin, Follow
<1> QED
  BY <1>1, <1>2

(* As long as there is a block to follow to, each link adds one.             *)
LEMMA FollowingEnds ==
  ASSUME NEW S, IsFiniteSet(S), NEW N \in Nat, N = Cardinality(S),
         NEW g, NEW i, IsWithin(g, i, N), list[i] # Null => list[i] \in S,
         \A a \in S : next[a] # Null => next[a] \in S
  PROVE  /\ g[N] \subseteq S
         /\ list[i] # Null => list[i] \in g[N]
         /\ \A a \in g[N] : next[a] # Null => next[a] \in g[N]
<1> DEFINE Reached(W) == /\ W \subseteq S
                         /\ list[i] # Null => list[i] \in W
           Ends(W) == \A a \in W : next[a] # Null => next[a] \in W
           G == { n \in Nat : n <= N => /\ Reached(g[n])
                                        /\ Ends(g[n]) \/ Cardinality(g[n]) > n }
<1>1. /\ g[0] = {list[i]} \ {Null}
      /\ \A n \in 0 .. N : n # 0 => g[n] = Follow(g[n - 1])
  BY DEF IsWithin
<1>2. 0 \in G
  <2>1. CASE list[i] = Null
    BY <1>1, <2>1
  <2>2. CASE list[i] # Null
    <3>1. g[0] = {list[i]}
      BY <1>1, <2>2
    <3>2. Cardinality(g[0]) = 1
      BY <3>1, FS_Singleton
    <3> QED
      BY <2>2, <3>1, <3>2
  <2> QED
    BY <2>1, <2>2
<1>3. ASSUME NEW n \in Nat, n \in G PROVE n + 1 \in G
  <2> SUFFICES ASSUME n + 1 <= N
               PROVE  Reached(g[n + 1]) /\ (Ends(g[n + 1]) \/ Cardinality(g[n + 1]) > n + 1)
    OBVIOUS
  <2>1. Reached(g[n]) /\ (Ends(g[n]) \/ Cardinality(g[n]) > n)
    BY <1>3
  <2>2. g[n + 1] = Follow(g[n])
    <3>1. n + 1 \in 0 .. N /\ n + 1 # 0 /\ (n + 1) - 1 = n
      OBVIOUS
    <3> QED
      BY <1>1, <3>1
  <2>3. Reached(g[n + 1]) /\ g[n] \subseteq g[n + 1]
    BY <2>1, <2>2 DEF Follow
  <2>4. CASE Ends(g[n])
    <3>1. g[n + 1] = g[n]
      BY <2>2, <2>4 DEF Follow
    <3> QED
      BY <2>3, <2>4, <3>1
  <2>5. CASE ~Ends(g[n])
    <3>1. PICK a \in g[n] : next[a] # Null /\ next[a] \notin g[n]
      BY <2>5
    <3> DEFINE U == g[n] \cup {next[a]}
    <3>2. U \subseteq g[n + 1]
      BY <2>2, <3>1 DEF Follow
    <3>3. IsFiniteSet(g[n]) /\ IsFiniteSet(g[n + 1])
      BY <2>1, <2>3, FS_Subset
    <3>4. Cardinality(U) = Cardinality(g[n]) + 1
      BY <3>1, <3>3, FS_AddElement
    <3>5. Cardinality(U) <= Cardinality(g[n + 1])
      <4> HIDE DEF U
      <4> QED
        BY <3>2, <3>3, FS_Subset
    <3>6. Cardinality(g[n]) \in Nat /\ Cardinality(g[n + 1]) \in Nat
      BY <3>3, FS_CardinalityType
    <3> HIDE DEF U
    <3>7. Cardinality(g[n + 1]) > n + 1
      BY <2>1, <2>5, <3>4, <3>5, <3>6
    <3> QED
      BY <2>3, <3>7
  <2> QED
    BY <2>4, <2>5
<1>4. N \in G
  <2> HIDE DEF G
  <2> QED
    BY <1>2, <1>3, NatInSet
<1>5. Reached(g[N]) /\ (Ends(g[N]) \/ Cardinality(g[N]) > N)
  BY <1>4
<1>6. IsFiniteSet(g[N]) /\ Cardinality(g[N]) <= N /\ Cardinality(g[N]) \in Nat
  BY <1>5, FS_Subset, FS_CardinalityType
<1> QED
  BY <1>5, <1>6

LEMMA FollowingFindsAll == Inv /\ Connected => ListsComplete
<1> SUFFICES ASSUME Inv, Connected, NEW i \in Lists, i > 0
             PROVE  OnList(i) = FreeBlocks(i)
  BY DEF ListsComplete
<1> DEFINE S == FreeBlocks(i)
           N == Cardinality(S)
<1>1. IsFiniteSet(S) /\ N \in Nat
  <2>1. IsFiniteSet(Words)
    BY Sizes, FS_Interval DEF Words
  <2>2. S \in SUBSET Words
    BY DEF FreeBlocks
  <2> HIDE DEF S
  <2> QED
    BY <2>1, <2>2, FS_Subset, FS_CardinalityType
<1>2. \A a \in Words : Listed(a, i) <=> a \in S
  BY DEF Listed, FreeBlocks
<1>3. S \subseteq Words
  BY DEF FreeBlocks
<1>4. /\ list[i] # Null => list[i] \in S
      /\ \A a \in S : next[a] # Null => next[a] \in S
  BY <1>2, <1>3 DEF Inv, TypeOK, ListsLinked
<1>5. PICK g : IsWithin(g, i, N) /\ OnList(i) = g[N]
  BY <1>1, OnListFollows
<1> HIDE DEF S
<1>6. /\ g[N] \subseteq S
      /\ list[i] # Null => list[i] \in g[N]
      /\ \A a \in g[N] : next[a] # Null => next[a] \in g[N]
  <2> HIDE DEF N
  <2>1. N = Cardinality(S)
    BY DEF N
  <2> QED
    BY <1>1, <1>4, <1>5, <2>1, FollowingEnds
<1>7. Chained(g[N], i) /\ g[N] \in SUBSET Words
  BY <1>3, <1>6 DEF Chained
<1>8. \A a \in Words : Listed(a, i) => a \in g[N]
  <2> DEFINE T == g[N]
  <2> HIDE DEF T
  <2>1. Chained(T, i) /\ T \in SUBSET Words
    BY <1>7 DEF T
  <2>2. \A a \in Words : Listed(a, i) => a \in T
    BY <2>1 DEF Connected
  <2> QED
    BY <2>2 DEF T
<1>9. S \subseteq g[N]
  BY <1>2, <1>3, <1>8
<1> QED
  BY <1>5, <1>6, <1>9 DEF S

(* The free lists hold exactly the free blocks of their size and every block *)
(* and object is aligned, whatever pops and pushes overlapped: what          *)
(* putInFreeLists and getSlice (globalArena.zig:115-134, 276-284) promise.   *)
THEOREM FreeListsExact == Spec => []FreeListsSound
<1>1. Init => Inv /\ Alignment /\ Connected
  BY InvInit, AlignmentInit, ConnectedInit
<1>2. Inv /\ Alignment /\ Connected /\ [Next]_vars => (Inv /\ Alignment /\ Connected)'
  BY InvStep, AlignmentStep, ConnectedStep
<1>3. Inv /\ Alignment /\ Connected => FreeListsSound
  BY AlignedOnBoundaries, FollowingFindsAll DEF FreeListsSound
<1> QED
  BY <1>1, <1>2, <1>3, PTL DEF Spec
=============================================================================

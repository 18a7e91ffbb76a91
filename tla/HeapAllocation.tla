--------------------------- MODULE HeapAllocation ---------------------------
(***************************************************************************)
(* One 128 KiB HeapAllocation of the global arena (zig/zag/globalArena.zig)*)
(* with processes that allocate from it concurrently.                      *)
(*                                                                         *)
(* The words behind the header are cut into blocks of power-of-two sizes,  *)
(* one free list per size.  A free list is a lock-free stack threaded      *)
(* through the free blocks themselves; the mutex of the code is a dummy    *)
(* whose lock and unlock do nothing.  An allocation pops a block larger    *)
(* than it needs, takes the front and puts the rest back in pieces.        *)
(* List 0, for single words, holds no pointers: its `list` field is used   *)
(* as a counter.                                                           *)
(*                                                                         *)
(* Operators named after another one with a suffix (addToFreeUnlinked,     *)
(* ExchangeAnyHead ...) are that one with a slip in it, for the runs that  *)
(* show a property to notice it; no specification uses them.               *)
(*                                                                         *)
(* The object header is written right after the pop, to a block nobody     *)
(* else can reach, so pop and header are one step; so are a push, which    *)
(* retries until its compare-and-exchange succeeds, and the free header    *)
(* it writes before.  The pop reads memory that may be somebody's object   *)
(* by then and is three steps.                                             *)
(***************************************************************************)
EXTENDS Integers, FiniteSets

CONSTANTS
  Procs,        (* processes allocating from this heap                       *)
  Creator,      (* the one that runs HeapAllocation.init                     *)
  Size,         (* words in the heap                                         *)
  HeaderSize,   (* words taken by the HeapAllocationHeader                   *)
  NFreeLists,   (* number of free lists                                      *)
  BlockSize,    (* words of a block of each list: its powers of two          *)
  Requests      (* AllocationInfos: words with the header, external or not   *)

Lists == 0 .. NFreeLists - 1
Words == HeaderSize .. Size - 1
Null == 0

(* The blocks of list i are the first to be larger than w words. *)
FirstLarger(w, i) ==
  w < BlockSize[i] /\ \A j \in 0 .. i - 1 : BlockSize[j] <= w

ASSUME HeapAssumption ==
  /\ Creator \in Procs
  /\ Size \in Nat /\ HeaderSize \in Nat \ {0} /\ HeaderSize <= Size
  /\ NFreeLists \in Nat \ {0}
  /\ BlockSize \in [Lists -> Nat \ {0}]
  /\ BlockSize[0] = 1
  /\ \A i \in Lists : i > 0 => BlockSize[i] = 2 * BlockSize[i - 1]
  /\ \A i, j \in Lists : i < j => BlockSize[i] < BlockSize[j]
  /\ Requests # {}
  /\ Requests \subseteq [words : Nat \ {0}, external : BOOLEAN]
  /\ \A r \in Requests : \E i \in Lists : FirstLarger(r.words, i)

VARIABLES
  list,       (* list[i]: first block of free list i; a counter for i = 0  *)
  next,       (* next[a]: the link in a free block at word a               *)
  age,        (* age[a]: what the header at word a says, none if no header *)
  length,     (* length[a]: words of the block or object with header at a  *)
  published,  (* init is done and heapAllocations points to this heap      *)
  pc,         (* where each process is in allocBlock                       *)
  aI,         (* its argument                                              *)
  index,      (* the list it tries                                         *)
  fle,        (* getSlice: the element read from the list, then the slice  *)
  link,       (* getSlice: the local `next`                                *)
  start, to,  (* putInFreeLists: what is left to put back                  *)
  freeIndex,  (* putInFreeLists: the size it tries                         *)
  count       (* addToFree: the counter of list 0 as read                  *)

memVars == <<list, next, age, length>>
popVars == <<aI, index, fle, link>>
putVars == <<start, to, freeIndex, count>>
vars == <<memVars, published, pc, popVars, putVars>>

(* The list allocBlock starts at: the number of bits of w. *)
bitsToRepresent(w) == CHOOSE i \in Lists : FirstLarger(w, i)

BitIsSet(s, i) == (s \div BlockSize[i]) % 2 = 1

(* The end of a slice of list i: header.length + 1 words. *)
sliceEnd(a, i) == a + BlockSize[i]

remainderAtLastWord(a, w) == a + w - 1

(* What allocBlock puts back starts behind the object and its header. *)
remainder(a, w) == a + w

AnyInfo == CHOOSE r \in Requests : TRUE

Init ==
  /\ list   = [i \in Lists |-> Null]
  /\ next   = [a \in Words |-> Null]
  /\ age    = [a \in Words |-> "none"]
  /\ length = [a \in Words |-> 0]
  /\ published = FALSE
  /\ pc = [p \in Procs |-> IF p = Creator THEN "up" ELSE "idle"]
  /\ aI = [p \in Procs |-> AnyInfo]
  /\ index = [p \in Procs |-> 0]
  /\ fle   = [p \in Procs |-> Null]
  /\ link  = [p \in Procs |-> Null]
  /\ start = [p \in Procs |-> IF p = Creator THEN HeaderSize ELSE Size]
  /\ to    = [p \in Procs |-> Size]
  /\ freeIndex = [p \in Procs |-> 0]
  /\ count = [p \in Procs |-> 0]

(* A panic or a failed bounds check of one process ends the program. *)
Running == \A p \in Procs : pc[p] \notin {"exhausted", "external"}

At(p, l) == Running /\ pc[p] = l
Goto(p, l) == pc' = [pc EXCEPT ![p] = l]

-----------------------------------------------------------------------------
(* allocBlock: the search for a block. *)

Alloc(p, r) ==
  /\ At(p, "idle")
  /\ published
  /\ aI' = [aI EXCEPT ![p] = r]
  /\ index' = [index EXCEPT ![p] = bitsToRepresent(r.words)]
  /\ Goto(p, "scan")
  /\ UNCHANGED <<memVars, published, fle, link, putVars>>

(* getSlice reads the head of the list.  The loop of allocBlock goes one   *)
(* index too far: with every list empty it reads freeLists[nFreeLists].    *)
Scan(p) ==
  /\ At(p, "scan")
  /\ \/ /\ list[index[p]] # Null
        /\ fle' = [fle EXCEPT ![p] = list[index[p]]]
        /\ Goto(p, "read")
        /\ UNCHANGED index
     \/ /\ list[index[p]] = Null
        /\ index[p] < NFreeLists - 1
        /\ index' = [index EXCEPT ![p] = @ + 1]
        /\ UNCHANGED <<pc, fle>>
     \/ /\ list[index[p]] = Null
        /\ index[p] = NFreeLists - 1
        /\ Goto(p, "exhausted")
        /\ UNCHANGED <<index, fle>>
  /\ UNCHANGED <<memVars, published, aI, link, putVars>>

ReadLinkOfHead(p) ==
  /\ At(p, "read")
  /\ link' = [link EXCEPT ![p] = IF list[index[p]] = Null THEN Null
                                 ELSE next[list[index[p]]]]
  /\ Goto(p, "cas")
  /\ UNCHANGED <<memVars, published, aI, index, fle, putVars>>

(* next = fle.next, which is any word when fle became an object meanwhile. *)
ReadLink(p) ==
  /\ At(p, "read")
  /\ \E v \in IF age[fle[p]] = "free" THEN {next[fle[p]]} ELSE Words \cup {Null} :
       link' = [link EXCEPT ![p] = v]
  /\ Goto(p, "cas")
  /\ UNCHANGED <<memVars, published, aI, index, fle, putVars>>

(* The front of the slice becomes the object, the rest is to be put back. *)
Take(p) ==
  /\ list'   = [list EXCEPT ![index[p]] = link[p]]
  /\ age'    = [age EXCEPT ![fle[p]] = "global"]
  /\ length' = [length EXCEPT ![fle[p]] = aI[p].words]
  /\ start'  = [start EXCEPT ![p] = remainder(fle[p], aI[p].words)]
  /\ to'     = [to EXCEPT ![p] = sliceEnd(fle[p], index[p])]
  /\ freeIndex' = [freeIndex EXCEPT ![p] = 0]
  /\ Goto(p, "up")

ExchangeAnyHead(p) ==
  /\ At(p, "cas")
  /\ Take(p)
  /\ UNCHANGED <<next, published, popVars, count>>

ExchangeRetry(p) ==
  /\ At(p, "cas")
  /\ list[index[p]] = fle[p]
  /\ Take(p)
  /\ UNCHANGED <<next, published, popVars, count>>

(* The compare-and-exchange of getSlice; on failure it starts over. *)
Exchange(p) ==
  /\ At(p, "cas")
  /\ \/ /\ list[index[p]] = fle[p]
        /\ Take(p)
     \/ /\ list[index[p]] # fle[p]
        /\ Goto(p, "scan")
        /\ UNCHANGED <<list, age, length, start, to, freeIndex>>
  /\ UNCHANGED <<next, published, popVars, count>>

-----------------------------------------------------------------------------
(* putInFreeLists: up through the sizes while the block that aligns `start` *)
(* still fits, then down through the sizes.                                *)

freeBit(p) == BlockSize[freeIndex[p]]

MarkFree(p) ==
  /\ age'    = [age EXCEPT ![start[p]] = "free"]
  /\ length' = [length EXCEPT ![start[p]] = freeBit(p)]
  /\ start'  = [start EXCEPT ![p] = @ + freeBit(p)]

addToFreeUnlinked(p) ==
  /\ list' = [list EXCEPT ![freeIndex[p]] = start[p]]
  /\ MarkFree(p)
  /\ UNCHANGED <<next, count>>

(* addToFree on a list of blocks. *)
addToFree(p) ==
  /\ next' = [next EXCEPT ![start[p]] = list[freeIndex[p]]]
  /\ list' = [list EXCEPT ![freeIndex[p]] = start[p]]
  /\ MarkFree(p)
  /\ UNCHANGED count

(* The end of an iteration of the first loop. *)
NextSize(p) ==
  IF freeIndex[p] = NFreeLists - 1
  THEN Goto(p, "down") /\ UNCHANGED freeIndex
  ELSE Goto(p, "up") /\ freeIndex' = [freeIndex EXCEPT ![p] = @ + 1]

UpFits(p) == At(p, "up") /\ start[p] + freeBit(p) < to[p]

UpSkip(p) ==
  /\ UpFits(p) /\ ~BitIsSet(start[p], freeIndex[p])
  /\ NextSize(p)
  /\ UNCHANGED <<memVars, published, popVars, start, to, count>>

UpAdd(p) ==
  /\ UpFits(p) /\ BitIsSet(start[p], freeIndex[p])
  /\ freeIndex[p] > 0
  /\ addToFree(p)
  /\ NextSize(p)
  /\ UNCHANGED <<published, popVars, to>>

UpDone(p) ==
  /\ At(p, "up") /\ ~UpFits(p)
  /\ Goto(p, "down")
  /\ UNCHANGED <<memVars, published, popVars, putVars>>

DownSkip(p) ==
  /\ At(p, "down") /\ start[p] < to[p]
  /\ start[p] + freeBit(p) > to[p]
  /\ freeIndex' = [freeIndex EXCEPT ![p] = @ - 1]
  /\ UNCHANGED <<memVars, published, pc, popVars, start, to, count>>

DownAdd(p) ==
  /\ At(p, "down") /\ start[p] + freeBit(p) <= to[p]
  /\ freeIndex[p] > 0
  /\ addToFree(p)
  /\ UNCHANGED <<published, pc, popVars, to, freeIndex>>

(* addToFree for a single word: the counter is read and written back.      *)
CountRead(p) ==
  /\ freeIndex[p] = 0
  /\ \/ UpFits(p) /\ BitIsSet(start[p], 0) /\ Goto(p, "countUp")
     \/ At(p, "down") /\ start[p] + 1 <= to[p] /\ Goto(p, "countDown")
  /\ count' = [count EXCEPT ![p] = list[0]]
  /\ UNCHANGED <<memVars, published, popVars, start, to, freeIndex>>

CountWrite(p) ==
  /\ \/ At(p, "countUp") /\ NextSize(p)
     \/ At(p, "countDown") /\ Goto(p, "down") /\ UNCHANGED freeIndex
  /\ list' = [list EXCEPT ![0] = count[p] + 1]
  /\ MarkFree(p)
  /\ UNCHANGED <<next, published, popVars, to, count>>

(* Everything is put back: init publishes the heap, allocBlock returns and *)
(* its locals are gone.  An external allocation panics only now.           *)
Return(p) ==
  /\ At(p, "down") /\ start[p] >= to[p]
  /\ published' = TRUE
  /\ Goto(p, IF published /\ aI[p].external THEN "external" ELSE "idle")
  /\ index' = [index EXCEPT ![p] = 0]
  /\ fle'   = [fle EXCEPT ![p] = Null]
  /\ link'  = [link EXCEPT ![p] = Null]
  /\ start' = [start EXCEPT ![p] = Size]
  /\ to'    = [to EXCEPT ![p] = Size]
  /\ freeIndex' = [freeIndex EXCEPT ![p] = 0]
  /\ count' = [count EXCEPT ![p] = 0]
  /\ aI' = [aI EXCEPT ![p] = AnyInfo]
  /\ UNCHANGED memVars

-----------------------------------------------------------------------------
Step(p) ==
  \/ Scan(p) \/ ReadLink(p) \/ Exchange(p)
  \/ UpSkip(p) \/ UpAdd(p) \/ UpDone(p) \/ DownSkip(p) \/ DownAdd(p)
  \/ CountRead(p) \/ CountWrite(p) \/ Return(p)

Next == \E p \in Procs : (\E r \in Requests : Alloc(p, r)) \/ Step(p)

Spec == Init /\ [][Next]_vars

(* A process inside init or allocBlock keeps running. *)
FairSpec == Spec /\ \A p \in Procs : WF_vars(Step(p))
-----------------------------------------------------------------------------
Popping == {"read", "cas"}
Putting == {"up", "down", "countUp", "countDown"}
Labels == {"idle", "scan", "exhausted", "external"} \cup Popping \cup Putting

(* Type invariant: list heads, links and headers address words of the heap,  *)
(* behind its header, and the lists tried are those that exist.              *)
TypeOK ==
  /\ list \in [Lists -> Nat]
  /\ \A i \in Lists : i > 0 => list[i] \in Words \cup {Null}
  /\ next \in [Words -> Words \cup {Null}]
  /\ age \in [Words -> {"none", "free", "global"}]
  /\ length \in [Words -> Nat]
  /\ published \in BOOLEAN
  /\ pc \in [Procs -> Labels]
  /\ aI \in [Procs -> Requests]
  /\ index \in [Procs -> Lists]
  /\ fle \in [Procs -> Words \cup {Null}]
  /\ link \in [Procs -> Words \cup {Null}]
  /\ start \in [Procs -> Nat]
  /\ to \in [Procs -> Nat]
  /\ freeIndex \in [Procs -> Lists]
  /\ count \in [Procs -> Nat]

Blocks == {a \in Words : age[a] # "none"}
FreeBlocks(i) == {a \in Words : age[a] = "free" /\ length[a] = BlockSize[i]}
Extent(a) == a .. a + length[a] - 1

(* The words process p has taken and not given to anything yet. *)
InHand(p) == IF pc[p] \in Putting THEN start[p] .. to[p] - 1 ELSE {}

(* No word is in two places: objects, free blocks and what processes hold    *)
(* between a pop and the pushes are disjoint, and inside the heap.  This is  *)
(* what makes allocBlock correct without its lock.                           *)
NoOverlap ==
  /\ \A a \in Blocks : length[a] > 0 /\ Extent(a) \subseteq Words
  /\ \A a, b \in Blocks : a # b => Extent(a) \cap Extent(b) = {}
  /\ \A p \in Procs :
       /\ InHand(p) \subseteq Words
       /\ \A a \in Blocks : InHand(p) \cap Extent(a) = {}
       /\ \A q \in Procs : p # q => InHand(p) \cap InHand(q) = {}

(* No word is lost: each is in a block, in an object or in a process's hands.*)
NothingLost ==
  \A w \in Words :
    \/ \E a \in Blocks : w \in Extent(a)
    \/ \E p \in Procs : w \in InHand(p)

(* Every word of the heap is in one place and in one only, whichever         *)
(* processes are between a pop and their pushes (globalArena.zig:174-182).   *)
WellFormed == TypeOK /\ NoOverlap /\ NothingLost

(* The blocks met by following a free list. *)
OnList(i) ==
  LET within[n \in 0 .. Cardinality(FreeBlocks(i))] ==
        IF n = 0 THEN {list[i]} \ {Null}
        ELSE within[n - 1] \cup ({next[a] : a \in within[n - 1]} \ {Null})
  IN within[Cardinality(FreeBlocks(i))]

(* A free list holds exactly the free blocks of its size, whatever pushes    *)
(* and pops overlapped: no block is dropped, none is on a wrong list.        *)
ListsComplete == \A i \in Lists : i > 0 => OnList(i) = FreeBlocks(i)

(* When the compare-and-exchange of getSlice succeeds the link it stores is  *)
(* the present one: a block that was popped never comes back as a block, so  *)
(* the head is the same only if it was never taken (no ABA).                 *)
NoStaleLink ==
  \A p \in Procs :
    pc[p] = "cas" /\ list[index[p]] = fle[p] => link[p] = next[fle[p]]

(* Documentation/MemoryManagement.md:100 "all allocations are on power-of-2  *)
(* boundaries": blocks start at a multiple of their size, objects at one of  *)
(* the power of two that encloses them.                                      *)
OnBoundaries ==
  \A a \in Blocks :
    \A i \in Lists :
      length[a] <= BlockSize[i] /\ (i > 0 => BlockSize[i - 1] < length[a])
        => a % BlockSize[i] = 0

(* What putInFreeLists cuts a remainder into (globalArena.zig:115-134) and   *)
(* what concurrent pushes and pops make of it: complete lists of aligned     *)
(* blocks.                                                                   *)
FreeListsSound == ListsComplete /\ OnBoundaries

-----------------------------------------------------------------------------
Objects == {[at |-> a, words |-> length[a]] : a \in {b \in Words : age[b] = "global"}}

Arena == INSTANCE NonMovingArena WITH objects <- Objects

(* Allocation is atomic to its users: objects appear one at a time, where no *)
(* object is, and never move or change their size.                           *)
ImplementsArena == Arena!Spec

(* allocBlock returns, unless the program dies: a process whose exchange     *)
(* fails has lost to one that made progress.                                 *)
AllocReturns ==
  \A p \in Procs : pc[p] # "idle" ~> (pc[p] = "idle" \/ ~Running)

=============================================================================

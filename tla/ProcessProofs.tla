---------------------------- MODULE ProcessProofs ----------------------------
(***************************************************************************)
(* Proofs about Process, for any number of processes and any width of the  *)
(* counter: every process that returned from init is in the list, with a   *)
(* number of its own, and a loop comes to its safe point in time with the  *)
(* register still pointing to the process.                                 *)
(*                                                                         *)
(* Neither is inductive.  The first needs to know what a process in the    *)
(* middle of init has read: as long as the head is still the process it    *)
(* is about to link to, its number is one more than the head's.  The       *)
(* second needs the exact count.                                           *)
(***************************************************************************)
EXTENDS Process, TLAPS

NumberAfter(p) == IF p = Null THEN 1 ELSE id[p] + 1

(* What a process in init has read. *)
Read ==
  \A p \in Procs :
    /\ pc[p] \in {"numbering", "exchange"} => next[p] \in Registered \cup {Null}
    /\ pc[p] = "exchange" /\ next[p] = allProcesses => id[p] = NumberAfter(next[p])

(* The register is the address and the count, up to the overflow flag. *)
Counted ==
  \A p \in Procs :
    register[p] = Address[p] + (IF loops[p] <= countMask THEN loops[p] ELSE countOverflowFlag)

Typed ==
  /\ allProcesses \in Procs \cup {Null}
  /\ next \in [Procs -> Procs \cup {Null}]
  /\ id \in [Procs -> Nat]
  /\ register \in [Procs -> Nat]
  /\ pc \in [Procs -> Starting \cup {"running", "debugging", "panic"}]
  /\ loops \in [Procs -> 0 .. MaxLoops]

Inv == Typed /\ EveryProcessListed /\ Read /\ Counted

-----------------------------------------------------------------------------
(* The quotient and remainder of a multiple and a small rest. *)
LEMMA Division ==
  ASSUME NEW c \in Nat \ {0}, NEW q \in Int, NEW r \in 0 .. c - 1
  PROVE  (c * q + r) \div c = q /\ (c * q + r) % c = r
  BY SMT

LEMMA Multiple ==
  ASSUME NEW c \in Nat \ {0}, NEW n \in Int, n % c = 0
  PROVE  \E q \in Int : n = c * q
  BY SMT

LEMMA Constants ==
  /\ Null \notin Procs
  /\ countMask \in Nat /\ MaxLoops \in Nat
  /\ Address \in [Procs -> Nat]
  /\ Alignment \in Nat \ {0}
  BY ProcessAssumption DEF Alignment, othersFlag, countOverflowFlag

(* The flag is set by the count that reaches it and the address is kept:     *)
(* what the bit operations of process.zig:89-112 do to an aligned pointer.   *)
LEMMA Flag ==
  ASSUME NEW p \in Procs, NEW n \in 0 .. countOverflowFlag
  PROVE  /\ needsCheck(Address[p] + n) <=> n = countOverflowFlag
         /\ ptr(Address[p] + n) = Address[p]
<1> DEFINE C == countOverflowFlag
<1>1. C \in Nat \ {0} /\ Alignment = C * 4 /\ Address[p] \in Nat /\ Address[p] % Alignment = 0
  BY ProcessAssumption DEF Alignment, othersFlag, countOverflowFlag
<1>2. Alignment \in Nat \ {0}
  BY Constants
<1> HIDE DEF C
<1>0. Address[p] \in Int /\ Address[p] % Alignment = 0
  BY <1>1
<1>3. PICK q \in Int : Address[p] = Alignment * q
  BY ONLY <1>2, <1>0, Multiple, Zenon
<1>4. Address[p] = C * (4 * q)
  BY <1>1, <1>3
<1>5. n \in 0 .. C
  BY DEF C
<1>6. ptr(Address[p] + n) = Address[p]
  <2>1. n \in 0 .. Alignment - 1
    BY <1>1, <1>5
  <2>2. (Alignment * q + n) % Alignment = n
    BY <2>1, <1>2, Division
  <2> QED  BY <2>2, <1>3, <1>5, <1>1 DEF ptr
<1>7. CASE n = C
  <2>1. Address[p] + n = C * (4 * q + 1) + 0
    BY <1>1, <1>4, <1>7
  <2>2. 4 * q + 1 \in Int /\ 0 \in 0 .. C - 1
    BY <1>1
  <2>3. (Address[p] + n) \div C = 4 * q + 1
    BY <2>1, <2>2, <1>1, Division
  <2>4. (4 * q + 1) % 4 = 1
    BY SMT
  <2> QED  BY <2>3, <2>4, <1>6, <1>7 DEF needsCheck, C
<1>8. CASE n # C
  <2>1. n \in 0 .. C - 1 /\ 4 * q \in Int
    BY <1>5, <1>8, <1>1
  <2>2. (Address[p] + n) \div C = 4 * q
    BY <2>1, <1>4, <1>1, Division
  <2>3. (4 * q) % 4 = 0
    BY SMT
  <2> QED  BY <2>2, <2>3, <1>6, <1>8 DEF needsCheck, C
<1> QED  BY <1>7, <1>8

-----------------------------------------------------------------------------
LEMMA InitInv == Init => Inv
<1> SUFFICES ASSUME Init PROVE Inv
  OBVIOUS
<1>1. Typed
  BY Constants DEF Init, Typed, Starting
<1>2. EveryProcessListed /\ Read
  BY Constants DEF Init, EveryProcessListed, LinkedToPrevious, NumberedFromHead,
       DifferentNumbers, Registered, Starting, Read
<1>3. Counted
  BY Constants DEF Init, Counted
<1> QED  BY <1>1, <1>2, <1>3 DEF Inv

(* Before and after a step of init, and what it leaves alone. *)
LEMMA StartStep ==
  ASSUME Inv, NEW p \in Procs, SetNext(p) \/ SetId(p) \/ Retry(p)
  PROVE  Inv'
<1> USE Constants
<1>1. Registered' = Registered
  BY DEF Inv, Typed, SetNext, SetId, Retry, Goto, Registered, Starting
<1>2. \A q \in Registered : id'[q] = id[q] /\ next'[q] = next[q] /\ q # p
  BY DEF Inv, Typed, SetNext, SetId, Retry, list, Registered, Starting
<1>3. allProcesses' = allProcesses /\ register' = register /\ loops' = loops
  BY DEF SetNext, SetId, Retry, list
<1>4. Typed'
  <2>1. NumberAfter(allProcesses) \in Nat
    BY DEF Inv, Typed, NumberAfter
  <2> QED  BY <2>1, <1>3 DEF Inv, Typed, SetNext, SetId, Retry, Goto, list, Starting, NumberAfter
<1>5. EveryProcessListed'
  <2>1. LinkedToPrevious'
    BY <1>1, <1>2 DEF Inv, EveryProcessListed, LinkedToPrevious
  <2>2. NumberedFromHead'
    BY <1>1, <1>2, <1>3 DEF Inv, EveryProcessListed, NumberedFromHead
  <2>3. DifferentNumbers'
    BY <1>1, <1>2 DEF Inv, EveryProcessListed, DifferentNumbers
  <2> QED  BY <2>1, <2>2, <2>3 DEF EveryProcessListed
<1>6. Read'
  <2> SUFFICES ASSUME NEW q \in Procs
               PROVE  /\ pc'[q] \in {"numbering", "exchange"} => next'[q] \in Registered \cup {Null}
                      /\ pc'[q] = "exchange" /\ next'[q] = allProcesses => id'[q] =
                           (IF next'[q] = Null THEN 1 ELSE id'[next'[q]] + 1)
    BY <1>1, <1>3 DEF Read, NumberAfter
  <2>1. allProcesses \in Registered \cup {Null}
    BY DEF Inv, EveryProcessListed, NumberedFromHead
  <2>2. \A r \in Registered \cup {Null} :
          NumberAfter(r) = IF r = Null THEN 1 ELSE id'[r] + 1
    BY <1>2 DEF NumberAfter
  <2>3. CASE q = p /\ SetNext(p)
    BY <2>1, <2>3 DEF SetNext, Goto, Inv, Typed
  <2>4. CASE q = p /\ SetId(p)
    <3>1. next'[q] = next[q] /\ next[q] \in Registered \cup {Null}
      BY <2>4 DEF SetId, Inv, Read
    <3>2. id'[q] = NumberAfter(allProcesses)
      BY <2>4 DEF SetId, Inv, Typed, NumberAfter
    <3> QED  BY <3>1, <3>2, <2>2, <2>1
  <2>5. CASE q = p /\ Retry(p)
    BY <2>5 DEF Retry, Goto, Inv, Typed
  <2>6. CASE q # p
    <3>1. pc'[q] = pc[q] /\ next'[q] = next[q] /\ id'[q] = id[q]
      BY <2>6 DEF SetNext, SetId, Retry, Goto, list, Inv, Typed
    <3> QED  BY <3>1, <2>2 DEF Inv, Read
  <2> QED  BY <2>3, <2>4, <2>5, <2>6
<1>7. Counted'
  BY <1>3 DEF Inv, Counted
<1> QED  BY <1>4, <1>5, <1>6, <1>7 DEF Inv

(* The process enters the list with a number above all others. *)
LEMMA ExchangeStep ==
  ASSUME Inv, NEW p \in Procs, Exchange(p)
  PROVE  Inv'
<1> USE Constants
<1>1. p \notin Registered /\ Registered' = Registered \cup {p}
  BY DEF Inv, Typed, Exchange, Goto, Registered, Starting
<1>2. UNCHANGED <<next, id, register, loops>> /\ allProcesses' = p /\ allProcesses = next[p]
  BY DEF Exchange
<1>3. id[p] = NumberAfter(allProcesses)
  BY DEF Inv, Read, Exchange
<1>4. \A q \in Registered : id[q] < id[p] /\ id[q] \in Nat
  BY <1>3 DEF Inv, Typed, EveryProcessListed, NumberedFromHead, NumberAfter, Registered
<1>5. Typed'
  BY <1>2 DEF Inv, Typed, Exchange, Goto, Starting
<1>6. EveryProcessListed'
  <2>1. LinkedToPrevious'
    BY <1>1, <1>2, <1>3 DEF Inv, EveryProcessListed, LinkedToPrevious, NumberedFromHead, NumberAfter
  <2>2. NumberedFromHead'
    <3>1. id[p] \in Nat
      BY DEF Inv, Typed
    <3> QED  BY <3>1, <1>1, <1>2, <1>4 DEF NumberedFromHead
  <2>3. DifferentNumbers'
    BY <1>1, <1>2, <1>4 DEF Inv, EveryProcessListed, DifferentNumbers
  <2> QED  BY <2>1, <2>2, <2>3 DEF EveryProcessListed
<1>7. Read'
  <2> SUFFICES ASSUME NEW q \in Procs
               PROVE  /\ pc'[q] \in {"numbering", "exchange"} => next[q] \in Registered' \cup {Null}
                      /\ pc'[q] = "exchange" /\ next[q] = p => id[q] = NumberAfter(next[q])
    BY <1>2 DEF Read, NumberAfter
  <2>1. CASE q = p
    BY <2>1 DEF Exchange, Goto, Inv, Typed
  <2>2. CASE q # p
    <3>1. pc'[q] = pc[q]
      BY <2>2 DEF Exchange, Goto, Inv, Typed
    <3>2. pc[q] \in {"numbering", "exchange"} => next[q] \in Registered \cup {Null}
      BY DEF Inv, Read
    <3> QED  BY <3>1, <3>2, <1>1
  <2> QED  BY <2>1, <2>2
<1>8. Counted'
  BY <1>2 DEF Inv, Counted
<1> QED  BY <1>5, <1>6, <1>7, <1>8 DEF Inv

(* Code that runs leaves the list alone; it branches, checks or pushes. *)
LEMMA CodeStep ==
  ASSUME Inv, NEW p \in Procs, BranchBack(p) \/ Check(p) \/ PushContext(p)
  PROVE  Inv'
<1> USE Constants
<1>1. UNCHANGED list /\ Registered' = Registered
  BY DEF Inv, Typed, BranchBack, Check, PushContext, Goto, Registered, Starting
<1>2. \A q \in Procs : pc[q] \in Starting \/ pc'[q] \in Starting => pc'[q] = pc[q]
  BY DEF Inv, Typed, BranchBack, Check, PushContext, Goto, Starting
<1>3. EveryProcessListed'
  BY <1>1 DEF Inv, EveryProcessListed, LinkedToPrevious, NumberedFromHead, DifferentNumbers, list
<1>4. Read'
  <2>1. \A q \in Procs : pc'[q] \in {"numbering", "exchange"} => pc'[q] = pc[q]
    BY <1>2 DEF Starting
  <2> QED  BY <1>1, <2>1 DEF Inv, Read, NumberAfter, list
<1>5. countMask \in Nat /\ countOverflowFlag = countMask + 1 /\ Address[p] \in Nat
  BY DEF countOverflowFlag
<1>6. loops[p] \in Nat /\ register[p] \in Nat
  BY DEF Inv, Typed
<1> DEFINE n == IF loops[p] <= countMask THEN loops[p] ELSE countOverflowFlag
<1>7. n \in 0 .. countOverflowFlag /\ register[p] = Address[p] + n
  BY <1>5, <1>6 DEF Inv, Counted
<1>8. needsCheck(register[p]) <=> n = countOverflowFlag
  BY <1>7, Flag
<1>9. CASE BranchBack(p)
  <2>1. loops[p] <= countMask
    BY <1>5, <1>6, <1>8, <1>9 DEF BranchBack
  <2>2. register' = [register EXCEPT ![p] = @ + 1] /\ loops' = [loops EXCEPT ![p] = @ + 1]
    BY <1>9 DEF BranchBack, checkBump, Inv, Typed
  <2>3. Typed'
    BY <2>2, <1>1, <1>9, <1>6 DEF Inv, Typed, BranchBack, list
  <2>4. Counted'
    BY <2>1, <2>2, <1>5, <1>6 DEF Inv, Counted, Typed
  <2> QED  BY <2>3, <2>4, <1>3, <1>4 DEF Inv
<1>10. CASE Check(p)
  <2>1. loops[p] > countMask
    BY <1>5, <1>6, <1>8, <1>10 DEF Check
  <2>2. register' = register /\ loops' = [loops EXCEPT ![p] = @ + 1]
    BY <1>10 DEF Check
  <2>3. Typed'
    BY <2>2, <1>1, <1>10, <1>6 DEF Inv, Typed, Check, Goto, list, Starting
  <2>4. Counted'
    BY <2>1, <2>2, <1>5, <1>6 DEF Inv, Counted, Typed
  <2> QED  BY <2>3, <2>4, <1>3, <1>4 DEF Inv
<1>11. CASE PushContext(p)
  <2>1. register' = register /\ loops' = loops
    BY <1>11 DEF PushContext
  <2>2. Typed'
    BY <2>1, <1>1, <1>11 DEF Inv, Typed, PushContext, Goto, list, Starting
  <2> QED  BY <2>1, <2>2, <1>3, <1>4 DEF Inv, Counted
<1> QED  BY <1>9, <1>10, <1>11

LEMMA NextInv == Inv /\ [Next]_vars => Inv'
<1> SUFFICES ASSUME Inv, [Next]_vars PROVE Inv'
  OBVIOUS
<1>1. CASE UNCHANGED vars
  BY <1>1 DEF vars, list, Inv, Typed, EveryProcessListed, LinkedToPrevious, NumberedFromHead,
       DifferentNumbers, Registered, Read, NumberAfter, Counted
<1>2. ASSUME NEW p \in Procs, SetNext(p) \/ SetId(p) \/ Retry(p) PROVE Inv'
  BY <1>2, StartStep
<1>3. ASSUME NEW p \in Procs, Exchange(p) PROVE Inv'
  BY <1>3, ExchangeStep
<1>4. ASSUME NEW p \in Procs, BranchBack(p) \/ Check(p) \/ PushContext(p) PROVE Inv'
  BY <1>4, CodeStep
<1> QED  BY <1>1, <1>2, <1>3, <1>4 DEF Next

LEMMA Invariance == Spec => []Inv
<1> QED  BY InitInv, NextInv, PTL DEF Spec

(* What the exact count says of every register. *)
LEMMA RegisterCounts ==
  ASSUME Inv, NEW p \in Procs
  PROVE  /\ register[p] - Address[p] \in 0 .. countOverflowFlag
         /\ needsCheck(register[p]) <=> loops[p] > countMask
         /\ ptr(register[p]) = Address[p]
<1> DEFINE n == IF loops[p] <= countMask THEN loops[p] ELSE countOverflowFlag
<1>1. countMask \in Nat /\ countOverflowFlag = countMask + 1 /\ Address[p] \in Nat /\ loops[p] \in Nat
  BY Constants DEF countOverflowFlag, Inv, Typed
<1>2. n \in 0 .. countOverflowFlag /\ register[p] = Address[p] + n
  BY <1>1 DEF Inv, Counted
<1>3. (needsCheck(register[p]) <=> n = countOverflowFlag) /\ ptr(register[p]) = Address[p]
  BY <1>2, Flag
<1> QED  BY <1>1, <1>2, <1>3

-----------------------------------------------------------------------------
(* Types, and the register is within the counter of its process's address.   *)
THEOREM TypeCorrect == Spec => []TypeOK
<1>1. Inv => TypeOK
  BY RegisterCounts DEF Inv, Typed, TypeOK
<1> QED  BY <1>1, Invariance, PTL

(* Every process that returned from init (process.zig:72-88) is in the list, *)
(* linked to the one with the number before its own, and no two share one.   *)
THEOREM AllListed == Spec => []EveryProcessListed
<1>1. Inv => EveryProcessListed
  BY DEF Inv
<1> QED  BY <1>1, Invariance, PTL

(* Counting loops never changes which process the register points to.        *)
THEOREM PointersKept == Spec => []OwnPointer
<1>1. Inv => OwnPointer
  BY RegisterCounts DEF OwnPointer
<1> QED  BY <1>1, Invariance, PTL

(* The flag is set after exactly countMask + 1 loops (execute.zig:915-926).  *)
THEOREM ChecksInTime == Spec => []SafePointInTime
<1>1. Inv => SafePointInTime
  BY RegisterCounts DEF SafePointInTime, Registered
<1> QED  BY <1>1, Invariance, PTL

(* Types and list together, for any number of processes that enter the list  *)
(* at once and exchanges that fail (process.zig:72-88).                      *)
THEOREM ListWellFormed == Spec => []WellFormed
  BY TypeCorrect, AllListed, PTL DEF WellFormed

=============================================================================

------------------------------- MODULE Process -------------------------------
(***************************************************************************)
(* The processes of the Zig VM (zig/zag/process.zig): how each enters the  *)
(* list of all processes and gets its number, without a lock, and how the  *)
(* code it runs counts its loops in the low bits of the pointer to it.     *)
(*                                                                         *)
(* The pointer is passed as a register from each threaded function to the  *)
(* next (execute.zig).  Every backward branch adds one to it until a flag  *)
(* above the counter is set; then branches go through `check`, the safe    *)
(* point, first.                                                           *)
(*                                                                         *)
(* An operator named after another one with a suffix is that one with a    *)
(* slip in it, for the runs that show a property to notice it.             *)
(***************************************************************************)
EXTENDS Integers, FiniteSets

CONSTANTS
  Procs,
  Null,
  Address,       (* of each process                                         *)
  countMask,     (* the largest count: 31                                   *)
  MaxLoops       (* a bound on the loops a process runs                     *)

countOverflowFlag == countMask + 1
othersFlag == countOverflowFlag * 2
Alignment == othersFlag * 2

(* init asserts the alignment. *)
ASSUME ProcessAssumption ==
  /\ Null \notin Procs
  /\ countMask \in Nat /\ MaxLoops \in Nat
  /\ Address \in [Procs -> Nat]
  /\ \A p \in Procs : Address[p] % Alignment = 0

VARIABLES
  allProcesses,  (* the last process that entered the list                  *)
  next,          (* the field of each process, Null or the one before it    *)
  id,
  register,      (* the process pointer of the code a process runs          *)
  pc,
  loops          (* backward branches taken, as the properties count them   *)

list == <<allProcesses, next, id>>
vars == <<list, register, pc, loops>>

-----------------------------------------------------------------------------
needsCheckOthers(r) == (r \div othersFlag) % 2 # 0

(* One of the two flags is set. *)
needsCheck(r) == (r \div countOverflowFlag) % 4 # 0

ptrWithFlags(r) == r - (r % countOverflowFlag)

ptr(r) == r - (r % Alignment)

checkBump(r) == IF needsCheck(r) THEN r ELSE r + 1

-----------------------------------------------------------------------------
Goto(p, l) == pc' = [pc EXCEPT ![p] = l]

Init ==
  /\ allProcesses = Null
  /\ next = [p \in Procs |-> Null]
  /\ id = [p \in Procs |-> 0]
  /\ register = Address
  /\ pc = [p \in Procs |-> "new"]
  /\ loops = [p \in Procs |-> 0]

(* One iteration of the loop of init: allProcesses is read, ...              *)
SetNext(p) ==
  /\ pc[p] = "new"
  /\ next' = [next EXCEPT ![p] = allProcesses]
  /\ Goto(p, "numbering")
  /\ UNCHANGED <<allProcesses, id, register, loops>>

(* ... read again for the number, ...                                        *)
SetId(p) ==
  /\ pc[p] = "numbering"
  /\ id' = [id EXCEPT ![p] = IF allProcesses = Null THEN 1 ELSE id[allProcesses] + 1]
  /\ Goto(p, "exchange")
  /\ UNCHANGED <<allProcesses, next, register, loops>>

ExchangeUnexpected(p) ==
  /\ pc[p] = "exchange"
  /\ allProcesses' = p
  /\ Goto(p, "running")
  /\ UNCHANGED <<next, id, register, loops>>

(* ... and exchanged, if it is still what was read first.                    *)
Exchange(p) ==
  /\ pc[p] = "exchange"
  /\ allProcesses = next[p]
  /\ allProcesses' = p
  /\ Goto(p, "running")
  /\ UNCHANGED <<next, id, register, loops>>

(* A weak exchange may also fail for no reason. *)
Retry(p) ==
  /\ pc[p] = "exchange"
  /\ Goto(p, "new")
  /\ UNCHANGED <<list, register, loops>>

-----------------------------------------------------------------------------
(* Code: a loop, with a send that needs a context in it or without. *)

BranchBack(p) ==
  /\ pc[p] = "running"
  /\ loops[p] < MaxLoops
  /\ ~needsCheck(register[p])
  /\ register' = [register EXCEPT ![p] = checkBump(@)]
  /\ loops' = [loops EXCEPT ![p] = @ + 1]
  /\ UNCHANGED <<list, pc>>

(* check, before the branch: it jumps to debugFn unless that is null.  No    *)
(* code ever sets debugFn: it is what was in the memory, null or an address. *)
Check(p) ==
  /\ pc[p] = "running"
  /\ loops[p] < MaxLoops
  /\ needsCheck(register[p])
  /\ \/ Goto(p, "running")
     \/ Goto(p, "debugging")
  /\ loops' = [loops EXCEPT ![p] = @ + 1]
  /\ UNCHANGED <<list, register>>

(* The end of Context.push; without a flag the process goes on unchanged.    *)
PushContext(p) ==
  /\ pc[p] = "running"
  /\ needsCheck(register[p])
  /\ Goto(p, "panic")
  /\ UNCHANGED <<list, register, loops>>

Next ==
  \E p \in Procs :
    \/ SetNext(p) \/ SetId(p) \/ Exchange(p) \/ Retry(p)
    \/ BranchBack(p) \/ Check(p) \/ PushContext(p)

Spec == Init /\ [][Next]_vars

-----------------------------------------------------------------------------
Starting == {"new", "numbering", "exchange"}
Registered == {p \in Procs : pc[p] \notin Starting}

TypeOK ==
  /\ allProcesses \in Procs \cup {Null}
  /\ next \in [Procs -> Procs \cup {Null}]
  /\ id \in [Procs -> Nat]
  /\ register \in [Procs -> Nat]
  /\ \A p \in Procs : register[p] - Address[p] \in 0 .. countOverflowFlag
  /\ pc \in [Procs -> Starting \cup {"running", "debugging", "panic"}]
  /\ loops \in [Procs -> 0 .. MaxLoops]

(* A process's number: the first is 1, each next one more than the process   *)
(* it is linked to; all that returned from init are in the list, which the   *)
(* last one heads (process.zig:82-85 reads the head twice and exchanges it). *)
LinkedToPrevious ==
  \A p \in Registered :
    IF next[p] = Null THEN id[p] = 1
    ELSE next[p] \in Registered /\ id[p] = id[next[p]] + 1

NumberedFromHead ==
  IF allProcesses = Null THEN Registered = {}
  ELSE allProcesses \in Registered /\ \A p \in Registered : id[p] <= id[allProcesses]

DifferentNumbers == \A p, q \in Registered : p # q => id[p] # id[q]

EveryProcessListed == LinkedToPrevious /\ NumberedFromHead /\ DifferentNumbers

(* The list and its numbers, 1 to as many as have entered it, together with  *)
(* the types: nobody is lost, nobody's number given twice.                   *)
WellFormed == TypeOK /\ EveryProcessListed

(* Counting never carries into the address: the register is always the       *)
(* process's own (ptr, process.zig:110).                                     *)
OwnPointer == \A p \in Procs : ptr(register[p]) = Address[p]

(* A loop comes to its safe point after countMask + 1 rounds, not before and *)
(* not later (Documentation/Threads.md:14 "periodic points of in-lined loops *)
(* will check for synchronization").                                         *)
SafePointInTime == \A p \in Registered : needsCheck(register[p]) <=> loops[p] > countMask

=============================================================================

------------------------------ MODULE Dispatch ------------------------------
(***************************************************************************)
(* The method dispatch tables of the Zig VM (zig/zag/execute.zig): several *)
(* processes run addMethod concurrently.                                   *)
(*                                                                         *)
(* addMethod indexes `dispatches` with `method.signature.class`, which for *)
(* a tagged Symbol is the constant class Symbol, so every method of every  *)
(* class goes through ONE entry of `dispatches`: the variable `current`.   *)
(* A signature is the pair class/selector; the start slot is computed from *)
(* the selector only, so methods of two classes for one selector collide.  *)
(*                                                                         *)
(* A table is a record in the heap: the prime `hash`, the update state and *)
(* hash+2 slots followed by one `grow` sentinel that no method may occupy. *)
(* It is named by the method whose addMethod allocated it: a call gets to  *)
(* `alloc` once, see README.  Slots are written only under the lock, so a  *)
(* probe and its store are one step; every access to `dispatches` and to a *)
(* `state` is a step of its own.                                           *)
(*                                                                         *)
(* Operators named after another one with a suffix (AddLockNoWait,         *)
(* AcceptsFreeOnly ...) are that one with a slip in it.  No specification  *)
(* uses them; each shows a property that notices the slip.                 *)
(***************************************************************************)
EXTENDS Integers

CONSTANTS
  Procs,        (* the processes that compile and install methods            *)
  Methods,      (* CompiledMethods; each is handed to addMethod at most once *)
  Sigs,         (* class/selector signatures                                 *)
  SigOf,        (* the signature of a method                                 *)
  SelectorHash, (* selectorHash32 of a signature, in 0 .. HashRange-1        *)
  HashRange,    (* 2^32 in the code                                          *)
  MaxWords,     (* largest table request that the heap can serve             *)
  MaxHash,      (* search bound for the prime above a request                *)
  EmptyTable,   (* the static table `empty`                                  *)
  None          (* a null methodPointer, no method                           *)

(* For p below 2^16, which isPrime looks up in a sieve.  Beyond, it searches *)
(* for divisors whose square is less than p, and takes the square of a prime *)
(* for one.                                                                  *)
IsPrime(p) == p > 1 /\ \A d \in 2 .. p - 1 : p % d # 0

SmallestPrimeFrom(n, p) ==
  n <= p /\ IsPrime(p) /\ \A q \in n .. p - 1 : ~IsPrime(q)

(* smallestPrimeAtLeast starts at the first odd number >= w. *)
FirstOdd(w) == 2 * (w \div 2) + 1

smallestPrimeAtLeast(w) ==
  CHOOSE p \in 2 .. MaxHash : SmallestPrimeFrom(FirstOdd(w), p)

ASSUME DispatchAssumption ==
  /\ SigOf \in [Methods -> Sigs]
  /\ HashRange \in Nat \ {0}
  /\ SelectorHash \in [Sigs -> 0 .. HashRange - 1]
  /\ MaxWords \in Nat /\ MaxHash \in Nat
  /\ \A w \in 0 .. MaxWords :
       \E p \in 2 .. MaxHash : SmallestPrimeFrom(FirstOdd(w), p)
  /\ EmptyTable \notin Methods
  /\ None \notin Methods

VARIABLES
  current,    (* dispatches[Symbol]                                        *)
  hash,       (* hash[t]: the prime of table t, 0 for `empty`              *)
  state,      (* state[t]: DispatchState of table t                        *)
  slots,      (* slots[t][i]: methodPointer of element i                   *)
  pc,         (* where each process is in addMethod                        *)
  method,     (* the argument of addMethod                                 *)
  dispatch,   (* the process's copy of dispatches[Symbol]                  *)
  words,      (* the local numMethods of addMethod                         *)
  cursor,     (* the element addMethodsTo copies next                      *)
  added,      (* the result of add, returned after the state is restored   *)
  todo        (* the methods not handed to addMethod yet                   *)

tableVars == <<hash, state, slots>>
vars == <<current, hash, state, slots, pc, method, dispatch, words, cursor,
          added, todo>>

Tables == Methods \cup {EmptyTable}

(* Number of elements before the grow sentinel; `empty` is a sentinel only. *)
nMethods(h) == IF h = 0 THEN 0 ELSE h + 2
Elements(t) == 0 .. nMethods(hash[t]) - 1

(* The elements of a new table, each initialised updateable by alloc. *)
updateableSlots(h) == [i \in 0 .. nMethods(h) - 1 |-> None]

(* The element a method's probe starts at: a multiply and a shift. *)
doHash(h, size) == (h * size) \div HashRange
lookupAddress(t, m) == doHash(SelectorHash[SigOf[m]], hash[t])

AcceptsFreeOnly(t, i, m) == slots[t][i] = None

(* An element add may store m in: updateable, or m's own signature. *)
Accepts(t, i, m) ==
  \/ slots[t][i] = None
  \/ slots[t][i] # None /\ SigOf[slots[t][i]] = SigOf[m]

(* The element add stores m in: none when the probe meets the sentinel. *)
Probe(t, m) ==
  { i \in Elements(t) :
      /\ lookupAddress(t, m) <= i
      /\ Accepts(t, i, m)
      /\ \A j \in Elements(t) :
           lookupAddress(t, m) <= j /\ j < i => ~Accepts(t, j, m) }

NoRoom(t, m) ==
  \A i \in Elements(t) : lookupAddress(t, m) <= i => ~Accepts(t, i, m)

Init ==
  /\ current = EmptyTable
  /\ hash  = [t \in Tables |-> 0]
  /\ state = [t \in Tables |-> "clean"]
  /\ slots = [t \in Tables |-> updateableSlots(0)]
  /\ pc       = [p \in Procs |-> "idle"]
  /\ method   = [p \in Procs |-> None]
  /\ dispatch = [p \in Procs |-> EmptyTable]
  /\ words    = [p \in Procs |-> 3]
  /\ cursor   = [p \in Procs |-> 0]
  /\ added    = [p \in Procs |-> FALSE]
  /\ todo = Methods

Goto(p, l) == pc' = [pc EXCEPT ![p] = l]

-----------------------------------------------------------------------------
(* The first attempt of addMethod: dispatches[index].add(method). *)

(* addMethod is called: it reads the table pointer. *)
AddMethod(p, m) ==
  /\ pc[p] = "idle"
  /\ m \in todo
  /\ todo' = todo \ {m}
  /\ method' = [method EXCEPT ![p] = m]
  /\ dispatch' = [dispatch EXCEPT ![p] = current]
  /\ words' = [words EXCEPT ![p] = 3]
  /\ Goto(p, "lock")
  /\ UNCHANGED <<current, tableVars, cursor, added>>

AddLockNoWait(p) ==
  /\ pc[p] = "lock"
  /\ \/ /\ state[dispatch[p]] # "dead"
        /\ state' = [state EXCEPT ![dispatch[p]] = "beingUpdated"]
        /\ Goto(p, "probe")
     \/ /\ state[dispatch[p]] = "dead"
        /\ Goto(p, "reload")
        /\ UNCHANGED state
  /\ UNCHANGED <<current, hash, slots, method, dispatch, words, cursor, added,
                 todo>>

(* The CAS of lock; a process spins here while the state is beingUpdated. *)
AddLock(p) ==
  /\ pc[p] = "lock"
  /\ \/ /\ state[dispatch[p]] = "clean"
        /\ state' = [state EXCEPT ![dispatch[p]] = "beingUpdated"]
        /\ Goto(p, "probe")
     \/ /\ state[dispatch[p]] = "dead"
        /\ Goto(p, "reload")
        /\ UNCHANGED state
  /\ UNCHANGED <<current, hash, slots, method, dispatch, words, cursor, added,
                 todo>>

(* The probe of add, with the store when an element accepts the method. *)
AddStore(p) ==
  /\ pc[p] = "probe"
  /\ \/ \E i \in Probe(dispatch[p], method[p]) :
          /\ slots' = [slots EXCEPT ![dispatch[p]][i] = method[p]]
          /\ added' = [added EXCEPT ![p] = TRUE]
     \/ /\ NoRoom(dispatch[p], method[p])
        /\ added' = [added EXCEPT ![p] = FALSE]
        /\ UNCHANGED slots
  /\ Goto(p, "unlock")
  /\ UNCHANGED <<current, hash, state, method, dispatch, words, cursor, todo>>

AddUnlockIfAdded(p) ==
  /\ pc[p] = "unlock"
  /\ state' = IF added[p] THEN [state EXCEPT ![dispatch[p]] = "clean"] ELSE state
  /\ Goto(p, IF added[p] THEN "idle" ELSE "reload")
  /\ UNCHANGED <<current, hash, slots, method, dispatch, words, cursor, added,
                 todo>>

(* The deferred store of .clean, then the return of add. *)
AddUnlock(p) ==
  /\ pc[p] = "unlock"
  /\ state' = [state EXCEPT ![dispatch[p]] = "clean"]
  /\ Goto(p, IF added[p] THEN "idle" ELSE "reload")
  /\ UNCHANGED <<current, hash, slots, method, dispatch, words, cursor, added,
                 todo>>

-----------------------------------------------------------------------------
(* The loop of addMethod that replaces the table by a larger one. *)

Reload(p) ==
  /\ pc[p] = "reload"
  /\ dispatch' = [dispatch EXCEPT ![p] = current]
  /\ Goto(p, "growLock")
  /\ UNCHANGED <<current, tableVars, method, words, cursor, added, todo>>

(* A table that is dead by now is read again. *)
GrowRetry(p) ==
  /\ pc[p] = "growLock"
  /\ state[dispatch[p]] = "dead"
  /\ Goto(p, "reload")
  /\ UNCHANGED <<current, tableVars, method, dispatch, words, cursor, added,
                 todo>>

loadFactor == 70

requestNoGrowth(p) == (words[p] * 100) \div loadFactor

(* The size addMethod asks for: more elements than the table has, at 70%.    *)
request(p) ==
  LET larger == IF words[p] < hash[dispatch[p]] + 1
                THEN hash[dispatch[p]] + 1 ELSE words[p]
  IN (larger * 100) \div loadFactor

(* The table is locked and the new one allocated, named after the method. *)
GrowLock(p) ==
  LET prime == smallestPrimeAtLeast(request(p))
  IN
  /\ pc[p] = "growLock"
  /\ state[dispatch[p]] = "clean"
  /\ request(p) <= MaxWords
  /\ words' = [words EXCEPT ![p] = request(p)]
  /\ state' = [state EXCEPT ![dispatch[p]] = "beingUpdated",
                            ![method[p]] = "clean"]
  /\ hash'  = [hash EXCEPT ![method[p]] = prime]
  /\ slots' = [slots EXCEPT ![method[p]] = updateableSlots(prime)]
  /\ cursor' = [cursor EXCEPT ![p] = 0]
  /\ Goto(p, "copy")
  /\ UNCHANGED <<current, method, dispatch, added, todo>>

(* newDispatch.add(m) inside addMethodsTo.  The new table is private, so   *)
(* its lock and unlock are not visible.  When add fails addMethodsTo       *)
(* returns false and the loop starts again, with the old table still       *)
(* beingUpdated.                                                           *)
AddToNew(p, m, success) ==
  \/ /\ \E i \in Probe(method[p], m) :
          slots' = [slots EXCEPT ![method[p]][i] = m]
     /\ success
  \/ /\ NoRoom(method[p], m)
     /\ Goto(p, "reload")
     /\ UNCHANGED <<slots, cursor>>

(* One iteration of the copying loop of addMethodsTo. *)
CopyElement(p) ==
  LET next == cursor' = [cursor EXCEPT ![p] = @ + 1] /\ UNCHANGED pc
  IN
  /\ pc[p] = "copy"
  /\ cursor[p] \in Elements(dispatch[p])
  /\ IF slots[dispatch[p]][cursor[p]] = None
     THEN next /\ UNCHANGED slots
     ELSE AddToNew(p, slots[dispatch[p]][cursor[p]], next)
  /\ UNCHANGED <<current, hash, state, method, dispatch, words, added, todo>>

(* The sentinel is reached: addMethodsTo adds the new method. *)
CopyDone(p) ==
  /\ pc[p] = "copy"
  /\ cursor[p] \notin Elements(dispatch[p])
  /\ AddToNew(p, method[p], Goto(p, "publish") /\ UNCHANGED cursor)
  /\ UNCHANGED <<current, hash, state, method, dispatch, words, added, todo>>

(* dispatches[index] = newDispatch *)
Publish(p) ==
  /\ pc[p] = "publish"
  /\ current' = method[p]
  /\ Goto(p, "kill")
  /\ UNCHANGED <<tableVars, method, dispatch, words, cursor, added, todo>>

KillUnlocks(p) ==
  /\ pc[p] = "kill"
  /\ state' = [state EXCEPT ![dispatch[p]] = "clean"]
  /\ Goto(p, "idle")
  /\ UNCHANGED <<current, hash, slots, method, dispatch, words, cursor, added,
                 todo>>

(* dispatch.state = .dead, then the return of addMethod *)
Kill(p) ==
  /\ pc[p] = "kill"
  /\ state' = [state EXCEPT ![dispatch[p]] = "dead"]
  /\ Goto(p, "idle")
  /\ UNCHANGED <<current, hash, slots, method, dispatch, words, cursor, added,
                 todo>>

-----------------------------------------------------------------------------
Step(p) ==
  \/ AddLock(p) \/ AddStore(p) \/ AddUnlock(p)
  \/ Reload(p) \/ GrowRetry(p) \/ GrowLock(p)
  \/ CopyElement(p) \/ CopyDone(p) \/ Publish(p) \/ Kill(p)

Next ==
  \E p \in Procs : (\E m \in todo : AddMethod(p, m)) \/ Step(p)

Spec == Init /\ [][Next]_vars

(* A process that is inside addMethod keeps running; nothing makes another *)
(* method be compiled.                                                     *)
FairSpec == Spec /\ \A p \in Procs : WF_vars(Step(p))
-----------------------------------------------------------------------------
Labels == {"idle", "lock", "probe", "unlock", "reload", "growLock", "copy",
           "publish", "kill"}

(* Type invariant: the table pointer, the tables and the locals of          *)
(* addMethod have the types their declarations in execute.zig give them.    *)
TypeOK ==
  /\ current \in Tables
  /\ hash \in [Tables -> Nat]
  /\ state \in [Tables -> {"clean", "beingUpdated", "dead"}]
  /\ slots = [t \in Tables |-> slots[t]]
  /\ \A t \in Tables : slots[t] \in [Elements(t) -> Methods \cup {None}]
  /\ pc \in [Procs -> Labels]
  /\ method \in [Procs -> Methods \cup {None}]
  /\ \A p \in Procs : pc[p] # "idle" => method[p] \in Methods
  /\ dispatch \in [Procs -> Tables]
  /\ words \in [Procs -> Nat]
  /\ cursor \in [Procs -> Nat]
  /\ added \in [Procs -> BOOLEAN]
  /\ todo \in SUBSET Methods

Updating(p) == pc[p] \in {"probe", "unlock", "copy", "publish", "kill"}

(* The state byte is a lock: two processes never update one table at a time, *)
(* the table a process writes or copies is beingUpdated for the whole time,  *)
(* and it is the table sends use, up to the step that replaces it.           *)
LockHeldByOne ==
  /\ \A p, q \in Procs :
       Updating(p) /\ Updating(q) /\ dispatch[p] = dispatch[q] => p = q
  /\ \A p \in Procs : Updating(p) =>
       /\ state[dispatch[p]] = "beingUpdated"
       /\ pc[p] # "kill" => dispatch[p] = current

(* The table in `dispatches` is never dead: a process that read a dead table *)
(* and looks again finds a live one (GrowRetry does not loop on one table).  *)
CurrentIsLive == state[current] # "dead"

(* The states of the tables, whoever locks, publishes and kills them         *)
(* (execute.zig:1572-1588): types, one lock holder, a live current table.    *)
WellFormed == TypeOK /\ LockHeldByOne /\ CurrentIsLive

(* The elements verifyMethod steps through from the start of a signature's   *)
(* probe until it meets the signature; empty when it meets a null method.    *)
Found(t, s) ==
  LET start == doHash(SelectorHash[s], hash[t])
  IN { i \in Elements(t) :
         /\ start <= i
         /\ slots[t][i] # None /\ SigOf[slots[t][i]] = s
         /\ \A j \in Elements(t) :
              start <= j /\ j < i =>
                slots[t][j] # None /\ SigOf[slots[t][j]] # s }

(* Open addressing stays sound in every table, while it is filled as well:   *)
(* each stored method is met by the probe for its signature, before any null *)
(* element and before any other method of that signature.  So no signature   *)
(* is in a table twice and a replacement replaces what sends find.           *)
ProbeChains ==
  \A t \in Tables : \A i \in Elements(t) :
    slots[t][i] # None => i \in Found(t, SigOf[slots[t][i]])

-----------------------------------------------------------------------------
(* The abstract dictionary: what a send finds in the current table. *)
Lookup(s) ==
  IF Found(current, s) = {} THEN None
  ELSE slots[current][CHOOSE i \in Found(current, s) : TRUE]

Adding(p, m) == pc[p] # "idle" /\ method[p] = m

Phase(m) ==
  IF m \in todo THEN "new"
  ELSE IF ~\E p \in Procs : Adding(p, m) THEN "returned"
  ELSE IF \E p \in Procs : Adding(p, m) /\ ( \/ pc[p] = "unlock" /\ added[p]
                                            \/ pc[p] = "kill" )
  THEN "installed" ELSE "called"

Dictionary == INSTANCE MethodDictionary
                WITH dict  <- [s \in Sigs |-> Lookup(s)],
                     phase <- [m \in Methods |-> Phase(m)]

(* The concurrent tables implement the dictionary: each addMethod takes      *)
(* effect once, before it returns, and neither a concurrent addMethod nor    *)
(* the growth of a table loses or resurrects a method.                       *)
ImplementsDictionary == Dictionary!Spec

(* A replacement table is larger than the one it replaces, so that the loop  *)
(* of addMethod works towards a table with room.                             *)
TablesGrow == [][current' # current => hash'[current'] > hash[current]]_vars

(* Every addMethod returns: no process spins for ever on the state byte.     *)
AddMethodReturns ==
  \A p \in Procs : pc[p] # "idle" ~> pc[p] = "idle"
=============================================================================
